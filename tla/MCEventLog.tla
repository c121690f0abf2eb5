----------------------------- MODULE MCEventLog -----------------------------
(* Instances of EventLog for TLC: the reports of two workers on a root and *)
(* a child, with one operation that both may report.                       *)
EXTENDS EventLog, TLC

CONSTANTS root, child

Op(kind, e)        == [kind |-> kind, exec |-> e, op |-> "o", from |-> "absent", to |-> "absent"]
State(e, from, to) == [kind |-> "state", exec |-> e, op |-> Null, from |-> from, to |-> to]
Reply              == [kind |-> "reply", exec |-> root, op |-> Null,
                       from |-> "absent", to |-> "absent"]

MCScripts ==
  { <<Op("started", root), State(child, "running", "completed")>>,
    <<Op("finished", root), State(root, "running", "completed"), Reply>> }

Symmetry == Permutations(Workers)
=============================================================================
