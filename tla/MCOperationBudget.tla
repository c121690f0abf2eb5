-------------------------- MODULE MCOperationBudget --------------------------
(* Instances of OperationBudget for TLC: operations of three buckets under *)
(* requests below, at and above the configured limits.                     *)
EXTENDS OperationBudget, TLC

MCBucketOf ==
  [o \in Operations |-> CASE o \in {"i1", "i2", "i3"} -> "normal"
                          [] o = "r1" -> "repair"
                          [] OTHER    -> "tool"]

Hard(n, r, c, t) == "normal" :> n @@ "repair" :> r @@ "closing" :> c @@ "tool" :> t
MCLimits   == [hard |-> Hard(2, 0, 1, 2), soft |-> Hard(2, 0, 0, 1)]
MCPolicies == {[hard |-> Hard(n, 1, 1, n), soft |-> Hard(s, 0, 0, s)] : n \in {1, 3}, s \in {0, 3}}
=============================================================================
