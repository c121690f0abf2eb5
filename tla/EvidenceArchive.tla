--------------------------- MODULE EvidenceArchive ---------------------------
(***************************************************************************)
(* What the log of a chat execution proves (execution.service.ts): the     *)
(* artifacts it refers to, the answer that a runtime puts together from a  *)
(* template when its budget ends or its tools repeat, and the bundle that  *)
(* is exported for evaluation.                                             *)
(*                                                                         *)
(* Batches and numbering of events are EventLog; here an event arrives     *)
(* alone.  One attempt, loop and grant; of a tool call the log tells       *)
(* whether it started and how it finished; a text and its hash are one     *)
(* value.  The runtime is outside the repository: what it reports arrives  *)
(* in order, but its answer and its artifacts earlier or later than that.  *)
(***************************************************************************)
EXTENDS Naturals, Sequences, FiniteSets

CONSTANTS
  Ops,           (* tool calls of the loop                                  *)
  Ids, Texts,    (* artifacts                                               *)
  Reply,         (* the text of the answer                                  *)
  Scripts,       (* what the runtime may do: the events it reports, and its *)
                 (* answer [source, trigger, ops]                           *)
  MaxExports, MaxCrashes,                   (* bounds                       *)
  Null

(* "unknown": not known, only dispatched, or waiting for a confirmation.    *)
Outcomes == {"succeeded", "failed", "unknown"}
Triggers == {"closing_unavailable", "closing_output_empty", "exact_tool_repeat_persisted"}

Manifests == [id : Ids, text : Texts, body : BOOLEAN]
Answer    == [source : {"template", "loop", "full"}, trigger : Triggers, ops : Seq(Ops)]
Report    ==
  [kind : {"start"}, op : Ops, what : {Null}] \cup [kind : {"finish"}, op : Ops, what : Outcomes]
  \cup [kind : {"closing", "empty", "reply"}, op : {Null}, what : {Null}]
  \cup [kind : {"final"}, op : {Null}, what : Ids]
  \cup [kind : {"ended"}, op : {Null}, what : {"completed", "failed"}]

ArchiveAssumption ==
  /\ Reply \in Texts /\ MaxExports \in Nat /\ MaxCrashes \in Nat
  /\ Scripts \subseteq [events : Seq(Report), answer : Answer]
  /\ Null \notin Answer \cup Manifests \cup Ids

VARIABLES
  status, missing,   (* the row: status and missing_evidence                *)
  log,               (* execution_events, in order                          *)
  artifacts,         (* execution_artifacts, by id                          *)
  script,            (* what the runtime still has to report, and answers   *)
  answer,            (* the result the runtime left in the row              *)
  pc,                (* of the processor                                    *)
  export,            (* of exportBundle                                     *)
  used               (* exports and crashes so far                          *)

vars == <<status, missing, log, artifacts, script, answer, pc, export, used>>

Event(kind, op, what) == [kind |-> kind, op |-> op, what |-> what]
Idle == [at |-> "no", row |-> {}, events |-> <<>>, stored |-> <<>>]

Init ==
  /\ status = "running" /\ missing = {} /\ log = <<>>
  /\ artifacts = [i \in Ids |-> Null] /\ script \in Scripts /\ answer = Null /\ pc = "idle"
  /\ export = Idle /\ used = [exports |-> 0, crashes |-> 0]

Logged(l, kind, op) == {i \in DOMAIN l : l[i].kind = kind /\ l[i].op = op}
Terminal == status \in {"completed", "failed"}
-----------------------------------------------------------------------------
(* validateArtifact and rejectSensitiveArtifactBody are about one manifest. *)
(* A batch is stored whole or not at all; what is known is a duplicate.    *)
Conflict(m) == artifacts[m.id] # Null /\ artifacts[m.id].text # m.text

AcceptArtifacts(batch) ==
  /\ \A m \in batch : ~Conflict(m)
  /\ LET new == {m \in batch : artifacts[m.id] = Null} IN
     /\ artifacts' = [i \in Ids |->
          IF \E m \in new : m.id = i THEN CHOOSE m \in new : m.id = i ELSE artifacts[i]]
     /\ missing' = missing \cup {m.id : m \in {n \in new : ~n.body}}
  /\ UNCHANGED <<status, log, answer, pc, export, script, used>>

(* acceptEvents, with the checks of an event's references and operation.   *)
Allowed(e) ==
  CASE e.kind \in {"start", "closing"} -> Logged(log, e.kind, e.op) = {}
    [] e.kind = "finish" -> Logged(log, "start", e.op) # {} /\ Logged(log, "finish", e.op) = {}
    [] e.kind = "empty"  -> Logged(log, "closing", e.op) # {} /\ Logged(log, "empty", e.op) = {}
    [] e.kind = "final"  -> artifacts[e.what] # Null
    [] OTHER -> TRUE

AcceptEvent ==
  /\ script.events # <<>> /\ ~Terminal
  /\ LET e == Head(script.events) IN
     /\ Allowed(e) /\ log' = Append(log, e)
     /\ status' = IF e.kind = "ended" THEN e.what ELSE status
  /\ script' = [script EXCEPT !.events = Tail(@)]
  /\ UNCHANGED <<missing, artifacts, answer, pc, export, used>>

(* reserveOperationBudget: a denied closing call, a loop that terminates.  *)
Decide(kind) ==
  /\ status = "running" /\ Logged(log, kind, Null) = {}
  /\ log' = Append(log, Event(kind, Null, Null))
  /\ UNCHANGED <<status, missing, artifacts, script, answer, pc, export, used>>
-----------------------------------------------------------------------------
(* The four parts of assertDeterministicPartial, over a log and artifacts. *)
FinalMessage(l, stored) ==
  LET final == {i \in DOMAIN l : l[i].kind = "final"} IN
  /\ Cardinality(final) = 1
  /\ \A i \in final : /\ l[i].what \in DOMAIN stored /\ stored[l[i].what] # Null
                      /\ stored[l[i].what].body /\ stored[l[i].what].text = Reply

FinishOf(l, op) == CHOOSE i \in Logged(l, "finish", op) : TRUE

CompletedOps(l, ops) ==
  /\ \A k \in DOMAIN ops : /\ Logged(l, "start", ops[k]) # {}
                           /\ \E i \in Logged(l, "finish", ops[k]) : l[i].what = "succeeded"
  /\ \A j, k \in DOMAIN ops : j < k => FinishOf(l, ops[j]) < FinishOf(l, ops[k])

LoopSettled(l) ==
  \A op \in Ops : Logged(l, "start", op) # {} =>
    \E i \in Logged(l, "finish", op) : l[i].what # "unknown"

TriggerLogged(l, trigger) ==
  CASE trigger = "closing_unavailable"         -> Logged(l, "closing_denied", Null) # {}
    [] trigger = "closing_output_empty"        -> Logged(l, "empty", Null) # {}
    [] trigger = "exact_tool_repeat_persisted" -> Logged(l, "terminate", Null) # {}

(* assertPartialShape                                                      *)
Shaped(x) == x.ops # <<>> /\ \A j, k \in DOMAIN x.ops : x.ops[j] = x.ops[k] => j = k

Proved(x, l, stored) ==
  Shaped(x) /\ FinalMessage(l, stored) /\ CompletedOps(l, x.ops) /\ LoopSettled(l)
  /\ TriggerLogged(l, x.trigger)

(* assertLoopDetectedCompletion: of a failure, the signal alone.           *)
Asserted(x) ==
  CASE x.source = "template" -> Proved(x, log, artifacts)
    [] x.source = "loop"     -> TriggerLogged(log, "exact_tool_repeat_persisted")
    [] OTHER                 -> TRUE

(* The runtime leaves its answer in the row.                               *)
Answered ==
  /\ answer = Null /\ answer' = script.answer /\ pc' = "answered"
  /\ UNCHANGED <<status, missing, log, artifacts, script, export, used>>

(* AssistantChatProcessor: a template is validated before the reply is     *)
(* recorded.                                                               *)
Validate ==
  /\ pc = "answered"
  /\ pc' = IF answer.source = "template" /\ ~Asserted(answer) THEN "refused" ELSE "validated"
  /\ UNCHANGED <<status, missing, log, artifacts, script, answer, export, used>>

(* finalizeExecution and completeExecution: asserted again under the lock  *)
(* of the row; the reply becomes a message unless the log has one.         *)
Ending(x) == Event("ended", IF x.source = "template" THEN x ELSE Null,
                   IF x.source = "loop" THEN "failed" ELSE "completed")
HasFinal  == \E i \in DOMAIN log : log[i].kind \in {"final", "reply"}
Adds      == IF HasFinal \/ answer.source = "loop" THEN <<>> ELSE <<Event("reply", Null, Null)>>

(* Faulty: what was validated is completed.                                *)
CompleteValidated ==
  /\ pc = "validated" /\ pc' = "done"
  /\ IF Terminal THEN UNCHANGED <<status, log>>
     ELSE status' = Ending(answer).what /\ log' = log \o Adds \o <<Ending(answer)>>
  /\ UNCHANGED <<missing, artifacts, script, answer, export, used>>

Complete ==
  /\ pc = "validated"
  /\ IF ~Asserted(answer) THEN pc' = "refused" /\ UNCHANGED <<status, missing, log>>
     ELSE /\ pc' = "done"
          /\ missing' = IF Terminal /\ ~HasFinal /\ answer.source # "loop"
                        THEN missing \cup {"final_message"} ELSE missing
          /\ IF Terminal THEN UNCHANGED <<status, log>>
             ELSE status' = Ending(answer).what /\ log' = log \o Adds \o <<Ending(answer)>>
  /\ UNCHANGED <<artifacts, script, answer, export, used>>

(* A processor that throws fails the execution.                            *)
Refuse ==
  /\ pc = "refused" /\ pc' = "done"
  /\ IF status = "failed" THEN UNCHANGED <<status, log>>
     ELSE status' = "failed" /\ log' = Append(log, Event("ended", Null, "failed"))
  /\ UNCHANGED <<missing, artifacts, script, answer, export, used>>

(* The backend stops after it validated; the row is processed again.       *)
Crash ==
  /\ pc = "validated" /\ used.crashes < MaxCrashes
  /\ used' = [used EXCEPT !.crashes = @ + 1] /\ pc' = "answered"
  /\ UNCHANGED <<status, missing, log, artifacts, script, answer, export>>
-----------------------------------------------------------------------------
(* exportBundle reads the row, then the events, then the artifacts.        *)
ExportRow ==
  /\ export.at \in {"no", "done"} /\ used.exports < MaxExports
  /\ used' = [used EXCEPT !.exports = @ + 1]
  /\ export' = [Idle EXCEPT !.at = "events", !.row = missing]
  /\ UNCHANGED <<status, missing, log, artifacts, script, answer, pc>>

ExportEvents ==
  /\ export.at = "events" /\ export' = [export EXCEPT !.at = "artifacts", !.events = log]
  /\ UNCHANGED <<status, missing, log, artifacts, script, answer, pc, used>>

(* deriveBundleMissingEvidence                                             *)
Unfinished(l) == {op \in Ops : Logged(l, "start", op) # {} /\ Logged(l, "finish", op) = {}}
Bodiless(s)   == {i \in DOMAIN s : s[i] # Null /\ ~s[i].body}

(* Faulty: what was read with the row is exported.                         *)
ExportDeclared ==
  /\ export.at = "artifacts"
  /\ export' = [export EXCEPT !.at = "done", !.stored = artifacts]
  /\ UNCHANGED <<status, missing, log, artifacts, script, answer, pc, used>>

ExportArtifacts ==
  /\ export.at = "artifacts"
  /\ export' = [export EXCEPT !.at = "done", !.stored = artifacts,
                              !.row = @ \cup Unfinished(export.events) \cup Bodiless(artifacts)]
  /\ UNCHANGED <<status, missing, log, artifacts, script, answer, pc, used>>
-----------------------------------------------------------------------------
Next ==
  \/ \E m, n \in Manifests : (m.id = n.id => m = n) /\ AcceptArtifacts({m, n})
  \/ AcceptEvent
  \/ \E k \in {"closing_denied", "terminate"} : Decide(k)
  \/ Answered \/ Validate \/ Complete \/ Refuse \/ Crash
  \/ ExportRow \/ ExportEvents \/ ExportArtifacts

Spec == Init /\ [][Next]_vars
-----------------------------------------------------------------------------
(* The execution, its artifacts and the runtime's answer keep their types. *)
TypeOK ==
  /\ status \in {"running", "completed", "failed"} /\ missing \subseteq Ids \cup {"final_message"}
  /\ \A i \in Ids : artifacts[i] # Null => artifacts[i] \in Manifests
  /\ answer \in {script.answer, Null}
  /\ pc \in {"idle", "answered", "validated", "refused", "done"}

(* The ends that name the answer of a template.                            *)
Partials(l) == {i \in DOMAIN l : l[i].kind = "ended" /\ l[i].op # Null}

(* An execution that ended with the answer of a template can prove it, for *)
(* ever: its reply, its tool calls in order, no tool call of the loop left *)
(* open, and the reason why the loop ended.  A late report of the runtime  *)
(* (validated without the lock, then again with it) does not get between.  *)
PartialIsProved ==
  \A i \in Partials(log) : Proved(log[i].op, log, artifacts)

(* A bundle is read in three steps while events and artifacts arrive, and  *)
(* still holds the artifact of each message in it, names the bodies and    *)
(* finishes it lacks, and proves a template answer from what it holds.     *)
BundleIsClosed ==
  export.at = "done" =>
    /\ \A i \in DOMAIN export.events :
         export.events[i].kind = "final" => export.stored[export.events[i].what] # Null
    /\ Unfinished(export.events) \cup Bodiless(export.stored) \subseteq export.row
    /\ \A i \in Partials(export.events) :
         Proved(export.events[i].op, export.events, export.stored)
=============================================================================
