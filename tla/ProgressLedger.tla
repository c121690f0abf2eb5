--------------------------- MODULE ProgressLedger ---------------------------
(***************************************************************************)
(* The evidence log of one chat execution as the source of its budget and  *)
(* of its loop guard.  Every transaction projects the ledger from the      *)
(* events (projectExecutionProgress), decides on it, appends events and    *)
(* stores the new projection.  The exact tool repeat guard warns about a   *)
(* repeated tool call, blocks it once the warning was applied to an        *)
(* inference, and terminates once the blocked result was applied too.      *)
(* Checked to implement OperationBudget.                                   *)
(*                                                                         *)
(* The worker is outside the repository: it runs one operation at a time,  *)
(* retries a call whose reply was lost and echoes the warnings that the    *)
(* last reply told it to apply.                                            *)
(***************************************************************************)
EXTENDS Integers, SequencesExt, FiniteSets

CONSTANTS
  Operations,   (* records [bucket, print, n]: print stands for name and    *)
                (* operationFingerprint, n numbers the calls                *)
  Policies, Limits, NoGrant,   (* as in OperationBudget                     *)
  GuardLevel,   (* 0 guard off, 1 warns, 2 also blocks, 3 also terminates   *)
  Batched,      (* tool calls that are one of several in their batch        *)
  Outputs,      (* the content hashes of the outputs each print may have     *)
  MaxAttempts,  (* bound: claims of the execution                           *)
  NoOp          (* no operation                                             *)

VARIABLES
  attempt, active,   (* as in OperationBudget                               *)
  log,        (* execution_events of the root, by sequence                  *)
  ledger,     (* progress_ledger: the projection of log                     *)
  current,    (* the operation the worker is busy with, or NoOp             *)
  step,       (* of the worker: "idle", "granted" or, with the current      *)
              (* operation, "reserving", "reserved" or "started"            *)
  told,       (* the warnings due according to the last reply it received   *)
  refused     (* history: a start with the warnings it was told was refused *)

worker == <<current, step, told>>
events == <<log, ledger>>
vars   == <<attempt, active, events, worker, refused>>

Buckets  == {"normal", "repair", "closing", "tool"}
BucketOf == [o \in Operations |-> o.bucket]
Policy   == [hard : [Buckets -> Nat], soft : [Buckets -> Nat]]
Hashes   == UNION {Outputs[p] : p \in DOMAIN Outputs}

ASSUME LedgerAssumption ==
  /\ IsFiniteSet(Operations) /\ \A o \in Operations : o.bucket \in Buckets
  /\ Policies \subseteq Policy /\ Limits \in Policy /\ NoGrant \notin Policy
  /\ NoOp \notin Operations /\ MaxAttempts \in Nat
-----------------------------------------------------------------------------
(* projectExecutionProgress: a fold of the events.                         *)
NoGuard == [detections |-> 0, issued |-> FALSE, warningPending |-> FALSE,
            warningApplied |-> NoOp, blocks |-> 0, blockPending |-> FALSE,
            lastBlocked |-> NoOp, blockApplied |-> NoOp, terminations |-> 0]

EmptyLedger ==
  [grant |-> NoGrant,
   status |-> [o \in Operations |-> "none"], by |-> [o \in Operations |-> 0],
   reserved |-> [b \in Buckets |-> 0], consumed |-> [b \in Buckets |-> 0],
   available |-> [b \in Buckets |-> 0], softReached |-> [b \in Buckets |-> FALSE],
   warningPending |-> FALSE, guard |-> NoGuard,
   operations |-> [k \in {"inference", "tool_call"} |->
                     [started |-> 0, finished |-> 0, unfinished |-> 0, failed |-> 0]]]

(* Faulty: reservations do not count until they are consumed.              *)
RecountConsumed(l, b, r, c) ==
  LET left == l.grant.hard[b] - c IN
  [l EXCEPT !.reserved[b] = r, !.consumed[b] = c, !.available[b] = IF left < 0 THEN 0 ELSE left]

Recount(l, b, r, c) ==
  LET left == l.grant.hard[b] - r - c IN
  [l EXCEPT !.reserved[b] = r, !.consumed[b] = c, !.available[b] = IF left < 0 THEN 0 ELSE left]

(* applyBudgetEvent, one operator per kind of progress.reported event.     *)
OnReservation(l, e) ==
  LET seen == [l EXCEPT !.status[e.op] = IF e.granted THEN "reserved" ELSE "denied",
                        !.by[e.op] = e.attempt]
      b == e.op.bucket
  IN  IF l.status[e.op] # "none" THEN l
      ELSE IF e.granted THEN Recount(seen, b, l.reserved[b] + 1, l.consumed[b]) ELSE seen

OnSoftLimit(l, e) ==
  LET b == e.op.bucket IN
  IF l.softReached[b] THEN l
  ELSE [l EXCEPT !.softReached[b] = TRUE, !.warningPending = @ \/ b = "normal"]

OnGuard(l, e) ==
  LET g == l.guard IN
  [l EXCEPT !.guard =
     IF e.action = "warn"
     THEN IF g.issued THEN g
          ELSE [g EXCEPT !.detections = 1, !.issued = TRUE, !.warningPending = TRUE]
     ELSE IF g.warningApplied = NoOp THEN g
     ELSE IF e.action = "block"
     THEN [g EXCEPT !.detections = @ + 1, !.blocks = @ + 1, !.blockPending = TRUE,
                    !.lastBlocked = e.op]
     ELSE [g EXCEPT !.detections = @ + 1,
                    !.terminations = IF g.blockApplied = NoOp THEN @ ELSE @ + 1]]

(* consumeBudgetReservation: operation.started.                            *)
OnStarted(l, e) ==
  LET b == e.op.bucket
      g == l.guard
      used == Recount([l EXCEPT !.status[e.op] = "consumed"], b,
                      IF l.reserved[b] = 0 THEN 0 ELSE l.reserved[b] - 1, l.consumed[b] + 1)
      applies == b = "normal" /\ e.guardWarned /\ g.warningPending
      shows   == b = "normal" /\ e.blockShown /\ g.blockPending
  IN  IF l.status[e.op] # "reserved" THEN l
      ELSE [used EXCEPT
              !.warningPending = @ /\ ~(b = "normal" /\ e.warned),
              !.guard.warningPending = @ /\ ~applies,
              !.guard.warningApplied = IF applies THEN e.op ELSE @,
              !.guard.blockPending = @ /\ ~shows,
              !.guard.blockApplied = IF shows THEN e.op ELSE @]

ApplyBudgetEvent(l, e) ==
  CASE e.kind = "grant"       -> IF l.grant # NoGrant THEN l
                                 ELSE [l EXCEPT !.grant = e.policy, !.available = e.policy.hard]
    [] e.kind = "reservation" -> OnReservation(l, e)
    [] e.kind = "soft_limit"  -> OnSoftLimit(l, e)
    [] e.kind = "guard"       -> OnGuard(l, e)
    [] OTHER                  -> l

(* recordStarted and recordFinished, of the counters of its kind.          *)
RecordStarted(c) == [c EXCEPT !.started = @ + 1, !.unfinished = @ + 1]
RecordFinished(c, failed) ==
  [c EXCEPT !.finished = @ + 1, !.unfinished = IF @ = 0 THEN 0 ELSE @ - 1,
            !.failed = IF failed THEN @ + 1 ELSE @]

(* The body of the loop over the events: an end whose start is not in the  *)
(* log, which a consumed reservation tells, does not count.                *)
ApplyEvent(l, e) ==
  LET kind == IF e.op.bucket = "tool" THEN "tool_call" ELSE "inference" IN
  CASE e.kind = "started"  ->
         [OnStarted(l, e) EXCEPT !.operations[kind] = RecordStarted(@)]
    [] e.kind = "finished" ->
         IF l.status[e.op] # "consumed" THEN l
         ELSE [l EXCEPT !.operations[kind] = RecordFinished(@, ~e.ok)]
    [] OTHER               -> ApplyBudgetEvent(l, e)

(* appendBackendEvent and refreshProgressProjection: the fold goes on from *)
(* the projection of the earlier events; a transaction appends up to three.*)
Then(l, new, n) == IF n \in DOMAIN new THEN ApplyEvent(l, new[n]) ELSE l

AppendEvents(new) ==
  /\ log' = log \o new
  /\ ledger' = Then(Then(Then(ledger, new, 1), new, 2), new, 3)

(* What the budget makes of a log: the signals of its soft limits and the  *)
(* operations that started with the warning applied.                       *)
Crossed(l, b)   == {i \in 1..Len(l) : l[i].kind = "soft_limit" /\ l[i].op.bucket = b}
CautionOf(l, o) == {i \in 1..Len(l) : l[i].kind = "started" /\ l[i].op = o /\ l[i].warned}
Signals   == [b \in Buckets |-> Cardinality(Crossed(log, b))]
Cautioned == {o \in Operations : CautionOf(log, o) # {}}

Budget == INSTANCE OperationBudget WITH
  grant          <- ledger.grant,
  decision       <- ledger.status,
  reservedBy     <- ledger.by,
  reserved       <- ledger.reserved,
  consumed       <- ledger.consumed,
  available      <- ledger.available,
  softReached    <- ledger.softReached,
  warningPending <- ledger.warningPending,
  signals        <- Signals,
  warned         <- Cautioned
-----------------------------------------------------------------------------
(* exact-tool-repeat-guard.ts: searches of the log for a request of the    *)
(* current attempt to run tool call o.  Positions in the log, 0 for none.  *)
ToolStart(e) == e.kind = "started" /\ e.op.bucket = "tool"
LastToolStart == SelectLastInSeq(log, ToolStart)
Succeeded(o)  == SelectInSeq(log, LAMBDA e : e.kind = "finished" /\ e.op = o /\ e.ok)
OutputOf(o)   == SelectInSeq(log, LAMBDA e : e.kind = "source" /\ e.op = o)
Signal(a)     == SelectInSeq(log, LAMBDA e : e.kind = "guard" /\ e.action = a)
BlockOf(o)    == SelectInSeq(log, LAMBDA e : e.kind = "guard" /\ e.action = "block" /\ e.op = o)
AppliedBy(o)  == SelectInSeq(log, LAMBDA e : e.kind = "started" /\ e.op = o /\ e.attempt = attempt)

(* repeatsSameTool, of the event at position i.                            *)
SameTool(i, o) == i # 0 /\ log[i].op.print = o.print /\ log[i].attempt = attempt

Warns(g, o) ==
  /\ GuardLevel >= 1 /\ ~g.issued
  /\ SameTool(LastToolStart, o) /\ Succeeded(log[LastToolStart].op) # 0

(* Faulty: the outputs are not compared.                                   *)
BlocksSameInput(g, o) ==
  GuardLevel >= 2 /\ g.warningApplied # NoOp /\ SameTool(Signal("warn"), o)

Blocks(g, o) ==
  LET w == Signal("warn")
      a == AppliedBy(g.warningApplied)
      calls == {log[w].prev, log[w].op}
  IN  /\ GuardLevel >= 2 /\ g.warningApplied # NoOp
      /\ SameTool(w, o) /\ a # 0
      /\ SameTool(LastToolStart, o) /\ log[LastToolStart].op = log[w].op
      /\ \A c \in calls : Succeeded(c) \in 1..(a - 1) /\ OutputOf(c) \in 1..(a - 1)
      /\ \A c, d \in calls : log[OutputOf(c)].hash = log[OutputOf(d)].hash

(* Faulty: the blocked result need not have been shown.                    *)
TerminatesAtOnce(g, o) ==
  GuardLevel >= 3 /\ g.lastBlocked # NoOp /\ SameTool(BlockOf(g.lastBlocked), o)

Terminates(g, o) ==
  LET b == BlockOf(g.lastBlocked)
      a == AppliedBy(g.blockApplied)
  IN  /\ GuardLevel >= 3 /\ o \notin Batched /\ ~g.blockPending
      /\ g.lastBlocked # NoOp /\ g.warningApplied # NoOp /\ g.blockApplied # NoOp
      /\ b # 0 /\ a > b /\ SameTool(b, o)
      /\ SameTool(LastToolStart, o) /\ log[LastToolStart].op = log[b].prev

(* The signal that goes with a reservation that has budget.                *)
GuardAction(g, o) ==
  IF o.bucket # "tool"       THEN "none"
  ELSE IF Terminates(g, o)   THEN "terminate"
  ELSE IF Blocks(g, o)       THEN "block"
  ELSE IF Warns(g, o)        THEN "warn" ELSE "none"
-----------------------------------------------------------------------------
(* operationBudgetSnapshot and exactToolRepeatGuardSnapshot.               *)
Snapshot(l) ==
  [warned |-> l.warningPending, guardWarned |-> l.guard.warningPending,
   blockShown |-> l.guard.blockPending]
NoNews == [warned |-> FALSE, guardWarned |-> FALSE, blockShown |-> FALSE]

Init ==
  /\ attempt = 0 /\ active = FALSE
  /\ log = <<>> /\ ledger = EmptyLedger
  /\ current = NoOp /\ step = "idle" /\ told = NoNews
  /\ refused = FALSE

(* The queue hands the execution to a fresh worker, and takes it back.     *)
BeginAttempt ==
  /\ ~active /\ attempt < MaxAttempts
  /\ attempt' = attempt + 1 /\ active' = TRUE
  /\ current' = NoOp /\ step' = "idle" /\ told' = NoNews
  /\ UNCHANGED <<events, refused>>

EndAttempt ==
  /\ active /\ active' = FALSE
  /\ UNCHANGED <<attempt, events, worker, refused>>

(* requestProgressGrant; an existing grant is returned as it stands.  The  *)
(* reply may be lost, and the worker then asks again.                      *)
RequestGrant(p, delivered) ==
  /\ active /\ step = "idle"
  /\ \/ ledger.grant # NoGrant /\ UNCHANGED events
     \/ /\ ledger.grant = NoGrant
        /\ AppendEvents(<<[kind |-> "grant", policy |-> Budget!EffectivePolicy(p)]>>)
  /\ IF delivered THEN step' = "granted" /\ told' = Snapshot(ledger')
                  ELSE UNCHANGED <<step, told>>
  /\ UNCHANGED <<attempt, active, current, refused>>

(* The events of a new reservation: the decision, the soft limit it        *)
(* reaches and the signal of the guard.                                    *)
CrossesSoftLimit(b) ==
  /\ b \in {"normal", "tool"} /\ ledger.grant.soft[b] > 0 /\ ~ledger.softReached[b]
  /\ ledger.reserved[b] + ledger.consumed[b] + 1 >= ledger.grant.soft[b]

ReservationEvents(o) ==
  LET hasBudget == ledger.available[o.bucket] > 0
      action    == IF hasBudget THEN GuardAction(ledger.guard, o) ELSE "none"
      granted   == hasBudget /\ action \in {"none", "warn"}
      decided   == [kind |-> "reservation", op |-> o, attempt |-> attempt, granted |-> granted]
      signal    == [kind |-> "guard", action |-> action, op |-> o, attempt |-> attempt,
                    prev |-> IF action = "terminate" THEN log[BlockOf(ledger.guard.lastBlocked)].prev
                             ELSE log[LastToolStart].op]
  IN  <<decided>>
      \o (IF granted /\ CrossesSoftLimit(o.bucket)
          THEN <<[kind |-> "soft_limit", op |-> o]>> ELSE <<>>)
      \o (IF action = "none" THEN <<>> ELSE <<signal>>)

(* The worker numbers its calls: it asks for the next one of its kind.     *)
Unasked(o)  == ledger.status[o] = "none"
NextCall(o) ==
  /\ Unasked(o)
  /\ \A d \in Operations : Unasked(d) /\ d.bucket = o.bucket /\ d.print = o.print => o.n <= d.n

(* reserveOperationBudget, asked for the first time or again.              *)
Reserve(o, delivered) ==
  /\ active
  /\ (step = "granted" /\ NextCall(o)) \/ (step = "reserving" /\ current = o)
  /\ IF Unasked(o) THEN AppendEvents(ReservationEvents(o)) ELSE UNCHANGED events
  /\ \/ ~delivered /\ current' = o /\ step' = "reserving" /\ UNCHANGED told
     \/ /\ delivered
        /\ told' = Snapshot(ledger')
        /\ \/ ledger'.status[o] = "reserved" /\ current' = o /\ step' = "reserved"
           \/ ledger'.status[o] = "denied" /\ current' = NoOp /\ step' = "granted"
  /\ UNCHANGED <<attempt, active, refused>>

(* acceptEvents of operation.started, fenced by the attempt and admitted   *)
(* only with the warnings that are due.                                    *)
Flags(o, snapshot) == IF o.bucket = "normal" THEN snapshot ELSE NoNews

(* Faulty: warnings are demanded of tool calls too.                        *)
AdmittedWarned(o, flags) ==
  ledger.status[o] = "reserved" /\ ledger.by[o] = attempt /\ flags = Snapshot(ledger)

Admitted(o, flags) ==
  ledger.status[o] = "reserved" /\ ledger.by[o] = attempt /\ flags = Flags(o, Snapshot(ledger))

Start ==
  LET flags == Flags(current, told) IN
  /\ active /\ step = "reserved"
  /\ \/ /\ Admitted(current, flags)
        /\ AppendEvents(<<[kind |-> "started", op |-> current, attempt |-> attempt,
                           warned |-> flags.warned, guardWarned |-> flags.guardWarned,
                           blockShown |-> flags.blockShown]>>)
        /\ step' = "started" /\ UNCHANGED refused
     \/ /\ ~Admitted(current, flags)
        /\ refused' = TRUE /\ UNCHANGED <<events, step>>
  /\ UNCHANGED <<attempt, active, current, told>>

(* acceptEvents of operation.finished, after the tool output as a source.  *)
(* It is not fenced: the worker of an attempt that ended may still report. *)
(* Whether an inference succeeded is of no concern to the ledger.          *)
Finish(ok, hash) ==
  /\ step = "started" /\ hash \in Outputs[current.print]
  /\ current.bucket = "tool" \/ ok
  /\ AppendEvents((IF current.bucket = "tool" /\ ok
                   THEN <<[kind |-> "source", op |-> current, hash |-> hash]>> ELSE <<>>)
                  \o <<[kind |-> "finished", op |-> current, ok |-> ok]>>)
  /\ current' = NoOp /\ step' = "granted"
  /\ UNCHANGED <<attempt, active, told, refused>>

Next ==
  \/ BeginAttempt \/ EndAttempt
  \/ \E delivered \in BOOLEAN :
       \/ \E p \in Policies : RequestGrant(p, delivered)
       \/ \E o \in Operations : Reserve(o, delivered)
  \/ Start
  \/ \E ok \in BOOLEAN, hash \in Hashes : Finish(ok, hash)

Spec == Init /\ [][Next]_vars
-----------------------------------------------------------------------------
Event ==
  [kind : {"grant"}, policy : Policy]
  \cup [kind : {"reservation"}, op : Operations, attempt : Nat, granted : BOOLEAN]
  \cup [kind : {"soft_limit"}, op : Operations]
  \cup [kind : {"guard"}, action : {"warn", "block", "terminate"}, op : Operations,
        attempt : Nat, prev : Operations]
  \cup [kind : {"started"}, op : Operations, attempt : Nat,
        warned : BOOLEAN, guardWarned : BOOLEAN, blockShown : BOOLEAN]
  \cup [kind : {"source"}, op : Operations, hash : Hashes]
  \cup [kind : {"finished"}, op : Operations, ok : BOOLEAN]

TypeOK ==
  /\ attempt \in 0..MaxAttempts /\ active \in BOOLEAN /\ refused \in BOOLEAN
  /\ log \in Seq(Event)
  /\ current \in Operations \cup {NoOp}
  /\ step \in {"idle", "granted"} <=> current = NoOp
  /\ step \in {"idle", "granted", "reserving", "reserved", "started"}
  /\ told \in [{"warned", "guardWarned", "blockShown"} -> BOOLEAN]

(* The projected ledger counts as OperationBudget does: the events that    *)
(* each transaction appends change the fold by exactly one budget step.    *)
ImplementsBudget == Budget!Spec

(* A worker that echoes what the last reply told it is never refused, in   *)
(* spite of lost replies, retries and what earlier attempts left behind.   *)
NeverRefused == ~refused

(* A call is blocked only when two earlier calls of the same attempt, with *)
(* the same tool and input, succeeded with identical output, and an        *)
(* inference of that attempt was given the warning after seeing both.      *)
BlockedCallsRepeat ==
  \A b \in DOMAIN log : log[b].kind = "guard" /\ log[b].action = "block" =>
    \E i, j, w \in 1..(b - 1) :
      /\ i < j /\ j < w
      /\ {log[i].kind, log[j].kind} = {"source"} /\ log[i].hash = log[j].hash
      /\ {log[i].op.print, log[j].op.print} = {log[b].op.print}
      /\ \A k \in {i, j} : \E s \in 1..(k - 1) :
           log[s].kind = "started" /\ log[s].op = log[k].op /\ log[s].attempt = log[b].attempt
      /\ log[w].kind = "started" /\ log[w].guardWarned /\ log[w].attempt = log[b].attempt

(* The guard escalates in order and at most one step per decision: between *)
(* a block and a termination an inference was shown the blocked result.    *)
TerminationWasAnnounced ==
  \A t \in DOMAIN log : log[t].kind = "guard" /\ log[t].action = "terminate" =>
    \E b, w \in 1..(t - 1) :
      /\ b < w
      /\ log[b].kind = "guard" /\ log[b].action = "block" /\ log[b].attempt = log[t].attempt
      /\ log[b].op.print = log[t].op.print
      /\ log[w].kind = "started" /\ log[w].blockShown /\ log[w].attempt = log[t].attempt
=============================================================================
