--------------------------- MODULE ExecutionQueue ---------------------------
(***************************************************************************)
(* The durable queue of executions: rows of table "executions" that the    *)
(* backend creates, models workers claim and answer, handleCron finalizes  *)
(* and handleStaleRecovery requeues (src/src/execution, src/src/           *)
(* task-schedule).  The rows are shared state; every action is one         *)
(* database transaction or one read, so the two cron jobs interleave with  *)
(* each other and with the workers wherever the code awaits.  Workers are  *)
(* outside the repository: their actions are what docs/execution-system.md *)
(* and the backend's reads of the row require of them.                     *)
(***************************************************************************)
EXTENDS Integers, FiniteSets

CONSTANTS
  Executions,   (* execution ids                                           *)
  Workers,      (* ids of models worker processes                          *)
  Mortal,       (* the workers that may fall silent or die                 *)
  TaskTypes,    (* the task types that create() is called with             *)
  MaxAttempts,  (* column max_attempts                                     *)
  MaxFaults,    (* bound: restarts of the backend and failed transactions  *)
  NoWorker,     (* SQL NULL in claimed_by                                  *)
  NoExec        (* handleCron between two ticks                            *)

ASSUME QueueAssumption ==
  /\ Mortal \subseteq Workers
  /\ NoWorker \notin Workers /\ NoExec \notin Executions
  /\ TaskTypes \subseteq {"chat", "handled", "unhandled", "malformed"}
  /\ MaxAttempts \in Nat \ {0}
  /\ MaxFaults \in Nat

VARIABLES
  taskType,   (* kind of task: "chat" completes itself in its processor,    *)
              (* "handled" has another processor, "unhandled" has none and  *)
              (* "malformed" has no payload object                          *)
  status, phase, attemptId, claimedBy, retryCount,   (* columns of the row  *)
  older,      (* <<d, e>>: row d was updated before row e (updated_at)      *)
  health,     (* last_heartbeat of a worker: recent, stale, or stale for    *)
              (* ever because the process is dead                           *)
  jobs,       (* claims that live worker processes still work on            *)
  staleList,  (* handleStaleRecovery: rows read and not yet recovered       *)
  cronPc, cronExec,   (* handleCron: control point and firstExecution       *)
  faults,     (* restarts and failed transactions so far                    *)
  claims,     (* history: attempts handed out per execution                 *)
  accepted,   (* history: results stored per execution                      *)
  processed   (* history: results the processor has dealt with               *)

row      == <<taskType, status, phase, attemptId, claimedBy, retryCount, older>>
worker   == <<health, jobs>>
cron     == <<cronPc, cronExec>>
history  == <<claims, accepted, processed>>
vars     == <<row, worker, staleList, cron, faults, history>>

Terminal  == {"completed", "failed"}
Statuses  == {"absent", "queued", "running"} \cup Terminal
Phases    == {"none", "worker_execution", "backend_finalization"}
CronPcs   == {"idle", "process", "complete", "notify", "recheck",
              "markCompleted", "markFailed"}
NoAttempt == 0   (* SQL NULL in attempt_id; attempts of a row count from 1 *)

Claim    == [worker : Workers, exec : Executions, attempt : Nat]
StaleRow == [exec : Executions, attempt : Nat, to : {"queued", "failed"}]
-----------------------------------------------------------------------------
(* Every save refreshes updated_at: row e becomes the newest.              *)
Touch(e) ==
  older' = {p \in older : p[1] # e} \cup
           {<<d, e>> : d \in {x \in Executions \ {e} : status[x] # "absent"}}

(* findReadyForFinalization: the rows waiting for the backend, and the one *)
(* its ORDER BY updated_at puts first.                                     *)
Ready(e) == status[e] = "running" /\ phase[e] = "backend_finalization"
OldestReady(e) == Ready(e) /\ \A d \in Executions : Ready(d) => <<d, e>> \notin older

(* updateStatus to a status that releases the claim (queued, completed or  *)
(* failed).  A row that already has the status is returned untouched.      *)
UpdateStatus(e, to, bump) ==
  /\ UNCHANGED taskType
  /\ \/ /\ status[e] = to
        /\ UNCHANGED <<status, phase, attemptId, claimedBy, retryCount, older>>
     \/ /\ status[e] # to
        /\ status'     = [status EXCEPT ![e] = to]
        /\ phase'      = [phase EXCEPT ![e] = "none"]
        /\ attemptId'  = [attemptId EXCEPT ![e] = NoAttempt]
        /\ claimedBy'  = [claimedBy EXCEPT ![e] = NoWorker]
        /\ retryCount' = [retryCount EXCEPT ![e] = @ + bump]
        /\ Touch(e)
-----------------------------------------------------------------------------
Init ==
  /\ taskType   \in [Executions -> TaskTypes]
  /\ status     = [e \in Executions |-> "absent"]
  /\ phase      = [e \in Executions |-> "none"]
  /\ attemptId  = [e \in Executions |-> NoAttempt]
  /\ claimedBy  = [e \in Executions |-> NoWorker]
  /\ retryCount = [e \in Executions |-> 0]
  /\ older      = {}
  /\ health     = [w \in Workers |-> "live"]
  /\ jobs       = {}
  /\ staleList  = {}
  /\ cronPc     = "idle"
  /\ cronExec   = NoExec
  /\ faults    = 0
  /\ claims     = [e \in Executions |-> 0]
  /\ accepted   = [e \in Executions |-> 0]
  /\ processed  = [e \in Executions |-> 0]

(* create and createForChat: one transaction that inserts the queued row.  *)
Create(e) ==
  /\ status[e] = "absent"
  /\ status' = [status EXCEPT ![e] = "queued"]
  /\ Touch(e)
  /\ UNCHANGED <<taskType, phase, attemptId, claimedBy, retryCount>>
  /\ UNCHANGED <<worker, staleList, cron, faults, history>>

(* acceptEvents and the budget requests save the row they append evidence  *)
(* to, at any time before its end: it loses its place in the order.        *)
SaveRow(e) ==
  /\ status[e] \notin {"absent"} \cup Terminal
  /\ Touch(e)
  /\ UNCHANGED <<taskType, status, phase, attemptId, claimedBy, retryCount>>
  /\ UNCHANGED <<worker, staleList, cron, faults, history>>

(* External: an idle live worker takes a queued row under FOR UPDATE SKIP  *)
(* LOCKED and gives it a fresh attempt id.                                 *)
ClaimRow(w, e) ==
  /\ health[w] = "live" /\ \A j \in jobs : j.worker # w
  /\ status[e] = "queued"
  /\ claims'    = [claims EXCEPT ![e] = @ + 1]
  /\ status'    = [status EXCEPT ![e] = "running"]
  /\ phase'     = [phase EXCEPT ![e] = "worker_execution"]
  /\ claimedBy' = [claimedBy EXCEPT ![e] = w]
  /\ attemptId' = [attemptId EXCEPT ![e] = claims[e] + 1]
  /\ jobs'      = jobs \cup {[worker |-> w, exec |-> e, attempt |-> claims[e] + 1]}
  /\ Touch(e)
  /\ UNCHANGED <<taskType, retryCount, health, staleList, cron, faults>>
  /\ UNCHANGED <<accepted, processed>>

(* External: a worker whose attempt still owns the row stores its result   *)
(* and moves the row to backend_finalization.                              *)
(* Faulty: no fence.                                                       *)
OwnsAnyAttempt(j) == status[j.exec] = "running" /\ phase[j.exec] = "worker_execution"

Owns(j) ==
  /\ status[j.exec] = "running" /\ phase[j.exec] = "worker_execution"
  /\ attemptId[j.exec] = j.attempt

Submit(j) ==
  /\ j \in jobs /\ Owns(j)
  /\ phase'    = [phase EXCEPT ![j.exec] = "backend_finalization"]
  /\ accepted' = [accepted EXCEPT ![j.exec] = @ + 1]
  /\ jobs'     = jobs \ {j}
  /\ Touch(j.exec)
  /\ UNCHANGED <<taskType, status, attemptId, claimedBy, retryCount>>
  /\ UNCHANGED <<health, staleList, cron, faults, claims, processed>>

(* External: a worker that lost its attempt finds the fence closed.        *)
Discard(j) ==
  /\ j \in jobs /\ ~Owns(j)
  /\ jobs' = jobs \ {j}
  /\ UNCHANGED <<row, health, staleList, cron, faults, history>>

(* External: heartbeats older than the 60 s threshold, and their return.   *)
FallSilent(w) ==
  /\ w \in Mortal /\ health[w] = "live"
  /\ health' = [health EXCEPT ![w] = "silent"]
  /\ UNCHANGED <<row, jobs, staleList, cron, faults, history>>

Heartbeat(w) ==
  /\ health[w] = "silent"
  /\ health' = [health EXCEPT ![w] = "live"]
  /\ UNCHANGED <<row, jobs, staleList, cron, faults, history>>

Die(w) ==
  /\ w \in Mortal /\ health[w] # "dead"
  /\ health' = [health EXCEPT ![w] = "dead"]
  /\ jobs'   = {j \in jobs : j.worker # w}
  /\ UNCHANGED <<row, staleList, cron, faults, history>>
-----------------------------------------------------------------------------
(* handleStaleRecovery, every 30 s: requeueStaleExecutions first reads the *)
(* rows whose worker stopped its heartbeat ...                             *)
IsStale(e) ==
  /\ status[e] = "running" /\ phase[e] = "worker_execution"
  /\ claimedBy[e] \in Workers /\ health[claimedBy[e]] # "live"

(* Faulty: "exhausted" is off by one.                                      *)
SnapshotLate(e) ==
  [exec |-> e, attempt |-> attemptId[e],
   to |-> IF retryCount[e] + 1 > MaxAttempts THEN "failed" ELSE "queued"]

(* exhausted, decided when the row is listed, fixes where it will go.      *)
Snapshot(e) ==
  [exec |-> e, attempt |-> attemptId[e],
   to |-> IF retryCount[e] + 1 >= MaxAttempts THEN "failed" ELSE "queued"]

ListStale ==
  /\ staleList = {}
  /\ \E e \in Executions : IsStale(e)
  /\ staleList' = {Snapshot(e) : e \in {x \in Executions : IsStale(x)}}
  /\ UNCHANGED <<row, worker, cron, faults, history>>

(* Faulty: the claim is released and the status left.                      *)
RecoverClaim(r) ==
  /\ r \in staleList
  /\ staleList' = staleList \ {r}
  /\ claimedBy' = [claimedBy EXCEPT ![r.exec] = NoWorker]
  /\ UNCHANGED <<taskType, status, phase, attemptId, retryCount, older>>
  /\ UNCHANGED <<worker, cron, faults, history>>

(* ... and then updates them one transaction at a time.  Only the attempt  *)
(* is compared again: a row that changed attempt since it was read is left *)
(* alone.                                                                  *)
Recover(r) ==
  /\ r \in staleList
  /\ staleList' = staleList \ {r}
  /\ \/ /\ attemptId[r.exec] # r.attempt
        /\ UNCHANGED row
     \/ /\ attemptId[r.exec] = r.attempt
        /\ UpdateStatus(r.exec, r.to, 1)
  /\ UNCHANGED <<worker, cron, faults, history>>
-----------------------------------------------------------------------------
EndTick == cronPc' = "idle" /\ cronExec' = NoExec

(* handleCron, every 5 s.  Its first await reads the rows that are ready;  *)
(* a row without payload object at the head ends the tick.                 *)
CronPick(e) ==
  /\ cronPc = "idle"
  /\ OldestReady(e) /\ taskType[e] # "malformed"
  /\ cronExec' = e
  /\ cronPc' = IF taskType[e] = "unhandled" THEN "markCompleted" ELSE "process"
  /\ UNCHANGED <<row, worker, staleList, faults, history>>

(* Faulty: what the processor throws is swallowed.                         *)
CronProcessSwallowing ==
  /\ cronPc = "process"
  /\ cronPc' = "recheck" /\ UNCHANGED processed
  /\ UNCHANGED <<row, worker, staleList, cronExec, faults, claims, accepted>>

(* processor.process deals with the result.  It may throw before or after  *)
(* the domain effects are stored; it may find their target gone and return *)
(* { success: false }; a chat processor completes its execution itself.    *)
CronProcess ==
  /\ cronPc = "process"
  /\ \/ /\ cronPc' = "markFailed"
        /\ UNCHANGED processed
     \/ /\ cronPc' \in {"markFailed", "recheck"} \cup
                       (IF taskType[cronExec] = "chat" THEN {"complete"} ELSE {})
        /\ processed' = [processed EXCEPT ![cronExec] = @ + 1]
  /\ UNCHANGED <<row, worker, staleList, cronExec, faults, claims, accepted>>

(* completeExecution: the terminal status, unless the row is terminal      *)
(* already, and no phase.  The attempt is not cleared, and compared only   *)
(* for a deterministic partial result, which throws if it is another one.  *)
CronComplete ==
  /\ cronPc = "complete"
  /\ \/ /\ status[cronExec] \notin Terminal
        /\ \E to \in Terminal : status' = [status EXCEPT ![cronExec] = to]
     \/ /\ status[cronExec] \in Terminal
        /\ UNCHANGED status
  /\ phase' = [phase EXCEPT ![cronExec] = "none"]
  /\ Touch(cronExec)
  /\ cronPc' = "notify"
  /\ UNCHANGED <<taskType, attemptId, claimedBy, retryCount>>
  /\ UNCHANGED <<worker, staleList, cronExec, faults, history>>

(* The reply is pushed to the sockets and the row read back; either may    *)
(* throw, as may the transaction of completeExecution.                     *)
CronNotify ==
  /\ cronPc = "notify"
  /\ cronPc' = "recheck"
  /\ UNCHANGED <<row, worker, staleList, cronExec, faults, history>>

CronThrow ==
  /\ cronPc \in {"complete", "notify", "recheck", "markCompleted"}
  /\ cronPc' = "markFailed"
  /\ UNCHANGED <<row, worker, staleList, cronExec, faults, history>>

CronRecheck ==
  /\ cronPc = "recheck"
  /\ \/ status[cronExec] \in Terminal /\ EndTick
     \/ /\ status[cronExec] \notin Terminal
        /\ cronPc' = "markCompleted"
        /\ UNCHANGED cronExec
  /\ UNCHANGED <<row, worker, staleList, faults, history>>

(* Faulty: the catch block only logs the error.                            *)
CronMarkLogging ==
  /\ \/ cronPc = "markCompleted" /\ UpdateStatus(cronExec, "completed", 0)
     \/ cronPc = "markFailed" /\ UNCHANGED row
  /\ EndTick
  /\ UNCHANGED <<worker, staleList, faults, history>>

(* markAsCompleted and, in the catch block, markAsFailed: updateStatus     *)
(* without an expected attempt.                                            *)
CronMark ==
  /\ \/ cronPc = "markCompleted" /\ UpdateStatus(cronExec, "completed", 0)
     \/ cronPc = "markFailed" /\ UpdateStatus(cronExec, "failed", 0)
  /\ EndTick
  /\ UNCHANGED <<worker, staleList, faults, history>>

(* The backend process restarts and both cron jobs lose their local state; *)
(* or markAsFailed throws in the catch block and the tick just ends; or    *)
(* updateStatus throws in the loop of stale recovery, which gives up.      *)
Fault ==
  /\ faults < MaxFaults
  /\ faults' = faults + 1
  /\ \/ staleList' = {} /\ EndTick
     \/ cronPc = "markFailed" /\ EndTick /\ UNCHANGED staleList
     \/ staleList # {} /\ staleList' = {} /\ UNCHANGED cron
  /\ UNCHANGED <<row, worker, history>>
-----------------------------------------------------------------------------
Cron == \/ \E e \in Executions : CronPick(e)
        \/ CronProcess \/ CronComplete \/ CronNotify \/ CronThrow
        \/ CronRecheck \/ CronMark

Recovery == ListStale \/ \E r \in staleList : Recover(r)

Answer(w) == \E j \in jobs : j.worker = w /\ (Submit(j) \/ Discard(j))
Take(w)   == \E e \in Executions : ClaimRow(w, e)

Next ==
  \/ \E e \in Executions : Create(e) \/ SaveRow(e)
  \/ \E w \in Workers : Take(w) \/ Answer(w)
  \/ \E w \in Workers : FallSilent(w) \/ Heartbeat(w) \/ Die(w)
  \/ Recovery
  \/ Cron
  \/ Fault

Spec == Init /\ [][Next]_vars

(* Both cron jobs run for ever on their interval (and the host is not      *)
(* permanently above the 80% load at which handleCron skips its tick); a   *)
(* worker that is not dead polls the queue and ends the work it took.      *)
Fairness ==
  /\ WF_vars(Cron) /\ WF_vars(Recovery)
  /\ \A w \in Workers : WF_vars(Take(w)) /\ WF_vars(Answer(w))

FairSpec == Spec /\ Fairness
-----------------------------------------------------------------------------
TypeOK ==
  /\ taskType \in [Executions -> TaskTypes]
  /\ status \in [Executions -> Statuses] /\ phase \in [Executions -> Phases]
  /\ attemptId \in [Executions -> Nat]
  /\ claimedBy \in [Executions -> Workers \cup {NoWorker}]
  /\ retryCount \in [Executions -> Nat]
  /\ older \subseteq Executions \X Executions
  /\ health \in [Workers -> {"live", "silent", "dead"}]
  /\ jobs \subseteq Claim /\ staleList \subseteq StaleRow
  /\ cronPc \in CronPcs
  /\ cronExec \in IF cronPc = "idle" THEN {NoExec} ELSE Executions
  /\ faults \in Nat
  /\ claims \in [Executions -> Nat] /\ accepted \in [Executions -> Nat]
  /\ processed \in [Executions -> Nat]

(* No execution is handed to workers more often than max_attempts, however *)
(* stale recovery, finalization, faults and late workers interleave       *)
(* (requeueStaleExecutions decides "exhausted" on the row it listed and    *)
(* updateStatus applies the decision later, fenced only by the attempt).   *)
AttemptsBounded == \A e \in Executions : claims[e] <= MaxAttempts

(* Two worker processes never hold the current attempt of one row, so at   *)
(* most one of the copies that stale recovery left running can store.      *)
SingleOwner ==
  \A j, k \in jobs : Owns(j) /\ Owns(k) /\ j.exec = k.exec => j = k

(* A row in worker_execution always names its attempt and its worker:      *)
(* otherwise the inner join of requeueStaleExecutions would never find it  *)
(* and the fence would never match, and the row would be stuck for ever.   *)
RunningRowHasOwner ==
  \A e \in Executions :
    status[e] = "running" /\ phase[e] = "worker_execution" =>
      attemptId[e] # NoAttempt /\ claimedBy[e] \in Workers

(* The domain effects of a result are applied at most once, except that a  *)
(* fault in the middle of a tick may repeat them, once per fault.          *)
EffectsPerResult ==
  \A e \in Executions : processed[e] <= accepted[e] + faults

(* An execution with a processor is reported completed only after the      *)
(* processor has dealt with a result of it at least once.                  *)
CompletedIsProcessed ==
  \A e \in Executions :
    status[e] = "completed" /\ taskType[e] # "unhandled" => processed[e] > 0

(* The strengthening behind AttemptsBounded and SingleOwner: how the fence *)
(* (attempt_id), the retry counter and the attempts handed out are tied    *)
(* together in a row, in the list of stale recovery and in the workers.    *)
RowInv ==
  \A e \in Executions :
    /\ claims[e] <= MaxAttempts
    /\ attemptId[e] # NoAttempt =>
         attemptId[e] = claims[e] /\ claims[e] = retryCount[e] + 1
    /\ status[e] \in {"absent", "queued"} =>
         attemptId[e] = NoAttempt /\ claims[e] = retryCount[e] /\ claims[e] < MaxAttempts
    /\ attemptId[e] = NoAttempt => status[e] # "running"
    /\ status[e] = "running" /\ phase[e] = "worker_execution" => claimedBy[e] \in Workers

StaleInv ==
  \A r \in staleList :
    /\ r.attempt # NoAttempt /\ r.attempt <= claims[r.exec]
    /\ attemptId[r.exec] = r.attempt /\ r.to = "queued" =>
         retryCount[r.exec] + 1 < MaxAttempts

JobInv ==
  /\ \A j \in jobs : j.attempt # NoAttempt /\ j.attempt <= claims[j.exec]
  /\ \A j, k \in jobs : j.exec = k.exec /\ j.attempt = k.attempt => j = k

AttemptInv == TypeOK /\ RowInv /\ StaleInv /\ JobInv

(* The strengthening behind EffectsPerResult and CompletedIsProcessed: the *)
(* result a tick is about to apply has not been applied yet.               *)
Fresh(e) == processed[e] < accepted[e] + faults

EffectInv ==
  /\ TypeOK
  /\ \A e \in Executions :
       /\ processed[e] <= accepted[e] + faults
       /\ Ready(e) /\ cronExec # e => Fresh(e)
       /\ status[e] = "completed" /\ taskType[e] # "unhandled" => processed[e] > 0
  /\ cronPc = "process" => Fresh(cronExec)
  /\ cronPc \in {"complete", "notify", "recheck"} => processed[cronExec] > 0
  /\ cronPc = "markCompleted" /\ taskType[cronExec] # "unhandled" =>
       processed[cronExec] > 0

(* Every queued execution ends completed or failed: dead workers, late     *)
(* workers, throwing processors and a bounded number of faults of the      *)
(* backend never strand it.                                                *)
EventuallySettled ==
  \A e \in Executions : status[e] = "queued" ~> status[e] \in Terminal

(* docs/execution-system.md: from running/backend_finalization an          *)
(* execution becomes completed or failed, and nothing else.                *)
FinalizationIsOwned ==
  [][\A e \in Executions : Ready(e) => Ready(e)' \/ status'[e] \in Terminal]_vars

(* A terminal status is the end of the lifecycle.                          *)
TerminalIsFinal ==
  [][\A e \in Executions : status[e] \in Terminal => status'[e] = status[e]]_vars
=============================================================================
