------------------------ MODULE ExecutionQueueProofs ------------------------
(* Theorems about ExecutionQueue for every set of executions and workers,  *)
(* every max_attempts and any number of backend restarts.                  *)
EXTENDS ExecutionQueue, TLAPS

(* updateStatus to one of the statuses it is called with keeps the types.  *)
LEMMA UpdateStatusType ==
  ASSUME TypeOK, NEW e \in Executions, NEW to \in Statuses, NEW bump \in {0, 1},
         UpdateStatus(e, to, bump)
  PROVE  /\ taskType' \in [Executions -> TaskTypes]
         /\ status' \in [Executions -> Statuses] /\ phase' \in [Executions -> Phases]
         /\ attemptId' \in [Executions -> Nat]
         /\ claimedBy' \in [Executions -> Workers \cup {NoWorker}]
         /\ retryCount' \in [Executions -> Nat]
         /\ older' \subseteq Executions \X Executions
  BY DEF UpdateStatus, TypeOK, Touch, Phases, NoAttempt

LEMMA InitType == Init => TypeOK
  BY QueueAssumption DEF Init, TypeOK, Statuses, Phases, CronPcs, NoAttempt

LEMMA NextType == TypeOK /\ [Next]_vars => TypeOK'
  <1> SUFFICES ASSUME TypeOK, [Next]_vars PROVE TypeOK'
    OBVIOUS
  <1> USE DEF row, worker, cron, history
  <1>1. ASSUME NEW e \in Executions, Create(e) PROVE TypeOK'
    BY <1>1 DEF Create, TypeOK, Touch, Statuses
  <1>1a. ASSUME NEW e \in Executions, SaveRow(e) PROVE TypeOK'
    BY <1>1a DEF SaveRow, TypeOK, Touch
  <1>2. ASSUME NEW w \in Workers, NEW e \in Executions, ClaimRow(w, e) PROVE TypeOK'
    BY <1>2 DEF ClaimRow, TypeOK, Touch, Statuses, Phases, Claim
  <1>3. ASSUME NEW j \in jobs, Submit(j) PROVE TypeOK'
    BY <1>3 DEF Submit, TypeOK, Touch, Phases, Claim
  <1>4. ASSUME NEW j \in jobs, Discard(j) PROVE TypeOK'
    BY <1>4 DEF Discard, TypeOK
  <1>5. ASSUME NEW w \in Workers, FallSilent(w) \/ Heartbeat(w) \/ Die(w) PROVE TypeOK'
    BY <1>5 DEF FallSilent, Heartbeat, Die, TypeOK
  <1>6. CASE ListStale
    <2>1. \A e \in Executions : Snapshot(e) \in StaleRow
      BY DEF Snapshot, StaleRow, TypeOK
    <2>2. QED
      BY <1>6, <2>1 DEF ListStale, TypeOK
  <1>7. ASSUME NEW r \in staleList, Recover(r) PROVE TypeOK'
    <2>1. r.exec \in Executions /\ r.to \in Statuses
      BY DEF TypeOK, StaleRow, Statuses, Terminal
    <2>2. CASE UNCHANGED row
      BY <1>7, <2>2 DEF Recover, TypeOK
    <2>3. CASE UpdateStatus(r.exec, r.to, 1)
      BY <1>7, <2>1, <2>3, UpdateStatusType DEF Recover, TypeOK
    <2>4. QED
      BY <1>7, <2>2, <2>3 DEF Recover
  <1>8. ASSUME NEW e \in Executions, CronPick(e) PROVE TypeOK'
    BY <1>8 DEF CronPick, TypeOK, CronPcs
  <1>9. CASE CronProcess
    BY <1>9 DEF CronProcess, TypeOK, CronPcs
  <1>10. CASE CronComplete
    <2>1. status' \in [Executions -> Statuses]
      BY <1>10 DEF CronComplete, TypeOK, Statuses
    <2>2. older' \subseteq Executions \X Executions
      BY <1>10, QueueAssumption DEF CronComplete, TypeOK, Touch, CronPcs, EndTick
    <2>3. QED
      BY <1>10, <2>1, <2>2 DEF CronComplete, TypeOK, CronPcs, Phases
  <1>11. CASE CronNotify \/ CronThrow \/ CronRecheck
    BY <1>11 DEF CronNotify, CronThrow, CronRecheck, EndTick, TypeOK, CronPcs
  <1>12. CASE CronMark
    <2>1. PICK to \in {"completed", "failed"} : UpdateStatus(cronExec, to, 0)
      BY <1>12 DEF CronMark
    <2>2. QED
      BY <1>12, <2>1, UpdateStatusType DEF CronMark, TypeOK, CronPcs, EndTick, Statuses, Terminal
  <1>13. CASE Fault
    BY <1>13 DEF Fault, EndTick, TypeOK, CronPcs
  <1>14. CASE UNCHANGED vars
    BY <1>14 DEF vars, TypeOK
  <1>15. QED
    BY <1>1, <1>1a, <1>2, <1>3, <1>4, <1>5, <1>6, <1>7, <1>8, <1>9, <1>10, <1>11,
       <1>12, <1>13, <1>14 DEF Next, Take, Answer, Recovery, Cron

(* Every variable of the queue keeps its type.                             *)
THEOREM QueueTyping == Spec => []TypeOK
  BY InitType, NextType, PTL DEF Spec
-----------------------------------------------------------------------------
LEMMA AttemptInit == Init => AttemptInv
  BY InitType, QueueAssumption DEF Init, AttemptInv, RowInv, StaleInv, JobInv, NoAttempt

(* Actions that change neither a row's fence nor a claim keep the relation *)
(* between the attempts handed out, the fence and the retry counter.       *)
LEMMA FenceUnchanged ==
  ASSUME AttemptInv, TypeOK',
         UNCHANGED <<status, phase, attemptId, claimedBy, retryCount, claims>>,
         jobs' \subseteq jobs, staleList' \subseteq staleList
  PROVE  AttemptInv'
  BY DEF AttemptInv, RowInv, StaleInv, JobInv

(* updateStatus, to a terminal status or by a recovery that was fenced and *)
(* found the attempts not exhausted.                                       *)
LEMMA UpdateStatusAttempt ==
  ASSUME AttemptInv, TypeOK', NEW e \in Executions, NEW bump \in {0, 1},
         NEW to \in {"queued", "completed", "failed"},
         UpdateStatus(e, to, bump),
         to = "queued" => /\ bump = 1 /\ attemptId[e] # NoAttempt
                          /\ retryCount[e] + 1 < MaxAttempts,
         UNCHANGED <<claims, jobs>>, staleList' \subseteq staleList
  PROVE  AttemptInv'
  <1>1. CASE status[e] = to
    BY <1>1, FenceUnchanged DEF UpdateStatus
  <1>2. CASE status[e] # to
    <2> USE <1>2
    <2>1. RowInv'
      <3> SUFFICES ASSUME NEW x \in Executions
                   PROVE  /\ claims'[x] <= MaxAttempts
                          /\ attemptId'[x] # NoAttempt =>
                               attemptId'[x] = claims'[x] /\ claims'[x] = retryCount'[x] + 1
                          /\ status'[x] \in {"absent", "queued"} =>
                               /\ attemptId'[x] = NoAttempt
                               /\ claims'[x] = retryCount'[x] /\ claims'[x] < MaxAttempts
                          /\ attemptId'[x] = NoAttempt => status'[x] # "running"
                          /\ status'[x] = "running" /\ phase'[x] = "worker_execution" =>
                               claimedBy'[x] \in Workers
        BY DEF RowInv
      <3>1. CASE x = e
        BY <3>1, QueueAssumption DEF UpdateStatus, AttemptInv, TypeOK, RowInv, NoAttempt
      <3>2. CASE x # e
        BY <3>2 DEF UpdateStatus, AttemptInv, TypeOK, RowInv
      <3>3. QED
        BY <3>1, <3>2
    <2>2. StaleInv'
      <3> SUFFICES ASSUME NEW r \in staleList'
                   PROVE  /\ r.attempt # NoAttempt /\ r.attempt <= claims'[r.exec]
                          /\ attemptId'[r.exec] = r.attempt /\ r.to = "queued" =>
                               retryCount'[r.exec] + 1 < MaxAttempts
        BY DEF StaleInv
      <3>1. r \in staleList /\ r.exec \in Executions
        BY DEF AttemptInv, TypeOK, StaleRow
      <3>2. QED
        BY <3>1 DEF UpdateStatus, AttemptInv, TypeOK, StaleInv
    <2>3. JobInv'
      BY DEF AttemptInv, JobInv
    <2>4. QED
      BY <2>1, <2>2, <2>3 DEF AttemptInv
  <1>3. QED
    BY <1>1, <1>2

(* A claim hands out an attempt that no worker and no stale list holds.    *)
LEMMA ClaimAttempt ==
  ASSUME AttemptInv, TypeOK', NEW w \in Workers, NEW e \in Executions, ClaimRow(w, e)
  PROVE  AttemptInv'
  <1> USE DEF ClaimRow
  <1>1. /\ claims[e] \in Nat /\ claims[e] = retryCount[e] /\ claims[e] < MaxAttempts
        /\ claims'[e] = claims[e] + 1 /\ attemptId'[e] = claims[e] + 1
    BY DEF AttemptInv, TypeOK, RowInv
  <1>2. RowInv'
    BY <1>1, QueueAssumption DEF AttemptInv, TypeOK, RowInv, NoAttempt
  <1>3. StaleInv'
    <2> SUFFICES ASSUME NEW r \in staleList
                 PROVE  /\ r.attempt # NoAttempt /\ r.attempt <= claims'[r.exec]
                        /\ attemptId'[r.exec] = r.attempt /\ r.to = "queued" =>
                             retryCount'[r.exec] + 1 < MaxAttempts
      BY DEF StaleInv
    <2>1. r.exec \in Executions /\ r.attempt \in Nat
      BY DEF AttemptInv, TypeOK, StaleRow
    <2>2. QED
      BY <1>1, <2>1 DEF AttemptInv, TypeOK, StaleInv
  <1>4. JobInv'
    <2> DEFINE new == [worker |-> w, exec |-> e, attempt |-> claims[e] + 1]
    <2>1. \A j \in jobs : /\ j.exec \in Executions /\ j.attempt \in Nat
                          /\ j.attempt # NoAttempt /\ j.attempt <= claims[j.exec]
      BY DEF AttemptInv, TypeOK, Claim, JobInv
    <2>2. \A j \in jobs' : j \in jobs \/ j = new
      OBVIOUS
    <2>3. \A j \in jobs' : j.attempt # NoAttempt /\ j.attempt <= claims'[j.exec]
      BY <1>1, <2>1, <2>2 DEF AttemptInv, TypeOK, NoAttempt
    <2>4. \A j \in jobs : ~ (j.exec = new.exec /\ j.attempt = new.attempt)
      BY <1>1, <2>1
    <2>5. QED
      BY <2>2, <2>3, <2>4 DEF AttemptInv, JobInv
  <1>5. QED
    BY <1>2, <1>3, <1>4 DEF AttemptInv

LEMMA AttemptNext == AttemptInv /\ [Next]_vars => AttemptInv'
  <1> SUFFICES ASSUME AttemptInv, [Next]_vars PROVE AttemptInv'
    OBVIOUS
  <1> USE DEF row, worker, cron, history
  <1>t. TypeOK /\ TypeOK'
    BY NextType DEF AttemptInv
  <1>1. ASSUME NEW e \in Executions, Create(e) PROVE AttemptInv'
    <2>1. RowInv'
      BY <1>1, <1>t DEF Create, AttemptInv, TypeOK, RowInv
    <2>2. QED
      BY <1>1, <1>t, <2>1 DEF Create, AttemptInv, StaleInv, JobInv
  <1>1a. ASSUME NEW e \in Executions, SaveRow(e) PROVE AttemptInv'
    BY <1>1a, <1>t, FenceUnchanged DEF SaveRow
  <1>2. ASSUME NEW w \in Workers, NEW e \in Executions, ClaimRow(w, e) PROVE AttemptInv'
    BY <1>2, <1>t, ClaimAttempt
  <1>3. ASSUME NEW j \in jobs, Submit(j) PROVE AttemptInv'
    <2>1. j.exec \in Executions
      BY <1>t DEF TypeOK, Claim
    <2>2. RowInv'
      BY <1>3, <1>t, <2>1 DEF Submit, AttemptInv, TypeOK, RowInv
    <2>3. QED
      BY <1>3, <1>t, <2>2 DEF Submit, AttemptInv, StaleInv, JobInv
  <1>4. ASSUME NEW j \in jobs, Discard(j) PROVE AttemptInv'
    BY <1>4, <1>t, FenceUnchanged DEF Discard
  <1>5. ASSUME NEW w \in Workers, FallSilent(w) \/ Heartbeat(w) \/ Die(w) PROVE AttemptInv'
    BY <1>5, <1>t, FenceUnchanged DEF FallSilent, Heartbeat, Die
  <1>6. CASE ListStale
    <2>1. ASSUME NEW e \in Executions, IsStale(e)
          PROVE  LET r == Snapshot(e) IN
                 /\ r.attempt # NoAttempt /\ r.attempt <= claims[r.exec]
                 /\ r.to = "queued" => retryCount[r.exec] + 1 < MaxAttempts
      BY <2>1, <1>t, QueueAssumption DEF IsStale, Snapshot, AttemptInv, TypeOK, RowInv
    <2>2. StaleInv'
      BY <1>6, <2>1 DEF ListStale, StaleInv
    <2>3. QED
      BY <1>6, <1>t, <2>2 DEF ListStale, AttemptInv, RowInv, JobInv
  <1>7. ASSUME NEW r \in staleList, Recover(r) PROVE AttemptInv'
    <2>1. r.exec \in Executions /\ r.to \in {"queued", "failed"}
      BY <1>t DEF TypeOK, StaleRow
    <2>2. CASE UNCHANGED row
      BY <1>7, <1>t, <2>2, FenceUnchanged DEF Recover
    <2>3. CASE attemptId[r.exec] = r.attempt /\ UpdateStatus(r.exec, r.to, 1)
      <3>1. r.to = "queued" => attemptId[r.exec] # NoAttempt /\ retryCount[r.exec] + 1 < MaxAttempts
        BY <2>3 DEF AttemptInv, StaleInv
      <3>2. QED
        BY <1>7, <1>t, <2>1, <2>3, <3>1, UpdateStatusAttempt DEF Recover
    <2>4. QED
      BY <1>7, <2>2, <2>3 DEF Recover
  <1>8. ASSUME NEW e \in Executions, CronPick(e) PROVE AttemptInv'
    BY <1>8, <1>t, FenceUnchanged DEF CronPick
  <1>9. CASE CronProcess \/ CronNotify \/ CronThrow \/ CronRecheck
    BY <1>9, <1>t, FenceUnchanged DEF CronProcess, CronNotify, CronThrow, CronRecheck
  <1>10. CASE CronComplete
    <2>1. cronExec \in Executions
      BY <1>10, <1>t DEF CronComplete, TypeOK
    <2>2. RowInv'
      BY <1>10, <1>t, <2>1 DEF CronComplete, AttemptInv, TypeOK, RowInv, Terminal
    <2>3. QED
      BY <1>10, <1>t, <2>2 DEF CronComplete, AttemptInv, StaleInv, JobInv
  <1>11. CASE CronMark
    <2>1. cronExec \in Executions
      BY <1>11, <1>t DEF CronMark, TypeOK
    <2>2. PICK to \in {"completed", "failed"} : UpdateStatus(cronExec, to, 0)
      BY <1>11 DEF CronMark
    <2>3. QED
      BY <1>11, <1>t, <2>1, <2>2, UpdateStatusAttempt DEF CronMark
  <1>12. CASE Fault
    BY <1>12, <1>t, FenceUnchanged DEF Fault
  <1>13. CASE UNCHANGED vars
    BY <1>13, <1>t, FenceUnchanged DEF vars
  <1>14. QED
    BY <1>1, <1>1a, <1>2, <1>3, <1>4, <1>5, <1>6, <1>7, <1>8, <1>9, <1>10, <1>11,
       <1>12, <1>13 DEF Next, Take, Answer, Recovery, Cron

LEMMA AttemptInvariant == Spec => []AttemptInv
  BY AttemptInit, AttemptNext, PTL DEF Spec

(* However claims, recovery, late workers, finalization and faults         *)
(* interleave, no execution is handed out more than max_attempts times.    *)
THEOREM AttemptsAreBounded == Spec => []AttemptsBounded
  <1>1. AttemptInv => AttemptsBounded
    BY DEF AttemptInv, RowInv, AttemptsBounded
  <1>2. QED
    BY <1>1, AttemptInvariant, PTL

(* At most one worker process holds the attempt that the fence lets in.    *)
THEOREM OwnerIsSingle == Spec => []SingleOwner
  <1>1. AttemptInv => SingleOwner
    BY DEF AttemptInv, JobInv, SingleOwner, Owns
  <1>2. QED
    BY <1>1, AttemptInvariant, PTL

(* Stale recovery can find the worker of every row that a worker holds.    *)
THEOREM RunningRowsAreOwned == Spec => []RunningRowHasOwner
  <1>1. AttemptInv => RunningRowHasOwner
    BY DEF AttemptInv, RowInv, RunningRowHasOwner
  <1>2. QED
    BY <1>1, AttemptInvariant, PTL
-----------------------------------------------------------------------------
LEMMA EffectInit == Init => EffectInv
  BY InitType, QueueAssumption DEF Init, EffectInv, Ready

(* Actions that touch neither the cron job nor its bookkeeping, and make   *)
(* no row ready or completed.                                              *)
LEMMA EffectKept ==
  ASSUME EffectInv, TypeOK', UNCHANGED <<cronPc, cronExec, faults, accepted, processed, taskType>>,
         \A e \in Executions : /\ Ready(e)' => Ready(e)
                               /\ status'[e] = "completed" => status[e] = "completed"
  PROVE  EffectInv'
  BY DEF EffectInv, Fresh

LEMMA EffectNext == EffectInv /\ [Next]_vars => EffectInv'
  <1> SUFFICES ASSUME EffectInv, [Next]_vars PROVE EffectInv'
    OBVIOUS
  <1> USE DEF row, worker, cron, history
  <1>t. TypeOK /\ TypeOK'
    BY NextType DEF EffectInv
  <1>1. ASSUME NEW e \in Executions, Create(e) PROVE EffectInv'
    BY <1>1, <1>t, EffectKept DEF Create, TypeOK, Ready
  <1>1a. ASSUME NEW e \in Executions, SaveRow(e) PROVE EffectInv'
    BY <1>1a, <1>t, EffectKept DEF SaveRow, Ready
  <1>2. ASSUME NEW w \in Workers, NEW e \in Executions, ClaimRow(w, e) PROVE EffectInv'
    BY <1>2, <1>t, EffectKept DEF ClaimRow, TypeOK, Ready
  <1>3. ASSUME NEW j \in jobs, Submit(j) PROVE EffectInv'
    <2>1. j.exec \in Executions
      BY <1>t DEF TypeOK, Claim
    <2>2. \A e \in Executions : accepted[e] <= accepted'[e] /\ accepted'[e] \in Nat
      BY <1>3, <1>t, <2>1 DEF Submit, TypeOK
    <2>3. Fresh(j.exec)'
      BY <1>3, <1>t, <2>1 DEF Submit, TypeOK, EffectInv, Fresh
    <2>4. \A e \in Executions : Fresh(e) => Fresh(e)'
      BY <1>3, <1>t, <2>2 DEF Submit, TypeOK, Fresh
    <2>5. \A e \in Executions : processed'[e] <= accepted'[e] + faults'
      BY <1>3, <1>t, <2>2 DEF Submit, TypeOK, EffectInv
    <2>6. \A e \in Executions : Ready(e)' => e = j.exec \/ Ready(e)
      BY <1>3, <1>t DEF Submit, TypeOK, Ready
    <2>7. cronPc = "process" => Fresh(cronExec)'
      BY <1>3, <1>t, <2>4 DEF Submit, EffectInv, TypeOK, Fresh
    <2>8. QED
      BY <1>3, <1>t, <2>3, <2>4, <2>5, <2>6, <2>7 DEF Submit, EffectInv
  <1>4. ASSUME NEW j \in jobs, Discard(j) PROVE EffectInv'
    BY <1>4, <1>t, EffectKept DEF Discard, Ready
  <1>5. ASSUME NEW w \in Workers, FallSilent(w) \/ Heartbeat(w) \/ Die(w) PROVE EffectInv'
    BY <1>5, <1>t, EffectKept DEF FallSilent, Heartbeat, Die, Ready
  <1>6. CASE ListStale
    BY <1>6, <1>t, EffectKept DEF ListStale, Ready
  <1>7. ASSUME NEW r \in staleList, Recover(r) PROVE EffectInv'
    <2>1. r.exec \in Executions /\ r.to \in {"queued", "failed"}
      BY <1>t DEF TypeOK, StaleRow
    <2>2. taskType' = taskType
      BY <1>7 DEF Recover, UpdateStatus
    <2>3. \A e \in Executions : /\ Ready(e)' => Ready(e)
                                /\ status'[e] = "completed" => status[e] = "completed"
      BY <1>7, <1>t, <2>1 DEF Recover, UpdateStatus, TypeOK, Ready
    <2>4. QED
      BY <1>7, <1>t, <2>2, <2>3, EffectKept DEF Recover
  <1>8. ASSUME NEW e \in Executions, CronPick(e) PROVE EffectInv'
    <2>1. cronExec # e /\ Fresh(e) /\ Ready(e)
      BY <1>8, <1>t, QueueAssumption DEF CronPick, OldestReady, EffectInv, TypeOK
    <2>2. \A x \in Executions : (Ready(x)' <=> Ready(x)) /\ (Ready(x) => Fresh(x))
      BY <1>8, <1>t, QueueAssumption DEF CronPick, EffectInv, TypeOK, Ready
    <2>3. \A x \in Executions : Fresh(x)' <=> Fresh(x)
      BY <1>8 DEF CronPick, Fresh
    <2>4. QED
      BY <1>8, <1>t, <2>1, <2>2, <2>3 DEF CronPick, EffectInv
  <1>9. CASE CronProcess
    <2>1. cronExec \in Executions /\ Fresh(cronExec)
      BY <1>9, <1>t DEF CronProcess, TypeOK, EffectInv
    <2>2. processed' \in [Executions -> Nat] /\ accepted' = accepted /\ faults' = faults
      BY <1>9, <1>t DEF CronProcess, TypeOK
    <2>3. \A e \in Executions : /\ e # cronExec => processed'[e] = processed[e]
                                /\ processed[e] <= processed'[e]
                                /\ processed'[e] <= accepted[e] + faults
      BY <1>9, <1>t, <2>1 DEF CronProcess, TypeOK, EffectInv, Fresh
    <2>4. cronPc' # "markFailed" => processed'[cronExec] > 0
      BY <1>9, <1>t, <2>1 DEF CronProcess, TypeOK
    <2>5. \A e \in Executions : Ready(e)' <=> Ready(e)
      BY <1>9 DEF CronProcess, Ready
    <2>6. \A e \in Executions : e # cronExec => (Fresh(e)' <=> Fresh(e))
      BY <2>2, <2>3 DEF Fresh
    <2>7. /\ cronExec' = cronExec /\ cronPc' # "process" /\ cronPc' # "markCompleted"
          /\ status' = status /\ taskType' = taskType
      BY <1>9 DEF CronProcess
    <2>8. \A e \in Executions : status[e] = "completed" /\ taskType[e] # "unhandled" =>
                                 processed'[e] > 0
      BY <1>t, <2>2, <2>3 DEF EffectInv, TypeOK
    <2>9. QED
      BY <1>t, <2>2, <2>3, <2>4, <2>5, <2>6, <2>7, <2>8 DEF EffectInv
  <1>10. CASE CronComplete
    <2>1. cronExec \in Executions /\ processed[cronExec] > 0
      BY <1>10, <1>t DEF CronComplete, TypeOK, EffectInv
    <2>2. \A e \in Executions : /\ Ready(e)' => Ready(e) /\ e # cronExec
                                /\ status'[e] = "completed" => status[e] = "completed" \/ e = cronExec
      BY <1>10, <1>t, <2>1 DEF CronComplete, TypeOK, Ready
    <2>3. QED
      BY <1>10, <1>t, <2>1, <2>2 DEF CronComplete, EffectInv, Fresh
  <1>11. CASE CronNotify \/ CronThrow
    BY <1>11, <1>t DEF CronNotify, CronThrow, EffectInv, Ready, Fresh
  <1>12. CASE CronRecheck
    BY <1>12, <1>t DEF CronRecheck, EndTick, EffectInv, Ready, Fresh, Terminal
  <1>13. CASE CronMark
    <2>1. cronExec \in Executions /\ cronExec' = NoExec /\ cronPc' = "idle"
      BY <1>13, <1>t DEF CronMark, EndTick, TypeOK
    <2>2. PICK to \in {"completed", "failed"} :
            /\ UpdateStatus(cronExec, to, 0)
            /\ to = "completed" => cronPc = "markCompleted"
      BY <1>13 DEF CronMark
    <2>3. \A e \in Executions : /\ Ready(e)' => Ready(e) /\ e # cronExec
                                /\ e # cronExec => status'[e] = status[e]
      BY <1>t, <2>1, <2>2 DEF UpdateStatus, TypeOK, Ready
    <2>4. status'[cronExec] = to /\ taskType' = taskType
      BY <1>t, <2>1, <2>2 DEF UpdateStatus, TypeOK
    <2>5. UNCHANGED <<faults, accepted, processed>>
      BY <1>13 DEF CronMark
    <2>6. QED
      BY <1>t, <2>1, <2>2, <2>3, <2>4, <2>5 DEF EffectInv, Fresh
  <1>14. CASE Fault
    <2>1. \A e \in Executions : processed[e] < accepted[e] + faults'
      BY <1>14, <1>t DEF Fault, TypeOK, EffectInv
    <2>2. \A e \in Executions : Fresh(e)' /\ processed'[e] <= accepted'[e] + faults'
      BY <1>14, <1>t, <2>1 DEF Fault, TypeOK, Fresh
    <2>3. cronPc' = "idle" \/ UNCHANGED cron
      BY <1>14 DEF Fault, EndTick
    <2>4. cronPc' = "process" => Fresh(cronExec)'
      BY <1>t, <2>2 DEF TypeOK
    <2>5. QED
      BY <1>14, <1>t, <2>2, <2>3, <2>4 DEF Fault, EffectInv
  <1>15. CASE UNCHANGED vars
    BY <1>15, <1>t, EffectKept DEF vars, Ready
  <1>16. QED
    BY <1>1, <1>1a, <1>2, <1>3, <1>4, <1>5, <1>6, <1>7, <1>8, <1>9, <1>10, <1>11,
       <1>12, <1>13, <1>14, <1>15 DEF Next, Take, Answer, Recovery, Cron

LEMMA EffectInvariant == Spec => []EffectInv
  BY EffectInit, EffectNext, PTL DEF Spec

(* A result is dealt with once, plus at most once more per fault.          *)
THEOREM EffectsAppliedOnce == Spec => []EffectsPerResult
  <1>1. EffectInv => EffectsPerResult
    BY DEF EffectInv, EffectsPerResult
  <1>2. QED
    BY <1>1, EffectInvariant, PTL

(* No execution with a processor is completed without its processor.       *)
THEOREM CompletionIsProcessed == Spec => []CompletedIsProcessed
  <1>1. EffectInv => CompletedIsProcessed
    BY DEF EffectInv, CompletedIsProcessed
  <1>2. QED
    BY <1>1, EffectInvariant, PTL
=============================================================================
