--------------------------- MODULE OperationBudget ---------------------------
(***************************************************************************)
(* The operation budget of one chat execution, as its ledger counts it     *)
(* (src/src/execution/inference-budget-policy.ts and the budget part of    *)
(* execution-progress.ts).  A worker attempt asks once for a grant,        *)
(* reserves budget for each operation before it runs it, and consumes the  *)
(* reservation by reporting operation.started.  Every action is one        *)
(* transaction under the lock of the execution row, so requests of the     *)
(* attempts of one execution, retried or late, arrive in any order.        *)
(* Requests that the code answers without changing anything (a repeated    *)
(* grant or reservation, every refusal) are stuttering steps.              *)
(***************************************************************************)
EXTENDS Integers, FiniteSets

CONSTANTS
  Operations,   (* operation ids                                           *)
  BucketOf,     (* the bucket an operation is charged to                   *)
  Policies,     (* the policies that workers request                       *)
  Limits,       (* the policy configured by PROGRESS_CHAT_*                *)
  MaxAttempts,  (* bound: claims of the execution                          *)
  NoGrant       (* no budget_grant event yet                               *)

Buckets == {"normal", "repair", "closing", "tool"}
Soft    == {"normal", "tool"}   (* the buckets that have a soft limit *)
Policy  == [hard : [Buckets -> Nat], soft : [Buckets -> Nat]]
Decided == {"reserved", "consumed", "denied"}

ASSUME BudgetAssumption ==
  /\ IsFiniteSet(Operations)
  /\ BucketOf \in [Operations -> Buckets]
  /\ Policies \subseteq Policy /\ Limits \in Policy
  /\ NoGrant \notin Policy
  /\ MaxAttempts \in Nat

VARIABLES
  attempt,    (* attempts handed out so far; the last one is the current    *)
  active,     (* the current attempt is not requeued, failed or completed   *)
  grant,      (* effectivePolicy of the one grant                           *)
  decision,   (* status of the reservation of an operation, or "none"       *)
  reservedBy, (* executionAttemptId of the reservation                      *)
  reserved, consumed, available,   (* usage of each bucket                  *)
  softReached,                     (* softLimitReached of each bucket       *)
  warningPending,                  (* softLimitWarningPending of "normal"   *)
  signals,    (* history: budget_soft_limit_reached events of each bucket   *)
  warned      (* history: operations that started with the warning applied  *)

usage == <<reserved, consumed, available>>
soft  == <<softReached, warningPending, signals>>
vars  == <<attempt, active, grant, decision, reservedBy, usage, soft, warned>>

Least(a, b)    == IF a <= b THEN a ELSE b
Greatest(a, b) == IF a >= b THEN a ELSE b
-----------------------------------------------------------------------------
(* Faulty: a soft limit may reach the hard limit.                          *)
SoftUncapped(requested, b, hard) ==
  IF b \notin Soft THEN 0 ELSE Least(requested.soft[b], Limits.soft[b])

(* resolveEffectivePolicy: never more than configured, and a soft limit    *)
(* strictly below the hard limit of its bucket or none at all (0).         *)
EffectiveSoft(requested, b, hard) ==
  IF b \notin Soft \/ hard <= 1 \/ requested.soft[b] = 0 \/ Limits.soft[b] = 0
  THEN 0
  ELSE Greatest(1, Least(Least(requested.soft[b], Limits.soft[b]), hard - 1))

EffectivePolicy(requested) ==
  LET hard == [b \in Buckets |-> Least(requested.hard[b], Limits.hard[b])] IN
  [hard |-> hard, soft |-> [b \in Buckets |-> EffectiveSoft(requested, b, hard[b])]]

(* Faulty: any attempt will do.                                            *)
AnyAttempt(a) == active

(* assertActiveBudgetAttempt: the request carries the attempt of the row.  *)
ActiveAttempt(a) == active /\ a = attempt

(* Faulty: reservations do not count until they are consumed.              *)
AvailableUntilUsed(granted, r, c) == Greatest(0, granted - c)

(* available, as the ledger recomputes it after every change of a bucket.  *)
Available(granted, r, c) == Greatest(0, granted - r - c)
-----------------------------------------------------------------------------
Init ==
  /\ attempt        = 0
  /\ active         = FALSE
  /\ grant          = NoGrant
  /\ decision       = [o \in Operations |-> "none"]
  /\ reservedBy     = [o \in Operations |-> 0]
  /\ reserved       = [b \in Buckets |-> 0]
  /\ consumed       = [b \in Buckets |-> 0]
  /\ available      = [b \in Buckets |-> 0]
  /\ softReached    = [b \in Buckets |-> FALSE]
  /\ warningPending = FALSE
  /\ signals        = [b \in Buckets |-> 0]
  /\ warned         = {}

(* The queue hands the execution to a worker, and takes it back (stale     *)
(* recovery) or finishes it.                                               *)
BeginAttempt ==
  /\ ~active /\ attempt < MaxAttempts
  /\ attempt' = attempt + 1
  /\ active' = TRUE
  /\ UNCHANGED <<grant, decision, reservedBy, usage, soft, warned>>

EndAttempt ==
  /\ active
  /\ active' = FALSE
  /\ UNCHANGED <<attempt, grant, decision, reservedBy, usage, soft, warned>>

(* requestProgressGrant: the first request of all attempts decides.        *)
RequestGrant(a, requested) ==
  /\ ActiveAttempt(a) /\ grant = NoGrant
  /\ grant' = EffectivePolicy(requested)
  /\ available' = grant'.hard
  /\ UNCHANGED <<attempt, active, decision, reservedBy, reserved, consumed, soft, warned>>

(* reserveOperationBudget for an operation without a decision.  guardAllows *)
(* is FALSE when the loop guard blocks or terminates a repeated tool call. *)
CrossesSoftLimit(b) ==
  LET committed == reserved[b] + consumed[b] + 1 IN
  /\ b \in Soft /\ grant.soft[b] > 0
  /\ ~softReached[b] /\ committed >= grant.soft[b]

Deny(a, o) ==
  /\ decision'   = [decision EXCEPT ![o] = "denied"]
  /\ reservedBy' = [reservedBy EXCEPT ![o] = a]
  /\ UNCHANGED <<attempt, active, grant, usage, soft, warned>>

Allow(a, o) ==
  LET b == BucketOf[o] IN
  /\ decision'   = [decision EXCEPT ![o] = "reserved"]
  /\ reservedBy' = [reservedBy EXCEPT ![o] = a]
  /\ reserved'   = [reserved EXCEPT ![b] = @ + 1]
  /\ available'  = [available EXCEPT ![b] =
                      Available(grant.hard[b], reserved[b] + 1, consumed[b])]
  /\ softReached'    = [softReached EXCEPT ![b] = @ \/ CrossesSoftLimit(b)]
  /\ warningPending' = (warningPending \/ (b = "normal" /\ CrossesSoftLimit(b)))
  /\ signals' = IF CrossesSoftLimit(b) THEN [signals EXCEPT ![b] = @ + 1] ELSE signals
  /\ UNCHANGED <<attempt, active, grant, consumed, warned>>

Reserve(a, o, guardAllows) ==
  /\ ActiveAttempt(a) /\ grant # NoGrant /\ decision[o] = "none"
  /\ guardAllows \/ BucketOf[o] = "tool"
  /\ \/ available[BucketOf[o]] > 0 /\ guardAllows /\ Allow(a, o)
     \/ ~(available[BucketOf[o]] > 0 /\ guardAllows) /\ Deny(a, o)

(* acceptEvents of operation.started: governedBudgetStart and              *)
(* assertOperationBudgetProjection admit only the holder of a reservation, *)
(* in its own attempt, with the warning applied exactly when it is due;    *)
(* consumeBudgetReservation then moves the reservation to consumed.        *)
Admits(a, o, warn) ==
  /\ ActiveAttempt(a)
  /\ decision[o] = "reserved" /\ reservedBy[o] = a
  /\ warn = (BucketOf[o] = "normal" /\ warningPending)

Start(a, o, warn) ==
  LET b == BucketOf[o] IN
  /\ Admits(a, o, warn)
  /\ decision'  = [decision EXCEPT ![o] = "consumed"]
  /\ reserved'  = [reserved EXCEPT ![b] = Greatest(0, @ - 1)]
  /\ consumed'  = [consumed EXCEPT ![b] = @ + 1]
  /\ available' = [available EXCEPT ![b] =
                     Available(grant.hard[b], Greatest(0, reserved[b] - 1), consumed[b] + 1)]
  /\ warningPending' = (warningPending /\ ~(b = "normal" /\ warn))
  /\ warned' = IF warn THEN warned \cup {o} ELSE warned
  /\ UNCHANGED <<attempt, active, grant, reservedBy, softReached, signals>>

Next ==
  \/ BeginAttempt \/ EndAttempt
  \/ \E a \in 1..attempt :
       \/ \E p \in Policies : RequestGrant(a, p)
       \/ \E o \in Operations :
            \E yes \in BOOLEAN : Reserve(a, o, yes) \/ Start(a, o, yes)

Spec == Init /\ [][Next]_vars
-----------------------------------------------------------------------------
TypeOK ==
  /\ attempt \in Nat /\ active \in BOOLEAN
  /\ grant \in Policy \cup {NoGrant}
  /\ decision \in [Operations -> Decided \cup {"none"}]
  /\ reservedBy \in [Operations -> Nat]
  /\ reserved \in [Buckets -> Nat] /\ consumed \in [Buckets -> Nat]
  /\ available \in [Buckets -> Nat]
  /\ softReached \in [Buckets -> BOOLEAN] /\ warningPending \in BOOLEAN
  /\ signals \in [Buckets -> Nat] /\ warned \subseteq Operations

InState(b, statuses) == {o \in Operations : BucketOf[o] = b /\ decision[o] \in statuses}

(* Operations that hold or have used budget never exceed what the one      *)
(* grant gives their bucket, over all attempts, retries and lost replies;  *)
(* and without a grant nothing runs.                                       *)
HardLimit ==
  \A b \in Buckets :
    Cardinality(InState(b, {"reserved", "consumed"})) <=
      IF grant = NoGrant THEN 0 ELSE grant.hard[b]

(* The counters the ledger keeps (with clamps at zero) are exactly the     *)
(* numbers of reservations in each status: no reservation is counted twice *)
(* or lost when it is consumed, denied or left behind by a dead attempt.   *)
LedgerBalances ==
  \A b \in Buckets :
    /\ reserved[b] = Cardinality(InState(b, {"reserved"}))
    /\ consumed[b] = Cardinality(InState(b, {"consumed"}))
    /\ available[b] = IF grant = NoGrant THEN 0 ELSE grant.hard[b] - reserved[b] - consumed[b]

(* The soft limit of a bucket is signalled once, by the reservation that   *)
(* reaches it, and leaves at least one operation before the hard limit.    *)
SoftLimitExact ==
  \A b \in Buckets :
    /\ signals[b] = (IF softReached[b] THEN 1 ELSE 0)
    /\ softReached[b] <=>
         grant # NoGrant /\ b \in Soft /\ grant.soft[b] > 0
         /\ reserved[b] + consumed[b] >= grant.soft[b]
    /\ softReached[b] => grant.soft[b] < grant.hard[b]

(* The warning that follows the soft limit of normal inferences is given   *)
(* to one inference only, and it is due from the signal until that         *)
(* inference starts.                                                       *)
WarningGivenOnce ==
  /\ warned # {} => softReached["normal"]
  /\ \A o, p \in warned : o = p
  /\ warningPending <=> softReached["normal"] /\ warned = {}

(* The strengthening behind them: nothing happens before the grant, and    *)
(* the soft limits of the granted policy are below its hard limits.        *)
GrantInv ==
  /\ grant = NoGrant =>
       /\ \A o \in Operations : decision[o] = "none"
       /\ \A b \in Buckets : reserved[b] = 0 /\ consumed[b] = 0
  /\ grant # NoGrant =>
       \A b \in Buckets : grant.soft[b] > 0 => grant.soft[b] < grant.hard[b]

BudgetInv == TypeOK /\ GrantInv /\ LedgerBalances /\ SoftLimitExact /\ WarningGivenOnce

(* A decision is durable: a denied operation never gets budget, a consumed *)
(* one never runs again, and only the attempt that reserved an operation,  *)
(* while it is still the active one, starts it.                            *)
DecisionIsDurable ==
  [][\A o \in Operations :
       /\ decision[o] \in {"denied", "consumed"} => decision'[o] = decision[o]
       /\ decision[o] # "none" => reservedBy'[o] = reservedBy[o]
       /\ decision'[o] = "consumed" /\ decision[o] # "consumed" =>
            decision[o] = "reserved" /\ active /\ reservedBy[o] = attempt]_vars
=============================================================================
