------------------------ MODULE OperationBudgetProofs ------------------------
(* Theorems about OperationBudget for every finite set of operations,      *)
(* every requested and configured policy and any number of attempts.       *)
EXTENDS OperationBudget, FiniteSetTheorems, TLAPS

(* What resolveEffectivePolicy returns: at most the configured limits, and *)
(* no soft limit that would only be reached together with the hard one.    *)
LEMMA EffectivePolicyIsSound ==
  ASSUME NEW p \in Policies
  PROVE  LET e == EffectivePolicy(p) IN
         /\ e \in Policy
         /\ \A b \in Buckets : /\ e.hard[b] <= Limits.hard[b]
                               /\ e.soft[b] > 0 => e.soft[b] < e.hard[b]
  <1> DEFINE hard == [b \in Buckets |-> Least(p.hard[b], Limits.hard[b])]
             e == EffectivePolicy(p)
  <1>1. p \in Policy /\ Limits \in Policy
    BY BudgetAssumption
  <1>2. hard \in [Buckets -> Nat] /\ \A b \in Buckets : hard[b] <= Limits.hard[b]
    BY <1>1 DEF Policy, Least
  <1>3. \A b \in Buckets : /\ EffectiveSoft(p, b, hard[b]) \in Nat
                           /\ EffectiveSoft(p, b, hard[b]) > 0 =>
                                EffectiveSoft(p, b, hard[b]) < hard[b]
    BY <1>1, <1>2 DEF EffectiveSoft, Policy, Least, Greatest
  <1>4. e = [hard |-> hard, soft |-> [b \in Buckets |-> EffectiveSoft(p, b, hard[b])]]
    BY DEF EffectivePolicy
  <1> HIDE DEF hard, e
  <1>5. e \in Policy /\ e.hard = hard /\ \A b \in Buckets : e.soft[b] = EffectiveSoft(p, b, hard[b])
    BY <1>2, <1>3, <1>4 DEF Policy
  <1>6. QED
    BY <1>2, <1>3, <1>5 DEF e

LEMMA InStateFinite ==
  ASSUME NEW b, NEW statuses
  PROVE  IsFiniteSet(InState(b, statuses)) /\ Cardinality(InState(b, statuses)) \in Nat
  BY BudgetAssumption, FS_Subset, FS_CardinalityType DEF InState

LEMMA BudgetInit == Init => BudgetInv
  <1> SUFFICES ASSUME Init PROVE BudgetInv
    OBVIOUS
  <1>1. \A b \in Buckets : InState(b, {"reserved"}) = {} /\ InState(b, {"consumed"}) = {}
    BY DEF Init, InState
  <1>2. LedgerBalances
    BY <1>1, FS_EmptySet DEF Init, LedgerBalances
  <1>3. TypeOK
    BY DEF Init, TypeOK, Buckets, Decided
  <1>4. SoftLimitExact /\ WarningGivenOnce /\ GrantInv
    BY DEF Init, SoftLimitExact, WarningGivenOnce, GrantInv, Buckets
  <1>5. QED
    BY <1>2, <1>3, <1>4 DEF BudgetInv

(* Steps that decide nothing and change no counter.                        *)
LEMMA BudgetKept ==
  ASSUME BudgetInv, attempt' \in Nat, active' \in BOOLEAN,
         UNCHANGED <<grant, decision, reservedBy, usage, soft, warned>>
  PROVE  BudgetInv'
  BY DEF BudgetInv, TypeOK, GrantInv, LedgerBalances, SoftLimitExact, WarningGivenOnce,
         InState, usage, soft

LEMMA GrantKeeps ==
  ASSUME BudgetInv, NEW a, NEW p \in Policies, RequestGrant(a, p)
  PROVE  BudgetInv'
  <1> USE DEF RequestGrant
  <1>1. /\ grant' \in Policy /\ grant' # NoGrant
        /\ \A b \in Buckets : grant'.soft[b] > 0 => grant'.soft[b] < grant'.hard[b]
    BY EffectivePolicyIsSound, BudgetAssumption
  <1>2. \A b \in Buckets : grant'.hard[b] \in Nat /\ grant'.soft[b] \in Nat
    BY <1>1 DEF Policy
  <1>3. available' \in [Buckets -> Nat]
    BY <1>1 DEF Policy
  <1>4. \A b \in Buckets : reserved[b] = 0 /\ consumed[b] = 0 /\ ~softReached[b]
    BY DEF BudgetInv, GrantInv, SoftLimitExact
  <1>5. TypeOK'
    BY <1>1, <1>3 DEF BudgetInv, TypeOK, soft
  <1>6. LedgerBalances'
    BY <1>1, <1>2, <1>4 DEF BudgetInv, LedgerBalances, InState
  <1>7. SoftLimitExact' /\ WarningGivenOnce' /\ GrantInv'
    BY <1>1, <1>2, <1>4 DEF BudgetInv, SoftLimitExact, WarningGivenOnce, GrantInv, soft
  <1>8. QED
    BY <1>5, <1>6, <1>7 DEF BudgetInv

LEMMA DenyKeeps ==
  ASSUME BudgetInv, NEW a \in Nat, NEW o \in Operations, Deny(a, o),
         decision[o] = "none", grant # NoGrant
  PROVE  BudgetInv'
  <1> USE DEF Deny, usage, soft
  <1>1. TypeOK'
    BY DEF BudgetInv, TypeOK, Decided
  <1>2. \A b \in Buckets : \A s \in {"reserved", "consumed"} : InState(b, {s})' = InState(b, {s})
    BY DEF BudgetInv, TypeOK, InState
  <1>3. LedgerBalances'
    BY <1>2 DEF BudgetInv, LedgerBalances
  <1>4. SoftLimitExact' /\ WarningGivenOnce' /\ GrantInv'
    BY DEF BudgetInv, SoftLimitExact, WarningGivenOnce, GrantInv
  <1>5. QED
    BY <1>1, <1>3, <1>4 DEF BudgetInv

LEMMA AllowKeeps ==
  ASSUME BudgetInv, NEW a \in Nat, NEW o \in Operations, Allow(a, o),
         decision[o] = "none", grant # NoGrant, available[BucketOf[o]] > 0
  PROVE  BudgetInv'
  <1> DEFINE b == BucketOf[o]
  <1> USE DEF Allow, usage, soft
  <1>1. /\ b \in Buckets /\ grant \in Policy
        /\ \A c \in Buckets : /\ reserved[c] \in Nat /\ consumed[c] \in Nat
                              /\ grant.hard[c] \in Nat /\ grant.soft[c] \in Nat
                              /\ available[c] = grant.hard[c] - reserved[c] - consumed[c]
    BY BudgetAssumption DEF BudgetInv, TypeOK, LedgerBalances, Policy
  <1>2. available'[b] = available[b] - 1
    BY <1>1 DEF BudgetInv, TypeOK, Available, Greatest
  <1>3. TypeOK'
    <2>1. available' \in [Buckets -> Nat]
      BY <1>1, <1>2 DEF BudgetInv, TypeOK
    <2>2. CrossesSoftLimit(b) \in BOOLEAN
      BY DEF CrossesSoftLimit
    <2>3. softReached' \in [Buckets -> BOOLEAN] /\ warningPending' \in BOOLEAN
      BY <2>2 DEF BudgetInv, TypeOK
    <2>4. decision' \in [Operations -> Decided \cup {"none"}] /\ reservedBy' \in [Operations -> Nat]
      BY DEF BudgetInv, TypeOK, Decided
    <2>5. reserved' \in [Buckets -> Nat] /\ signals' \in [Buckets -> Nat]
      BY <1>1 DEF BudgetInv, TypeOK
    <2>6. QED
      BY <2>1, <2>3, <2>4, <2>5 DEF BudgetInv, TypeOK
  <1>4. InState(b, {"reserved"})' = InState(b, {"reserved"}) \cup {o} /\ o \notin InState(b, {"reserved"})
    BY DEF BudgetInv, TypeOK, InState
  <1>5. \A c \in Buckets : /\ InState(c, {"consumed"})' = InState(c, {"consumed"})
                           /\ c # b => InState(c, {"reserved"})' = InState(c, {"reserved"})
    BY DEF BudgetInv, TypeOK, InState
  <1>6. Cardinality(InState(b, {"reserved"})') = Cardinality(InState(b, {"reserved"})) + 1
    BY <1>4, InStateFinite, FS_AddElement
  <1>7. \A c \in Buckets : /\ reserved'[c] = reserved[c] + (IF c = b THEN 1 ELSE 0)
                           /\ consumed'[c] = consumed[c]
                           /\ c # b => available'[c] = available[c]
    BY <1>1 DEF BudgetInv, TypeOK
  <1>8. LedgerBalances'
    <2> SUFFICES ASSUME NEW c \in Buckets
                 PROVE  /\ reserved'[c] = Cardinality(InState(c, {"reserved"})')
                        /\ consumed'[c] = Cardinality(InState(c, {"consumed"})')
                        /\ available'[c] = grant.hard[c] - reserved'[c] - consumed'[c]
      BY DEF LedgerBalances
    <2>0. /\ reserved[b] = Cardinality(InState(b, {"reserved"}))
          /\ \A x \in Buckets : consumed[x] = Cardinality(InState(x, {"consumed"}))
      BY <1>1 DEF BudgetInv, LedgerBalances
    <2>1. CASE c = b
      <3>1. reserved'[b] = Cardinality(InState(b, {"reserved"})')
        BY <1>1, <1>6, <1>7, <2>0
      <3>2. consumed'[b] = Cardinality(InState(b, {"consumed"})')
        BY <1>1, <1>5, <1>7, <2>0
      <3>3. available'[b] = grant.hard[b] - reserved'[b] - consumed'[b]
        BY <1>1, <1>2, <1>7
      <3>4. QED
        BY <2>1, <3>1, <3>2, <3>3
    <2>2. CASE c # b
      BY <1>1, <1>5, <1>7, <2>2 DEF BudgetInv, LedgerBalances
    <2>3. QED
      BY <2>1, <2>2
  <1>9. SoftLimitExact'
    <2> SUFFICES ASSUME NEW c \in Buckets
                 PROVE  /\ signals'[c] = (IF softReached'[c] THEN 1 ELSE 0)
                        /\ softReached'[c] <=> /\ c \in Soft /\ grant.soft[c] > 0
                                               /\ reserved'[c] + consumed'[c] >= grant.soft[c]
                        /\ softReached'[c] => grant.soft[c] < grant.hard[c]
      BY DEF SoftLimitExact
    <2>1. CASE c = b
      <3>1. softReached'[c] <=> softReached[c] \/ CrossesSoftLimit(c)
        BY <2>1 DEF BudgetInv, TypeOK
      <3>2. signals'[c] = signals[c] + (IF CrossesSoftLimit(c) THEN 1 ELSE 0)
        BY <2>1 DEF BudgetInv, TypeOK
      <3>3. CrossesSoftLimit(c) => ~softReached[c]
        BY DEF CrossesSoftLimit
      <3>4. QED
        BY <1>1, <1>7, <2>1, <3>1, <3>2, <3>3
           DEF BudgetInv, SoftLimitExact, GrantInv, CrossesSoftLimit
    <2>2. CASE c # b
      BY <1>1, <1>7, <2>2 DEF BudgetInv, TypeOK, SoftLimitExact
    <2>3. QED
      BY <2>1, <2>2
  <1>10. WarningGivenOnce'
    <2>1. softReached'["normal"] <=> softReached["normal"] \/ (b = "normal" /\ CrossesSoftLimit(b))
      BY <1>1 DEF BudgetInv, TypeOK, Buckets
    <2>2. CrossesSoftLimit(b) => ~softReached[b]
      BY DEF CrossesSoftLimit
    <2>3. CASE b = "normal" /\ CrossesSoftLimit(b)
      <3>1. warned = {}
        BY <2>2, <2>3 DEF BudgetInv, SoftLimitExact, WarningGivenOnce
      <3>2. QED
        BY <2>1, <2>3, <3>1 DEF WarningGivenOnce
    <2>4. CASE ~(b = "normal" /\ CrossesSoftLimit(b))
      BY <2>1, <2>4 DEF BudgetInv, WarningGivenOnce
    <2>5. QED
      BY <2>3, <2>4
  <1>11. GrantInv'
    BY DEF BudgetInv, GrantInv
  <1>12. QED
    BY <1>3, <1>8, <1>9, <1>10, <1>11 DEF BudgetInv

LEMMA StartKeeps ==
  ASSUME BudgetInv, NEW a, NEW o \in Operations, NEW warn \in BOOLEAN, Start(a, o, warn)
  PROVE  BudgetInv'
  <1> DEFINE b == BucketOf[o]
  <1> USE DEF Start, Admits, usage, soft
  <1>1. /\ b \in Buckets /\ grant \in Policy /\ grant # NoGrant
        /\ \A c \in Buckets : /\ reserved[c] \in Nat /\ consumed[c] \in Nat
                              /\ grant.hard[c] \in Nat /\ grant.soft[c] \in Nat
                              /\ available[c] = grant.hard[c] - reserved[c] - consumed[c]
                              /\ available[c] \in Nat
    BY BudgetAssumption DEF BudgetInv, TypeOK, GrantInv, LedgerBalances, Policy
  <1>2. /\ o \in InState(b, {"reserved"}) /\ o \notin InState(b, {"consumed"})
        /\ InState(b, {"reserved"})' = InState(b, {"reserved"}) \ {o}
        /\ InState(b, {"consumed"})' = InState(b, {"consumed"}) \cup {o}
    BY DEF BudgetInv, TypeOK, InState
  <1>3. \A c \in Buckets \ {b} : \A s \in {"reserved", "consumed"} :
          InState(c, {s})' = InState(c, {s})
    BY DEF BudgetInv, TypeOK, InState
  <1>4. /\ Cardinality(InState(b, {"reserved"})') = Cardinality(InState(b, {"reserved"})) - 1
        /\ Cardinality(InState(b, {"consumed"})') = Cardinality(InState(b, {"consumed"})) + 1
        /\ Cardinality(InState(b, {"reserved"})') \in Nat
    <2>1. IsFiniteSet(InState(b, {"reserved"})) /\ IsFiniteSet(InState(b, {"consumed"}))
      BY InStateFinite
    <2>2. Cardinality(InState(b, {"reserved"}) \ {o}) = Cardinality(InState(b, {"reserved"})) - 1
      BY <1>2, <2>1, FS_RemoveElement
    <2>3. Cardinality(InState(b, {"consumed"}) \cup {o}) = Cardinality(InState(b, {"consumed"})) + 1
      BY <1>2, <2>1, FS_AddElement
    <2>4. Cardinality(InState(b, {"reserved"}) \ {o}) \in Nat
      BY <2>1, FS_RemoveElement, FS_CardinalityType
    <2>5. QED
      BY <1>2, <2>2, <2>3, <2>4
  <1>5. /\ \A c \in Buckets : /\ reserved[c] = Cardinality(InState(c, {"reserved"}))
                              /\ consumed[c] = Cardinality(InState(c, {"consumed"}))
        /\ reserved[b] >= 1
    BY <1>1, <1>4 DEF BudgetInv, LedgerBalances
  <1>6. /\ reserved'[b] = reserved[b] - 1 /\ consumed'[b] = consumed[b] + 1
        /\ available'[b] = available[b]
        /\ \A c \in Buckets \ {b} : /\ reserved'[c] = reserved[c] /\ consumed'[c] = consumed[c]
                                     /\ available'[c] = available[c]
    BY <1>1, <1>5 DEF BudgetInv, TypeOK, Greatest, Available
  <1>7. TypeOK'
    <2>1. /\ reserved' \in [Buckets -> Nat] /\ consumed' \in [Buckets -> Nat]
          /\ available' \in [Buckets -> Nat]
      BY <1>1, <1>5, <1>6 DEF BudgetInv, TypeOK
    <2>2. decision' \in [Operations -> Decided \cup {"none"}] /\ warned' \subseteq Operations
      BY DEF BudgetInv, TypeOK, Decided
    <2>3. QED
      BY <2>1, <2>2 DEF BudgetInv, TypeOK
  <1>8. LedgerBalances'
    <2> SUFFICES ASSUME NEW c \in Buckets
                 PROVE  /\ reserved'[c] = Cardinality(InState(c, {"reserved"})')
                        /\ consumed'[c] = Cardinality(InState(c, {"consumed"})')
                        /\ available'[c] = grant.hard[c] - reserved'[c] - consumed'[c]
      BY <1>1 DEF LedgerBalances
    <2>1. CASE c = b
      BY <1>1, <1>4, <1>5, <1>6, <2>1
    <2>2. CASE c # b
      BY <1>1, <1>3, <1>5, <1>6, <2>2
    <2>3. QED
      BY <2>1, <2>2
  <1>9. SoftLimitExact'
    <2>1. \A c \in Buckets : reserved'[c] + consumed'[c] = reserved[c] + consumed[c]
      BY <1>1, <1>6
    <2>2. QED
      BY <1>1, <2>1 DEF BudgetInv, SoftLimitExact
  <1>10. WarningGivenOnce'
    <2>1. CASE warn
      BY <2>1 DEF BudgetInv, TypeOK, WarningGivenOnce
    <2>2. CASE ~warn
      BY <2>2 DEF BudgetInv, TypeOK, WarningGivenOnce
    <2>3. QED
      BY <2>1, <2>2
  <1>11. GrantInv'
    BY <1>1 DEF BudgetInv, GrantInv
  <1>12. QED
    BY <1>7, <1>8, <1>9, <1>10, <1>11 DEF BudgetInv

LEMMA BudgetNext == BudgetInv /\ [Next]_vars => BudgetInv'
  <1> SUFFICES ASSUME BudgetInv, [Next]_vars PROVE BudgetInv'
    OBVIOUS
  <1>t. attempt \in Nat /\ 1..attempt \subseteq Nat
    BY DEF BudgetInv, TypeOK
  <1>1. CASE BeginAttempt \/ EndAttempt
    <2>1. attempt' \in Nat
      BY <1>1, <1>t DEF BeginAttempt, EndAttempt
    <2>2. active' \in BOOLEAN
      BY <1>1 DEF BeginAttempt, EndAttempt
    <2>3. QED
      BY <1>1, <2>1, <2>2, BudgetKept DEF BeginAttempt, EndAttempt
  <1>2. ASSUME NEW a \in 1..attempt, NEW p \in Policies, RequestGrant(a, p) PROVE BudgetInv'
    BY <1>2, GrantKeeps
  <1>3. ASSUME NEW a \in 1..attempt, NEW o \in Operations, NEW yes \in BOOLEAN, Reserve(a, o, yes)
        PROVE  BudgetInv'
    <2>1. a \in Nat
      BY <1>t
    <2>2. QED
      BY <1>3, <2>1, DenyKeeps, AllowKeeps DEF Reserve
  <1>4. ASSUME NEW a \in 1..attempt, NEW o \in Operations, NEW yes \in BOOLEAN, Start(a, o, yes)
        PROVE  BudgetInv'
    BY <1>4, StartKeeps
  <1>5. CASE UNCHANGED vars
    <2>1. attempt' \in Nat /\ active' \in BOOLEAN
      BY <1>5 DEF vars, BudgetInv, TypeOK
    <2>2. QED
      BY <1>5, <2>1, BudgetKept DEF vars
  <1>6. QED
    BY <1>1, <1>2, <1>3, <1>4, <1>5 DEF Next

LEMMA BudgetInvariant == Spec => []BudgetInv
  BY BudgetInit, BudgetNext, PTL DEF Spec

(* Every variable of the budget keeps its type; no counter goes negative.  *)
THEOREM BudgetTyping == Spec => []TypeOK
  <1>1. BudgetInv => TypeOK
    BY DEF BudgetInv
  <1>2. QED
    BY <1>1, BudgetInvariant, PTL

(* The ledger's counters are the numbers of reservations they stand for.   *)
THEOREM LedgerIsBalanced == Spec => []LedgerBalances
  <1>1. BudgetInv => LedgerBalances
    BY DEF BudgetInv
  <1>2. QED
    BY <1>1, BudgetInvariant, PTL

(* Over all attempts and retries, no bucket gives out more than its grant. *)
THEOREM HardLimitHolds == Spec => []HardLimit
  <1>1. ASSUME BudgetInv, NEW b \in Buckets
        PROVE  Cardinality(InState(b, {"reserved", "consumed"})) <=
                 IF grant = NoGrant THEN 0 ELSE grant.hard[b]
    <2> DEFINE R == InState(b, {"reserved"})
               C == InState(b, {"consumed"})
    <2>1. InState(b, {"reserved", "consumed"}) = R \cup C /\ R \cap C = {}
      BY <1>1 DEF InState
    <2>2. IsFiniteSet(R) /\ IsFiniteSet(C)
      BY InStateFinite
    <2>3. Cardinality(R \cup C) = Cardinality(R) + Cardinality(C) - Cardinality(R \cap C)
      BY <2>2, FS_Union
    <2>4. Cardinality(R \cap C) = 0
      BY <2>1, FS_EmptySet
    <2>5. reserved[b] = Cardinality(R) /\ consumed[b] = Cardinality(C)
      BY <1>1 DEF BudgetInv, LedgerBalances
    <2>6. Cardinality(InState(b, {"reserved", "consumed"})) = reserved[b] + consumed[b]
      <3>1. Cardinality(R) \in Nat /\ Cardinality(C) \in Nat
        BY InStateFinite
      <3>2. Cardinality(R \cup C) = Cardinality(R) + Cardinality(C)
        BY <2>3, <2>4, <3>1
      <3>3. QED
        BY <2>1, <2>5, <3>2
    <2>7. CASE grant = NoGrant
      BY <1>1, <2>6, <2>7 DEF BudgetInv, GrantInv
    <2>8. CASE grant # NoGrant
      <3>1. /\ grant.hard[b] \in Nat /\ available[b] \in Nat
            /\ available[b] = grant.hard[b] - reserved[b] - consumed[b]
            /\ reserved[b] \in Nat /\ consumed[b] \in Nat
        BY <1>1, <2>8 DEF BudgetInv, TypeOK, LedgerBalances, Policy
      <3>2. QED
        BY <2>6, <2>8, <3>1
    <2>9. QED
      BY <2>7, <2>8
  <1>2. BudgetInv => HardLimit
    BY <1>1 DEF HardLimit
  <1>3. QED
    BY <1>2, BudgetInvariant, PTL

(* A soft limit is signalled once, when it is reached, below the hard one. *)
THEOREM SoftLimitIsExact == Spec => []SoftLimitExact
  <1>1. BudgetInv => SoftLimitExact
    BY DEF BudgetInv
  <1>2. QED
    BY <1>1, BudgetInvariant, PTL

(* One inference, and no other, starts with the soft-limit warning.        *)
THEOREM WarningIsGivenOnce == Spec => []WarningGivenOnce
  <1>1. BudgetInv => WarningGivenOnce
    BY DEF BudgetInv
  <1>2. QED
    BY <1>1, BudgetInvariant, PTL

(* Decisions are never revised and only their own attempt uses them.       *)
THEOREM DecisionsAreDurable == Spec => DecisionIsDurable
  <1> DEFINE Durable == \A o \in Operations :
       /\ decision[o] \in {"denied", "consumed"} => decision'[o] = decision[o]
       /\ decision[o] # "none" => reservedBy'[o] = reservedBy[o]
       /\ decision'[o] = "consumed" /\ decision[o] # "consumed" =>
            decision[o] = "reserved" /\ active /\ reservedBy[o] = attempt
  <1>1. ASSUME TypeOK, [Next]_vars PROVE Durable
    <2>1. CASE UNCHANGED <<decision, reservedBy>>
      BY <2>1
    <2>2. ASSUME NEW a \in 1..attempt, NEW o \in Operations, NEW yes \in BOOLEAN,
                 Reserve(a, o, yes)
          PROVE  Durable
      BY <1>1, <2>2 DEF Reserve, Allow, Deny, TypeOK
    <2>3. ASSUME NEW a \in 1..attempt, NEW o \in Operations, NEW yes \in BOOLEAN,
                 Start(a, o, yes)
          PROVE  Durable
      BY <1>1, <2>3 DEF Start, Admits, ActiveAttempt, TypeOK
    <2>4. QED
      BY <1>1, <2>1, <2>2, <2>3 DEF Next, BeginAttempt, EndAttempt, RequestGrant, vars
  <1>2. QED
    BY <1>1, BudgetTyping, PTL DEF Spec, DecisionIsDurable
=============================================================================
