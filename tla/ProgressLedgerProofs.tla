------------------------ MODULE ProgressLedgerProofs ------------------------
(***************************************************************************)
(* Theorems of ProgressLedger, for any operations, policies and outputs:   *)
(* the projection of the log implements OperationBudget, the worker is not *)
(* refused, and the loop guard has its evidence in the log.                *)
(***************************************************************************)
EXTENDS ProgressLedger, FiniteSetTheorems, SequenceTheorems, WellFoundedInduction, TLAPS

USE LedgerAssumption
-----------------------------------------------------------------------------
(* A set of positions has a first and a last one.                          *)
LEMMA Earliest ==
  ASSUME NEW S \in SUBSET Nat, S # {}
  PROVE  \E x \in S : \A y \in S : x <= y
<1>1. \E x \in S : \A y \in S : ~(<<y, x>> \in OpToRel(<, Nat))
  BY NatLessThanWellFounded, WFMin
<1>2. \A x, y \in Nat : <<y, x>> \notin OpToRel(<, Nat) => x <= y
  BY DEF OpToRel
<1> QED BY <1>1, <1>2

LEMMA MinIsIn ==
  ASSUME NEW n \in Nat, NEW S \in SUBSET (1..n), S # {}
  PROVE  Min(S) \in S
<1>1. \E x \in S : \A y \in S : x =< y
  BY Earliest
<1> QED BY <1>1 DEF Min

LEMMA MaxIsIn ==
  ASSUME NEW n \in Nat, NEW S \in SUBSET (1..n), S # {}
  PROVE  Max(S) \in S
<1> DEFINE T == {n - i : i \in S}
<1>1. \A i \in S : n - i \in Nat
  OBVIOUS
<1>2. T \in SUBSET Nat
  BY <1>1
<1>3. T # {}
  OBVIOUS
<1>4. PICK t \in T : \A y \in T : t <= y
  BY <1>2, <1>3, Earliest
<1>5. PICK i \in S : t = n - i
  OBVIOUS
<1>6. \A j \in S : i >= j
  BY <1>4, <1>5
<1> QED BY <1>6 DEF Max

(* The searches of the guard return a position of what they look for.      *)
LEMMA Searches ==
  ASSUME Len(log) \in Nat
  PROVE  /\ LastToolStart # 0 =>
              LastToolStart \in 1..Len(log) /\ ToolStart(log[LastToolStart])
         /\ \A o : OutputOf(o) # 0 =>
              /\ OutputOf(o) \in 1..Len(log)
              /\ log[OutputOf(o)].kind = "source" /\ log[OutputOf(o)].op = o
         /\ \A a : Signal(a) # 0 =>
              /\ Signal(a) \in 1..Len(log)
              /\ log[Signal(a)].kind = "guard" /\ log[Signal(a)].action = a
         /\ \A o : BlockOf(o) # 0 =>
              /\ BlockOf(o) \in 1..Len(log)
              /\ log[BlockOf(o)].kind = "guard" /\ log[BlockOf(o)].action = "block"
              /\ log[BlockOf(o)].op = o
         /\ \A o : AppliedBy(o) # 0 =>
              /\ AppliedBy(o) \in 1..Len(log)
              /\ log[AppliedBy(o)].kind = "started" /\ log[AppliedBy(o)].op = o
              /\ log[AppliedBy(o)].attempt = attempt
<1>1. \A S \in SUBSET (1..Len(log)) : S # {} => Min(S) \in S /\ Max(S) \in S
  BY MinIsIn, MaxIsIn
<1>2. LastToolStart # 0 => LastToolStart \in 1..Len(log) /\ ToolStart(log[LastToolStart])
  <2> DEFINE S == {i \in 1..Len(log) : ToolStart(log[i])}
  <2>1. LastToolStart = IF S # {} THEN Max(S) ELSE 0
    BY DEF LastToolStart, SelectLastInSeq
  <2>2. S # {} => Max(S) \in S
    BY <1>1
  <2> QED BY <2>1, <2>2
<1>3. ASSUME NEW o
      PROVE  OutputOf(o) # 0 =>
               /\ OutputOf(o) \in 1..Len(log)
               /\ log[OutputOf(o)].kind = "source" /\ log[OutputOf(o)].op = o
  <2> DEFINE S == {i \in 1..Len(log) : log[i].kind = "source" /\ log[i].op = o}
  <2>1. OutputOf(o) = IF S # {} THEN Min(S) ELSE 0
    BY DEF OutputOf, SelectInSeq
  <2>2. S # {} => Min(S) \in S
    BY <1>1
  <2> QED BY <2>1, <2>2
<1>4. ASSUME NEW a
      PROVE  Signal(a) # 0 =>
               /\ Signal(a) \in 1..Len(log)
               /\ log[Signal(a)].kind = "guard" /\ log[Signal(a)].action = a
  <2> DEFINE S == {i \in 1..Len(log) : log[i].kind = "guard" /\ log[i].action = a}
  <2>1. Signal(a) = IF S # {} THEN Min(S) ELSE 0
    BY DEF Signal, SelectInSeq
  <2>2. S # {} => Min(S) \in S
    BY <1>1
  <2> QED BY <2>1, <2>2
<1>5. ASSUME NEW o
      PROVE  BlockOf(o) # 0 =>
               /\ BlockOf(o) \in 1..Len(log)
               /\ log[BlockOf(o)].kind = "guard" /\ log[BlockOf(o)].action = "block"
               /\ log[BlockOf(o)].op = o
  <2> DEFINE S == {i \in 1..Len(log) :
                     log[i].kind = "guard" /\ log[i].action = "block" /\ log[i].op = o}
  <2>1. BlockOf(o) = IF S # {} THEN Min(S) ELSE 0
    BY DEF BlockOf, SelectInSeq
  <2>2. S # {} => Min(S) \in S
    BY <1>1
  <2> QED BY <2>1, <2>2
<1>6. ASSUME NEW o
      PROVE  AppliedBy(o) # 0 =>
               /\ AppliedBy(o) \in 1..Len(log)
               /\ log[AppliedBy(o)].kind = "started" /\ log[AppliedBy(o)].op = o
               /\ log[AppliedBy(o)].attempt = attempt
  <2> DEFINE S == {i \in 1..Len(log) :
                     log[i].kind = "started" /\ log[i].op = o /\ log[i].attempt = attempt}
  <2>1. AppliedBy(o) = IF S # {} THEN Min(S) ELSE 0
    BY DEF AppliedBy, SelectInSeq
  <2>2. S # {} => Min(S) \in S
    BY <1>1
  <2> QED BY <2>1, <2>2
<1> QED BY <1>2, <1>3, <1>4, <1>5, <1>6

(* A transaction adds its events behind the others.                        *)
LEMMA Appending ==
  ASSUME log \in Seq(Event), NEW new \in Seq(Event), log' = log \o new
  PROVE  /\ log' \in Seq(Event) /\ Len(log') = Len(log) + Len(new)
         /\ \A i \in 1..Len(log) : log'[i] = log[i]
         /\ \A i \in 1..Len(new) : log'[Len(log) + i] = new[i]
         /\ \A k \in 1..Len(log') : k \notin 1..Len(log) =>
              k - Len(log) \in 1..Len(new) /\ log'[k] = new[k - Len(log)]
BY ConcatProperties, LenProperties
-----------------------------------------------------------------------------
(* What the projection is made of.                                         *)
Counts  == [Buckets -> Nat]
Counter == [started : Nat, finished : Nat, unfinished : Nat, failed : Nat]
Call    == Operations \cup {NoOp}
Guard   == [detections : Nat, issued : BOOLEAN, warningPending : BOOLEAN, warningApplied : Call,
            blocks : Nat, blockPending : BOOLEAN, lastBlocked : Call, blockApplied : Call,
            terminations : Nat]
Status  == [Operations -> {"none", "reserved", "consumed", "denied"}]
Ledger  == [grant : Policy \cup {NoGrant}, status : Status, by : [Operations -> Nat],
            reserved : Counts, consumed : Counts, available : Counts,
            softReached : [Buckets -> BOOLEAN], warningPending : BOOLEAN, guard : Guard,
            operations : [{"inference", "tool_call"} -> Counter]]

LEMMA RecountFields ==
  ASSUME NEW l \in Ledger, NEW b \in Buckets, NEW r \in Nat, NEW c \in Nat, l.grant \in Policy
  PROVE  LET m    == Recount(l, b, r, c)
             left == l.grant.hard[b] - r - c
         IN  /\ m \in Ledger
             /\ m.grant = l.grant /\ m.status = l.status /\ m.by = l.by
             /\ m.reserved = [l.reserved EXCEPT ![b] = r]
             /\ m.consumed = [l.consumed EXCEPT ![b] = c]
             /\ m.available = [l.available EXCEPT ![b] = IF left < 0 THEN 0 ELSE left]
             /\ m.softReached = l.softReached /\ m.warningPending = l.warningPending
             /\ m.guard = l.guard /\ m.operations = l.operations
<1> DEFINE left == l.grant.hard[b] - r - c
           av   == IF left < 0 THEN 0 ELSE left
           m    == [[[l EXCEPT !.reserved = [l.reserved EXCEPT ![b] = r]]
                       EXCEPT !.consumed = [l.consumed EXCEPT ![b] = c]]
                       EXCEPT !.available = [l.available EXCEPT ![b] = av]]
<1>1. Recount(l, b, r, c) = m
  BY DEF Recount, Ledger
<1>2. left \in Int /\ av \in Nat
  BY DEF Policy
<1> HIDE DEF av
<1>3. m \in Ledger
  BY <1>2 DEF Ledger, Counts
<1> QED BY <1>1, <1>3 DEF Ledger, av

(* The grant.                                                              *)
LEMMA GrantFields ==
  ASSUME NEW l \in Ledger, NEW p \in Policy, l.grant = NoGrant
  PROVE  LET m == ApplyEvent(l, [kind |-> "grant", policy |-> p])
         IN  /\ m \in Ledger /\ m.grant = p /\ m.available = p.hard
             /\ m.status = l.status /\ m.by = l.by
             /\ m.reserved = l.reserved /\ m.consumed = l.consumed
             /\ m.softReached = l.softReached /\ m.warningPending = l.warningPending
             /\ m.guard = l.guard
<1> DEFINE m == [[l EXCEPT !.grant = p] EXCEPT !.available = p.hard]
<1>1. ApplyEvent(l, [kind |-> "grant", policy |-> p]) = m
  BY DEF ApplyEvent, ApplyBudgetEvent
<1>2. m \in Ledger
  BY DEF Ledger, Policy, Counts
<1> QED BY <1>1, <1>2 DEF Ledger

(* A new reservation.                                                      *)
LEMMA ReservationFields ==
  ASSUME NEW l \in Ledger, NEW o \in Operations, NEW a \in Nat, NEW g \in BOOLEAN,
         l.grant \in Policy, l.status[o] = "none"
  PROVE  LET b    == o.bucket
             left == l.grant.hard[b] - (l.reserved[b] + 1) - l.consumed[b]
             m    == ApplyEvent(l, [kind |-> "reservation", op |-> o, attempt |-> a, granted |-> g])
         IN  /\ m \in Ledger /\ m.grant = l.grant
             /\ m.status = [l.status EXCEPT ![o] = IF g THEN "reserved" ELSE "denied"]
             /\ m.by = [l.by EXCEPT ![o] = a]
             /\ m.consumed = l.consumed
             /\ m.reserved = IF g THEN [l.reserved EXCEPT ![b] = @ + 1] ELSE l.reserved
             /\ m.available = IF g THEN [l.available EXCEPT ![b] = IF left < 0 THEN 0 ELSE left]
                                   ELSE l.available
             /\ m.softReached = l.softReached /\ m.warningPending = l.warningPending
             /\ m.guard = l.guard
<1> DEFINE b    == o.bucket
           seen == [[l EXCEPT !.status = [l.status EXCEPT ![o] = IF g THEN "reserved" ELSE "denied"]]
                       EXCEPT !.by = [l.by EXCEPT ![o] = a]]
           e    == [kind |-> "reservation", op |-> o, attempt |-> a, granted |-> g]
<1>1. b \in Buckets /\ l.reserved[b] \in Nat /\ l.consumed[b] \in Nat
  BY DEF Ledger, Counts
<1>2. seen \in Ledger
  BY DEF Ledger, Status
<1>3. /\ seen.grant = l.grant /\ seen.reserved = l.reserved /\ seen.consumed = l.consumed
      /\ seen.available = l.available /\ seen.softReached = l.softReached
      /\ seen.warningPending = l.warningPending /\ seen.guard = l.guard
      /\ seen.status = [l.status EXCEPT ![o] = IF g THEN "reserved" ELSE "denied"]
      /\ seen.by = [l.by EXCEPT ![o] = a]
  BY DEF Ledger
<1>4. ApplyEvent(l, e) = IF g THEN Recount(seen, b, l.reserved[b] + 1, l.consumed[b]) ELSE seen
  BY DEF ApplyEvent, ApplyBudgetEvent, OnReservation, Ledger
<1>5. [l.consumed EXCEPT ![b] = l.consumed[b]] = l.consumed
  BY <1>1 DEF Ledger, Counts
<1> HIDE DEF seen, e
<1>6. CASE g
  <2> DEFINE m == Recount(seen, b, l.reserved[b] + 1, l.consumed[b])
  <2>1. ApplyEvent(l, e) = m
    BY <1>4, <1>6
  <2>2. l.reserved[b] + 1 \in Nat /\ seen.grant \in Policy
    BY <1>1, <1>3
  <2>3. /\ m \in Ledger
        /\ m.grant = seen.grant /\ m.status = seen.status /\ m.by = seen.by
        /\ m.reserved = [seen.reserved EXCEPT ![b] = l.reserved[b] + 1]
        /\ m.consumed = [seen.consumed EXCEPT ![b] = l.consumed[b]]
        /\ m.available = [seen.available EXCEPT ![b] =
             IF seen.grant.hard[b] - (l.reserved[b] + 1) - l.consumed[b] < 0 THEN 0
             ELSE seen.grant.hard[b] - (l.reserved[b] + 1) - l.consumed[b]]
        /\ m.softReached = seen.softReached /\ m.warningPending = seen.warningPending
        /\ m.guard = seen.guard
    BY <1>1, <1>2, <2>2, RecountFields, SMTT(30)
  <2> HIDE DEF m
  <2> QED BY <1>3, <1>5, <1>6, <2>1, <2>3, SMTT(30) DEF e
<1>7. CASE ~g
  BY <1>2, <1>3, <1>4, <1>7 DEF e
<1> QED BY <1>6, <1>7

(* The soft limit of the bucket of o is reached.                           *)
LEMMA SoftLimitFields ==
  ASSUME NEW l \in Ledger, NEW o \in Operations, ~l.softReached[o.bucket]
  PROVE  LET m == ApplyEvent(l, [kind |-> "soft_limit", op |-> o])
         IN  /\ m \in Ledger
             /\ m.grant = l.grant /\ m.status = l.status /\ m.by = l.by
             /\ m.reserved = l.reserved /\ m.consumed = l.consumed /\ m.available = l.available
             /\ m.softReached = [l.softReached EXCEPT ![o.bucket] = TRUE]
             /\ m.warningPending = (l.warningPending \/ o.bucket = "normal")
             /\ m.guard = l.guard
<1> DEFINE reached == [l.softReached EXCEPT ![o.bucket] = TRUE]
           due     == l.warningPending \/ o.bucket = "normal"
           m       == [[l EXCEPT !.softReached = reached] EXCEPT !.warningPending = due]
<1>1. ApplyEvent(l, [kind |-> "soft_limit", op |-> o]) = m
  BY DEF ApplyEvent, ApplyBudgetEvent, OnSoftLimit, Ledger
<1>2. reached \in [Buckets -> BOOLEAN] /\ due \in BOOLEAN
  BY DEF Ledger
<1> HIDE DEF due, reached
<1>3. m \in Ledger /\ m.softReached = reached /\ m.warningPending = due
  BY <1>2 DEF Ledger
<1>4. /\ m.grant = l.grant /\ m.status = l.status /\ m.by = l.by
      /\ m.reserved = l.reserved /\ m.consumed = l.consumed /\ m.available = l.available
      /\ m.guard = l.guard
  BY DEF Ledger
<1> QED BY <1>1, <1>3, <1>4 DEF due, reached

(* A signal of the guard is of no concern to the budget, and applies       *)
(* nothing.                                                                *)
LEMMA SignalFields ==
  ASSUME NEW l \in Ledger, NEW e, e.kind = "guard", e.op \in Operations,
         e.action \in {"warn", "block", "terminate"}
  PROVE  LET m == ApplyEvent(l, e)
         IN  /\ m \in Ledger
             /\ m.grant = l.grant /\ m.status = l.status /\ m.by = l.by
             /\ m.reserved = l.reserved /\ m.consumed = l.consumed /\ m.available = l.available
             /\ m.softReached = l.softReached /\ m.warningPending = l.warningPending
             /\ m.guard.warningApplied = l.guard.warningApplied
             /\ m.guard.blockApplied = l.guard.blockApplied
<1> DEFINE g == l.guard
           h == OnGuard(l, e).guard
<1>1. g \in Guard
  BY DEF Ledger
<1>2. \E k \in Guard : /\ OnGuard(l, e) = [l EXCEPT !.guard = k]
                       /\ k.warningApplied = g.warningApplied /\ k.blockApplied = g.blockApplied
  <2>1. CASE e.action = "warn"
    <3> DEFINE k == IF g.issued THEN g
                    ELSE [g EXCEPT !.detections = 1, !.issued = TRUE, !.warningPending = TRUE]
    <3>1. k \in Guard /\ k.warningApplied = g.warningApplied /\ k.blockApplied = g.blockApplied
      BY <1>1 DEF Guard
    <3>2. OnGuard(l, e) = [l EXCEPT !.guard = k]
      BY <2>1 DEF OnGuard
    <3> QED BY <3>1, <3>2
  <2>2. CASE e.action # "warn" /\ g.warningApplied = NoOp
    <3>1. OnGuard(l, e) = [l EXCEPT !.guard = g]
      BY <2>2 DEF OnGuard
    <3> QED BY <1>1, <3>1
  <2>3. CASE e.action = "block" /\ g.warningApplied # NoOp
    <3> DEFINE n == g.detections + 1
               b == g.blocks + 1
               k == [g EXCEPT !.detections = n, !.blocks = b, !.blockPending = TRUE,
                              !.lastBlocked = e.op]
    <3>1. n \in Nat /\ b \in Nat /\ e.op \in Call
      BY <1>1 DEF Guard, Call
    <3>2. OnGuard(l, e) = [l EXCEPT !.guard = k]
      BY <2>3 DEF OnGuard
    <3> HIDE DEF n, b
    <3>3. k \in Guard /\ k.warningApplied = g.warningApplied /\ k.blockApplied = g.blockApplied
      BY <1>1, <3>1 DEF Guard
    <3> QED BY <3>2, <3>3
  <2>4. CASE e.action = "terminate" /\ g.warningApplied # NoOp
    <3> DEFINE d == g.detections + 1
               n == IF g.blockApplied = NoOp THEN g.terminations ELSE g.terminations + 1
               k == [g EXCEPT !.detections = d, !.terminations = n]
    <3>1. n \in Nat /\ d \in Nat
      BY <1>1 DEF Guard
    <3>2. OnGuard(l, e) = [l EXCEPT !.guard = k]
      BY <1>1, <2>4 DEF OnGuard, Guard
    <3> HIDE DEF d, n
    <3>3. k \in Guard /\ k.warningApplied = g.warningApplied /\ k.blockApplied = g.blockApplied
      BY <1>1, <3>1 DEF Guard
    <3> QED BY <3>2, <3>3
  <2> QED BY <2>1, <2>2, <2>3, <2>4
<1>3. PICK k \in Guard : /\ OnGuard(l, e) = [l EXCEPT !.guard = k]
                        /\ k.warningApplied = g.warningApplied /\ k.blockApplied = g.blockApplied
  BY <1>2
<1>4. ApplyEvent(l, e) = [l EXCEPT !.guard = k]
  BY <1>3 DEF ApplyEvent, ApplyBudgetEvent
<1>5. [l EXCEPT !.guard = k] \in Ledger /\ [l EXCEPT !.guard = k].guard = k
  BY <1>3 DEF Ledger
<1>6. LET m == [l EXCEPT !.guard = k]
      IN  /\ m.grant = l.grant /\ m.status = l.status /\ m.by = l.by
          /\ m.reserved = l.reserved /\ m.consumed = l.consumed /\ m.available = l.available
          /\ m.softReached = l.softReached /\ m.warningPending = l.warningPending
  BY DEF Ledger
<1> QED BY <1>3, <1>4, <1>5, <1>6

(* The counters of operations are of no concern to the budget.             *)
LEMMA CountFields ==
  ASSUME NEW l \in Ledger, NEW k \in {"inference", "tool_call"}, NEW c \in Counter
  PROVE  LET m == [l EXCEPT !.operations[k] = c]
         IN  /\ m \in Ledger
             /\ m.grant = l.grant /\ m.status = l.status /\ m.by = l.by
             /\ m.reserved = l.reserved /\ m.consumed = l.consumed /\ m.available = l.available
             /\ m.softReached = l.softReached /\ m.warningPending = l.warningPending
             /\ m.guard = l.guard
<1> DEFINE n == [l.operations EXCEPT ![k] = c]
           m == [l EXCEPT !.operations = n]
<1>1. n \in [{"inference", "tool_call"} -> Counter]
  BY DEF Ledger
<1> HIDE DEF n
<1>2. m \in Ledger
  BY <1>1 DEF Ledger
<1>3. /\ m.grant = l.grant /\ m.status = l.status /\ m.by = l.by
      /\ m.reserved = l.reserved /\ m.consumed = l.consumed /\ m.available = l.available
      /\ m.softReached = l.softReached /\ m.warningPending = l.warningPending
      /\ m.guard = l.guard
  BY DEF Ledger
<1> QED BY <1>2, <1>3 DEF n

(* The end of an operation.                                                *)
LEMMA FinishFields ==
  ASSUME NEW l \in Ledger, NEW o \in Operations, NEW ok \in BOOLEAN
  PROVE  LET m == ApplyEvent(l, [kind |-> "finished", op |-> o, ok |-> ok])
         IN  /\ m \in Ledger
             /\ m.grant = l.grant /\ m.status = l.status /\ m.by = l.by
             /\ m.reserved = l.reserved /\ m.consumed = l.consumed /\ m.available = l.available
             /\ m.softReached = l.softReached /\ m.warningPending = l.warningPending
             /\ m.guard = l.guard
<1> DEFINE k == IF o.bucket = "tool" THEN "tool_call" ELSE "inference"
           d == l.operations[k]
           c == RecordFinished(d, ~ok)
           e == [kind |-> "finished", op |-> o, ok |-> ok]
<1>1. d \in Counter /\ k \in {"inference", "tool_call"}
  BY DEF Ledger
<1>2. ApplyEvent(l, e) = IF l.status[o] # "consumed" THEN l ELSE [l EXCEPT !.operations[k] = c]
  BY DEF ApplyEvent
<1> HIDE DEF d, k, e
<1>3. c \in Counter
  <2> DEFINE n == d.finished + 1
             u == IF d.unfinished = 0 THEN 0 ELSE d.unfinished - 1
             f == IF ~ok THEN d.failed + 1 ELSE d.failed
  <2>1. n \in Nat /\ u \in Nat /\ f \in Nat
    BY <1>1 DEF Counter
  <2>2. c = [d EXCEPT !.finished = n, !.unfinished = u, !.failed = f]
    BY <1>1 DEF RecordFinished, Counter
  <2> HIDE DEF n, u, f
  <2> QED BY <1>1, <2>1, <2>2 DEF Counter
<1> HIDE DEF c
<1>4. CASE l.status[o] = "consumed"
  <2> DEFINE m == [l EXCEPT !.operations[k] = c]
  <2>1. /\ m \in Ledger
        /\ m.grant = l.grant /\ m.status = l.status /\ m.by = l.by
        /\ m.reserved = l.reserved /\ m.consumed = l.consumed /\ m.available = l.available
        /\ m.softReached = l.softReached /\ m.warningPending = l.warningPending
        /\ m.guard = l.guard
    BY <1>1, <1>3, CountFields
  <2> HIDE DEF m
  <2>2. ApplyEvent(l, e) = m
    BY <1>2, <1>4 DEF m
  <2> QED BY <2>1, <2>2 DEF e
<1>5. CASE l.status[o] # "consumed"
  BY <1>2, <1>5 DEF e
<1> QED BY <1>4, <1>5

(* The start of an operation consumes its reservation, and an inference    *)
(* applies what was pending of the guard's, as its event tells.            *)
LEMMA StartFields ==
  ASSUME NEW l \in Ledger, NEW o \in Operations, NEW a \in Nat,
         NEW w \in BOOLEAN, NEW gw \in BOOLEAN, NEW bs \in BOOLEAN,
         l.grant \in Policy, l.status[o] = "reserved"
  PROVE  LET b    == o.bucket
             r    == IF l.reserved[b] = 0 THEN 0 ELSE l.reserved[b] - 1
             left == l.grant.hard[b] - r - (l.consumed[b] + 1)
             m    == ApplyEvent(l, [kind |-> "started", op |-> o, attempt |-> a, warned |-> w,
                                    guardWarned |-> gw, blockShown |-> bs])
         IN  /\ m \in Ledger /\ m.grant = l.grant
             /\ m.status = [l.status EXCEPT ![o] = "consumed"] /\ m.by = l.by
             /\ m.reserved = [l.reserved EXCEPT ![b] = r]
             /\ m.consumed = [l.consumed EXCEPT ![b] = l.consumed[b] + 1]
             /\ m.available = [l.available EXCEPT ![b] = IF left < 0 THEN 0 ELSE left]
             /\ m.softReached = l.softReached
             /\ m.warningPending = (l.warningPending /\ ~(b = "normal" /\ w))
             /\ \/ m.guard.warningApplied = l.guard.warningApplied
                \/ m.guard.warningApplied = o /\ gw
             /\ \/ m.guard.blockApplied = l.guard.blockApplied
                \/ m.guard.blockApplied = o /\ bs
<1> DEFINE b    == o.bucket
           r    == IF l.reserved[b] = 0 THEN 0 ELSE l.reserved[b] - 1
           c    == l.consumed[b] + 1
           g    == l.guard
           base == [l EXCEPT !.status[o] = "consumed"]
           used == Recount(base, b, r, c)
           due  == used.warningPending /\ ~(b = "normal" /\ w)
           e    == [kind |-> "started", op |-> o, attempt |-> a, warned |-> w,
                    guardWarned |-> gw, blockShown |-> bs]
           applies == b = "normal" /\ gw /\ g.warningPending
           shows   == b = "normal" /\ bs /\ g.blockPending
           wp == used.guard.warningPending /\ ~applies
           wa == IF applies THEN o ELSE used.guard.warningApplied
           bp == used.guard.blockPending /\ ~shows
           ba == IF shows THEN o ELSE used.guard.blockApplied
           h  == [used.guard EXCEPT !.warningPending = wp, !.warningApplied = wa,
                                    !.blockPending = bp, !.blockApplied = ba]
           m  == [used EXCEPT !.warningPending = due, !.guard = h]
           k  == IF b = "tool" THEN "tool_call" ELSE "inference"
<1>1. b \in Buckets /\ r \in Nat /\ c \in Nat
  BY DEF Ledger, Counts
<1>2. /\ base \in Ledger /\ base.status = [l.status EXCEPT ![o] = "consumed"]
      /\ base.grant = l.grant /\ base.by = l.by
      /\ base.reserved = l.reserved /\ base.consumed = l.consumed /\ base.available = l.available
      /\ base.softReached = l.softReached /\ base.warningPending = l.warningPending
      /\ base.guard = g
  BY SMTT(30) DEF Ledger, Status
<1>3. /\ used \in Ledger
      /\ used.grant = base.grant /\ used.status = base.status /\ used.by = base.by
      /\ used.reserved = [base.reserved EXCEPT ![b] = r]
      /\ used.consumed = [base.consumed EXCEPT ![b] = c]
      /\ used.available = [base.available EXCEPT ![b] =
           IF base.grant.hard[b] - r - c < 0 THEN 0 ELSE base.grant.hard[b] - r - c]
      /\ used.softReached = base.softReached /\ used.warningPending = base.warningPending
      /\ used.guard = base.guard
  <2> HIDE DEF base, r, c, b
  <2>1. base.grant \in Policy
    BY <1>2, SMTT(30)
  <2> QED BY <1>1, <1>2, <2>1, RecountFields, SMTT(30)
<1>4. OnStarted(l, e) = [used EXCEPT !.warningPending = due,
                                     !.guard.warningPending = wp, !.guard.warningApplied = wa,
                                     !.guard.blockPending = bp, !.guard.blockApplied = ba]
  BY DEF OnStarted
<1> HIDE DEF used
<1>5. OnStarted(l, e) = m
  BY <1>3, <1>4 DEF Ledger
<1>6. g \in Guard /\ wp \in BOOLEAN /\ bp \in BOOLEAN /\ wa \in Call /\ ba \in Call
      /\ due \in BOOLEAN
  BY <1>2, <1>3 DEF Ledger, Guard, Call
<1>7. used.guard = g
  BY <1>2, <1>3
<1>8. /\ wa = g.warningApplied \/ (wa = o /\ gw)
      /\ ba = g.blockApplied \/ (ba = o /\ bs)
  BY <1>7
<1>9. due = (l.warningPending /\ ~(b = "normal" /\ w))
  BY <1>2, <1>3
<1> HIDE DEF due, wp, wa, bp, ba, base, r, c, b, g, k
<1>10. h \in Guard /\ h.warningApplied = wa /\ h.blockApplied = ba
  BY <1>6, <1>7 DEF Guard
<1> HIDE DEF h
<1>11. /\ m \in Ledger
       /\ m.grant = used.grant /\ m.status = used.status /\ m.by = used.by
       /\ m.reserved = used.reserved /\ m.consumed = used.consumed
       /\ m.available = used.available /\ m.softReached = used.softReached
       /\ m.warningPending = due /\ m.guard = h
  BY <1>3, <1>6, <1>10 DEF Ledger
<1> HIDE DEF m
<1> DEFINE n == RecordStarted(m.operations[k])
<1>12. k \in {"inference", "tool_call"}
  BY DEF k
<1>13. n \in Counter
  <2>1. m.operations[k] \in Counter
    BY <1>11, <1>12 DEF Ledger
  <2> DEFINE s == m.operations[k].started + 1
             u == m.operations[k].unfinished + 1
  <2>2. s \in Nat /\ u \in Nat
    BY <2>1 DEF Counter
  <2>3. n = [m.operations[k] EXCEPT !.started = s, !.unfinished = u]
    BY DEF RecordStarted
  <2> HIDE DEF s, u
  <2> QED BY <2>1, <2>2, <2>3 DEF Counter
<1>14. ApplyEvent(l, e) = [m EXCEPT !.operations[k] = n]
  BY <1>5 DEF ApplyEvent, k, b
<1> DEFINE z == [m EXCEPT !.operations[k] = n]
<1> HIDE DEF n
<1>15. /\ z \in Ledger
       /\ z.grant = m.grant /\ z.status = m.status /\ z.by = m.by
       /\ z.reserved = m.reserved /\ z.consumed = m.consumed /\ z.available = m.available
       /\ z.softReached = m.softReached /\ z.warningPending = m.warningPending
       /\ z.guard = m.guard
  BY <1>11, <1>12, <1>13, CountFields
<1>16. ApplyEvent(l, e) = z
  BY <1>14
<1> HIDE DEF z, e
<1>17. /\ z \in Ledger /\ z.grant = l.grant
       /\ z.status = [l.status EXCEPT ![o] = "consumed"] /\ z.by = l.by
       /\ z.reserved = [l.reserved EXCEPT ![b] = r]
       /\ z.consumed = [l.consumed EXCEPT ![b] = c]
       /\ z.available = [l.available EXCEPT ![b] =
            IF l.grant.hard[b] - r - c < 0 THEN 0 ELSE l.grant.hard[b] - r - c]
       /\ z.softReached = l.softReached /\ z.warningPending = due
       /\ z.guard.warningApplied = wa /\ z.guard.blockApplied = ba
  BY <1>2, <1>3, <1>10, <1>11, <1>15
<1> QED BY <1>8, <1>9, <1>16, <1>17 DEF b, r, c, g, e
-----------------------------------------------------------------------------
(* The invariant.  The types, and no step past "idle" without a grant.     *)
TypeInv ==
  /\ attempt \in Nat /\ active \in BOOLEAN /\ (active => attempt # 0)
  /\ log \in Seq(Event) /\ ledger \in Ledger
  /\ current \in Call /\ (current = NoOp <=> step \in {"idle", "granted"})
  /\ step \in {"idle", "granted", "reserving", "reserved", "started"}
  /\ (step # "idle" => ledger.grant # NoGrant)

(* What the worker holds was decided in its attempt, and what it was told  *)
(* is what is due.                                                         *)
WorkerInv ==
  /\ ~refused
  /\ step \in {"reserving", "reserved"} =>
       ledger.by[current] = attempt /\ ledger.status[current] # "none"
  /\ step = "reserved" => ledger.status[current] = "reserved" /\ told = Snapshot(ledger)

(* An operation starts once, and what the guard counts as applied was      *)
(* applied by the inference it names.                                      *)
StartInv ==
  /\ \A i \in 1..Len(log) : log[i].kind = "started" => ledger.status[log[i].op] = "consumed"
  /\ \A i, j \in 1..Len(log) :
       log[i].kind = "started" /\ log[j].kind = "started" /\ log[i].op = log[j].op => i = j
  /\ step = "started" => \E i \in 1..Len(log) : log[i].kind = "started" /\ log[i].op = current
  /\ ledger.guard.warningApplied # NoOp =>
       \E i \in 1..Len(log) :
         /\ log[i].kind = "started" /\ log[i].op = ledger.guard.warningApplied
         /\ log[i].guardWarned
  /\ ledger.guard.blockApplied # NoOp =>
       \E i \in 1..Len(log) :
         /\ log[i].kind = "started" /\ log[i].op = ledger.guard.blockApplied
         /\ log[i].blockShown

(* The evidence of an event among the first n of the log l.                *)
StartedIn(l, s, o, a) == l[s].kind = "started" /\ l[s].op = o /\ l[s].attempt = a

Repeats(l, e, i, j, w) ==
  /\ i < j /\ j < w
  /\ {l[i].kind, l[j].kind} = {"source"} /\ l[i].hash = l[j].hash
  /\ {l[i].op.print, l[j].op.print} = {e.op.print}
  /\ \A k \in {i, j} : \E s \in 1..(k - 1) : StartedIn(l, s, l[k].op, e.attempt)
  /\ l[w].kind = "started" /\ l[w].guardWarned /\ l[w].attempt = e.attempt

Announced(l, e, b, w) ==
  /\ b < w
  /\ l[b].kind = "guard" /\ l[b].action = "block" /\ l[b].attempt = e.attempt
  /\ l[b].op.print = e.op.print
  /\ l[w].kind = "started" /\ l[w].blockShown /\ l[w].attempt = e.attempt

Evident(l, e, n) ==
  /\ e.kind = "source" => \E s \in 1..n : l[s].kind = "started" /\ l[s].op = e.op
  /\ e.kind = "guard" /\ e.action = "warn" =>
       /\ e.prev # e.op /\ e.prev.print = e.op.print
       /\ \E s \in 1..n : StartedIn(l, s, e.prev, e.attempt)
  /\ e.kind = "guard" /\ e.action = "block" => \E i, j, w \in 1..n : Repeats(l, e, i, j, w)
  /\ e.kind = "guard" /\ e.action = "terminate" => \E b, w \in 1..n : Announced(l, e, b, w)

LogInv == \A k \in 1..Len(log) : Evident(log, log[k], k - 1)

Inv == TypeInv /\ WorkerInv /\ StartInv /\ LogInv
-----------------------------------------------------------------------------
(* A transaction of one event.                                             *)
LEMMA AppendOne ==
  ASSUME TypeInv, NEW e \in Event, AppendEvents(<<e>>)
  PROVE  ledger' = ApplyEvent(ledger, e) /\ log' = log \o <<e>>
BY DEF AppendEvents, Then

(* The sequences of events that a reservation may append.                  *)
LEMMA Tuples ==
  ASSUME NEW x, NEW y, NEW z
  PROVE  /\ <<x>> \o <<>> \o <<>> = <<x>>
         /\ <<x>> \o <<y>> \o <<>> = <<x, y>>
         /\ <<x>> \o <<>> \o <<z>> = <<x, z>>
         /\ <<x>> \o <<y>> \o <<z>> = <<x, y, z>>
<1> DEFINE S == {x, y, z}
<1>1. <<x>> \in Seq(S) /\ <<y>> \in Seq(S) /\ <<z>> \in Seq(S) /\ <<>> \in Seq(S)
  OBVIOUS
<1>2. <<x, y>> \in Seq(S) /\ <<x, z>> \in Seq(S) /\ <<x, y, z>> \in Seq(S)
  OBVIOUS
<1>3. <<x>> \o <<>> = <<x>> /\ <<x, y>> \o <<>> = <<x, y>>
  BY <1>1, <1>2, ConcatEmptySeq
<1>4. ASSUME NEW u \in S, NEW v \in S
      PROVE  <<u>> \o <<v>> = <<u, v>>
  <2>1. <<u>> \in Seq(S) /\ <<v>> \in Seq(S) /\ <<u, v>> \in Seq(S)
    OBVIOUS
  <2>2. /\ Len(<<u>> \o <<v>>) = 2 /\ <<u>> \o <<v>> \in Seq(S)
        /\ (<<u>> \o <<v>>)[1] = u /\ (<<u>> \o <<v>>)[2] = v
    BY <2>1, ConcatProperties
  <2>3. \A i \in 1..2 : (<<u>> \o <<v>>)[i] = <<u, v>>[i]
    BY <2>2
  <2> QED BY <2>1, <2>2, <2>3, SeqEqual
<1>5. <<x, y>> \o <<z>> = <<x, y, z>>
  <2>1. /\ Len(<<x, y>> \o <<z>>) = 3 /\ <<x, y>> \o <<z>> \in Seq(S)
        /\ (<<x, y>> \o <<z>>)[1] = x /\ (<<x, y>> \o <<z>>)[2] = y
        /\ (<<x, y>> \o <<z>>)[3] = z
    BY <1>1, <1>2, ConcatProperties
  <2>2. \A i \in 1..3 : (<<x, y>> \o <<z>>)[i] = <<x, y, z>>[i]
    BY <2>1
  <2> QED BY <1>2, <2>1, <2>2, SeqEqual
<1> QED BY <1>3, <1>4, <1>5

(* The signal that goes with a reservation names a call of the log.        *)
SignalOf(action, o) ==
  [kind |-> "guard", action |-> action, op |-> o, attempt |-> attempt,
   prev |-> IF action = "terminate" THEN log[BlockOf(ledger.guard.lastBlocked)].prev
            ELSE log[LastToolStart].op]

LEMMA SignalTypes ==
  ASSUME TypeInv, NEW o \in Operations, GuardAction(ledger.guard, o) # "none"
  PROVE  LET action == GuardAction(ledger.guard, o)
         IN  /\ o.bucket = "tool" /\ action \in {"warn", "block", "terminate"}
             /\ SignalOf(action, o) \in Event
             /\ action = "warn"  => Warns(ledger.guard, o)
             /\ action = "block" => Blocks(ledger.guard, o)
             /\ action = "terminate" => Terminates(ledger.guard, o)
<1> DEFINE action == GuardAction(ledger.guard, o)
<1>1. /\ o.bucket = "tool" /\ action \in {"warn", "block", "terminate"}
      /\ action = "warn"  => Warns(ledger.guard, o)
      /\ action = "block" => Blocks(ledger.guard, o)
      /\ action = "terminate" => Terminates(ledger.guard, o)
  BY DEF GuardAction
<1> HIDE DEF action
<1>2. Len(log) \in Nat /\ \A i \in 1..Len(log) : log[i] \in Event
  BY ElementOfSeq, LenProperties DEF TypeInv
<1>3. CASE action = "terminate"
  <2> DEFINE b == BlockOf(ledger.guard.lastBlocked)
  <2>1. b # 0
    BY <1>1, <1>3 DEF Terminates
  <2>2. log[b] \in Event /\ log[b].kind = "guard"
    BY <1>2, <2>1, Searches
  <2> HIDE DEF b
  <2>3. log[b].prev \in Operations
    BY <2>2 DEF Event
  <2>4. SignalOf(action, o) = [kind |-> "guard", action |-> action, op |-> o, attempt |-> attempt,
                               prev |-> log[b].prev]
    BY <1>3 DEF SignalOf, b
  <2> QED BY <1>1, <2>3, <2>4 DEF Event, TypeInv, action
<1>4. CASE action # "terminate"
  <2> DEFINE s == LastToolStart
  <2>1. s # 0
    BY <1>1, <1>4 DEF Warns, Blocks, SameTool
  <2>2. log[s] \in Event /\ log[s].kind = "started"
    BY <1>2, <2>1, Searches DEF ToolStart
  <2> HIDE DEF s
  <2>3. log[s].op \in Operations
    BY <2>2 DEF Event
  <2>4. SignalOf(action, o) = [kind |-> "guard", action |-> action, op |-> o, attempt |-> attempt,
                               prev |-> log[s].op]
    BY <1>4 DEF SignalOf, s
  <2> QED BY <1>1, <2>3, <2>4 DEF Event, TypeInv, action
<1> QED BY <1>1, <1>3, <1>4 DEF action

(* What a new reservation appends, and what becomes of the projection.     *)
Reserved(o, granted, crosses, action) ==
  LET b    == o.bucket
      left == ledger.grant.hard[b] - (ledger.reserved[b] + 1) - ledger.consumed[b]
      new  == ReservationEvents(o)
  IN  /\ granted <=> ledger.available[b] > 0 /\ action \in {"none", "warn"}
      /\ action # "none" =>
           b = "tool" /\ ledger.available[b] > 0 /\ action = GuardAction(ledger.guard, o)
      /\ crosses <=> granted /\ CrossesSoftLimit(b)
      /\ new \in Seq(Event)
      /\ {i \in 1..Len(new) : new[i].kind = "soft_limit"} = IF crosses THEN {2} ELSE {}
      /\ crosses => new[2].op = o
      /\ \A i \in 1..Len(new) : \/ new[i].kind \in {"reservation", "soft_limit"}
                                \/ action # "none" /\ new[i] = SignalOf(action, o)
      /\ ledger' \in Ledger /\ ledger'.grant = ledger.grant
      /\ ledger'.status = [ledger.status EXCEPT ![o] = IF granted THEN "reserved" ELSE "denied"]
      /\ ledger'.by = [ledger.by EXCEPT ![o] = attempt]
      /\ ledger'.consumed = ledger.consumed
      /\ ledger'.reserved = IF granted THEN [ledger.reserved EXCEPT ![b] = @ + 1]
                            ELSE ledger.reserved
      /\ ledger'.available = IF granted
                             THEN [ledger.available EXCEPT ![b] = IF left < 0 THEN 0 ELSE left]
                             ELSE ledger.available
      /\ ledger'.softReached = IF crosses THEN [ledger.softReached EXCEPT ![b] = TRUE]
                               ELSE ledger.softReached
      /\ ledger'.warningPending = (ledger.warningPending \/ (crosses /\ b = "normal"))
      /\ ledger'.guard.warningApplied = ledger.guard.warningApplied
      /\ ledger'.guard.blockApplied = ledger.guard.blockApplied

LEMMA ReserveEffect ==
  ASSUME TypeInv, NEW o \in Operations, ledger.grant # NoGrant, Unasked(o),
         AppendEvents(ReservationEvents(o))
  PROVE  \E granted, crosses \in BOOLEAN, action \in {"none", "warn", "block", "terminate"} :
           Reserved(o, granted, crosses, action)
<1> DEFINE b       == o.bucket
           left    == ledger.grant.hard[b] - (ledger.reserved[b] + 1) - ledger.consumed[b]
           new     == ReservationEvents(o)
           funds   == ledger.available[b] > 0
           action  == IF funds THEN GuardAction(ledger.guard, o) ELSE "none"
           granted == funds /\ action \in {"none", "warn"}
           crosses == granted /\ CrossesSoftLimit(b)
           E1      == [kind |-> "reservation", op |-> o, attempt |-> attempt, granted |-> granted]
           E2      == [kind |-> "soft_limit", op |-> o]
           E3      == SignalOf(action, o)
           L1      == ApplyEvent(ledger, E1)
           L2      == IF crosses THEN ApplyEvent(L1, E2) ELSE L1
           L3      == IF action # "none" THEN ApplyEvent(L2, E3) ELSE L2
<1>1. /\ ledger \in Ledger /\ attempt \in Nat /\ ledger.grant \in Policy /\ b \in Buckets
      /\ ledger.status[o] = "none"
  BY DEF TypeInv, Ledger, Unasked
<1>2. /\ granted \in BOOLEAN /\ crosses \in BOOLEAN
      /\ action # "none" => funds /\ action = GuardAction(ledger.guard, o)
  BY DEF CrossesSoftLimit
<1>3. /\ action # "none" => E3 \in Event /\ b = "tool"
      /\ action \in {"none", "warn", "block", "terminate"}
  BY SignalTypes
<1>4. E1 \in Event /\ E2 \in Event
  BY <1>1, <1>2 DEF Event
<1>5. new = <<E1>> \o (IF crosses THEN <<E2>> ELSE <<>>) \o (IF action = "none" THEN <<>> ELSE <<E3>>)
  BY DEF ReservationEvents, SignalOf
<1> HIDE DEF E3
<1>6. /\ E1.kind = "reservation" /\ E2.kind = "soft_limit" /\ E2.op = o
      /\ E3.kind = "guard" /\ E3.op = o /\ E3.action = action
  BY DEF E3, SignalOf
<1>7. /\ L1 \in Ledger /\ L1.grant = ledger.grant
      /\ L1.status = [ledger.status EXCEPT ![o] = IF granted THEN "reserved" ELSE "denied"]
      /\ L1.by = [ledger.by EXCEPT ![o] = attempt]
      /\ L1.consumed = ledger.consumed
      /\ L1.reserved = IF granted THEN [ledger.reserved EXCEPT ![b] = @ + 1] ELSE ledger.reserved
      /\ L1.available = IF granted THEN [ledger.available EXCEPT ![b] = IF left < 0 THEN 0 ELSE left]
                                   ELSE ledger.available
      /\ L1.softReached = ledger.softReached /\ L1.warningPending = ledger.warningPending
      /\ L1.guard = ledger.guard
  <2> HIDE DEF granted
  <2> QED BY <1>1, <1>2, ReservationFields
<1>0. AppendEvents(new)
  OBVIOUS
<1> HIDE DEF L1, E1, E2, new, action, funds
<1>8. /\ L2 \in Ledger
      /\ L2.grant = L1.grant /\ L2.status = L1.status /\ L2.by = L1.by
      /\ L2.reserved = L1.reserved /\ L2.consumed = L1.consumed /\ L2.available = L1.available
      /\ L2.softReached = IF crosses THEN [L1.softReached EXCEPT ![b] = TRUE] ELSE L1.softReached
      /\ L2.warningPending = (L1.warningPending \/ (crosses /\ b = "normal"))
      /\ L2.guard = L1.guard
  <2>1. CASE crosses
    <3>1. ~L1.softReached[b]
      BY <1>7, <2>1 DEF CrossesSoftLimit
    <3> HIDE DEF crosses
    <3> QED BY <1>7, <2>1, <3>1, SoftLimitFields DEF E2
  <2>2. CASE ~crosses
    <3> HIDE DEF crosses
    <3> QED BY <1>7, <2>2 DEF Ledger
  <2> QED BY <2>1, <2>2
<1> HIDE DEF L2
<1>9. /\ L3 \in Ledger
      /\ L3.grant = L2.grant /\ L3.status = L2.status /\ L3.by = L2.by
      /\ L3.reserved = L2.reserved /\ L3.consumed = L2.consumed /\ L3.available = L2.available
      /\ L3.softReached = L2.softReached /\ L3.warningPending = L2.warningPending
      /\ L3.guard.warningApplied = L2.guard.warningApplied
      /\ L3.guard.blockApplied = L2.guard.blockApplied
  BY <1>3, <1>6, <1>8, SignalFields
<1> HIDE DEF L3, crosses, granted
<1>10. /\ new \in Seq(Event)
       /\ {i \in 1..Len(new) : new[i].kind = "soft_limit"} = IF crosses THEN {2} ELSE {}
       /\ crosses => new[2].op = o
       /\ \A i \in 1..Len(new) : \/ new[i].kind \in {"reservation", "soft_limit"}
                                 \/ action # "none" /\ new[i] = E3
       /\ ledger' = L3
  <2>1. CASE crosses /\ action = "none"
    <3>1. new = <<E1, E2>>
      BY <1>5, <2>1, Tuples
    <3>2. ledger' = L3
      BY <1>0, <2>1, <3>1 DEF AppendEvents, Then, L3, L2, L1
    <3> QED BY <1>4, <1>6, <2>1, <3>1, <3>2
  <2>2. CASE crosses /\ action # "none"
    <3>1. new = <<E1, E2, E3>>
      BY <1>5, <2>2, Tuples, ZenonT(60)
    <3>2. ledger' = L3
      BY <1>0, <2>2, <3>1 DEF AppendEvents, Then, L3, L2, L1
    <3> QED BY <1>3, <1>4, <1>6, <2>2, <3>1, <3>2
  <2>3. CASE ~crosses /\ action = "none"
    <3>1. new = <<E1>>
      BY <1>5, <2>3, Tuples
    <3>2. ledger' = L3
      BY <1>0, <2>3, <3>1 DEF AppendEvents, Then, L3, L2, L1
    <3> QED BY <1>4, <1>6, <2>3, <3>1, <3>2
  <2>4. CASE ~crosses /\ action # "none"
    <3>1. new = <<E1, E3>>
      BY <1>5, <2>4, Tuples
    <3>2. ledger' = L3
      BY <1>0, <2>4, <3>1 DEF AppendEvents, Then, L3, L2, L1
    <3> QED BY <1>3, <1>4, <1>6, <2>4, <3>1, <3>2
  <2> QED BY <2>1, <2>2, <2>3, <2>4
<1>11. granted <=> ledger.available[b] > 0 /\ action \in {"none", "warn"}
  BY DEF granted, funds
<1>12. crosses <=> granted /\ CrossesSoftLimit(b)
  BY DEF crosses
<1>13. action # "none" => ledger.available[b] > 0
  BY <1>2 DEF funds
<1>14. /\ ledger' \in Ledger /\ ledger'.grant = ledger.grant
       /\ ledger'.status = [ledger.status EXCEPT ![o] = IF granted THEN "reserved" ELSE "denied"]
       /\ ledger'.by = [ledger.by EXCEPT ![o] = attempt]
       /\ ledger'.consumed = ledger.consumed
       /\ ledger'.reserved = IF granted THEN [ledger.reserved EXCEPT ![b] = @ + 1] ELSE ledger.reserved
       /\ ledger'.available = IF granted
                              THEN [ledger.available EXCEPT ![b] = IF left < 0 THEN 0 ELSE left]
                              ELSE ledger.available
       /\ ledger'.softReached = IF crosses THEN [ledger.softReached EXCEPT ![b] = TRUE]
                                ELSE ledger.softReached
       /\ ledger'.warningPending = (ledger.warningPending \/ (crosses /\ b = "normal"))
       /\ ledger'.guard.warningApplied = ledger.guard.warningApplied
       /\ ledger'.guard.blockApplied = ledger.guard.blockApplied
  BY <1>7, <1>8, <1>9, <1>10
<1> HIDE DEF left, b
<1>15. Reserved(o, granted, crosses, action)
  BY <1>2, <1>3, <1>10, <1>11, <1>12, <1>13, <1>14 DEF Reserved, E3, new, b, left
<1> QED BY <1>2, <1>3, <1>15
-----------------------------------------------------------------------------
(* Evidence lasts: events stay where they are.                             *)
Prefix(l, m, n) == \A i \in 1..n : m[i] = l[i]

LEMMA EvidenceLasts ==
  ASSUME NEW l, NEW m, NEW e, NEW n \in Nat, NEW k \in Nat, n <= k,
         Prefix(l, m, n), Evident(l, e, n)
  PROVE  Evident(m, e, k)
<1>1. \A i \in 1..n : i \in 1..k /\ m[i] = l[i]
  BY DEF Prefix
<1>2. e.kind = "source" => \E s \in 1..k : m[s].kind = "started" /\ m[s].op = e.op
  BY <1>1 DEF Evident
<1>3. e.kind = "guard" /\ e.action = "warn" =>
        /\ e.prev # e.op /\ e.prev.print = e.op.print
        /\ \E s \in 1..k : StartedIn(m, s, e.prev, e.attempt)
  BY <1>1 DEF Evident, StartedIn
<1>4. ASSUME e.kind = "guard" /\ e.action = "block"
      PROVE  \E i, j, w \in 1..k : Repeats(m, e, i, j, w)
  <2>1. PICK i \in 1..n, j \in 1..n, w \in 1..n : Repeats(l, e, i, j, w)
    BY <1>4 DEF Evident
  <2>2. \A x \in {i, j} : \E s \in 1..(x - 1) : StartedIn(m, s, m[x].op, e.attempt)
    <3> SUFFICES ASSUME NEW x \in {i, j}
                 PROVE  \E s \in 1..(x - 1) : StartedIn(m, s, m[x].op, e.attempt)
      OBVIOUS
    <3>1. PICK s \in 1..(x - 1) : StartedIn(l, s, l[x].op, e.attempt)
      BY <2>1 DEF Repeats
    <3>2. m[s] = l[s] /\ m[x] = l[x]
      BY <1>1
    <3> QED BY <3>1, <3>2 DEF StartedIn
  <2>3. Repeats(m, e, i, j, w)
    BY <1>1, <2>1, <2>2 DEF Repeats
  <2> QED BY <1>1, <2>3
<1>5. ASSUME e.kind = "guard" /\ e.action = "terminate"
      PROVE  \E b, w \in 1..k : Announced(m, e, b, w)
  BY <1>1, <1>5 DEF Evident, Announced
<1> QED BY <1>2, <1>3, <1>4, <1>5 DEF Evident

LEMMA AppendKeepsLog ==
  ASSUME TypeInv, LogInv, NEW new \in Seq(Event), log' = log \o new,
         \A i \in 1..Len(new) : Evident(log, new[i], Len(log))
  PROVE  LogInv'
<1> DEFINE m == log \o new
<1>1. /\ Len(log) \in Nat /\ Len(m) \in Nat /\ Len(log) <= Len(m)
      /\ \A i \in 1..Len(log) : m[i] = log[i]
      /\ \A k \in 1..Len(m) : k \notin 1..Len(log) =>
           k - Len(log) \in 1..Len(new) /\ m[k] = new[k - Len(log)]
  BY ConcatProperties, LenProperties DEF TypeInv
<1> HIDE DEF m
<1>2. ASSUME NEW k \in 1..Len(m)
      PROVE  Evident(m, m[k], k - 1)
  <2>1. CASE k \in 1..Len(log)
    <3>1. Evident(log, m[k], k - 1) /\ k - 1 \in Nat /\ Prefix(log, m, k - 1)
      BY <1>1, <2>1 DEF LogInv, Prefix
    <3> QED BY <3>1, EvidenceLasts
  <2>2. CASE k \notin 1..Len(log)
    <3>1. Evident(log, m[k], Len(log)) /\ Prefix(log, m, Len(log))
      BY <1>1, <2>2 DEF Prefix
    <3>2. k - 1 \in Nat /\ Len(log) <= k - 1
      BY <1>1, <2>2
    <3> QED BY <1>1, <3>1, <3>2, EvidenceLasts
  <2> QED BY <2>1, <2>2
<1>3. log' = m
  BY DEF m
<1>4. \A k \in 1..Len(log') : Evident(log', log'[k], k - 1)
  BY <1>2, <1>3
<1> QED BY <1>4, Zenon DEF LogInv, Evident, Repeats, Announced, StartedIn

(* A transaction that starts nothing keeps what is known of starts.        *)
LEMMA AppendKeepsStarts ==
  ASSUME TypeInv, StartInv, NEW new \in Seq(Event), log' = log \o new,
         \A i \in 1..Len(new) : new[i].kind # "started",
         \A o \in Operations : ledger.status[o] = "consumed" => ledger'.status[o] = "consumed",
         ledger'.guard.warningApplied = ledger.guard.warningApplied,
         ledger'.guard.blockApplied = ledger.guard.blockApplied,
         step' = "started" => step = "started" /\ current' = current
  PROVE  StartInv'
<1>1. Len(log) \in Nat /\ Len(log') \in Nat /\ Len(log) <= Len(log')
  BY Appending, LenProperties DEF TypeInv
<1>2. \A i \in 1..Len(log) : i \in 1..Len(log') /\ log'[i] = log[i]
  BY <1>1, Appending DEF TypeInv
<1>3. \A i \in 1..Len(log') : log'[i].kind = "started" => i \in 1..Len(log)
  BY Appending DEF TypeInv
<1>4. ASSUME NEW i \in 1..Len(log), log[i].kind = "started"
      PROVE  log[i].op \in Operations
  <2>1. log[i] \in Event
    BY ElementOfSeq DEF TypeInv
  <2> QED BY <1>4, <2>1 DEF Event
<1>5. ASSUME NEW i \in 1..Len(log'), log'[i].kind = "started"
      PROVE  ledger'.status[log'[i].op] = "consumed"
  BY <1>2, <1>3, <1>4, <1>5 DEF StartInv
<1>6. ASSUME NEW i \in 1..Len(log'), NEW j \in 1..Len(log'),
             log'[i].kind = "started", log'[j].kind = "started", log'[i].op = log'[j].op
      PROVE  i = j
  BY <1>2, <1>3, <1>6 DEF StartInv
<1>7. step' = "started" =>
        \E i \in 1..Len(log') : log'[i].kind = "started" /\ log'[i].op = current'
  BY <1>2 DEF StartInv
<1>8. ledger'.guard.warningApplied # NoOp =>
        \E i \in 1..Len(log') :
          /\ log'[i].kind = "started" /\ log'[i].op = ledger'.guard.warningApplied
          /\ log'[i].guardWarned
  BY <1>2 DEF StartInv
<1>9. ledger'.guard.blockApplied # NoOp =>
        \E i \in 1..Len(log') :
          /\ log'[i].kind = "started" /\ log'[i].op = ledger'.guard.blockApplied
          /\ log'[i].blockShown
  BY <1>2 DEF StartInv
<1> QED BY <1>5, <1>6, <1>7, <1>8, <1>9 DEF StartInv

(* The guard signals only what the log gives it reason to.                 *)
LEMMA SignalEvident ==
  ASSUME TypeInv, StartInv, LogInv, NEW o \in Operations, Unasked(o),
         GuardAction(ledger.guard, o) # "none"
  PROVE  Evident(log, SignalOf(GuardAction(ledger.guard, o), o), Len(log))
<1> DEFINE action == GuardAction(ledger.guard, o)
           g == ledger.guard
           e == SignalOf(action, o)
           L == LastToolStart
<1> SUFFICES Evident(log, e, Len(log))
  OBVIOUS
<1>1. /\ action \in {"warn", "block", "terminate"}
      /\ action = "warn"  => Warns(g, o)
      /\ action = "block" => Blocks(g, o)
      /\ action = "terminate" => Terminates(g, o)
  BY SignalTypes
<1>2. /\ e.kind = "guard" /\ e.action = action /\ e.op = o /\ e.attempt = attempt
      /\ action # "terminate" => e.prev = log[L].op
  BY DEF SignalOf
<1>3. Len(log) \in Nat /\ \A i \in 1..Len(log) : log[i] \in Event
  BY ElementOfSeq, LenProperties DEF TypeInv
<1>4. L # 0 => L \in 1..Len(log) /\ log[L].kind = "started"
  BY <1>3, Searches DEF ToolStart
<1> HIDE DEF action, e, L
<1>5. CASE action = "warn"
  <2>1. L # 0 /\ log[L].op.print = o.print /\ log[L].attempt = attempt
    BY <1>1, <1>5 DEF Warns, SameTool, L
  <2>2. ledger.status[log[L].op] = "consumed" /\ ledger.status[o] = "none"
    BY <1>4, <2>1 DEF StartInv, Unasked
  <2>3. StartedIn(log, L, e.prev, e.attempt)
    BY <1>2, <1>4, <1>5, <2>1 DEF StartedIn
  <2> QED BY <1>2, <1>4, <1>5, <2>1, <2>2, <2>3 DEF Evident
<1>6. CASE action = "block"
  <2> DEFINE w == Signal("warn")
             a == AppliedBy(g.warningApplied)
             x == log[w].prev
             y == log[w].op
             i == OutputOf(x)
             j == OutputOf(y)
  <2>1. /\ g.warningApplied # NoOp /\ w # 0 /\ log[w].op.print = o.print /\ log[w].attempt = attempt
        /\ a # 0 /\ L # 0 /\ log[L].attempt = attempt /\ log[L].op = y
        /\ i \in 1..(a - 1) /\ j \in 1..(a - 1) /\ log[i].hash = log[j].hash
    BY <1>1, <1>6 DEF Blocks, SameTool, L
  <2>2. /\ w \in 1..Len(log) /\ log[w].kind = "guard" /\ log[w].action = "warn"
        /\ a \in 1..Len(log) /\ log[a].kind = "started" /\ log[a].op = g.warningApplied
        /\ log[a].attempt = attempt
    BY <1>3, <2>1, Searches
  <2>3. /\ i # 0 /\ i \in 1..Len(log) /\ log[i].kind = "source" /\ log[i].op = x
        /\ j # 0 /\ j \in 1..Len(log) /\ log[j].kind = "source" /\ log[j].op = y
    BY <1>3, <2>1, Searches
  <2> HIDE DEF w, a, i, j
  <2>4. log[a].guardWarned
    BY <2>1, <2>2 DEF StartInv
  <2>5. Evident(log, log[w], w - 1) /\ Evident(log, log[i], i - 1) /\ Evident(log, log[j], j - 1)
    BY <2>2, <2>3 DEF LogInv
  <2>6. /\ x # y /\ x.print = y.print
        /\ \E s \in 1..(w - 1) : StartedIn(log, s, x, attempt)
    BY <2>1, <2>2, <2>5 DEF Evident
  <2>7. \E s \in 1..(i - 1) : StartedIn(log, s, x, attempt)
    <3>1. PICK s \in 1..(i - 1) : log[s].kind = "started" /\ log[s].op = x
      BY <2>3, <2>5 DEF Evident
    <3>2. PICK t \in 1..(w - 1) : StartedIn(log, t, x, attempt)
      BY <2>6
    <3>3. s \in 1..Len(log) /\ t \in 1..Len(log)
      BY <2>2, <2>3
    <3>4. s = t
      BY <3>1, <3>2, <3>3 DEF StartInv, StartedIn
    <3> QED BY <3>2, <3>4
  <2>8. \E s \in 1..(j - 1) : StartedIn(log, s, y, attempt)
    <3>1. PICK s \in 1..(j - 1) : log[s].kind = "started" /\ log[s].op = y
      BY <2>3, <2>5 DEF Evident
    <3>2. s \in 1..Len(log)
      BY <2>3
    <3>3. s = L
      BY <1>4, <2>1, <3>1, <3>2 DEF StartInv
    <3> QED BY <2>1, <3>1, <3>3 DEF StartedIn
  <2>9. \A k \in {i, j} : \E s \in 1..(k - 1) : StartedIn(log, s, log[k].op, attempt)
    BY <2>3, <2>7, <2>8
  <2>10. i # j /\ i < a /\ j < a /\ {log[i].op.print, log[j].op.print} = {o.print}
         /\ {log[i].kind, log[j].kind} = {"source"}
    BY <2>1, <2>2, <2>3, <2>6
  <2> HIDE DEF x, y
  <2>11. \E m, n \in {i, j} : m < n /\ {m, n} = {i, j}
    BY <2>3, <2>10
  <2>12. PICK m \in {i, j}, n \in {i, j} : m < n /\ {m, n} = {i, j}
    BY <2>11
  <2>13. /\ m < n /\ n < a /\ m \in 1..Len(log) /\ n \in 1..Len(log)
         /\ {log[m].kind, log[n].kind} = {"source"} /\ log[m].hash = log[n].hash
         /\ {log[m].op.print, log[n].op.print} = {o.print}
         /\ \A k \in {m, n} : \E s \in 1..(k - 1) : StartedIn(log, s, log[k].op, attempt)
    BY <2>1, <2>3, <2>9, <2>10, <2>12
  <2>14. Repeats(log, e, m, n, a)
    BY <1>2, <2>2, <2>4, <2>13 DEF Repeats
  <2> QED BY <1>2, <1>6, <2>2, <2>13, <2>14 DEF Evident
<1>7. CASE action = "terminate"
  <2> DEFINE b == BlockOf(g.lastBlocked)
             a == AppliedBy(g.blockApplied)
  <2>1. /\ g.blockApplied # NoOp /\ b # 0 /\ a > b
        /\ log[b].op.print = o.print /\ log[b].attempt = attempt
    BY <1>1, <1>7 DEF Terminates, SameTool
  <2>2. b \in 1..Len(log) /\ log[b].kind = "guard" /\ log[b].action = "block"
    BY <1>3, <2>1, Searches
  <2>3. /\ a \in 1..Len(log) /\ log[a].kind = "started" /\ log[a].op = g.blockApplied
        /\ log[a].attempt = attempt
    BY <1>3, <2>1, <2>2, Searches
  <2> HIDE DEF a, b
  <2>4. log[a].blockShown
    BY <2>1, <2>3 DEF StartInv
  <2>5. Announced(log, e, b, a)
    BY <1>2, <2>1, <2>2, <2>3, <2>4 DEF Announced
  <2> QED BY <1>2, <1>7, <2>2, <2>3, <2>5 DEF Evident
<1> QED BY <1>1, <1>5, <1>6, <1>7 DEF e, action
-----------------------------------------------------------------------------
(* The steps keep the invariant.                                           *)
LEMMA InvInit == Init => Inv
<1> SUFFICES ASSUME Init PROVE Inv
  OBVIOUS
<1>1. /\ attempt = 0 /\ active = FALSE /\ log = <<>> /\ ledger = EmptyLedger
      /\ current = NoOp /\ step = "idle" /\ refused = FALSE /\ Len(log) = 0
  BY DEF Init
<1>2. NoGuard \in Guard
  BY DEF NoGuard, Guard, Call
<1>3. EmptyLedger \in Ledger
  <2> DEFINE count == [started |-> 0, finished |-> 0, unfinished |-> 0, failed |-> 0]
             ops   == [k \in {"inference", "tool_call"} |-> count]
  <2>1. ops \in [{"inference", "tool_call"} -> Counter]
    BY DEF Counter
  <2> HIDE DEF ops
  <2>2. EmptyLedger =
          [grant |-> NoGrant,
           status |-> [o \in Operations |-> "none"], by |-> [o \in Operations |-> 0],
           reserved |-> [b \in Buckets |-> 0], consumed |-> [b \in Buckets |-> 0],
           available |-> [b \in Buckets |-> 0], softReached |-> [b \in Buckets |-> FALSE],
           warningPending |-> FALSE, guard |-> NoGuard, operations |-> ops]
    BY DEF EmptyLedger, ops
  <2> QED BY <1>2, <2>1, <2>2 DEF Ledger, Counts, Status
<1>4. TypeInv
  <2>1. log \in Seq(Event)
    BY <1>1
  <2>2. attempt \in Nat /\ active \in BOOLEAN /\ (active => attempt # 0)
    BY <1>1
  <2>3. current \in Call /\ (current = NoOp <=> step \in {"idle", "granted"})
    BY <1>1 DEF Call
  <2>4. /\ step \in {"idle", "granted", "reserving", "reserved", "started"}
        /\ step # "idle" => ledger.grant # NoGrant
    BY <1>1
  <2> QED BY <1>1, <1>3, <2>1, <2>2, <2>3, <2>4 DEF TypeInv
<1>5. WorkerInv
  BY <1>1 DEF WorkerInv
<1>6. ledger.guard.warningApplied = NoOp /\ ledger.guard.blockApplied = NoOp
  BY <1>1 DEF EmptyLedger, NoGuard
<1>7. StartInv
  BY <1>1, <1>6 DEF StartInv
<1>8. LogInv
  BY <1>1 DEF LogInv
<1> QED BY <1>4, <1>5, <1>7, <1>8 DEF Inv

(* Steps that append nothing.                                              *)
LEMMA QuietLog ==
  ASSUME LogInv, UNCHANGED events
  PROVE  LogInv'
<1>1. \A k \in 1..Len(log') : Evident(log', log'[k], k - 1)
  BY DEF LogInv, events
<1> QED BY <1>1, Zenon DEF LogInv, Evident, Repeats, Announced, StartedIn

LEMMA QuietStarts ==
  ASSUME StartInv, UNCHANGED events, step' = "started" => step = "started" /\ current' = current
  PROVE  StartInv'
BY DEF StartInv, events

LEMMA AttemptStep ==
  ASSUME Inv, BeginAttempt \/ EndAttempt
  PROVE  Inv'
<1>1. UNCHANGED events /\ refused' = refused
  BY DEF BeginAttempt, EndAttempt
<1>2. LogInv'
  BY <1>1, QuietLog DEF Inv
<1>3. StartInv'
  BY <1>1, QuietStarts DEF Inv, BeginAttempt, EndAttempt, worker
<1>4. TypeInv'
  <2>1. CASE BeginAttempt
    <3>1. /\ attempt' = attempt + 1 /\ active' = TRUE /\ current' = NoOp /\ step' = "idle"
          /\ log' = log /\ ledger' = ledger
      BY <2>1 DEF BeginAttempt, events
    <3>2. attempt' \in Nat /\ attempt' # 0
      BY <3>1 DEF Inv, TypeInv
    <3> QED BY <3>1, <3>2 DEF Inv, TypeInv, Call
  <2>2. CASE EndAttempt
    <3>1. /\ attempt' = attempt /\ active' = FALSE /\ current' = current /\ step' = step
          /\ log' = log /\ ledger' = ledger
      BY <2>2 DEF EndAttempt, events, worker
    <3> QED BY <3>1 DEF Inv, TypeInv
  <2> QED BY <2>1, <2>2
<1>5. WorkerInv'
  <2>1. CASE BeginAttempt
    BY <1>1, <2>1 DEF Inv, WorkerInv, BeginAttempt
  <2>2. CASE EndAttempt
    BY <1>1, <2>2 DEF Inv, WorkerInv, EndAttempt, worker, events, Snapshot
  <2> QED BY <2>1, <2>2
<1> QED BY <1>2, <1>3, <1>4, <1>5 DEF Inv

(* The granted policy is one.                                              *)
LEMMA EffectiveIsPolicy ==
  ASSUME NEW p \in Policies
  PROVE  Budget!EffectivePolicy(p) \in Policy
<1>1. p \in Policy
  OBVIOUS
<1> DEFINE hard == [b \in Buckets |-> Budget!Least(p.hard[b], Limits.hard[b])]
           soft == [b \in Buckets |-> Budget!EffectiveSoft(p, b, hard[b])]
<1>2. \A b \in Buckets : /\ p.hard[b] \in Nat /\ p.soft[b] \in Nat
                         /\ Limits.hard[b] \in Nat /\ Limits.soft[b] \in Nat
  BY <1>1 DEF Policy
<1>3. hard \in [Buckets -> Nat]
  BY <1>2 DEF Budget!Least
<1> HIDE DEF hard
<1>4. soft \in [Buckets -> Nat]
  BY <1>2, <1>3 DEF Budget!EffectiveSoft, Budget!Least, Budget!Greatest, Budget!Soft, Buckets
<1>5. Budget!EffectivePolicy(p) = [hard |-> hard, soft |-> soft]
  BY DEF Budget!EffectivePolicy, Budget!Buckets, Buckets, hard
<1> QED BY <1>3, <1>4, <1>5 DEF Policy

(* What a grant appends, and what becomes of the projection.               *)
LEMMA GrantEffect ==
  ASSUME TypeInv, NEW p \in Policies, ledger.grant = NoGrant,
         AppendEvents(<<[kind |-> "grant", policy |-> Budget!EffectivePolicy(p)]>>)
  PROVE  \E new \in Seq(Event) :
           /\ log' = log \o new /\ \A i \in 1..Len(new) : new[i].kind = "grant"
           /\ ledger' \in Ledger /\ ledger'.grant = Budget!EffectivePolicy(p)
           /\ ledger'.available = Budget!EffectivePolicy(p).hard
           /\ ledger'.status = ledger.status /\ ledger'.by = ledger.by
           /\ ledger'.reserved = ledger.reserved /\ ledger'.consumed = ledger.consumed
           /\ ledger'.softReached = ledger.softReached
           /\ ledger'.warningPending = ledger.warningPending
           /\ ledger'.guard = ledger.guard
<1> DEFINE q == Budget!EffectivePolicy(p)
           e == [kind |-> "grant", policy |-> q]
<1>1. q \in Policy
  BY EffectiveIsPolicy
<1> HIDE DEF q
<1>2. e \in Event /\ e.kind = "grant"
  BY <1>1 DEF Event
<1>3. ledger' = ApplyEvent(ledger, e) /\ log' = log \o <<e>>
  BY <1>2, AppendOne DEF q
<1>4. ledger \in Ledger
  BY DEF TypeInv
<1>5. /\ ledger' \in Ledger /\ ledger'.grant = q /\ ledger'.available = q.hard
      /\ ledger'.status = ledger.status /\ ledger'.by = ledger.by
      /\ ledger'.reserved = ledger.reserved /\ ledger'.consumed = ledger.consumed
      /\ ledger'.softReached = ledger.softReached
      /\ ledger'.warningPending = ledger.warningPending
      /\ ledger'.guard = ledger.guard
  BY <1>1, <1>3, <1>4, GrantFields
<1> HIDE DEF e
<1>6. <<e>> \in Seq(Event) /\ \A i \in 1..Len(<<e>>) : <<e>>[i].kind = "grant"
  BY <1>2
<1> QED BY <1>3, <1>5, <1>6 DEF q

LEMMA GrantStep ==
  ASSUME Inv, NEW p \in Policies, NEW delivered \in BOOLEAN, RequestGrant(p, delivered)
  PROVE  Inv'
<1>1. /\ active /\ step = "idle" /\ UNCHANGED <<attempt, active, current, refused>>
      /\ step' \in {"idle", "granted"} /\ (step' = "granted" => delivered)
      /\ ~delivered => step' = "idle"
  BY DEF RequestGrant
<1>2. CASE ledger.grant # NoGrant
  <2>1. UNCHANGED events
    BY <1>2 DEF RequestGrant
  <2>2. TypeInv'
    BY <1>1, <1>2, <2>1 DEF Inv, TypeInv, events
  <2>3. WorkerInv'
    BY <1>1 DEF Inv, WorkerInv
  <2> QED BY <1>1, <2>1, <2>2, <2>3, QuietLog, QuietStarts DEF Inv
<1>3. CASE ledger.grant = NoGrant
  <2>1. AppendEvents(<<[kind |-> "grant", policy |-> Budget!EffectivePolicy(p)]>>)
    BY <1>3 DEF RequestGrant
  <2>2. PICK new \in Seq(Event) :
           /\ log' = log \o new /\ \A i \in 1..Len(new) : new[i].kind = "grant"
           /\ ledger' \in Ledger /\ ledger'.grant = Budget!EffectivePolicy(p)
           /\ ledger'.status = ledger.status /\ ledger'.guard = ledger.guard
    BY <1>3, <2>1, GrantEffect DEF Inv
  <2>3. ledger'.grant # NoGrant
    BY <2>2, EffectiveIsPolicy
  <2>4. TypeInv'
    <3>1. log' \in Seq(Event)
      BY <2>2, Appending DEF Inv, TypeInv
    <3> QED BY <1>1, <2>2, <2>3, <3>1 DEF Inv, TypeInv
  <2>5. WorkerInv'
    BY <1>1 DEF Inv, WorkerInv
  <2>6. LogInv'
    <3>1. \A i \in 1..Len(new) : Evident(log, new[i], Len(log))
      BY <2>2 DEF Evident
    <3> QED BY <2>2, <3>1, AppendKeepsLog DEF Inv
  <2>7. StartInv'
    <3>1. \A i \in 1..Len(new) : new[i].kind # "started"
      BY <2>2
    <3> QED BY <1>1, <2>2, <3>1, AppendKeepsStarts DEF Inv
  <2> QED BY <2>4, <2>5, <2>6, <2>7 DEF Inv
<1> QED BY <1>2, <1>3

(* A reservation, decided now or before.                                   *)
LEMMA ReserveStep ==
  ASSUME Inv, NEW o \in Operations, NEW delivered \in BOOLEAN, Reserve(o, delivered)
  PROVE  Inv'
<1>1. /\ active /\ step \in {"granted", "reserving"} /\ UNCHANGED <<attempt, active, refused>>
      /\ step = "granted" => Unasked(o)
      /\ step = "reserving" => current = o
      /\ \/ current' = o /\ step' = "reserving"
         \/ current' = o /\ step' = "reserved" /\ ledger'.status[o] = "reserved"
            /\ told' = Snapshot(ledger')
         \/ current' = NoOp /\ step' = "granted"
  BY DEF Reserve, NextCall
<1>2. o \in Call /\ o # NoOp /\ ledger.grant # NoGrant
  BY <1>1 DEF Call, Inv, TypeInv
<1>3. CASE ~Unasked(o)
  <2>1. UNCHANGED events
    BY <1>3 DEF Reserve
  <2>2. step = "reserving" /\ current = o
    BY <1>1, <1>3
  <2>3. TypeInv'
    BY <1>1, <1>2, <2>1 DEF Inv, TypeInv, events, Call
  <2>4. WorkerInv'
    BY <1>1, <2>1, <2>2 DEF Inv, WorkerInv, events, Snapshot
  <2>5. LogInv' /\ StartInv'
    BY <1>1, <2>1, QuietLog, QuietStarts DEF Inv
  <2> QED BY <2>3, <2>4, <2>5 DEF Inv
<1>4. CASE Unasked(o)
  <2>1. AppendEvents(ReservationEvents(o)) /\ TypeInv
    BY <1>4 DEF Reserve, Inv
  <2> DEFINE new == ReservationEvents(o)
  <2>2. PICK granted, crosses \in BOOLEAN, action \in {"none", "warn", "block", "terminate"} :
               Reserved(o, granted, crosses, action)
    BY <1>2, <1>4, <2>1, ReserveEffect
  <2>3. /\ action # "none" => action = GuardAction(ledger.guard, o)
        /\ new \in Seq(Event)
        /\ \A i \in 1..Len(new) : \/ new[i].kind \in {"reservation", "soft_limit"}
                                  \/ action # "none" /\ new[i] = SignalOf(action, o)
        /\ ledger' \in Ledger /\ ledger'.grant = ledger.grant
        /\ ledger'.status = [ledger.status EXCEPT ![o] = IF granted THEN "reserved" ELSE "denied"]
        /\ ledger'.by = [ledger.by EXCEPT ![o] = attempt]
        /\ ledger'.guard.warningApplied = ledger.guard.warningApplied
        /\ ledger'.guard.blockApplied = ledger.guard.blockApplied
    BY <2>2 DEF Reserved
  <2>4. log' = log \o new
    BY <2>1 DEF AppendEvents
  <2> HIDE DEF new
  <2>5. /\ ledger.status \in Status /\ ledger.by \in [Operations -> Nat] /\ ledger.status[o] = "none"
    BY <1>4, <2>1 DEF TypeInv, Ledger, Unasked
  <2>6. ledger'.status[o] \in {"reserved", "denied"} /\ ledger'.by[o] = attempt
    BY <2>3, <2>5 DEF Status
  <2>7. TypeInv'
    <3>1. log' \in Seq(Event)
      BY <2>1, <2>3, <2>4, Appending DEF TypeInv
    <3> QED BY <1>1, <1>2, <2>1, <2>3, <3>1 DEF TypeInv, Call
  <2>8. WorkerInv'
    <3>1. ledger'.status[o] # "none"
      BY <2>6
    <3> QED BY <1>1, <2>6, <3>1 DEF Inv, WorkerInv, Snapshot
  <2>9. LogInv'
    <3>1. ASSUME NEW i \in 1..Len(new)
          PROVE  Evident(log, new[i], Len(log))
      <4>1. CASE new[i].kind \in {"reservation", "soft_limit"}
        BY <4>1 DEF Evident
      <4>2. CASE action # "none" /\ new[i] = SignalOf(action, o)
        BY <1>4, <2>3, <4>2, SignalEvident DEF Inv
      <4> QED BY <2>3, <4>1, <4>2
    <3> QED BY <2>3, <2>4, <3>1, AppendKeepsLog DEF Inv
  <2>10. StartInv'
    <3>1. \A i \in 1..Len(new) : new[i].kind # "started"
      BY <2>3 DEF SignalOf
    <3>2. \A d \in Operations : ledger.status[d] = "consumed" => ledger'.status[d] = "consumed"
      BY <2>3, <2>5 DEF Status
    <3>3. step' # "started"
      BY <1>1
    <3> QED BY <2>3, <2>4, <3>1, <3>2, <3>3, AppendKeepsStarts DEF Inv
  <2> QED BY <2>7, <2>8, <2>9, <2>10 DEF Inv
<1> QED BY <1>3, <1>4

(* What operation.started appends, and what becomes of the projection.     *)
Started(w, gw, bs) ==
  LET o    == current
      b    == o.bucket
      r    == IF ledger.reserved[b] = 0 THEN 0 ELSE ledger.reserved[b] - 1
      left == ledger.grant.hard[b] - r - (ledger.consumed[b] + 1)
      e    == [kind |-> "started", op |-> o, attempt |-> attempt, warned |-> w,
               guardWarned |-> gw, blockShown |-> bs]
  IN  /\ w <=> b = "normal" /\ ledger.warningPending
      /\ log' = log \o <<e>> /\ e \in Event
      /\ step' = "started" /\ refused' = refused
      /\ ledger.status[o] = "reserved" /\ ledger.by[o] = attempt
      /\ ledger' \in Ledger /\ ledger'.grant = ledger.grant
      /\ ledger'.status = [ledger.status EXCEPT ![o] = "consumed"] /\ ledger'.by = ledger.by
      /\ ledger'.reserved = [ledger.reserved EXCEPT ![b] = r]
      /\ ledger'.consumed = [ledger.consumed EXCEPT ![b] = ledger.consumed[b] + 1]
      /\ ledger'.available = [ledger.available EXCEPT ![b] = IF left < 0 THEN 0 ELSE left]
      /\ ledger'.softReached = ledger.softReached
      /\ ledger'.warningPending = (ledger.warningPending /\ ~(b = "normal" /\ w))
      /\ \/ ledger'.guard.warningApplied = ledger.guard.warningApplied
         \/ ledger'.guard.warningApplied = o /\ gw
      /\ \/ ledger'.guard.blockApplied = ledger.guard.blockApplied
         \/ ledger'.guard.blockApplied = o /\ bs

LEMMA StartEffect ==
  ASSUME Inv, Start
  PROVE  \E w, gw, bs \in BOOLEAN : Started(w, gw, bs)
<1> DEFINE o  == current
           f  == Flags(o, told)
           w  == f.warned
           gw == f.guardWarned
           bs == f.blockShown
           b  == o.bucket
           r    == IF ledger.reserved[b] = 0 THEN 0 ELSE ledger.reserved[b] - 1
           left == ledger.grant.hard[b] - r - (ledger.consumed[b] + 1)
           e  == [kind |-> "started", op |-> o, attempt |-> attempt, warned |-> w,
                  guardWarned |-> gw, blockShown |-> bs]
<1>1. /\ step = "reserved" /\ o \in Operations /\ ledger.grant \in Policy
      /\ attempt \in Nat /\ ledger \in Ledger
  BY DEF Start, Inv, TypeInv, Call, Ledger
<1>2. ledger.status[o] = "reserved" /\ ledger.by[o] = attempt /\ told = Snapshot(ledger)
  BY <1>1 DEF Inv, WorkerInv
<1>3. Admitted(o, f)
  BY <1>2 DEF Admitted
<1>4. AppendEvents(<<e>>) /\ step' = "started" /\ refused' = refused
  BY <1>3 DEF Start
<1>5. /\ w \in BOOLEAN /\ gw \in BOOLEAN /\ bs \in BOOLEAN
      /\ w <=> b = "normal" /\ ledger.warningPending
  BY <1>1, <1>2 DEF Flags, NoNews, Snapshot, Ledger, Guard
<1> HIDE DEF w, gw, bs
<1>6. e \in Event
  BY <1>1, <1>5 DEF Event
<1>7. ledger' = ApplyEvent(ledger, e) /\ log' = log \o <<e>>
  BY <1>4, <1>6, AppendOne DEF Inv
<1> DEFINE m == ApplyEvent(ledger, e)
<1>8. /\ m \in Ledger /\ m.grant = ledger.grant
      /\ m.status = [ledger.status EXCEPT ![o] = "consumed"] /\ m.by = ledger.by
      /\ m.reserved = [ledger.reserved EXCEPT ![b] = r]
      /\ m.consumed = [ledger.consumed EXCEPT ![b] = ledger.consumed[b] + 1]
      /\ m.available = [ledger.available EXCEPT ![b] = IF left < 0 THEN 0 ELSE left]
      /\ m.softReached = ledger.softReached
      /\ m.warningPending = (ledger.warningPending /\ ~(b = "normal" /\ w))
      /\ \/ m.guard.warningApplied = ledger.guard.warningApplied
         \/ m.guard.warningApplied = o /\ gw
      /\ \/ m.guard.blockApplied = ledger.guard.blockApplied
         \/ m.guard.blockApplied = o /\ bs
  BY <1>1, <1>2, <1>5, StartFields
<1> HIDE DEF m, e
<1>9. m = ledger'
  BY <1>7 DEF m
<1> HIDE DEF left, r
<1>10. /\ ledger' \in Ledger /\ ledger'.grant = ledger.grant
       /\ ledger'.status = [ledger.status EXCEPT ![o] = "consumed"] /\ ledger'.by = ledger.by
       /\ ledger'.reserved = [ledger.reserved EXCEPT ![b] = r]
       /\ ledger'.consumed = [ledger.consumed EXCEPT ![b] = ledger.consumed[b] + 1]
       /\ ledger'.available = [ledger.available EXCEPT ![b] = IF left < 0 THEN 0 ELSE left]
       /\ ledger'.softReached = ledger.softReached
       /\ ledger'.warningPending = (ledger.warningPending /\ ~(b = "normal" /\ w))
       /\ \/ ledger'.guard.warningApplied = ledger.guard.warningApplied
          \/ ledger'.guard.warningApplied = o /\ gw
       /\ \/ ledger'.guard.blockApplied = ledger.guard.blockApplied
          \/ ledger'.guard.blockApplied = o /\ bs
  BY <1>8, <1>9
<1>11. Started(w, gw, bs)
  BY <1>2, <1>4, <1>5, <1>6, <1>7, <1>10 DEF Started, e, left, r
<1> QED BY <1>5, <1>11

(* Nobody else has started the operation.                                  *)
LEMMA StartStep ==
  ASSUME Inv, Start
  PROVE  Inv'
<1> DEFINE o == current
           n == Len(log) + 1
<1>1. /\ step = "reserved" /\ active /\ UNCHANGED <<attempt, active, current, told>>
      /\ o \in Operations /\ o # NoOp /\ ledger.grant # NoGrant
      /\ attempt \in Nat /\ ledger \in Ledger /\ log \in Seq(Event) /\ Len(log) \in Nat
  BY LenProperties DEF Start, Inv, TypeInv, Call
<1>0. PICK w, gw, bs \in BOOLEAN : Started(w, gw, bs)
  BY StartEffect
<1> DEFINE e == [kind |-> "started", op |-> o, attempt |-> attempt, warned |-> w,
                 guardWarned |-> gw, blockShown |-> bs]
<1>2. /\ e.kind = "started" /\ e.op = o /\ e.guardWarned = gw /\ e.blockShown = bs
      /\ log' = log \o <<e>> /\ e \in Event
      /\ step' = "started" /\ refused' = refused /\ ledger.status[o] = "reserved"
      /\ ledger' \in Ledger /\ ledger'.grant = ledger.grant
      /\ ledger'.status = [ledger.status EXCEPT ![o] = "consumed"] /\ ledger'.by = ledger.by
      /\ \/ ledger'.guard.warningApplied = ledger.guard.warningApplied
         \/ ledger'.guard.warningApplied = o /\ gw
      /\ \/ ledger'.guard.blockApplied = ledger.guard.blockApplied
         \/ ledger'.guard.blockApplied = o /\ bs
  BY <1>0 DEF Started
<1> HIDE DEF e
<1>3. /\ log' \in Seq(Event) /\ Len(log') = n
      /\ \A i \in 1..Len(log) : i \in 1..n /\ log'[i] = log[i]
      /\ log'[n] = e /\ n \in 1..n
      /\ \A i \in 1..n : i \in 1..Len(log) \/ i = n
  <2>1. <<e>> \in Seq(Event) /\ Len(<<e>>) = 1 /\ <<e>>[1] = e
    BY <1>2
  <2> QED BY <1>1, <1>2, <2>1, Appending
<1>4. TypeInv'
  BY <1>1, <1>2, <1>3 DEF Inv, TypeInv
<1>5. WorkerInv'
  BY <1>2 DEF Inv, WorkerInv
<1>6. LogInv'
  <2>1. <<e>> \in Seq(Event) /\ Evident(log, e, Len(log)) /\ Len(<<e>>) = 1 /\ <<e>>[1] = e
    BY <1>2 DEF Evident
  <2>2. \A i \in 1..Len(<<e>>) : Evident(log, <<e>>[i], Len(log))
    BY <2>1
  <2> QED BY <1>2, <2>1, <2>2, AppendKeepsLog DEF Inv
<1>7. ledger.status \in Status /\ StartInv
  BY <1>1 DEF Inv, Ledger
<1>8. ASSUME NEW i \in 1..Len(log), log[i].kind = "started"
       PROVE  log[i].op \in Operations /\ log[i].op # o /\ ledger.status[log[i].op] = "consumed"
  <2>1. log[i] \in Event
    BY <1>1, ElementOfSeq
  <2> QED BY <1>2, <1>7, <1>8, <2>1 DEF StartInv, Event
<1>9. StartInv'
  <2>1. \A i \in 1..n : log'[i].kind = "started" => ledger'.status[log'[i].op] = "consumed"
    BY <1>1, <1>2, <1>3, <1>7, <1>8 DEF Status
  <2>2. \A i, j \in 1..n :
          log'[i].kind = "started" /\ log'[j].kind = "started" /\ log'[i].op = log'[j].op => i = j
    BY <1>2, <1>3, <1>7, <1>8 DEF StartInv
  <2>3. \E i \in 1..n : log'[i].kind = "started" /\ log'[i].op = current'
    BY <1>1, <1>2, <1>3
  <2>4. ledger'.guard.warningApplied # NoOp =>
          \E i \in 1..n : /\ log'[i].kind = "started" /\ log'[i].op = ledger'.guard.warningApplied
                          /\ log'[i].guardWarned
    BY <1>2, <1>3, <1>7 DEF StartInv
  <2>5. ledger'.guard.blockApplied # NoOp =>
          \E i \in 1..n : /\ log'[i].kind = "started" /\ log'[i].op = ledger'.guard.blockApplied
                          /\ log'[i].blockShown
    BY <1>2, <1>3, <1>7 DEF StartInv
  <2> QED BY <1>3, <2>1, <2>2, <2>3, <2>4, <2>5 DEF StartInv
<1> QED BY <1>4, <1>5, <1>6, <1>9 DEF Inv

(* The events of an end leave to the budget what it was.                   *)
LEMMA FinishEffect ==
  ASSUME Inv, NEW ok \in BOOLEAN, NEW hash \in Hashes, Finish(ok, hash)
  PROVE  \E new \in Seq(Event) :
           /\ log' = log \o new
           /\ \A i \in 1..Len(new) : \/ new[i].kind = "finished"
                                     \/ new[i].kind = "source" /\ new[i].op = current
           /\ ledger' \in Ledger /\ ledger'.grant = ledger.grant
           /\ ledger'.available = ledger.available
           /\ ledger'.status = ledger.status /\ ledger'.by = ledger.by
           /\ ledger'.reserved = ledger.reserved /\ ledger'.consumed = ledger.consumed
           /\ ledger'.softReached = ledger.softReached
           /\ ledger'.warningPending = ledger.warningPending
           /\ ledger'.guard = ledger.guard
<1> DEFINE o == current
           s == [kind |-> "source", op |-> o, hash |-> hash]
           e == [kind |-> "finished", op |-> o, ok |-> ok]
           new == (IF o.bucket = "tool" /\ ok THEN <<s>> ELSE <<>>) \o <<e>>
<1>1. ledger \in Ledger /\ o \in Operations /\ AppendEvents(new)
  BY DEF Finish, Inv, TypeInv, Call
<1>2. /\ s \in Event /\ e \in Event /\ s.kind = "source" /\ s.op = o /\ e.kind = "finished"
  BY <1>1 DEF Event
<1>3. ApplyEvent(ledger, s) = ledger
  BY DEF ApplyEvent, ApplyBudgetEvent
<1>4. /\ <<>> \o <<e>> = <<e>> /\ <<s>> \o <<e>> = <<s, e>>
  <2>1. <<e>> \in Seq(Event) /\ <<s>> \in Seq(Event)
    BY <1>2
  <2>2. <<>> \o <<e>> = <<e>>
    BY <2>1, ConcatEmptySeq
  <2>3. <<s>> \o <<e>> \o <<>> = <<s, e>>
    BY Tuples
  <2>4. <<s>> \o <<e>> \in Seq(Event)
    BY <2>1, ConcatProperties
  <2> QED BY <2>2, <2>3, <2>4, ConcatEmptySeq
<1> HIDE DEF s, e, new
<1>5. /\ new \in Seq(Event) /\ ledger' = ApplyEvent(ledger, e)
      /\ \A i \in 1..Len(new) : new[i] \in {s, e}
  <2>1. CASE o.bucket = "tool" /\ ok
    <3>1. new = <<s, e>>
      BY <1>4, <2>1 DEF new
    <3>2. ledger' = ApplyEvent(ledger, e)
      BY <1>1, <1>3, <3>1 DEF AppendEvents, Then
    <3> QED BY <1>2, <3>1, <3>2
  <2>2. CASE ~(o.bucket = "tool" /\ ok)
    <3>1. new = <<e>>
      BY <1>4, <2>2 DEF new
    <3>2. ledger' = ApplyEvent(ledger, e)
      BY <1>1, <3>1 DEF AppendEvents, Then
    <3> QED BY <1>2, <3>1, <3>2
  <2> QED BY <2>1, <2>2
<1>6. log' = log \o new
  BY <1>1 DEF AppendEvents
<1>7. /\ ledger' \in Ledger
      /\ ledger'.grant = ledger.grant /\ ledger'.status = ledger.status
      /\ ledger'.by = ledger.by /\ ledger'.reserved = ledger.reserved
      /\ ledger'.consumed = ledger.consumed /\ ledger'.available = ledger.available
      /\ ledger'.softReached = ledger.softReached
      /\ ledger'.warningPending = ledger.warningPending /\ ledger'.guard = ledger.guard
  BY <1>1, <1>5, FinishFields DEF e
<1> QED BY <1>2, <1>5, <1>6, <1>7

LEMMA FinishStep ==
  ASSUME Inv, NEW ok \in BOOLEAN, NEW hash \in Hashes, Finish(ok, hash)
  PROVE  Inv'
<1>1. /\ step = "started" /\ UNCHANGED <<attempt, active, told, refused>>
      /\ current' = NoOp /\ step' = "granted"
  BY DEF Finish
<1>2. PICK new \in Seq(Event) :
           /\ log' = log \o new
           /\ \A i \in 1..Len(new) : \/ new[i].kind = "finished"
                                     \/ new[i].kind = "source" /\ new[i].op = current
           /\ ledger' \in Ledger /\ ledger'.grant = ledger.grant
           /\ ledger'.status = ledger.status /\ ledger'.by = ledger.by
           /\ ledger'.guard = ledger.guard
  BY FinishEffect
<1>3. TypeInv'
  <2>1. log' \in Seq(Event)
    BY <1>2, Appending DEF Inv, TypeInv
  <2> QED BY <1>1, <1>2, <2>1 DEF Inv, TypeInv, Call
<1>4. WorkerInv'
  BY <1>1 DEF Inv, WorkerInv
<1>5. LogInv'
  <2>1. \E s \in 1..Len(log) : log[s].kind = "started" /\ log[s].op = current
    BY <1>1 DEF Inv, StartInv
  <2>2. \A i \in 1..Len(new) : Evident(log, new[i], Len(log))
    BY <1>2, <2>1 DEF Evident
  <2> QED BY <1>2, <2>2, AppendKeepsLog DEF Inv
<1>6. StartInv'
  <2>1. \A i \in 1..Len(new) : new[i].kind # "started"
    BY <1>2
  <2> QED BY <1>1, <1>2, <2>1, AppendKeepsStarts DEF Inv
<1> QED BY <1>3, <1>4, <1>5, <1>6 DEF Inv

LEMMA InvStep == Inv /\ [Next]_vars => Inv'
<1> SUFFICES ASSUME Inv, [Next]_vars PROVE Inv'
  OBVIOUS
<1>1. CASE UNCHANGED vars
  <2>1. /\ attempt' = attempt /\ active' = active /\ UNCHANGED events
        /\ current' = current /\ step' = step /\ told' = told /\ refused' = refused
        /\ log' = log /\ ledger' = ledger
    BY <1>1 DEF vars, worker, events
  <2>2. TypeInv'
    BY <2>1 DEF Inv, TypeInv
  <2>3. WorkerInv'
    BY <2>1 DEF Inv, WorkerInv, Snapshot
  <2> QED BY <2>1, <2>2, <2>3, QuietLog, QuietStarts DEF Inv
<1>2. CASE BeginAttempt \/ EndAttempt
  BY <1>2, AttemptStep
<1>3. ASSUME NEW delivered \in BOOLEAN, NEW p \in Policies, RequestGrant(p, delivered)
      PROVE  Inv'
  BY <1>3, GrantStep
<1>4. ASSUME NEW delivered \in BOOLEAN, NEW o \in Operations, Reserve(o, delivered)
      PROVE  Inv'
  BY <1>4, ReserveStep
<1>5. CASE Start
  BY <1>5, StartStep
<1>6. ASSUME NEW ok \in BOOLEAN, NEW hash \in Hashes, Finish(ok, hash)
      PROVE  Inv'
  BY <1>6, FinishStep
<1> QED BY <1>1, <1>2, <1>3, <1>4, <1>5, <1>6 DEF Next
-----------------------------------------------------------------------------
LEMMA InvHolds == Spec => []Inv
BY InvInit, InvStep, PTL DEF Spec

(* A worker that applies the warnings its last reply told it to apply is   *)
(* never refused: acceptEvents finds the reservation in its attempt, and   *)
(* no step between reserveOperationBudget and operation.started changes    *)
(* what is due, whatever replies were lost and whatever earlier attempts   *)
(* left behind.                                                            *)
THEOREM WorkerIsNotRefused == Spec => []NeverRefused
<1>1. Inv => NeverRefused
  BY DEF Inv, WorkerInv, NeverRefused
<1> QED BY <1>1, InvHolds, PTL

(* Every block of exact-tool-repeat-guard.ts has its evidence in the log:  *)
(* two earlier calls of the attempt with the same tool and input and the   *)
(* same output, and an inference that was warned after both.               *)
THEOREM BlocksHaveEvidence == Spec => []BlockedCallsRepeat
<1>1. Inv => BlockedCallsRepeat
  <2> SUFFICES ASSUME Inv, NEW b \in DOMAIN log, log[b].kind = "guard", log[b].action = "block"
               PROVE  \E i, j, w \in 1..(b - 1) : Repeats(log, log[b], i, j, w)
    BY DEF BlockedCallsRepeat, Repeats, StartedIn
  <2>1. b \in 1..Len(log)
    BY LenProperties DEF Inv, TypeInv
  <2> QED BY <2>1 DEF Inv, LogInv, Evident
<1> QED BY <1>1, InvHolds, PTL

(* Every termination follows a block of the same call in the same attempt  *)
(* and an inference that was shown the blocked result in between.          *)
THEOREM TerminationsWereAnnounced == Spec => []TerminationWasAnnounced
<1>1. Inv => TerminationWasAnnounced
  <2> SUFFICES ASSUME Inv, NEW t \in DOMAIN log,
                      log[t].kind = "guard", log[t].action = "terminate"
               PROVE  \E b, w \in 1..(t - 1) : Announced(log, log[t], b, w)
    BY DEF TerminationWasAnnounced, Announced
  <2>1. t \in 1..Len(log)
    BY LenProperties DEF Inv, TypeInv
  <2> QED BY <2>1 DEF Inv, LogInv, Evident
<1> QED BY <1>1, InvHolds, PTL
-----------------------------------------------------------------------------
LEMMA MappedInit == Init => Budget!Init
<1> SUFFICES ASSUME Init PROVE Budget!Init
  OBVIOUS
<1>1. attempt = 0 /\ active = FALSE /\ log = <<>> /\ ledger = EmptyLedger /\ Len(log) = 0
  BY DEF Init
<1>2. Signals = [b \in Buckets |-> 0] /\ Cautioned = {}
  BY <1>1, FS_EmptySet DEF Signals, Cautioned, Crossed, CautionOf
<1> QED BY <1>1, <1>2 DEF Budget!Init, EmptyLedger, Buckets, Budget!Buckets

(* Steps that are of no concern to the budget.                             *)
LEMMA MappedStutter ==
  ASSUME UNCHANGED <<attempt, active>>, ledger'.grant = ledger.grant,
         ledger'.status = ledger.status, ledger'.by = ledger.by,
         ledger'.reserved = ledger.reserved, ledger'.consumed = ledger.consumed,
         ledger'.available = ledger.available,
         ledger'.softReached = ledger.softReached,
         ledger'.warningPending = ledger.warningPending,
         Signals' = Signals, Cautioned' = Cautioned
  PROVE  UNCHANGED Budget!vars
BY DEF Budget!vars, Budget!usage, Budget!soft

(* What appended events add to them.                                       *)
LEMMA CrossedGrows ==
  ASSUME TypeInv, NEW new \in Seq(Event), log' = log \o new, NEW b
  PROVE  Crossed(log', b) = Crossed(log, b) \cup {Len(log) + i : i \in Crossed(new, b)}
<1> DEFINE n == Len(log)
           m == Len(new)
           A == Crossed(log, b)
           B == Crossed(new, b)
<1>1. /\ n \in Nat /\ m \in Nat /\ Len(log') = n + m
      /\ \A i \in 1..n : log'[i] = log[i]
      /\ \A i \in 1..m : log'[n + i] = new[i]
      /\ \A k \in 1..(n + m) : k \notin 1..n => k - n \in 1..m /\ log'[k] = new[k - n]
  BY Appending, LenProperties DEF TypeInv
<1>2. /\ \A i : i \in A <=> i \in 1..n /\ log[i].kind = "soft_limit" /\ log[i].op.bucket = b
      /\ \A i : i \in B <=> i \in 1..m /\ new[i].kind = "soft_limit" /\ new[i].op.bucket = b
      /\ \A i : i \in Crossed(log', b) <=>
                  i \in 1..(n + m) /\ log'[i].kind = "soft_limit" /\ log'[i].op.bucket = b
  BY <1>1 DEF Crossed
<1> HIDE DEF n, m, A, B
<1>3. ASSUME NEW k \in Crossed(log', b)
      PROVE  k \in A \/ \E i \in B : k = n + i
  <2>1. k \in 1..(n + m) /\ log'[k].kind = "soft_limit" /\ log'[k].op.bucket = b
    BY <1>2, <1>3
  <2>2. CASE k \in 1..n
    BY <1>1, <1>2, <2>1, <2>2
  <2>3. CASE k \notin 1..n
    <3>1. k - n \in 1..m /\ log'[k] = new[k - n]
      BY <1>1, <2>1, <2>3
    <3>2. k - n \in B
      BY <1>2, <2>1, <3>1
    <3>3. k = n + (k - n)
      BY <1>1, <2>1
    <3> QED BY <3>2, <3>3
  <2> QED BY <2>2, <2>3
<1>4. ASSUME NEW k \in A
      PROVE  k \in Crossed(log', b)
  <2>1. k \in 1..n /\ log[k].kind = "soft_limit" /\ log[k].op.bucket = b
    BY <1>2, <1>4
  <2>2. k \in 1..(n + m) /\ log'[k] = log[k]
    BY <1>1, <2>1
  <2> QED BY <1>2, <2>1, <2>2
<1>5. ASSUME NEW i \in B
      PROVE  n + i \in Crossed(log', b)
  <2>1. i \in 1..m /\ new[i].kind = "soft_limit" /\ new[i].op.bucket = b
    BY <1>2, <1>5
  <2>2. n + i \in 1..(n + m) /\ log'[n + i] = new[i]
    BY <1>1, <2>1
  <2> QED BY <1>2, <2>1, <2>2
<1> QED BY <1>3, <1>4, <1>5 DEF n, A, B

LEMMA CautionGrows ==
  ASSUME TypeInv, NEW new \in Seq(Event), log' = log \o new, NEW o
  PROVE  CautionOf(log', o) # {} <=> CautionOf(log, o) # {} \/ CautionOf(new, o) # {}
<1> DEFINE n == Len(log)
           m == Len(new)
<1>1. /\ n \in Nat /\ m \in Nat /\ Len(log') = n + m
      /\ \A i \in 1..n : log'[i] = log[i]
      /\ \A i \in 1..m : log'[n + i] = new[i]
      /\ \A k \in 1..(n + m) : k \notin 1..n => k - n \in 1..m /\ log'[k] = new[k - n]
  BY Appending, LenProperties DEF TypeInv
<1>2. ASSUME NEW k \in CautionOf(log', o)
      PROVE  CautionOf(log, o) # {} \/ CautionOf(new, o) # {}
  BY <1>1, <1>2 DEF CautionOf
<1>3. ASSUME NEW k \in CautionOf(log, o)
      PROVE  k \in CautionOf(log', o)
  BY <1>1, <1>3 DEF CautionOf
<1>4. ASSUME NEW k \in CautionOf(new, o)
      PROVE  n + k \in CautionOf(log', o)
  BY <1>1, <1>4 DEF CautionOf
<1> QED BY <1>2, <1>3, <1>4

LEMMA NothingCrossed ==
  ASSUME TypeInv, NEW new \in Seq(Event), log' = log \o new,
         \A i \in 1..Len(new) : new[i].kind # "soft_limit"
  PROVE  Signals' = Signals
<1> SUFFICES ASSUME NEW b \in Buckets
             PROVE  Crossed(log', b) = Crossed(log, b)
  BY DEF Signals, Crossed
<1>1. Crossed(new, b) = {}
  BY DEF Crossed
<1>2. Crossed(log', b) = Crossed(log, b) \cup {Len(log) + i : i \in Crossed(new, b)}
  BY CrossedGrows
<1> QED BY <1>1, <1>2

LEMMA NothingStarted ==
  ASSUME TypeInv, NEW new \in Seq(Event), log' = log \o new,
         \A i \in 1..Len(new) : new[i].kind # "started"
  PROVE  Cautioned' = Cautioned
<1>1. \A o : CautionOf(new, o) = {}
  BY DEF CautionOf
<1>2. \A o : CautionOf(log', o) # {} <=> CautionOf(log, o) # {}
  BY <1>1, CautionGrows
<1> QED BY <1>2 DEF Cautioned

(* Each step of the ledger is one of the budget, or none of its concern.   *)
LEMMA MappedAttempt ==
  ASSUME BeginAttempt \/ EndAttempt
  PROVE  Budget!BeginAttempt \/ Budget!EndAttempt
<1>1. CASE BeginAttempt
  BY <1>1 DEF BeginAttempt, events, Budget!BeginAttempt, Budget!usage, Budget!soft, Signals, Cautioned,
         Crossed, CautionOf
<1>2. CASE EndAttempt
  BY <1>2 DEF EndAttempt, events, Budget!EndAttempt, Budget!usage, Budget!soft, Signals, Cautioned,
         Crossed, CautionOf
<1> QED BY <1>1, <1>2

LEMMA MappedGrant ==
  ASSUME Inv, NEW p \in Policies, NEW delivered \in BOOLEAN, RequestGrant(p, delivered)
  PROVE  Budget!RequestGrant(attempt, p) \/ UNCHANGED Budget!vars
<1>1. active /\ UNCHANGED <<attempt, active>>
  BY DEF RequestGrant
<1>2. CASE ledger.grant # NoGrant
  <2>1. UNCHANGED events
    BY <1>2 DEF RequestGrant
  <2> QED BY <1>1, <2>1, MappedStutter DEF events, Signals, Cautioned, Crossed, CautionOf
<1>3. CASE ledger.grant = NoGrant
  <2>1. AppendEvents(<<[kind |-> "grant", policy |-> Budget!EffectivePolicy(p)]>>)
    BY <1>3 DEF RequestGrant
  <2>2. PICK new \in Seq(Event) :
           /\ log' = log \o new /\ \A i \in 1..Len(new) : new[i].kind = "grant"
           /\ ledger' \in Ledger /\ ledger'.grant = Budget!EffectivePolicy(p)
           /\ ledger'.available = Budget!EffectivePolicy(p).hard
           /\ ledger'.status = ledger.status /\ ledger'.by = ledger.by
           /\ ledger'.reserved = ledger.reserved /\ ledger'.consumed = ledger.consumed
           /\ ledger'.softReached = ledger.softReached
           /\ ledger'.warningPending = ledger.warningPending
    BY <1>3, <2>1, GrantEffect DEF Inv
  <2>3. Signals' = Signals
    BY <2>2, NothingCrossed DEF Inv
  <2>4. Cautioned' = Cautioned
    BY <2>2, NothingStarted DEF Inv
  <2> QED BY <1>1, <1>3, <2>2, <2>3, <2>4
          DEF Budget!RequestGrant, Budget!ActiveAttempt, Budget!soft
<1> QED BY <1>2, <1>3

LEMMA MappedFinish ==
  ASSUME Inv, NEW ok \in BOOLEAN, NEW hash \in Hashes, Finish(ok, hash)
  PROVE  UNCHANGED Budget!vars
<1>1. PICK new \in Seq(Event) :
           /\ log' = log \o new
           /\ \A i \in 1..Len(new) : \/ new[i].kind = "finished"
                                     \/ new[i].kind = "source" /\ new[i].op = current
           /\ ledger' \in Ledger /\ ledger'.grant = ledger.grant
           /\ ledger'.available = ledger.available
           /\ ledger'.status = ledger.status /\ ledger'.by = ledger.by
           /\ ledger'.reserved = ledger.reserved /\ ledger'.consumed = ledger.consumed
           /\ ledger'.softReached = ledger.softReached
           /\ ledger'.warningPending = ledger.warningPending
  BY FinishEffect
<1>2. \A i \in 1..Len(new) : new[i].kind # "soft_limit" /\ new[i].kind # "started"
  BY <1>1
<1>3. Signals' = Signals
  BY <1>1, <1>2, NothingCrossed DEF Inv
<1>4. Cautioned' = Cautioned
  BY <1>1, <1>2, NothingStarted DEF Inv
<1> QED BY <1>1, <1>3, <1>4, MappedStutter DEF Finish

LEMMA MappedStart ==
  ASSUME Inv, Start
  PROVE  \E w \in BOOLEAN : Budget!Start(attempt, current, w)
<1> DEFINE o == current
           b == o.bucket
           r == IF ledger.reserved[b] = 0 THEN 0 ELSE ledger.reserved[b] - 1
           left == ledger.grant.hard[b] - r - (ledger.consumed[b] + 1)
<1>1. /\ active /\ UNCHANGED <<attempt, active>> /\ o \in Operations /\ b \in Buckets
      /\ ledger \in Ledger /\ log \in Seq(Event) /\ ledger.grant \in Policy
  BY DEF Start, Inv, TypeInv, Call, Ledger
<1>2. PICK w, gw, bs \in BOOLEAN : Started(w, gw, bs)
  BY StartEffect
<1> DEFINE e == [kind |-> "started", op |-> o, attempt |-> attempt, warned |-> w,
                 guardWarned |-> gw, blockShown |-> bs]
<1>3. /\ e.kind = "started" /\ e.op = o /\ e.warned = w /\ e \in Event /\ log' = log \o <<e>>
      /\ w <=> b = "normal" /\ ledger.warningPending
      /\ ledger.status[o] = "reserved" /\ ledger.by[o] = attempt
      /\ ledger' \in Ledger /\ ledger'.grant = ledger.grant
      /\ ledger'.status = [ledger.status EXCEPT ![o] = "consumed"] /\ ledger'.by = ledger.by
      /\ ledger'.reserved = [ledger.reserved EXCEPT ![b] = r]
      /\ ledger'.consumed = [ledger.consumed EXCEPT ![b] = ledger.consumed[b] + 1]
      /\ ledger'.available = [ledger.available EXCEPT ![b] = IF left < 0 THEN 0 ELSE left]
      /\ ledger'.softReached = ledger.softReached
      /\ ledger'.warningPending = (ledger.warningPending /\ ~(b = "normal" /\ w))
  BY <1>2 DEF Started
<1> HIDE DEF e
<1>4. <<e>> \in Seq(Event) /\ Len(<<e>>) = 1 /\ <<e>>[1] = e
  BY <1>3
<1>5. Signals' = Signals
  <2>1. \A i \in 1..Len(<<e>>) : <<e>>[i].kind # "soft_limit"
    BY <1>3, <1>4
  <2> QED BY <1>3, <1>4, <2>1, NothingCrossed DEF Inv
<1>6. Cautioned' = IF w THEN Cautioned \cup {o} ELSE Cautioned
  <2>1. \A d : CautionOf(<<e>>, d) # {} <=> d = o /\ w
    <3>1. \A d : 1 \in CautionOf(<<e>>, d) <=> d = o /\ w
      BY <1>3, <1>4 DEF CautionOf
    <3>2. \A d : \A i \in CautionOf(<<e>>, d) : i = 1
      BY <1>4 DEF CautionOf
    <3> QED BY <3>1, <3>2
  <2>2. \A d : CautionOf(log', d) # {} <=> CautionOf(log, d) # {} \/ CautionOf(<<e>>, d) # {}
    BY <1>3, <1>4, CautionGrows DEF Inv
  <2> QED BY <1>1, <2>1, <2>2 DEF Cautioned
<1>7. /\ r = Budget!Greatest(0, ledger.reserved[b] - 1)
      /\ (IF left < 0 THEN 0 ELSE left) =
           Budget!Available(ledger.grant.hard[b], r, ledger.consumed[b] + 1)
  <2>1. ledger.reserved[b] \in Nat /\ ledger.consumed[b] \in Nat /\ ledger.grant.hard[b] \in Nat
    BY <1>1 DEF Ledger, Counts, Policy
  <2> QED BY <2>1 DEF Budget!Greatest, Budget!Available
<1>8. BucketOf[o] = b
  BY <1>1 DEF BucketOf
<1> HIDE DEF r, left, o, b
<1>9. /\ ledger'.reserved = [ledger.reserved EXCEPT ![b] = Budget!Greatest(0, ledger.reserved[b] - 1)]
      /\ ledger'.available = [ledger.available EXCEPT ![b] =
           Budget!Available(ledger.grant.hard[b], Budget!Greatest(0, ledger.reserved[b] - 1),
                            ledger.consumed[b] + 1)]
  BY <1>3, <1>7
<1>10. Budget!Admits(attempt, o, w)
  BY <1>1, <1>3, <1>8 DEF Budget!Admits, Budget!ActiveAttempt
<1>11. Budget!Start(attempt, o, w)
  BY <1>1, <1>3, <1>5, <1>6, <1>8, <1>9, <1>10
     DEF Budget!Start
<1> QED BY <1>11 DEF o

LEMMA MappedReserve ==
  ASSUME Inv, NEW o \in Operations, NEW delivered \in BOOLEAN, Reserve(o, delivered)
  PROVE  (\E allows \in BOOLEAN : Budget!Reserve(attempt, o, allows)) \/ UNCHANGED Budget!vars
<1>1. active /\ UNCHANGED <<attempt, active>> /\ ledger.grant # NoGrant
  BY DEF Reserve, Inv, TypeInv
<1>2. CASE ~Unasked(o)
  <2>1. UNCHANGED events
    BY <1>2 DEF Reserve
  <2> QED BY <1>1, <2>1, MappedStutter DEF events, Signals, Cautioned, Crossed, CautionOf
<1>3. CASE Unasked(o)
  <2> DEFINE b    == o.bucket
             left == ledger.grant.hard[b] - (ledger.reserved[b] + 1) - ledger.consumed[b]
             new  == ReservationEvents(o)
  <2>1. AppendEvents(new) /\ TypeInv /\ log' = log \o new
    BY <1>3 DEF Reserve, Inv, AppendEvents
  <2>2. PICK granted, crosses \in BOOLEAN, action \in {"none", "warn", "block", "terminate"} :
               Reserved(o, granted, crosses, action)
    BY <1>1, <1>3, <2>1, ReserveEffect
  <2>3. /\ granted <=> ledger.available[b] > 0 /\ action \in {"none", "warn"}
        /\ action # "none" => b = "tool" /\ ledger.available[b] > 0
        /\ crosses <=> granted /\ CrossesSoftLimit(b)
        /\ new \in Seq(Event)
        /\ {i \in 1..Len(new) : new[i].kind = "soft_limit"} = IF crosses THEN {2} ELSE {}
        /\ crosses => new[2].op = o
        /\ \A i \in 1..Len(new) : \/ new[i].kind \in {"reservation", "soft_limit"}
                                  \/ action # "none" /\ new[i] = SignalOf(action, o)
        /\ ledger' \in Ledger /\ ledger'.grant = ledger.grant
        /\ ledger'.status = [ledger.status EXCEPT ![o] = IF granted THEN "reserved" ELSE "denied"]
        /\ ledger'.by = [ledger.by EXCEPT ![o] = attempt]
        /\ ledger'.consumed = ledger.consumed
        /\ ledger'.reserved = IF granted THEN [ledger.reserved EXCEPT ![b] = @ + 1]
                              ELSE ledger.reserved
        /\ ledger'.available = IF granted
                               THEN [ledger.available EXCEPT ![b] = IF left < 0 THEN 0 ELSE left]
                               ELSE ledger.available
        /\ ledger'.softReached = IF crosses THEN [ledger.softReached EXCEPT ![b] = TRUE]
                                 ELSE ledger.softReached
        /\ ledger'.warningPending = (ledger.warningPending \/ (crosses /\ b = "normal"))
    BY <2>2 DEF Reserved
  <2> HIDE DEF new
  <2>4. /\ ledger \in Ledger /\ ledger.grant \in Policy /\ b \in Buckets /\ BucketOf[o] = b
        /\ Len(log) \in Int /\ ledger.warningPending \in BOOLEAN
    BY <1>1, <2>1, LenProperties DEF TypeInv, Ledger, BucketOf
  <2>5. Cautioned' = Cautioned
    <3>1. \A i \in 1..Len(new) : new[i].kind # "started"
      BY <2>3 DEF SignalOf
    <3> QED BY <2>1, <2>3, <3>1, NothingStarted
  <2>6. Signals' = IF crosses THEN [Signals EXCEPT ![b] = Signals[b] + 1] ELSE Signals
    <3>1. CASE ~crosses
      <4>1. \A i \in 1..Len(new) : new[i].kind # "soft_limit"
        BY <2>3, <3>1
      <4> QED BY <2>1, <2>3, <3>1, <4>1, NothingCrossed
    <3>2. CASE crosses
      <4>1. \A c : Crossed(new, c) = IF c = b THEN {2} ELSE {}
        <5>1. \A i \in 1..Len(new) : new[i].kind = "soft_limit" <=> i = 2
          BY <2>3, <3>2
        <5>2. 2 \in 1..Len(new) /\ new[2].op.bucket = b
          BY <2>3, <3>2
        <5> QED BY <5>1, <5>2 DEF Crossed
      <4>2. \A c : Crossed(log', c) = IF c = b THEN Crossed(log, c) \cup {Len(log) + 2}
                                      ELSE Crossed(log, c)
        <5> SUFFICES ASSUME NEW c
                     PROVE  Crossed(log', c) = IF c = b THEN Crossed(log, c) \cup {Len(log) + 2}
                                               ELSE Crossed(log, c)
          OBVIOUS
        <5>1. Crossed(log', c) = Crossed(log, c) \cup {Len(log) + i : i \in Crossed(new, c)}
          BY <2>1, <2>3, CrossedGrows
        <5> QED BY <4>1, <5>1
      <4>3. IsFiniteSet(Crossed(log, b)) /\ Len(log) + 2 \notin Crossed(log, b)
        <5>1. IsFiniteSet(1..Len(log))
          BY <2>4, 1 \in Int, FS_Interval
        <5>2. Crossed(log, b) \subseteq 1..Len(log)
          BY DEF Crossed
        <5> QED BY <2>4, <5>1, <5>2, FS_Subset
      <4>4. Cardinality(Crossed(log, b) \cup {Len(log) + 2}) = Cardinality(Crossed(log, b)) + 1
        BY <4>3, FS_AddElement
      <4>5. Signals' = [c \in Buckets |-> Cardinality(Crossed(log', c))]
        BY DEF Signals, Crossed
      <4> QED BY <2>4, <3>2, <4>2, <4>4, <4>5 DEF Signals
    <3> QED BY <3>1, <3>2
  <2>7. CrossesSoftLimit(b) <=> Budget!CrossesSoftLimit(b)
    BY DEF CrossesSoftLimit, Budget!CrossesSoftLimit, Budget!Soft
  <2>8. (IF left < 0 THEN 0 ELSE left) =
          Budget!Available(ledger.grant.hard[b], ledger.reserved[b] + 1, ledger.consumed[b])
    <3>1. ledger.reserved[b] \in Nat /\ ledger.consumed[b] \in Nat /\ ledger.grant.hard[b] \in Nat
      BY <2>4 DEF Ledger, Counts, Policy
    <3> QED BY <3>1 DEF Budget!Available, Budget!Greatest
  <2> DEFINE allows == action \in {"none", "warn"}
  <2>9. /\ Budget!ActiveAttempt(attempt) /\ ledger.status[o] = "none"
        /\ allows \/ (BucketOf[o] = "tool" /\ allows \in BOOLEAN)
    BY <1>1, <1>3, <2>3, <2>4 DEF Budget!ActiveAttempt, Unasked
  <2> HIDE DEF left, b
  <2>10. CASE granted
    <3>1. /\ ledger'.softReached =
               [ledger.softReached EXCEPT ![b] = @ \/ Budget!CrossesSoftLimit(b)]
          /\ ledger'.warningPending =
               (ledger.warningPending \/ (b = "normal" /\ Budget!CrossesSoftLimit(b)))
          /\ Signals' = IF Budget!CrossesSoftLimit(b) THEN [Signals EXCEPT ![b] = @ + 1] ELSE Signals
      <4>1. crosses <=> Budget!CrossesSoftLimit(b)
        BY <2>3, <2>7, <2>10
      <4>2. CASE crosses
        BY <2>3, <2>4, <2>6, <4>1, <4>2 DEF Ledger
      <4>3. CASE ~crosses
        BY <2>3, <2>4, <2>6, <4>1, <4>3 DEF Ledger
      <4> QED BY <4>2, <4>3
    <3>2. Budget!Allow(attempt, o)
      BY <1>1, <2>3, <2>4, <2>5, <2>8, <2>10, <3>1 DEF Budget!Allow
    <3> QED BY <1>1, <2>3, <2>4, <2>9, <2>10, <3>2 DEF Budget!Reserve
  <2>11. CASE ~granted
    <3>1. Budget!Deny(attempt, o)
      BY <1>1, <2>3, <2>4, <2>5, <2>6, <2>11 DEF Budget!Deny, Budget!usage, Budget!soft
    <3> QED BY <1>1, <2>3, <2>4, <2>9, <2>11, <3>1 DEF Budget!Reserve
  <2> QED BY <2>10, <2>11
<1> QED BY <1>2, <1>3

LEMMA MappedStep == Inv /\ [Next]_vars => [Budget!Next]_(Budget!vars)
<1> SUFFICES ASSUME Inv, [Next]_vars PROVE [Budget!Next]_(Budget!vars)
  OBVIOUS
<1> USE DEF Budget!Next
<1>1. active => attempt \in 1..attempt
  BY DEF Inv, TypeInv
<1>2. CASE UNCHANGED vars
  BY <1>2, MappedStutter DEF vars, events, Signals, Cautioned, Crossed, CautionOf
<1>3. CASE BeginAttempt \/ EndAttempt
  BY <1>3, MappedAttempt
<1>4. ASSUME NEW delivered \in BOOLEAN, NEW p \in Policies, RequestGrant(p, delivered)
      PROVE  [Budget!Next]_(Budget!vars)
  BY <1>1, <1>4, MappedGrant DEF RequestGrant
<1>5. ASSUME NEW delivered \in BOOLEAN, NEW o \in Operations, Reserve(o, delivered)
      PROVE  [Budget!Next]_(Budget!vars)
  BY <1>1, <1>5, MappedReserve DEF Reserve
<1>6. CASE Start
  <2>1. active /\ current \in Operations
    BY <1>6 DEF Start, Inv, TypeInv, Call
  <2> QED BY <1>1, <1>6, <2>1, MappedStart
<1>7. ASSUME NEW ok \in BOOLEAN, NEW hash \in Hashes, Finish(ok, hash)
      PROVE  [Budget!Next]_(Budget!vars)
  BY <1>7, MappedFinish
<1> QED BY <1>2, <1>3, <1>4, <1>5, <1>6, <1>7 DEF Next

(* The projected ledger implements OperationBudget: what a transaction     *)
(* appends changes the fold of the events by one budget step or by none.   *)
THEOREM LedgerImplementsBudget == Spec => ImplementsBudget
<1>1. Init => Budget!Init
  BY MappedInit
<1> QED BY <1>1, MappedStep, InvHolds, PTL DEF Spec, Budget!Spec, ImplementsBudget
-----------------------------------------------------------------------------
(* What is proved of the budget holds of the ledger.                       *)
BudgetProofs == INSTANCE OperationBudgetProofs WITH
  grant          <- ledger.grant,
  decision       <- ledger.status,
  reservedBy     <- ledger.by,
  reserved       <- ledger.reserved,
  consumed       <- ledger.consumed,
  available      <- ledger.available,
  softReached    <- ledger.softReached,
  warningPending <- ledger.warningPending,
  signals        <- Signals,
  warned         <- Cautioned

LEMMA SameSets ==
  /\ \A S : BudgetProofs!IsFiniteSet(S) <=> IsFiniteSet(S)
  /\ \A S : BudgetProofs!Cardinality(S) = Cardinality(S)
BY DEF IsFiniteSet, Cardinality, BudgetProofs!IsFiniteSet, BudgetProofs!Cardinality

LEMMA BudgetAssumed == BudgetProofs!BudgetAssumption
<1>1. BucketOf \in [Operations -> Buckets]
  BY DEF BucketOf
<1> QED BY <1>1, SameSets
        DEF BudgetProofs!BudgetAssumption, Policy, Buckets, BudgetProofs!Policy, BudgetProofs!Buckets

(* The operations whose reservation the projection counts as held or used  *)
(* never exceed what the one grant gives their bucket, over all attempts,  *)
(* retries and lost replies of reserveOperationBudget.                     *)
HeldOrUsed(b) == {o \in Operations : o.bucket = b /\ ledger.status[o] \in {"reserved", "consumed"}}
LedgerWithinGrant ==
  \A b \in Buckets :
    Cardinality(HeldOrUsed(b)) <= IF ledger.grant = NoGrant THEN 0 ELSE ledger.grant.hard[b]

THEOREM LedgerKeepsHardLimit == Spec => []LedgerWithinGrant
<1>1. BudgetProofs!Spec => []BudgetProofs!HardLimit
  BY BudgetAssumed, BudgetProofs!HardLimitHolds
<1>2. Init => BudgetProofs!Init
  BY MappedInit, SMTT(30) DEF Budget!Init, BudgetProofs!Init, Budget!Buckets, BudgetProofs!Buckets
<1>3. Inv /\ [Next]_vars => [BudgetProofs!Next]_(BudgetProofs!vars)
  BY MappedStep, Zenon
     DEF Budget!Next, Budget!vars, Budget!usage, Budget!soft, Budget!BeginAttempt,
         Budget!EndAttempt, Budget!RequestGrant, Budget!Reserve, Budget!Start, Budget!Allow,
         Budget!Deny, Budget!Admits, Budget!ActiveAttempt, Budget!EffectivePolicy,
         Budget!EffectiveSoft, Budget!Least, Budget!Greatest, Budget!Available,
         Budget!CrossesSoftLimit, Budget!Soft, Budget!Buckets,
         BudgetProofs!Next, BudgetProofs!vars, BudgetProofs!usage, BudgetProofs!soft,
         BudgetProofs!BeginAttempt, BudgetProofs!EndAttempt, BudgetProofs!RequestGrant,
         BudgetProofs!Reserve, BudgetProofs!Start, BudgetProofs!Allow, BudgetProofs!Deny,
         BudgetProofs!Admits, BudgetProofs!ActiveAttempt, BudgetProofs!EffectivePolicy,
         BudgetProofs!EffectiveSoft, BudgetProofs!Least, BudgetProofs!Greatest,
         BudgetProofs!Available, BudgetProofs!CrossesSoftLimit, BudgetProofs!Soft,
         BudgetProofs!Buckets
<1>4. BudgetProofs!HardLimit => LedgerWithinGrant
  <2>1. \A b \in Buckets : BudgetProofs!InState(b, {"reserved", "consumed"}) = HeldOrUsed(b)
    BY DEF BudgetProofs!InState, HeldOrUsed, BucketOf
  <2> QED BY <2>1, SameSets DEF BudgetProofs!HardLimit, LedgerWithinGrant, Buckets, BudgetProofs!Buckets
<1> QED BY <1>1, <1>2, <1>3, <1>4, InvHolds, PTL DEF Spec, BudgetProofs!Spec
=============================================================================
