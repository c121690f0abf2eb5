--------------------------- MODULE EventLogProofs ---------------------------
(* Theorems about EventLog, for any number of workers, children, events    *)
(* and batch sizes.                                                        *)
EXTENDS EventLog, TLAPS

USE EventLogAssumption
-----------------------------------------------------------------------------
(* One more event at the end keeps a log well formed, if its producer has  *)
(* stored all that it numbered before, and its cause is stored.            *)
LEMMA AppendWellFormed ==
  ASSUME NEW l, NEW last \in Nat, WellFormed(l, last),
         NEW x, x.by \in Workers \cup {Backend}, x.seq = last + 1, x.n \in Nat \ {0},
         x.id = (IF x.by = Backend THEN BackendId(x.seq) ELSE WorkerId(x.by, x.n)),
         \A y \in l : y.by = x.by => y.n < x.n,
         x.by \in Workers => \A n \in 1..(x.n - 1) : Has(l, x.by, n),
         x.cause # Null => \E y \in l : y.id = x.cause
  PROVE  WellFormed(l \cup {x}, last + 1)
<1> DEFINE m == l \cup {x}
<1>1. \A y \in l : y.seq \in 1..last /\ y.n \in Nat \ {0} /\ y.by \in Workers \cup {Backend}
  BY DEF WellFormed
<1>2. \A w, n : Has(l, w, n) => Has(m, w, n)
  BY DEF Has
<1>3. ASSUME NEW y \in m
      PROVE  /\ y.by \in Workers \cup {Backend} /\ y.seq \in 1..(last + 1) /\ y.n \in Nat \ {0}
             /\ y.id = IF y.by = Backend THEN BackendId(y.seq) ELSE WorkerId(y.by, y.n)
             /\ y.by \in Workers => \A n \in 1..y.n : Has(m, y.by, n)
             /\ y.cause # Null => \E z \in m : z.id = y.cause /\ z.seq < y.seq
  <2>1. CASE y \in l
    <3>1. /\ y.id = IF y.by = Backend THEN BackendId(y.seq) ELSE WorkerId(y.by, y.n)
          /\ y.by \in Workers => \A n \in 1..y.n : Has(l, y.by, n)
          /\ y.cause # Null => \E z \in l : z.id = y.cause /\ z.seq < y.seq
      BY <2>1 DEF WellFormed
    <3>2. y.by \in Workers \cup {Backend} /\ y.seq \in 1..(last + 1) /\ y.n \in Nat \ {0}
      BY <2>1, <1>1
    <3>3. y.cause # Null => \E z \in m : z.id = y.cause /\ z.seq < y.seq
      BY <3>1
    <3>4. y.by \in Workers => \A n \in 1..y.n : Has(m, y.by, n)
      BY <3>1, <1>2
    <3> QED BY <3>1, <3>2, <3>3, <3>4
  <2>2. CASE y = x
    <3>1. y.by \in Workers => \A n \in 1..y.n : Has(m, y.by, n)
      <4> SUFFICES ASSUME y.by \in Workers, NEW n \in 1..y.n PROVE Has(m, y.by, n)
        OBVIOUS
      <4>1. CASE n = y.n
        BY <4>1, <2>2 DEF Has
      <4>2. CASE n # y.n
        <5>1. n \in 1..(x.n - 1)
          BY <4>2, <2>2
        <5> QED BY <5>1, <1>2, <2>2
      <4> QED BY <4>1, <4>2
    <3>2. y.cause # Null => \E z \in m : z.id = y.cause /\ z.seq < y.seq
      BY <2>2, <1>1
    <3>3. y.by \in Workers \cup {Backend} /\ y.seq \in 1..(last + 1) /\ y.n \in Nat \ {0}
      BY <2>2
    <3>4. y.id = IF y.by = Backend THEN BackendId(y.seq) ELSE WorkerId(y.by, y.n)
      BY <2>2
    <3> QED BY <3>1, <3>2, <3>3, <3>4
  <2> QED BY <2>1, <2>2
<1>4. \A k \in 1..(last + 1) : \E y \in m : y.seq = k
  <2> SUFFICES ASSUME NEW k \in 1..(last + 1) PROVE \E y \in m : y.seq = k
    OBVIOUS
  <2>1. CASE k = last + 1
    BY <2>1
  <2>2. CASE k # last + 1
    <3>1. k \in 1..last
      BY <2>2
    <3> QED BY <3>1 DEF WellFormed
  <2> QED BY <2>1, <2>2
<1>5. ASSUME NEW y \in m, NEW z \in m
      PROVE  /\ y.seq = z.seq => y = z
             /\ y.by = z.by => (y.seq < z.seq <=> y.n < z.n)
  <2>1. CASE y \in l /\ z \in l
    BY <2>1 DEF WellFormed
  <2>2. CASE y \in l /\ z = x
    BY <2>2, <1>1
  <2>3. CASE y = x /\ z \in l
    BY <2>3, <1>1
  <2>4. CASE y = x /\ z = x
    BY <2>4
  <2> QED BY <2>1, <2>2, <2>3, <2>4
<1>6. \E y \in m : IsLastOf(y, m, Backend)
  <2>1. CASE x.by = Backend
    BY <2>1, <1>1 DEF IsLastOf
  <2>2. CASE x.by # Backend
    BY <2>2 DEF WellFormed, IsLastOf
  <2> QED BY <2>1, <2>2
<1> QED BY <1>3, <1>4, <1>5, <1>6 DEF WellFormed

(* An event that neither starts nor finishes an operation keeps the pairs. *)
LEMMA AppendPaired ==
  ASSUME NEW l, Paired(l), NEW x, x.kind \notin {"started", "finished"}
  PROVE  Paired(l \cup {x})
BY DEF Paired

LEMMA WellTyped ==
  ASSUME NEW l, NEW last \in Nat, WellFormed(l, last)
  PROVE  \A x \in l : x.by \in Workers \cup {Backend} /\ x.seq \in Nat /\ x.n \in Nat
BY DEF WellFormed

(* The number that the next backend event follows.                         *)
LEMMA LastProducedIsLast ==
  ASSUME lastSequence \in Nat, WellFormed(log, lastSequence)
  PROVE  /\ LastProduced \in Nat \ {0}
         /\ \A y \in log : y.by = Backend => y.n <= LastProduced
<1>1. \E x \in log : IsLastOf(x, log, Backend)
  BY DEF WellFormed
<1>2. PICK x \in log : x = (CHOOSE y \in log : IsLastOf(y, log, Backend))
  BY <1>1
<1>3. IsLastOf(x, log, Backend)
  BY <1>1, <1>2
<1>4. x.n \in Nat \ {0}
  BY DEF WellFormed
<1> QED BY <1>2, <1>3, <1>4 DEF LastProduced, IsLastOf

(* What appendBackendEvent writes as the k-th event of a transaction.       *)
IsNext(x, k) ==
  /\ x.by = Backend /\ x.seq = lastSequence + k /\ x.n = LastProduced + k
  /\ x.id = BackendId(x.seq) /\ x.kind \notin {"started", "finished"}

LEMMA BackendEventIsNext ==
  ASSUME NEW k \in 1..3, NEW kind, kind \notin {"started", "finished"},
         NEW e, NEW from, NEW to, NEW cause
  PROVE  /\ IsNext(BackendEvent(k, kind, e, from, to, cause), k)
         /\ BackendEvent(k, kind, e, from, to, cause).cause = cause
BY DEF BackendEvent, IsNext

LEMMA AppendBackend ==
  ASSUME NEW l, NEW last \in Nat, WellFormed(l, last), Paired(l),
         NEW x, x.by = Backend, x.seq = last + 1, x.n \in Nat \ {0}, x.id = BackendId(x.seq),
         \A y \in l : y.by = Backend => y.n < x.n,
         x.kind \notin {"started", "finished"}, \E y \in l : y.id = x.cause
  PROVE  WellFormed(l \cup {x}, last + 1) /\ Paired(l \cup {x})
<1>1. WellFormed(l \cup {x}, last + 1)
  <2>1. x.by \notin Workers /\ x.by \in Workers \cup {Backend}
    OBVIOUS
  <2>2. x.id = (IF x.by = Backend THEN BackendId(x.seq) ELSE WorkerId(x.by, x.n))
    OBVIOUS
  <2>3. \A y \in l : y.by = x.by => y.n < x.n
    OBVIOUS
  <2> QED BY <2>1, <2>2, <2>3, AppendWellFormed
<1>2. Paired(l \cup {x})
  BY AppendPaired
<1> QED BY <1>1, <1>2

(* Up to three events in one transaction, each caused by an earlier one.   *)
LEMMA AppendThree ==
  ASSUME EvidenceInv,
         NEW x1, IsNext(x1, 1), \E y \in log : y.id = x1.cause,
         NEW x2, IsNext(x2, 2), \E y \in log \cup {x1} : y.id = x2.cause,
         NEW x3, IsNext(x3, 3), \E y \in log \cup {x1} \cup {x2} : y.id = x3.cause
  PROVE  /\ WellFormed(log \cup {x1}, lastSequence + 1) /\ Paired(log \cup {x1})
         /\ WellFormed(log \cup {x1} \cup {x2}, lastSequence + 2)
         /\ Paired(log \cup {x1} \cup {x2})
         /\ WellFormed(log \cup {x1} \cup {x2} \cup {x3}, lastSequence + 3)
         /\ Paired(log \cup {x1} \cup {x2} \cup {x3})
<1> DEFINE l1 == log \cup {x1}
           l2 == l1 \cup {x2}
<1>1. WellFormed(log, lastSequence) /\ Paired(log) /\ lastSequence \in Nat
  BY DEF EvidenceInv, LogInv, TypeOK
<1>2. /\ LastProduced \in Nat \ {0}
      /\ \A y \in log : y.n \in Nat /\ (y.by = Backend => y.n <= LastProduced)
  BY <1>1, LastProducedIsLast, WellTyped
<1>3. WellFormed(l1, lastSequence + 1) /\ Paired(l1)
  <2>1. /\ x1.n \in Nat \ {0} /\ \A y \in log : y.by = Backend => y.n < x1.n
        /\ x1.by = Backend /\ x1.seq = lastSequence + 1 /\ x1.id = BackendId(x1.seq)
        /\ x1.kind \notin {"started", "finished"}
    BY <1>2 DEF IsNext
  <2> QED BY <1>1, <2>1, AppendBackend
<1>4. WellFormed(l2, lastSequence + 2) /\ Paired(l2)
  <2>1. /\ x2.n \in Nat \ {0} /\ \A y \in l1 : y.by = Backend => y.n < x2.n
        /\ x2.by = Backend /\ x2.seq = (lastSequence + 1) + 1 /\ x2.id = BackendId(x2.seq)
        /\ x2.kind \notin {"started", "finished"} /\ \E y \in l1 : y.id = x2.cause
    BY <1>1, <1>2 DEF IsNext
  <2>2. lastSequence + 1 \in Nat /\ lastSequence + 2 = (lastSequence + 1) + 1
    BY <1>1
  <2> HIDE DEF l1
  <2>3. WellFormed(l1 \cup {x2}, (lastSequence + 1) + 1) /\ Paired(l1 \cup {x2})
    BY <1>3, <2>1, <2>2, AppendBackend
  <2> QED BY <2>2, <2>3
<1>5. WellFormed(l2 \cup {x3}, lastSequence + 3) /\ Paired(l2 \cup {x3})
  <2>1. /\ x3.n \in Nat \ {0} /\ \A y \in l2 : y.by = Backend => y.n < x3.n
        /\ x3.by = Backend /\ x3.seq = (lastSequence + 2) + 1 /\ x3.id = BackendId(x3.seq)
        /\ x3.kind \notin {"started", "finished"} /\ \E y \in l2 : y.id = x3.cause
    BY <1>1, <1>2 DEF IsNext
  <2>2. lastSequence + 2 \in Nat /\ lastSequence + 3 = (lastSequence + 2) + 1
    BY <1>1
  <2> HIDE DEF l2
  <2>3. WellFormed(l2 \cup {x3}, (lastSequence + 2) + 1) /\ Paired(l2 \cup {x3})
    BY <1>4, <2>1, <2>2, AppendBackend
  <2> QED BY <2>2, <2>3
<1> QED BY <1>3, <1>4, <1>5

(* What is left to show of a transaction of the backend.                   *)
LEMMA AppendedInv ==
  ASSUME EvidenceInv, tx = Null, NEW new, NEW k \in Nat \ {0}, Appended(new, k),
         UNCHANGED <<tx, sender>>,
         WellFormed(log \cup new, lastSequence + k), Paired(log \cup new),
         \E x \in new : x.id = BackendId(lastSequence + k),
         status' \in [Executions -> Statuses], status'[Root] # "absent"
  PROVE  EvidenceInv'
<1>1. lastSequence' \in Nat
  BY DEF EvidenceInv, TypeOK, Appended
<1>2. WellFormed(log, lastSequence)' /\ Paired(log)'
  BY DEF Appended, WellFormed, Paired, Has, IsLastOf
<1>3. \A w, n : Has(log, w, n) => Has(log, w, n)'
  BY DEF Has, Appended
<1>4. LogInv'
  <2>1. \A w \in Workers : \A n \in 1..acked[w] : Has(log, w, n)'
    BY <1>3 DEF EvidenceInv, LogInv
  <2>2. \E x \in log' : x.id = Created.id
    BY DEF EvidenceInv, LogInv, Appended
  <2> QED BY <1>2, <2>1, <2>2 DEF LogInv, Appended, sender, Created, InitialEvent, BackendId
<1>5. TypeOK'
  BY <1>1, <1>2, WellTyped DEF EvidenceInv, TypeOK, sender
<1> QED BY <1>4, <1>5 DEF EvidenceInv, TxInv
-----------------------------------------------------------------------------
LEMMA InitialInv == Init => EvidenceInv
<1> SUFFICES ASSUME Init PROVE EvidenceInv
  OBVIOUS
<1> USE DEF InitialEvent, Created, Message, Source, BackendId
<1>1. TypeOK
  BY DEF Init, TypeOK, Executions, Statuses
<1>2. WellFormed(log, lastSequence) /\ Paired(log)
  <2>1. CASE log = {Created} /\ lastSequence = 1
    BY <2>1 DEF WellFormed, IsLastOf, Paired
  <2>2. CASE log = {Created, Message, Source} /\ lastSequence = 3
    <3>1. \A x \in log : /\ x.by = Backend /\ x.seq \in 1..3 /\ x.n = x.seq
                          /\ x.id = BackendId(x.seq) /\ x.by \notin Workers
                          /\ x.kind \notin {"started", "finished"}
      BY <2>2
    <3>2. \A x \in log : x.cause # Null => \E y \in log : y.id = x.cause /\ y.seq < x.seq
      <4>1. Message.cause = Created.id /\ Source.cause = Message.id /\ Created.cause = Null
        BY DEF Message, Source
      <4>2. Created.seq < Message.seq /\ Message.seq < Source.seq
        BY DEF Message, Source
      <4> HIDE DEF InitialEvent, Created, Message, Source
      <4> QED BY <2>2, <4>1, <4>2
    <3>3. \A k \in 1..3 : \E x \in log : x.seq = k
      BY <2>2
    <3>4. \A x, y \in log : x.seq = y.seq => x = y
      BY <2>2
    <3>5. IsLastOf(Source, log, Backend)
      BY <2>2, <3>1 DEF IsLastOf
    <3> HIDE DEF InitialEvent, Created, Message, Source
    <3>6. \A x, y \in log : x.seq < y.seq <=> x.n < y.n
      BY <3>1
    <3>7. \E x \in log : IsLastOf(x, log, Backend)
      BY <2>2, <3>5
    <3>8. Paired(log)
      BY <3>1 DEF Paired
    <3> QED BY <2>2, <3>1, <3>2, <3>3, <3>4, <3>6, <3>7, <3>8 DEF WellFormed
  <2> QED BY <2>1, <2>2 DEF Init
<1> HIDE DEF InitialEvent, Created, Message, Source
<1>3. (\E x \in log : x.id = Created.id) /\ (\E x \in log : x.id = lastEvent)
  BY DEF Init
<1>4. \A w \in Workers : \A n \in 1..acked[w] : Has(log, w, n)
  BY DEF Init
<1>5. tx = Null
  BY DEF Init
<1> QED BY <1>1, <1>2, <1>3, <1>4, <1>5 DEF EvidenceInv, LogInv, TxInv

LEMMA UpdateStatusInv ==
  ASSUME EvidenceInv, NEW e \in Executions, NEW to \in {"queued"} \cup Terminal,
         UpdateStatus(e, to)
  PROVE  EvidenceInv'
<1> DEFINE x == BackendEvent(1, "state", e, status[e], to, lastEvent)
           y == BackendEvent(2, "state", e, status[e], to, lastEvent)
           z == BackendEvent(3, "state", e, status[e], to, lastEvent)
<1>1. /\ IsNext(x, 1) /\ x.cause = lastEvent
      /\ IsNext(y, 2) /\ y.cause = lastEvent
      /\ IsNext(z, 3) /\ z.cause = lastEvent
  BY BackendEventIsNext
<1>2. status' \in [Executions -> Statuses] /\ status'[Root] # "absent"
  BY DEF UpdateStatus, EvidenceInv, TypeOK, Statuses, Terminal, Executions
<1>3. Appended({x}, 1) /\ tx = Null /\ UNCHANGED <<tx, sender>>
  BY DEF UpdateStatus
<1> HIDE DEF x, y, z
<1>4. \E v \in log : v.id = lastEvent
  BY DEF EvidenceInv, LogInv
<1>5. WellFormed(log \cup {x}, lastSequence + 1) /\ Paired(log \cup {x})
  BY <1>1, <1>4, AppendThree
<1>6. x.id = BackendId(lastSequence + 1)
  BY <1>1 DEF IsNext
<1> QED BY <1>2, <1>3, <1>5, <1>6, AppendedInv

LEMMA ReportInv ==
  ASSUME EvidenceInv, NEW k \in 1..3, Report(k)
  PROVE  EvidenceInv'
<1> DEFINE c(i)  == IF i = 1 THEN lastEvent ELSE BackendId(lastSequence + 1)
           ev(i) == BackendEvent(i, "progress", Root, "absent", "absent", c(i))
<1>1. Appended({ev(i) : i \in 1..k}, k) /\ tx = Null /\ UNCHANGED <<tx, sender>>
  BY DEF Report
<1>2. status' \in [Executions -> Statuses] /\ status'[Root] # "absent"
  BY DEF Report, EvidenceInv, TypeOK
<1>3. \A i \in 1..3 : IsNext(ev(i), i) /\ ev(i).cause = c(i)
  BY BackendEventIsNext
<1>4. \E y \in log : y.id = lastEvent
  BY DEF EvidenceInv, LogInv
<1>5. c(1) = lastEvent /\ c(2) = BackendId(lastSequence + 1) /\ c(3) = BackendId(lastSequence + 1)
  OBVIOUS
<1>6. {ev(i) : i \in 1..k} = IF k = 1 THEN {ev(1)} ELSE IF k = 2 THEN {ev(1), ev(2)}
                                                     ELSE {ev(1), ev(2), ev(3)}
  <2> HIDE DEF ev
  <2>1. CASE k = 1
    <3>1. 1..k = {1}
      BY <2>1
    <3> QED BY <2>1, <3>1
  <2>2. CASE k = 2
    <3>1. 1..k = {1, 2}
      BY <2>2
    <3> QED BY <2>2, <3>1
  <2>3. CASE k = 3
    <3>1. 1..k = {1, 2, 3}
      BY <2>3
    <3> QED BY <2>3, <3>1
  <2> QED BY <2>1, <2>2, <2>3
<1> HIDE DEF c, ev
<1>7. \A i \in 1..3 : ev(i).id = BackendId(lastSequence + i)
  BY <1>3 DEF IsNext
<1>8. /\ IsNext(ev(1), 1) /\ IsNext(ev(2), 2) /\ IsNext(ev(3), 3)
      /\ \E y \in log : y.id = ev(1).cause
      /\ \E y \in log \cup {ev(1)} : y.id = ev(2).cause
      /\ \E y \in log \cup {ev(1)} \cup {ev(2)} : y.id = ev(3).cause
  BY <1>3, <1>4, <1>5, <1>7
<1>9. /\ WellFormed(log \cup {ev(1)}, lastSequence + 1) /\ Paired(log \cup {ev(1)})
      /\ WellFormed(log \cup {ev(1)} \cup {ev(2)}, lastSequence + 2)
      /\ Paired(log \cup {ev(1)} \cup {ev(2)})
      /\ WellFormed(log \cup {ev(1)} \cup {ev(2)} \cup {ev(3)}, lastSequence + 3)
      /\ Paired(log \cup {ev(1)} \cup {ev(2)} \cup {ev(3)})
  BY <1>8, AppendThree
<1>10. PICK new : new = {ev(i) : i \in 1..k}
  OBVIOUS
<1>11. /\ k = 1 => log \cup new = log \cup {ev(1)}
       /\ k = 2 => log \cup new = log \cup {ev(1)} \cup {ev(2)}
       /\ k = 3 => log \cup new = log \cup {ev(1)} \cup {ev(2)} \cup {ev(3)}
  BY <1>6, <1>10
<1>12. WellFormed(log \cup new, lastSequence + k) /\ Paired(log \cup new)
  <2>1. k = 1 \/ k = 2 \/ k = 3
    OBVIOUS
  <2> QED BY <1>9, <1>11, <2>1
<1>13. \E x \in new : x.id = BackendId(lastSequence + k)
  BY <1>7, <1>10
<1>14. Appended(new, k)
  BY <1>1, <1>10
<1> QED BY <1>1, <1>2, <1>12, <1>13, <1>14, AppendedInv

LEMMA CompleteInv ==
  ASSUME EvidenceInv, NEW reply \in BOOLEAN, NEW to \in Terminal, Complete(reply, to)
  PROVE  EvidenceInv'
<1> DEFINE k    == IF reply /\ ~HasReply THEN 1 ELSE 0
           c(i) == IF i = 1 THEN (CHOOSE x \in log : x.seq = lastSequence).id
                            ELSE BackendId(lastSequence + i - 1)
           chained(i, kind, from, s) == BackendEvent(i, kind, Root, from, s, c(i))
           new  == {chained(i, "reply", "absent", "absent") : i \in 1..k}
                   \cup {chained(k + 1, "progress", "absent", "absent"),
                         chained(k + 2, "state", status[Root], to)}
<1>1. Appended(new, k + 2) /\ tx = Null /\ UNCHANGED <<tx, sender>>
  BY DEF Complete
<1>2. status' \in [Executions -> Statuses] /\ status'[Root] # "absent"
  BY DEF Complete, EvidenceInv, TypeOK, Statuses, Terminal, Executions
<1>3. \E y \in log : y.id = c(1)
  <2>1. lastSequence \in Nat /\ WellFormed(log, lastSequence) /\ \E x \in log : x.id = Created.id
    BY DEF EvidenceInv, TypeOK, LogInv
  <2>2. \E x \in log : x.seq = lastSequence
    <3>1. lastSequence \in 1..lastSequence
      BY <2>1 DEF WellFormed
    <3> QED BY <2>1, <3>1 DEF WellFormed
  <2>3. PICK y \in log : y = (CHOOSE x \in log : x.seq = lastSequence)
    BY <2>2
  <2>4. c(1) = y.id
    BY <2>3
  <2> QED BY <2>4
<1>4. /\ c(2) = BackendId(lastSequence + 1) /\ c(3) = BackendId(lastSequence + 2)
  BY DEF EvidenceInv, TypeOK
<1>5. CASE k = 1
  <2> DEFINE x1 == chained(1, "reply", "absent", "absent")
             x2 == chained(2, "progress", "absent", "absent")
             x3 == chained(3, "state", status[Root], to)
  <2>1. new = {x1, x2, x3}
    <3>1. 1..k = {1}
      BY <1>5
    <3>2. k + 1 = 2 /\ k + 2 = 3
      BY <1>5
    <3> HIDE DEF k, chained
    <3> QED BY <3>1, <3>2
  <2>2. /\ IsNext(x1, 1) /\ x1.cause = c(1) /\ IsNext(x2, 2) /\ x2.cause = c(2)
        /\ IsNext(x3, 3) /\ x3.cause = c(3)
    BY BackendEventIsNext
  <2>3. Appended(new, 3)
    BY <1>1, <1>5
  <2> HIDE DEF new, x1, x2, x3, c
  <2>4. /\ x1.id = BackendId(lastSequence + 1) /\ x2.id = BackendId(lastSequence + 2)
        /\ x3.id = BackendId(lastSequence + 3)
    BY <2>2 DEF IsNext
  <2>5. log \cup new = log \cup {x1} \cup {x2} \cup {x3} /\ x3 \in new
    BY <2>1
  <2>6. /\ \E y \in log : y.id = x1.cause
        /\ \E y \in log \cup {x1} : y.id = x2.cause
        /\ \E y \in log \cup {x1} \cup {x2} : y.id = x3.cause
    BY <1>3, <1>4, <2>2, <2>4
  <2>7. /\ WellFormed(log \cup {x1} \cup {x2} \cup {x3}, lastSequence + 3)
        /\ Paired(log \cup {x1} \cup {x2} \cup {x3})
    BY <2>2, <2>6, AppendThree
  <2>8. WellFormed(log \cup new, lastSequence + 3) /\ Paired(log \cup new)
    BY <2>5, <2>7
  <2> QED BY <1>1, <1>2, <2>3, <2>4, <2>5, <2>8, AppendedInv
<1>6. CASE k = 0
  <2> DEFINE x1 == chained(1, "progress", "absent", "absent")
             x2 == chained(2, "state", status[Root], to)
             x3 == chained(3, "state", status[Root], to)
  <2>1. new = {x1, x2}
    <3>1. 1..k = {}
      BY <1>6
    <3>2. k + 1 = 1 /\ k + 2 = 2
      BY <1>6
    <3> HIDE DEF k, chained
    <3> QED BY <3>1, <3>2
  <2>2. /\ IsNext(x1, 1) /\ x1.cause = c(1) /\ IsNext(x2, 2) /\ x2.cause = c(2)
        /\ IsNext(x3, 3) /\ x3.cause = c(3)
    BY BackendEventIsNext
  <2>3. Appended(new, 2)
    BY <1>1, <1>6
  <2> HIDE DEF new, x1, x2, x3, c
  <2>4. /\ x1.id = BackendId(lastSequence + 1) /\ x2.id = BackendId(lastSequence + 2)
    BY <2>2 DEF IsNext
  <2>5. log \cup new = log \cup {x1} \cup {x2} /\ x2 \in new
    BY <2>1
  <2>6. WellFormed(log \cup new, lastSequence + 2) /\ Paired(log \cup new)
    BY <1>3, <1>4, <2>2, <2>4, <2>5, AppendThree
  <2> QED BY <1>1, <1>2, <2>3, <2>4, <2>5, <2>6, AppendedInv
<1> QED BY <1>5, <1>6

(* A row that is not locked changes while an ingestion is open.            *)
LEMMA RowInv ==
  ASSUME EvidenceInv, \E e \in Executions : ClaimRow(e) \/ CreateChild(e)
  PROVE  EvidenceInv'
<1>1. UNCHANGED <<lastSequence, lastEvent, log, tx, sender>>
  BY DEF ClaimRow, CreateChild
<1>2. status' \in [Executions -> Statuses] /\ status'[Root] # "absent"
  BY DEF ClaimRow, CreateChild, EvidenceInv, TypeOK, Statuses, Executions
<1>3. status'[Root] \in Terminal => status[Root] \in Terminal /\ status'[Root] = status[Root]
  BY DEF ClaimRow, CreateChild, EvidenceInv, TypeOK, Terminal, Executions
<1>4. TypeOK'
  BY <1>1, <1>2 DEF EvidenceInv, TypeOK, sender
<1>5. LogInv'
  BY <1>1 DEF EvidenceInv, LogInv, WellFormed, Paired, Has, IsLastOf, sender
<1>6. TxInv'
  <2>1. Stored' = Stored /\ tx' = tx
    BY <1>1 DEF Stored
  <2>2. WellFormed(Stored, tx.seq)' = WellFormed(Stored, tx.seq) /\ Paired(Stored)' = Paired(Stored)
    BY <2>1 DEF WellFormed, Paired, Has, IsLastOf
  <2>3. \A w, n : Has(Stored, w, n)' = Has(Stored, w, n)
    BY <2>1 DEF Has
  <2> QED BY <1>3, <2>1, <2>2, <2>3 DEF EvidenceInv, TxInv
<1> QED BY <1>4, <1>5, <1>6 DEF EvidenceInv

(* The steps of an ingestion change neither the rows nor the log.          *)
LEMMA OpenInv ==
  ASSUME EvidenceInv, UNCHANGED <<status, lastSequence, lastEvent, log, sender>>
  PROVE  LogInv' /\ (TypeOK' <=>
           (tx' # Null =>
              /\ DOMAIN tx' = {"by", "next", "hi", "seq", "last", "new", "rows"}
              /\ tx'.by \in Workers /\ tx'.next \in Nat /\ tx'.seq \in Nat
              /\ tx'.hi \in 1..Len(script[tx'.by])
              /\ Root \in DOMAIN tx'.rows /\ DOMAIN tx'.rows \subseteq Executions
              /\ \A e \in DOMAIN tx'.rows : tx'.rows[e] \in Statuses \ {"absent"}))
<1>1. LogInv'
  BY DEF EvidenceInv, LogInv, WellFormed, Paired, Has, IsLastOf, sender
<1>2. script' = script
  BY DEF sender
<1> QED BY <1>1, <1>2 DEF EvidenceInv, TypeOK, sender

LEMMA BeginInv ==
  ASSUME EvidenceInv, NEW w \in Workers, NEW lo \in 1..Len(script[w]), NEW hi \in 1..Len(script[w]),
         Begin(w, lo, hi)
  PROVE  EvidenceInv'
<1>1. UNCHANGED <<status, lastSequence, lastEvent, log, sender>>
  BY DEF Begin
<1>2. tx' = [by |-> w, next |-> lo, hi |-> hi, seq |-> lastSequence, last |-> lastEvent,
             new |-> {}, rows |-> [e \in {Root} |-> status[e]]]
  BY DEF Begin
<1>3. TypeOK'
  BY <1>1, <1>2, OpenInv DEF EvidenceInv, TypeOK, Executions, Begin
<1>4. TxInv'
  <2>1. Stored' = log /\ tx'.new = {} /\ tx'.seq = lastSequence /\ tx'.last = lastEvent
    BY <1>1, <1>2 DEF Stored
  <2>2. WellFormed(Stored, tx.seq)' /\ Paired(Stored)' /\ \E x \in Stored' : x.id = tx'.last
    BY <2>1 DEF EvidenceInv, LogInv, WellFormed, Paired, Has, IsLastOf
  <2>3. tx'.next \in 1..(tx'.hi + 1)
    BY <1>2 DEF Begin
  <2>4. \A n \in 1..(tx'.next - 1) : Has(Stored, tx.by, n)'
    <3>1. \A n \in 1..(lo - 1) : n \in 1..acked[w]
      BY DEF Begin, EvidenceInv, TypeOK
    <3> QED BY <1>2, <2>1, <3>1 DEF EvidenceInv, LogInv, Has
  <2>5. status'[Root] \in Terminal => tx'.new = {} /\ tx'.rows[Root] = status'[Root]
    BY <1>1, <1>2
  <2> QED BY <2>1, <2>2, <2>3, <2>4, <2>5 DEF TxInv
<1> QED BY <1>1, <1>3, <1>4, OpenInv DEF EvidenceInv

(* The locked rows and the row of the event that the loop is at.           *)
LEMMA TargetRows ==
  ASSUME EvidenceInv, More
  PROVE  /\ Incoming.exec \in Executions
         /\ Incoming.kind = "state" => Incoming.to \in Statuses \ {"absent"}
         /\ status[Incoming.exec] # "absent" =>
              /\ DOMAIN WithTarget = DOMAIN tx.rows \cup {Incoming.exec}
              /\ DOMAIN WithTarget \subseteq Executions /\ Root \in DOMAIN WithTarget
              /\ \A e \in DOMAIN WithTarget : WithTarget[e] \in Statuses \ {"absent"}
              /\ WithTarget[Root] = tx.rows[Root]
<1>1. tx # Null /\ tx.by \in Workers /\ tx.next \in 1..Len(script[tx.by])
  BY DEF EvidenceInv, TypeOK, TxInv, More
<1>2. script[tx.by] \in Scripts
  BY <1>1 DEF EvidenceInv, TypeOK
<1>3. /\ Incoming.exec \in Executions
      /\ Incoming.kind = "state" => Incoming.to \in Statuses \ {"absent"}
  BY <1>1, <1>2 DEF Incoming
<1> QED BY <1>1, <1>3 DEF EvidenceInv, TypeOK, WithTarget

LEMMA SkipInv == ASSUME EvidenceInv, Skip PROVE EvidenceInv'
<1>1. UNCHANGED <<status, lastSequence, lastEvent, log, sender>>
  BY DEF Skip
<1>2. /\ More /\ status[Incoming.exec] # "absent" /\ Duplicate
      /\ tx' = [tx EXCEPT !.next = @ + 1, !.rows = WithTarget]
  BY DEF Skip
<1>3. tx # Null /\ tx.next \in 1..tx.hi /\ tx.hi \in 1..Len(script[tx.by])
  BY <1>2 DEF EvidenceInv, TypeOK, TxInv, More
<1>4. /\ DOMAIN tx' = DOMAIN tx /\ tx'.by = tx.by /\ tx'.next = tx.next + 1 /\ tx'.hi = tx.hi
      /\ tx'.seq = tx.seq /\ tx'.last = tx.last /\ tx'.new = tx.new /\ tx'.rows = WithTarget
  BY <1>2, <1>3 DEF EvidenceInv, TypeOK
<1>5. TypeOK'
  <2>1. /\ tx'.by \in Workers /\ tx'.next \in Nat /\ tx'.seq \in Nat
        /\ tx'.hi \in 1..Len(script[tx'.by])
        /\ DOMAIN tx' = {"by", "next", "hi", "seq", "last", "new", "rows"}
    BY <1>3, <1>4 DEF EvidenceInv, TypeOK
  <2>2. /\ Root \in DOMAIN tx'.rows /\ DOMAIN tx'.rows \subseteq Executions
        /\ \A e \in DOMAIN tx'.rows : tx'.rows[e] \in Statuses \ {"absent"}
    BY <1>2, <1>4, TargetRows
  <2> QED BY <1>1, <2>1, <2>2, OpenInv
<1>6. TxInv'
  <2>1. Stored' = Stored
    BY <1>1, <1>4 DEF Stored
  <2>2. WellFormed(Stored, tx.seq)' /\ Paired(Stored)' /\ \E x \in Stored' : x.id = tx'.last
    <3>1. /\ WellFormed(Stored, tx.seq)' = WellFormed(Stored, tx.seq)
          /\ Paired(Stored)' = Paired(Stored)
      BY <1>4, <2>1 DEF WellFormed, Paired, Has, IsLastOf
    <3> QED BY <1>3, <1>4, <2>1, <3>1 DEF EvidenceInv, TxInv
  <2>3. \A n \in 1..(tx'.next - 1) : Has(Stored, tx.by, n)'
    <3> SUFFICES ASSUME NEW n \in 1..(tx'.next - 1) PROVE Has(Stored, tx.by, n)
      BY <1>4, <2>1 DEF Has
    <3>1. CASE n = tx.next
      <4>1. PICK x \in Stored : x.id = IncomingId
        BY <1>2 DEF Duplicate
      <4>2. /\ x.by \in Workers \cup {Backend}
            /\ x.id = IF x.by = Backend THEN BackendId(x.seq) ELSE WorkerId(x.by, x.n)
        BY <1>3 DEF EvidenceInv, TxInv, WellFormed
      <4>3. tx.by \in Workers
        BY <1>3 DEF EvidenceInv, TypeOK
      <4>4. x.by = tx.by /\ x.n = tx.next
        BY <4>1, <4>2, <4>3 DEF IncomingId, BackendId, WorkerId
      <4> QED BY <3>1, <4>4 DEF Has
    <3>2. CASE n # tx.next
      <4>1. n \in 1..(tx.next - 1)
        BY <1>3, <1>4, <3>2
      <4> QED BY <1>3, <4>1 DEF EvidenceInv, TxInv
    <3> QED BY <3>1, <3>2
  <2>4. status'[Root] \in Terminal => tx'.new = {} /\ tx'.rows[Root] = status'[Root]
    BY <1>1, <1>2, <1>3, <1>4, TargetRows DEF EvidenceInv, TxInv
  <2>5. tx'.next \in 1..(tx'.hi + 1) /\ \A x \in tx'.new : x.by = tx'.by
    BY <1>3, <1>4 DEF EvidenceInv, TxInv
  <2> QED BY <2>2, <2>3, <2>4, <2>5 DEF TxInv
<1> QED BY <1>1, <1>5, <1>6, OpenInv DEF EvidenceInv

(* The event that Accept stores.                                           *)
Stamped == [id |-> IncomingId, seq |-> tx.seq + 1, by |-> tx.by, n |-> tx.next,
            kind |-> Incoming.kind, exec |-> Incoming.exec, op |-> Incoming.op,
            from |-> Incoming.from, to |-> Incoming.to, cause |-> CauseId]

LEMMA StampedFits ==
  ASSUME EvidenceInv, More, Acceptable(Incoming)
  PROVE  WellFormed(Stored \cup {Stamped}, tx.seq + 1) /\ Paired(Stored \cup {Stamped})
<1>1. /\ tx # Null /\ tx.by \in Workers /\ tx.next \in Nat \ {0} /\ tx.seq \in Nat
      /\ WellFormed(Stored, tx.seq) /\ Paired(Stored)
      /\ \A n \in 1..(tx.next - 1) : Has(Stored, tx.by, n)
  BY DEF EvidenceInv, TypeOK, TxInv, More
<1>2. /\ Stamped.by = tx.by /\ Stamped.seq = tx.seq + 1 /\ Stamped.n = tx.next
      /\ Stamped.id = WorkerId(tx.by, tx.next) /\ Stamped.cause = CauseId
      /\ Stamped.kind = Incoming.kind /\ Stamped.op = Incoming.op
  BY DEF Stamped, IncomingId
<1> HIDE DEF Stamped
<1>3. WellFormed(Stored \cup {Stamped}, tx.seq + 1)
  <2>1. /\ Stamped.by \in Workers \cup {Backend} /\ Stamped.seq = tx.seq + 1
        /\ Stamped.n \in Nat \ {0}
    BY <1>1, <1>2
  <2>2. Stamped.id = (IF Stamped.by = Backend THEN BackendId(Stamped.seq)
                                               ELSE WorkerId(Stamped.by, Stamped.n))
    BY <1>1, <1>2
  <2>3. \A y \in Stored : y.by = Stamped.by => y.n < Stamped.n
    BY <1>2 DEF Acceptable
  <2>4. Stamped.by \in Workers => \A n \in 1..(Stamped.n - 1) : Has(Stored, Stamped.by, n)
    BY <1>1, <1>2
  <2>5. Stamped.cause # Null => \E y \in Stored : y.id = Stamped.cause
    BY <1>2 DEF Acceptable
  <2> QED BY <1>1, <2>1, <2>2, <2>3, <2>4, <2>5, AppendWellFormed
<1>4. Paired(Stored \cup {Stamped})
  <2>1. /\ Stamped.kind = "started" =>
              ~\E x \in Stored : x.kind = "started" /\ x.op = Stamped.op
        /\ Stamped.kind = "finished" =>
              /\ \E x \in Stored : x.kind = "started" /\ x.op = Stamped.op
              /\ ~\E x \in Stored : x.kind = "finished" /\ x.op = Stamped.op
    BY <1>2 DEF Acceptable, LifecycleAllows
  <2>2. \A x \in Stored : x.seq < Stamped.seq
    BY <1>1, <1>2 DEF WellFormed
  <2> QED BY <1>1, <2>1, <2>2 DEF Paired
<1> QED BY <1>3, <1>4

LEMMA AcceptInv == ASSUME EvidenceInv, Accept PROVE EvidenceInv'
<1> DEFINE rows == [e \in DOMAIN WithTarget |->
                      IF Incoming.kind = "state" /\ e = Incoming.exec THEN Incoming.to
                                                                      ELSE WithTarget[e]]
<1>1. UNCHANGED <<status, lastSequence, lastEvent, log, sender>>
  BY DEF Accept
<1>2. /\ More /\ status[Incoming.exec] # "absent" /\ ~Duplicate /\ Acceptable(Incoming)
      /\ tx' = [tx EXCEPT !.next = @ + 1, !.seq = @ + 1, !.last = IncomingId,
                           !.new = @ \cup {Stamped}, !.rows = rows]
  BY DEF Accept, Stamped
<1>3. tx # Null /\ tx.next \in 1..tx.hi /\ tx.hi \in 1..Len(script[tx.by])
  BY <1>2 DEF EvidenceInv, TypeOK, TxInv, More
<1>4. /\ DOMAIN tx' = DOMAIN tx /\ tx'.by = tx.by /\ tx'.next = tx.next + 1 /\ tx'.hi = tx.hi
      /\ tx'.seq = tx.seq + 1 /\ tx'.last = IncomingId /\ tx'.new = tx.new \cup {Stamped}
      /\ tx'.rows = rows
  BY <1>2, <1>3 DEF EvidenceInv, TypeOK
<1>5. TypeOK'
  <2>1. /\ tx'.by \in Workers /\ tx'.next \in Nat /\ tx'.seq \in Nat
        /\ tx'.hi \in 1..Len(script[tx'.by])
        /\ DOMAIN tx' = {"by", "next", "hi", "seq", "last", "new", "rows"}
    BY <1>3, <1>4 DEF EvidenceInv, TypeOK
  <2>2. /\ Root \in DOMAIN rows /\ DOMAIN rows \subseteq Executions
        /\ \A e \in DOMAIN rows : rows[e] \in Statuses \ {"absent"}
    BY <1>2, TargetRows
  <2> QED BY <1>1, <1>4, <2>1, <2>2, OpenInv
<1>6. TxInv'
  <2>1. Stored' = Stored \cup {Stamped}
    BY <1>1, <1>4 DEF Stored
  <2>2. WellFormed(Stored, tx.seq)' /\ Paired(Stored)'
    <3>1. WellFormed(Stored \cup {Stamped}, tx.seq + 1) /\ Paired(Stored \cup {Stamped})
      BY <1>2, StampedFits
    <3>2. /\ WellFormed(Stored, tx.seq)' = WellFormed(Stored \cup {Stamped}, tx.seq + 1)
          /\ Paired(Stored)' = Paired(Stored \cup {Stamped})
      BY <1>4, <2>1 DEF WellFormed, Paired, Has, IsLastOf
    <3> QED BY <3>1, <3>2
  <2>3. /\ Stamped \in Stored' /\ Stamped.id = tx'.last /\ Stamped.by = tx.by
        /\ Stamped.n = tx.next
    BY <1>4, <2>1 DEF Stamped
  <2> HIDE DEF Stamped
  <2>4. \A n \in 1..(tx'.next - 1) : Has(Stored, tx.by, n)'
    <3> SUFFICES ASSUME NEW n \in 1..(tx'.next - 1)
                 PROVE  \E x \in Stored \cup {Stamped} : x.by = tx.by /\ x.n = n
      BY <1>4, <2>1 DEF Has
    <3>1. CASE n = tx.next
      BY <2>1, <2>3, <3>1
    <3>2. CASE n # tx.next
      <4>1. n \in 1..(tx.next - 1)
        BY <1>3, <1>4, <3>2
      <4> QED BY <1>3, <4>1 DEF EvidenceInv, TxInv, Has
    <3> QED BY <3>1, <3>2
  <2>5. ~(status'[Root] \in Terminal)
    BY <1>1, <1>2, <1>3 DEF Acceptable, EvidenceInv, TxInv
  <2>6. tx'.next \in 1..(tx'.hi + 1) /\ \A x \in tx'.new : x.by = tx'.by
    BY <1>3, <1>4, <2>3 DEF EvidenceInv, TxInv
  <2> QED BY <2>2, <2>3, <2>4, <2>5, <2>6 DEF TxInv
<1> QED BY <1>1, <1>5, <1>6, OpenInv DEF EvidenceInv

LEMMA CommitInv ==
  ASSUME EvidenceInv, NEW delivered \in BOOLEAN, Commit(delivered)
  PROVE  EvidenceInv'
<1>1. /\ tx # Null /\ tx.next = tx.hi + 1 /\ tx.by \in Workers /\ tx.hi \in Nat
      /\ tx.seq \in Nat
  BY DEF Commit, EvidenceInv, TypeOK, TxInv
<1>2. /\ log' = Stored /\ lastSequence' = tx.seq /\ lastEvent' = tx.last /\ tx' = Null
      /\ script' = script
  BY DEF Commit
<1>3. status' \in [Executions -> Statuses] /\ status'[Root] # "absent"
  <2>1. status' = [e \in Executions |-> IF e \in DOMAIN tx.rows THEN tx.rows[e] ELSE status[e]]
    BY DEF Commit
  <2> QED BY <1>1, <2>1 DEF EvidenceInv, TypeOK, Executions
<1>4. acked' \in [Workers -> Nat] /\ \A w \in Workers : acked'[w] = acked[w]
                                                       \/ (w = tx.by /\ acked'[w] = tx.hi)
  BY <1>1 DEF Commit, EvidenceInv, TypeOK
<1>5. WellFormed(log, lastSequence)' /\ Paired(log)'
  <2>1. WellFormed(Stored, tx.seq) /\ Paired(Stored)
    BY <1>1 DEF EvidenceInv, TxInv
  <2>2. /\ WellFormed(log, lastSequence)' = WellFormed(Stored, tx.seq)
        /\ Paired(log)' = Paired(Stored)
    BY <1>2 DEF WellFormed, Paired, Has, IsLastOf
  <2> QED BY <2>1, <2>2
<1>6. LogInv'
  <2>1. log \subseteq Stored
    BY DEF Stored
  <2>2. (\E x \in log' : x.id = Created.id) /\ \E x \in log' : x.id = lastEvent'
    BY <1>1, <1>2, <2>1 DEF EvidenceInv, LogInv, TxInv
  <2>3. \A w \in Workers : \A n \in 1..acked'[w] : Has(log, w, n)'
    <3> SUFFICES ASSUME NEW w \in Workers, NEW n \in 1..acked'[w]
                 PROVE  \E x \in Stored : x.by = w /\ x.n = n
      BY <1>2 DEF Has
    <3>1. CASE acked'[w] = acked[w]
      BY <2>1, <3>1 DEF EvidenceInv, LogInv, Has
    <3>2. CASE w = tx.by /\ acked'[w] = tx.hi
      <4>1. n \in 1..(tx.next - 1)
        BY <1>1, <3>2
      <4> QED BY <1>1, <3>2, <4>1 DEF EvidenceInv, TxInv, Has
    <3> QED BY <1>4, <3>1, <3>2
  <2> QED BY <1>5, <2>2, <2>3 DEF LogInv, Created, InitialEvent, BackendId
<1>7. TypeOK'
  <2>1. lastSequence' \in Nat
    BY <1>1, <1>2
  <2>2. \A x \in log' : x.by \in Workers \cup {Backend} /\ x.seq \in Nat /\ x.n \in Nat
    BY <1>5, <2>1, WellTyped
  <2> QED BY <1>2, <1>3, <1>4, <2>1, <2>2 DEF EvidenceInv, TypeOK
<1> QED BY <1>2, <1>6, <1>7 DEF EvidenceInv, TxInv

LEMMA AbortInv == ASSUME EvidenceInv, Abort PROVE EvidenceInv'
<1>1. UNCHANGED <<status, lastSequence, lastEvent, log, sender>> /\ tx' = Null
  BY DEF Abort
<1> QED BY <1>1, OpenInv DEF EvidenceInv, TxInv

LEMMA NextInv == EvidenceInv /\ [Next]_vars => EvidenceInv'
<1> SUFFICES ASSUME EvidenceInv, [Next]_vars PROVE EvidenceInv'
  OBVIOUS
<1>1. ASSUME NEW e \in Executions, ClaimRow(e) \/ CreateChild(e) PROVE EvidenceInv'
  BY <1>1, RowInv
<1>2. ASSUME NEW e \in Executions, NEW to \in {"queued"} \cup Terminal, UpdateStatus(e, to)
      PROVE  EvidenceInv'
  BY <1>2, UpdateStatusInv
<1>3. ASSUME NEW k \in 1..3, Report(k) PROVE EvidenceInv'
  BY <1>3, ReportInv
<1>4. ASSUME NEW reply \in BOOLEAN, NEW to \in Terminal, Complete(reply, to) PROVE EvidenceInv'
  BY <1>4, CompleteInv
<1>5. ASSUME NEW w \in Workers, NEW lo \in 1..Len(script[w]), NEW hi \in 1..Len(script[w]),
             Begin(w, lo, hi)
      PROVE  EvidenceInv'
  BY <1>5, BeginInv
<1>6. ASSUME NEW delivered \in BOOLEAN, Commit(delivered) PROVE EvidenceInv'
  BY <1>6, CommitInv
<1>7. CASE UNCHANGED vars
  <2>1. UNCHANGED <<status, lastSequence, lastEvent, log, sender>> /\ tx' = tx
    BY <1>7 DEF vars
  <2>2. /\ WellFormed(Stored, tx.seq)' = WellFormed(Stored, tx.seq) /\ Stored' = Stored
        /\ Paired(Stored)' = Paired(Stored)
        /\ \A w, n : Has(Stored, w, n)' = Has(Stored, w, n)
    BY <2>1 DEF Stored, WellFormed, Paired, Has, IsLastOf
  <2>3. TxInv'
    BY <2>1, <2>2 DEF EvidenceInv, TxInv
  <2>4. TypeOK'
    BY <2>1, OpenInv DEF EvidenceInv, TypeOK
  <2> QED BY <2>1, <2>3, <2>4, OpenInv DEF EvidenceInv
<1> QED BY <1>1, <1>2, <1>3, <1>4, <1>5, <1>6, <1>7, SkipInv, AcceptInv, AbortInv DEF Next

LEMMA EvidenceInvariant == Spec => []EvidenceInv
BY InitialInv, NextInv, PTL DEF Spec
-----------------------------------------------------------------------------
(* The log, the rows and an open ingestion keep their types.               *)
THEOREM LogTyping == Spec => []TypeOK
<1>1. EvidenceInv => TypeOK
  BY DEF EvidenceInv
<1> QED BY <1>1, EvidenceInvariant, PTL

(* Readers can page through the log: its sequences are 1 to last_sequence. *)
THEOREM SequencesAreDense == Spec => []SequenceIsDense
<1>1. EvidenceInv => SequenceIsDense
  <2> SUFFICES ASSUME EvidenceInv PROVE SequenceIsDense
    OBVIOUS
  <2>1. WellFormed(log, lastSequence) /\ lastSequence \in Nat
    BY DEF EvidenceInv, LogInv, TypeOK
  <2>2. {x.seq : x \in log} = 1..lastSequence
    BY <2>1 DEF WellFormed
  <2>3. ASSUME NEW x \in log, NEW y \in log, x.seq = y.seq \/ x.id = y.id PROVE x = y
    <3>1. /\ x.by \in Workers \cup {Backend} /\ y.by \in Workers \cup {Backend}
          /\ x.seq \in 1..lastSequence /\ y.seq \in 1..lastSequence
          /\ x.n \in Nat \ {0} /\ y.n \in Nat \ {0}
          /\ x.id = IF x.by = Backend THEN BackendId(x.seq) ELSE WorkerId(x.by, x.n)
          /\ y.id = IF y.by = Backend THEN BackendId(y.seq) ELSE WorkerId(y.by, y.n)
      BY <2>1 DEF WellFormed
    <3>2. /\ x.seq = y.seq => x = y
          /\ x.by = y.by => (x.seq < y.seq <=> x.n < y.n) /\ (y.seq < x.seq <=> y.n < x.n)
      BY <2>1 DEF WellFormed
    <3>3. x.id = y.id => x.by = y.by /\ (x.seq = y.seq \/ x.n = y.n)
      BY <3>1 DEF BackendId, WorkerId
    <3> QED BY <2>1, <2>3, <3>1, <3>2, <3>3
  <2> QED BY <2>2, <2>3 DEF SequenceIsDense
<1> QED BY <1>1, EvidenceInvariant, PTL

(* The log keeps the order in which each producer numbered its events.     *)
THEOREM ProducersKeepOrder == Spec => []ProducersInOrder
<1>1. EvidenceInv => ProducersInOrder
  BY DEF EvidenceInv, LogInv, WellFormed, ProducersInOrder
<1> QED BY <1>1, EvidenceInvariant, PTL

(* Whatever is lost, repeated or refused, the log has a prefix of what a   *)
(* worker reported, and all that was acknowledged to it.                   *)
THEOREM WorkersLoseNothing == Spec => []WorkersHaveNoGaps
<1>1. EvidenceInv => WorkersHaveNoGaps
  BY DEF EvidenceInv, LogInv, WellFormed, WorkersHaveNoGaps
<1> QED BY <1>1, EvidenceInvariant, PTL

(* Every cause is stored before its effect.                                *)
THEOREM CausesPrecedeEffects == Spec => []CausesComeFirst
<1>1. EvidenceInv => CausesComeFirst
  BY DEF EvidenceInv, LogInv, WellFormed, CausesComeFirst
<1> QED BY <1>1, EvidenceInvariant, PTL

(* Operations start and finish at most once, in that order.                *)
THEOREM OperationsArePaired == Spec => []OperationsPair
<1>1. EvidenceInv => OperationsPair
  BY DEF EvidenceInv, LogInv, OperationsPair
<1> QED BY <1>1, EvidenceInvariant, PTL

(* Nothing that a worker still has under way is stored after the end.      *)
THEOREM EndIsFinalForWorkers == Spec => ClosedToWorkers
<1>1. EvidenceInv /\ [Next]_vars =>
        [status[Root] \in Terminal => \A x \in log' \ log : x.by = Backend]_vars
  <2> SUFFICES ASSUME EvidenceInv, Next, status[Root] \in Terminal, NEW x \in log' \ log
               PROVE  x.by = Backend
    BY DEF vars
  <2>1. ASSUME NEW e \in Executions, NEW to \in {"queued"} \cup Terminal, UpdateStatus(e, to)
        PROVE  x.by = Backend
    BY <2>1 DEF UpdateStatus, Appended, BackendEvent
  <2>2. ASSUME NEW k \in 1..3, Report(k) PROVE x.by = Backend
    BY <2>2 DEF Report, Appended, BackendEvent
  <2>3. ASSUME NEW reply \in BOOLEAN, NEW to \in Terminal, Complete(reply, to)
        PROVE  x.by = Backend
    BY <2>3 DEF Complete
  <2>4. ASSUME NEW delivered \in BOOLEAN, Commit(delivered) PROVE x.by = Backend
    BY <2>4 DEF Commit, Stored, EvidenceInv, TxInv
  <2>5. log' = log => FALSE
    OBVIOUS
  <2> QED BY <2>1, <2>2, <2>3, <2>4, <2>5 DEF Next, ClaimRow, CreateChild, Begin, Skip, Accept, Abort
<1> QED BY <1>1, EvidenceInvariant, PTL DEF Spec, ClosedToWorkers
-----------------------------------------------------------------------------
(* An event is the last change of its execution when it is appended, and   *)
(* changes nothing for the others.                                         *)
LEMMA ChangeIsLast ==
  ASSUME NEW l, NEW last \in Nat, WellFormed(l, last), NEW new,
         NEW x \in new, x.kind = "state", x.seq \in Nat, x.seq > last,
         \A y \in new : y.kind = "state" => y = x
  PROVE  LastChange(l \cup new, x.exec, x.to)
<1>1. \A y \in l : y.seq \in 1..last
  BY DEF WellFormed
<1> QED BY <1>1 DEF LastChange

LEMMA OthersAreKept ==
  ASSUME NEW l, NEW new, NEW e, NEW s, LastChange(l, e, s),
         \A y \in new : ~(y.kind = "state" /\ y.exec = e)
  PROVE  LastChange(l \cup new, e, s)
BY DEF LastChange

LEMMA RowsInit == Init => RowsInv
BY DEF Init, RowsInv, TerminalIsLogged, Terminal

(* A transaction of the backend that changes the status of e, with the     *)
(* last event it appends, or no status.                                    *)
RowBecomes(e, to) == status' = [status EXCEPT ![e] = to]

Announces(new, x, e, to) ==
  /\ x \in new /\ x.kind = "state" /\ x.exec = e /\ x.to = to
  /\ x.seq \in Nat /\ x.seq > lastSequence
  /\ \A y \in new : y.kind = "state" => y = x

LEMMA ChangeKeepsRows ==
  ASSUME EvidenceInv, RowsInv, tx' = Null, NEW new, log' = log \cup new,
         NEW e \in Executions, NEW to \in Statuses, RowBecomes(e, to),
         NEW x, Announces(new, x, e, to)
  PROVE  RowsInv'
<1>1. WellFormed(log, lastSequence) /\ lastSequence \in Nat /\ status \in [Executions -> Statuses]
  BY DEF EvidenceInv, LogInv, TypeOK
<1>2. SUFFICES ASSUME NEW f \in Executions, status'[f] \in Terminal
               PROVE  LastChange(log', f, status'[f])
  BY DEF RowsInv, TerminalIsLogged, LastChange
<1>3. CASE f = e
  BY <1>1, <1>3, ChangeIsLast DEF RowBecomes, Announces
<1>4. CASE f # e
  <2>1. status'[f] = status[f] /\ LastChange(log, f, status[f])
    BY <1>1, <1>2, <1>4 DEF RowsInv, TerminalIsLogged, RowBecomes
  <2>2. \A y \in new : ~(y.kind = "state" /\ y.exec = f)
    BY <1>4 DEF Announces
  <2> QED BY <2>1, <2>2, OthersAreKept
<1> QED BY <1>3, <1>4

LEMMA ReportKeepsRows ==
  ASSUME RowsInv, tx' = Null, UNCHANGED status, NEW new, log' = log \cup new,
         \A y \in new : y.kind # "state"
  PROVE  RowsInv'
<1>1. SUFFICES ASSUME NEW f \in Executions, status[f] \in Terminal
               PROVE  LastChange(log', f, status[f])
  BY DEF RowsInv, TerminalIsLogged, LastChange
<1> QED BY <1>1, OthersAreKept DEF RowsInv, TerminalIsLogged

LEMMA WritersKeepRows ==
  ASSUME EvidenceInv, RowsInv,
         \/ \E e \in Executions, to \in {"queued"} \cup Terminal : UpdateStatus(e, to)
         \/ \E k \in 1..3 : Report(k)
         \/ \E reply \in BOOLEAN, to \in Terminal : Complete(reply, to)
  PROVE  RowsInv'
<1>1. lastSequence \in Nat /\ Root \in Executions /\ {"queued"} \cup Terminal \subseteq Statuses
  BY DEF EvidenceInv, TypeOK, Executions, Statuses
<1>2. ASSUME NEW e \in Executions, NEW to \in {"queued"} \cup Terminal, UpdateStatus(e, to)
      PROVE  RowsInv'
  <2> DEFINE x == BackendEvent(1, "state", e, status[e], to, lastEvent)
  <2>1. /\ x.kind = "state" /\ x.exec = e /\ x.to = to /\ x.seq = lastSequence + 1
    BY DEF BackendEvent
  <2>2. log' = log \cup {x} /\ status' = [status EXCEPT ![e] = to] /\ tx' = Null
    BY <1>2 DEF UpdateStatus, Appended
  <2>3. /\ x \in {x} /\ x.seq \in Nat /\ x.seq > lastSequence /\ to \in Statuses
        /\ \A y \in {x} : y.kind = "state" => y = x
    BY <1>1, <2>1
  <2>4. RowBecomes(e, to) /\ Announces({x}, x, e, to) /\ to \in Statuses
    BY <2>1, <2>2, <2>3 DEF RowBecomes, Announces
  <2> HIDE DEF x
  <2> QED BY <2>2, <2>4, ChangeKeepsRows
<1>3. ASSUME NEW k \in 1..3, Report(k)
      PROVE  RowsInv'
  <2> DEFINE ev(i) == BackendEvent(i, "progress", Root, "absent", "absent",
                                   IF i = 1 THEN lastEvent ELSE BackendId(lastSequence + 1))
             new   == {ev(i) : i \in 1..k}
  <2>1. log' = log \cup new /\ UNCHANGED status /\ tx' = Null
    BY <1>3 DEF Report, Appended
  <2>2. \A y \in new : y.kind # "state"
    BY DEF BackendEvent
  <2> HIDE DEF new
  <2> QED BY <2>1, <2>2, ReportKeepsRows
<1>4. ASSUME NEW reply \in BOOLEAN, NEW to \in Terminal, Complete(reply, to)
      PROVE  RowsInv'
  <2>1. PICK new : /\ log' = log \cup new
                   /\ \E x \in new :
                        /\ x.kind = "state" /\ x.exec = Root /\ x.to = to
                        /\ x.seq \in {lastSequence + 2, lastSequence + 3}
                        /\ \A y \in new : y.kind = "state" => y = x
    <3> DEFINE k    == IF reply /\ ~HasReply THEN 1 ELSE 0
               c(i) == IF i = 1 THEN (CHOOSE x \in log : x.seq = lastSequence).id
                                ELSE BackendId(lastSequence + i - 1)
               ev(i, kind, from, s) == BackendEvent(i, kind, Root, from, s, c(i))
               end  == ev(k + 2, "state", status[Root], to)
               new  == {ev(i, "reply", "absent", "absent") : i \in 1..k}
                       \cup {ev(k + 1, "progress", "absent", "absent"), end}
    <3>1. log' = log \cup new
      BY <1>4 DEF Complete, Appended
    <3>2. /\ end.kind = "state" /\ end.exec = Root /\ end.to = to
          /\ end.seq \in {lastSequence + 2, lastSequence + 3}
      BY <1>1 DEF BackendEvent
    <3>3. \A i, from, s : /\ ev(i, "reply", from, s).kind = "reply"
                          /\ ev(i, "progress", from, s).kind = "progress"
      BY DEF BackendEvent
    <3> HIDE DEF k, ev, end
    <3>4. end \in new /\ \A y \in new : y.kind = "state" => y = end
      BY <3>3
    <3> HIDE DEF new
    <3> QED BY <3>1, <3>2, <3>4
  <2>2. status' = [status EXCEPT ![Root] = to] /\ tx' = Null
    BY <1>4 DEF Complete
  <2>3. \A n \in {lastSequence + 2, lastSequence + 3} : n \in Nat /\ n > lastSequence
    BY <1>1
  <2>4. to \in Statuses /\ RowBecomes(Root, to)
    BY <1>1, <2>2 DEF RowBecomes
  <2>5. PICK x : Announces(new, x, Root, to)
    BY <2>1, <2>3 DEF Announces
  <2> QED BY <1>1, <2>1, <2>2, <2>4, <2>5, ChangeKeepsRows
<1> QED BY <1>2, <1>3, <1>4

(* What the open ingestion would commit, after it has met an event.        *)
LEMMA IngestionKeepsRows ==
  ASSUME EvidenceInv, RowsInv, Skip \/ Accept
  PROVE  RowsInv'
<1>1. /\ UNCHANGED <<status, log>> /\ More /\ status[Incoming.exec] # "absent"
  BY DEF Skip, Accept
<1>2. /\ DOMAIN WithTarget = DOMAIN tx.rows \cup {Incoming.exec}
      /\ DOMAIN WithTarget \subseteq Executions
      /\ Incoming.exec \in Executions
  BY <1>1, TargetRows
<1>3. /\ tx # Null /\ tx.seq \in Nat /\ WellFormed(Stored, tx.seq)
      /\ DOMAIN tx = {"by", "next", "hi", "seq", "last", "new", "rows"}
  BY <1>1 DEF More, EvidenceInv, TypeOK, TxInv
<1>4. TerminalIsLogged'
  BY <1>1 DEF RowsInv, TerminalIsLogged, LastChange
<1>5. ASSUME NEW e \in DOMAIN WithTarget, WithTarget[e] \in Terminal
      PROVE  LastChange(Stored, e, WithTarget[e])
  <2>1. CASE e \in DOMAIN tx.rows
    BY <1>2, <1>3, <1>5, <2>1 DEF RowsInv, WithTarget
  <2>2. CASE e \notin DOMAIN tx.rows
    <3>1. WithTarget[e] = status[e] /\ LastChange(log, e, status[e])
      BY <1>2, <1>5, <2>2 DEF RowsInv, TerminalIsLogged, WithTarget
    <3>2. \A y \in tx.new : ~(y.kind = "state" /\ y.exec = e)
      BY <1>3, <2>2 DEF RowsInv
    <3> QED BY <3>1, <3>2, OthersAreKept DEF Stored
  <2> QED BY <2>1, <2>2
<1>6. CASE Skip
  <2>1. tx' # Null => tx'.rows = WithTarget /\ tx'.new = tx.new
    BY <1>3, <1>6 DEF Skip
  <2>2. Stored' = Stored
    BY <1>1, <1>3, <1>6 DEF Skip, Stored
  <2> QED BY <1>2, <1>3, <1>4, <1>5, <2>1, <2>2 DEF RowsInv, LastChange
<1>7. CASE Accept
  <2> DEFINE rows == [e \in DOMAIN WithTarget |->
                        IF Incoming.kind = "state" /\ e = Incoming.exec THEN Incoming.to
                                                                        ELSE WithTarget[e]]
  <2>1. tx' = [tx EXCEPT !.next = @ + 1, !.seq = @ + 1, !.last = IncomingId,
                          !.new = @ \cup {Stamped}, !.rows = rows]
    BY <1>7 DEF Accept, Stamped
  <2>2. tx'.rows = rows /\ tx'.new = tx.new \cup {Stamped} /\ Stored' = Stored \cup {Stamped}
    BY <1>1, <1>3, <2>1 DEF Stored
  <2>3. /\ Stamped.kind = Incoming.kind /\ Stamped.exec = Incoming.exec
        /\ Stamped.to = Incoming.to /\ Stamped.seq = tx.seq + 1
    BY DEF Stamped
  <2> HIDE DEF Stamped
  <2>4. ASSUME NEW e \in DOMAIN rows, rows[e] \in Terminal
        PROVE  LastChange(Stored \cup {Stamped}, e, rows[e])
    <3>1. CASE Incoming.kind = "state" /\ e = Incoming.exec
      <4>1. rows[e] = Stamped.to /\ e = Stamped.exec
        BY <2>3, <3>1
      <4>2. /\ Stamped \in {Stamped} /\ Stamped.kind = "state"
            /\ Stamped.seq \in Nat /\ Stamped.seq > tx.seq
            /\ \A y \in {Stamped} : y.kind = "state" => y = Stamped
        BY <1>3, <2>3, <3>1
      <4> HIDE DEF rows
      <4> QED BY <1>3, <4>1, <4>2, ChangeIsLast
    <3>2. CASE ~(Incoming.kind = "state" /\ e = Incoming.exec)
      BY <1>5, <2>3, <2>4, <3>2, OthersAreKept
    <3> QED BY <3>1, <3>2
  <2>5. \A y \in tx'.new : y.kind = "state" => y.exec \in DOMAIN rows
    BY <1>2, <1>3, <2>2, <2>3 DEF RowsInv
  <2> HIDE DEF rows
  <2> QED BY <1>4, <2>2, <2>4, <2>5 DEF RowsInv, LastChange
<1> QED BY <1>6, <1>7

LEMMA CommitKeepsRows ==
  ASSUME EvidenceInv, RowsInv, NEW delivered \in BOOLEAN, Commit(delivered)
  PROVE  RowsInv'
<1>1. /\ tx # Null /\ tx' = Null /\ log' = log \cup tx.new
      /\ status' = [e \in Executions |-> IF e \in DOMAIN tx.rows THEN tx.rows[e] ELSE status[e]]
  BY DEF Commit, Stored
<1>2. SUFFICES ASSUME NEW e \in Executions, status'[e] \in Terminal
               PROVE  LastChange(log', e, status'[e])
  BY <1>1 DEF RowsInv, TerminalIsLogged, LastChange
<1>3. CASE e \in DOMAIN tx.rows
  BY <1>1, <1>2, <1>3 DEF RowsInv, Stored
<1>4. CASE e \notin DOMAIN tx.rows
  <2>1. \A y \in tx.new : ~(y.kind = "state" /\ y.exec = e)
    BY <1>1, <1>4 DEF RowsInv
  <2> QED BY <1>1, <1>2, <1>4, <2>1, OthersAreKept DEF RowsInv, TerminalIsLogged
<1> QED BY <1>3, <1>4

LEMMA RowsStep == EvidenceInv /\ RowsInv /\ [Next]_vars => RowsInv'
<1> SUFFICES ASSUME EvidenceInv, RowsInv, [Next]_vars PROVE RowsInv'
  OBVIOUS
<1>1. ASSUME UNCHANGED log, \A e \in Executions : status'[e] \in Terminal => status'[e] = status[e]
      PROVE  TerminalIsLogged'
  BY <1>1 DEF RowsInv, TerminalIsLogged, LastChange
<1>2. ASSUME UNCHANGED <<log, tx>>, TerminalIsLogged'
      PROVE  RowsInv'
  BY <1>2 DEF RowsInv, LastChange, Stored
<1>3. ASSUME NEW e \in Executions, ClaimRow(e) \/ CreateChild(e)
      PROVE  RowsInv'
  <2>1. status \in [Executions -> Statuses]
    BY DEF EvidenceInv, TypeOK
  <2>2. \A f \in Executions : status'[f] \in Terminal => status'[f] = status[f]
    BY <1>3, <2>1 DEF ClaimRow, CreateChild, Terminal
  <2> QED BY <1>1, <1>2, <1>3, <2>2 DEF ClaimRow, CreateChild
<1>4. ASSUME NEW w \in Workers, NEW lo \in 1..Len(script[w]), NEW hi \in 1..Len(script[w]),
             Begin(w, lo, hi)
      PROVE  RowsInv'
  <2>1. /\ UNCHANGED <<status, log>> /\ tx'.new = {} /\ tx'.rows = [e \in {Root} |-> status[e]]
        /\ Stored' = log
    BY <1>4 DEF Begin, Stored
  <2>2. \A e \in {Root} : status[e] \in Terminal => LastChange(log, e, status[e])
    BY DEF RowsInv, TerminalIsLogged, Executions
  <2> QED BY <1>1, <2>1, <2>2 DEF RowsInv, LastChange
<1>5. CASE Abort
  BY <1>1, <1>5 DEF Abort, RowsInv
<1>6. CASE UNCHANGED vars
  BY <1>1, <1>2, <1>6 DEF vars
<1> QED
  BY <1>3, <1>4, <1>5, <1>6, WritersKeepRows, IngestionKeepsRows, CommitKeepsRows DEF Next

(* Every terminal row has its explanation in the log, also while an        *)
(* ingestion is open that changes the rows of children event by event.     *)
THEOREM TerminalRowsAreLogged == Spec => []TerminalIsLogged
<1>1. RowsInv => TerminalIsLogged
  BY DEF RowsInv
<1> QED BY <1>1, EvidenceInvariant, RowsInit, RowsStep, PTL DEF Spec
=============================================================================
