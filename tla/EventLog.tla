------------------------------ MODULE EventLog ------------------------------
(***************************************************************************)
(* The evidence log of one execution tree (table "execution_events", and   *)
(* the rows of the root and of its children in "executions").  The backend *)
(* appends its own events as it changes the rows (createForChat, create,   *)
(* updateStatus, requestProgressGrant, reserveOperationBudget,             *)
(* completeExecution); models workers post batches of events, which        *)
(* acceptEvents stores in one transaction or not at all.                   *)
(*                                                                         *)
(* Every writer of the log holds the lock of the root row.  The backend's  *)
(* own transactions are one step; an ingestion takes one step per event,   *)
(* because it locks and reads the rows of children only as it meets them.  *)
(* A transaction that fails (a refused event, a deadlock on the row locks  *)
(* of a child, a crash) leaves no trace.                                   *)
(*                                                                         *)
(* Workers are outside the repository.  Here one numbers its events from   *)
(* 1, posts what is not acknowledged yet in order, and posts it again when *)
(* no reply came; a post may arrive late and more than once.               *)
(***************************************************************************)
EXTENDS Integers, Sequences

CONSTANTS
  Root, Children,  (* execution ids of the tree                             *)
  Workers,         (* producer instances of documents-models                *)
  Backend,         (* the producer documents-backend                        *)
  Scripts,         (* what a worker may have to report: sequences of        *)
                   (* records [kind, exec, op, from, to]                    *)
  MaxBatch,        (* events of one post                                    *)
  MaxProduced,     (* bound: backend events after the first ones            *)
  Null             (* SQL NULL, and no open ingestion                       *)

Executions == Children \cup {Root}
Terminal   == {"completed", "failed"}
Statuses   == {"absent", "queued", "running", "waiting"} \cup Terminal

ASSUME EventLogAssumption ==
  /\ Root \notin Children /\ Backend \notin Workers
  /\ MaxBatch \in Nat \ {0} /\ MaxProduced \in Nat
  /\ \A s \in Scripts : \A i \in 1..Len(s) :
       s[i].exec \in Executions /\ (s[i].kind = "state" => s[i].to \in Statuses \ {"absent"})

VARIABLES
  status,        (* executions.status; "absent": no row                    *)
  lastSequence,  (* last_sequence of the root row                          *)
  lastEvent,     (* last_event_id of the root row                          *)
  log,           (* the committed events of the root                       *)
  tx,            (* acceptEvents: the batch, the position in it and what   *)
                 (* the open transaction wrote                             *)
  script,        (* of each worker: the events it generates                *)
  acked          (* of each worker: the last event acknowledged to it      *)

sender == <<script, acked>>
vars   == <<status, lastSequence, lastEvent, log, tx, sender>>

(* An event id is a fresh UUID; a worker's own events keep theirs.         *)
BackendId(seq) == <<Backend, seq>>
WorkerId(w, n) == <<w, n>>
-----------------------------------------------------------------------------
(* Faulty: the events of all producers are numbered together.              *)
LastLogged == (CHOOSE x \in log : x.seq = lastSequence).n

(* The producer sequence of the last backend event: ORDER BY DESC, or a    *)
(* Math.max over the rows whose floor the first events already reach.      *)
IsLastOf(x, l, p) == x \in l /\ x.by = p /\ \A y \in l : y.by = p => y.n <= x.n
LastProduced      == (CHOOSE x \in log : IsLastOf(x, log, Backend)).n

(* appendBackendEvent, for the k-th event of a transaction.                *)
BackendEvent(k, kind, e, from, to, cause) ==
  [id |-> BackendId(lastSequence + k), seq |-> lastSequence + k, by |-> Backend,
   n |-> LastProduced + k, kind |-> kind, exec |-> e, op |-> Null,
   from |-> from, to |-> to, cause |-> cause]

(* Faulty: one event is counted whatever was appended; the next cause is   *)
(* named too early.                                                        *)
AppendedOnce(new, k) ==
  log' = log \cup new /\ lastSequence' = lastSequence + 1 /\ lastEvent' = BackendId(lastSequence')
AppendedAhead(new, k) ==
  log' = log \cup new /\ lastSequence' = lastSequence + k /\ lastEvent' = BackendId(lastSequence' + 1)

Appended(new, k) ==
  /\ log' = log \cup new
  /\ lastSequence' = lastSequence + k
  /\ lastEvent' = BackendId(lastSequence + k)
-----------------------------------------------------------------------------
(* createForChat writes three events with the root row, create only the    *)
(* first.                                                                  *)
InitialEvent(k, kind, cause) ==
  [id |-> BackendId(k), seq |-> k, by |-> Backend, n |-> k, kind |-> kind, exec |-> Root,
   op |-> Null, from |-> "absent", to |-> "absent", cause |-> cause]
Created == InitialEvent(1, "created", Null)
Message == InitialEvent(2, "message", Created.id)
Source  == InitialEvent(3, "source", Message.id)
IsChat  == Message \in log

MayProduce == LastProduced < (IF IsChat THEN 3 ELSE 1) + MaxProduced

Init ==
  /\ status = [e \in Executions |-> IF e = Root THEN "queued" ELSE "absent"]
  /\ \/ log = {Created, Message, Source} /\ lastSequence = 3 /\ lastEvent = Source.id
     \/ log = {Created} /\ lastSequence = 1 /\ lastEvent = Created.id
  /\ tx = Null
  /\ script \in [Workers -> Scripts]
  /\ acked = [w \in Workers |-> 0]

(* External: a worker claims a row, or inserts the row of a child.         *)
Locked(e) == tx # Null /\ e \in DOMAIN tx.rows

ClaimRow(e) ==
  /\ status[e] = "queued" /\ ~Locked(e)
  /\ status' = [status EXCEPT ![e] = "running"]
  /\ UNCHANGED <<lastSequence, lastEvent, log, tx, sender>>

CreateChild(c) ==
  /\ c \in Children /\ status[c] = "absent"
  /\ status' = [status EXCEPT ![c] = "queued"]
  /\ UNCHANGED <<lastSequence, lastEvent, log, tx, sender>>

(* updateStatus of the root or of a child: the row and, in the log of the  *)
(* root, the event (stale recovery and finalization).                      *)
UpdateStatus(e, to) ==
  /\ tx = Null /\ MayProduce
  /\ status[e] \notin {"absent", to}
  /\ status' = [status EXCEPT ![e] = to]
  /\ Appended({BackendEvent(1, "state", e, status[e], to, lastEvent)}, 1)
  /\ UNCHANGED <<tx, sender>>

(* requestProgressGrant (k = 1) and reserveOperationBudget (the decision   *)
(* and up to two signals that it causes).                                  *)
Report(k) ==
  /\ tx = Null /\ MayProduce
  /\ IsChat /\ status[Root] = "running"
  /\ Appended({BackendEvent(i, "progress", Root, "absent", "absent",
                            IF i = 1 THEN lastEvent ELSE BackendId(lastSequence + 1)) : i \in 1..k},
              k)
  /\ UNCHANGED <<status, tx, sender>>

(* completeExecution of a chat root: the reply, unless the log has one or  *)
(* there is none; the ledger snapshot and the terminal status, unless the  *)
(* row is terminal.  Causes follow the last event of the log.              *)
HasReply == \E x \in log : x.kind = "reply"

Complete(reply, to) ==
  LET k == IF reply /\ ~HasReply THEN 1 ELSE 0
      chained(i, kind, from, s) ==
        BackendEvent(i, kind, Root, from, s,
                     IF i = 1 THEN (CHOOSE x \in log : x.seq = lastSequence).id
                              ELSE BackendId(lastSequence + i - 1))
  IN  /\ tx = Null /\ MayProduce
      /\ IsChat /\ status[Root] \notin Terminal
      /\ status' = [status EXCEPT ![Root] = to]
      /\ Appended({chained(i, "reply", "absent", "absent") : i \in 1..k}
                  \cup {chained(k + 1, "progress", "absent", "absent"),
                        chained(k + 2, "state", status[Root], to)}, k + 2)
      /\ UNCHANGED <<tx, sender>>
-----------------------------------------------------------------------------
(* A post of a worker arrives, for the first time or again: acceptEvents   *)
(* locks the root row and starts from its last sequence.  The worker posts *)
(* from its first unacknowledged event on, so a post that was under way    *)
(* starts no later than that.                                              *)
Begin(w, lo, hi) ==
  /\ tx = Null
  /\ lo \in 1..(acked[w] + 1) /\ hi \in lo..Len(script[w]) /\ hi - lo < MaxBatch
  /\ tx' = [by |-> w, next |-> lo, hi |-> hi, seq |-> lastSequence, last |-> lastEvent,
            new |-> {}, rows |-> [e \in {Root} |-> status[e]]]
  /\ UNCHANGED <<status, lastSequence, lastEvent, log, sender>>

(* The loop over the batch: the row of the event's execution is locked and *)
(* read when its first event is met, and an event with a known id is       *)
(* skipped.                                                                *)
Stored       == log \cup tx.new
Incoming     == script[tx.by][tx.next]
IncomingId   == WorkerId(tx.by, tx.next)
CauseId      == IF tx.next = 1 THEN Created.id ELSE WorkerId(tx.by, tx.next - 1)
WithTarget   == [e \in DOMAIN tx.rows \cup {Incoming.exec} |->
                   IF e \in DOMAIN tx.rows THEN tx.rows[e] ELSE status[e]]

More      == tx # Null /\ tx.next <= tx.hi
Duplicate == \E x \in Stored : x.id = IncomingId

(* Faulty: an event that cannot be stored is skipped.                      *)
SkipAny ==
  /\ More /\ tx' = [tx EXCEPT !.next = @ + 1]
  /\ UNCHANGED <<status, lastSequence, lastEvent, log, sender>>

Skip ==
  /\ More /\ status[Incoming.exec] # "absent" /\ Duplicate
  /\ tx' = [tx EXCEPT !.next = @ + 1, !.rows = WithTarget]
  /\ UNCHANGED <<status, lastSequence, lastEvent, log, sender>>

(* Faulty: a second start is not noticed.                                  *)
LifecycleUnchecked(ev) ==
  ev.kind = "finished" => \E x \in Stored : x.kind = "started" /\ x.op = ev.op

(* validateOperationLifecycle; op stands for an operation of an attempt.   *)
LifecycleAllows(ev) ==
  LET seen(kind) == \E x \in Stored : x.kind = kind /\ x.op = ev.op IN
  /\ ev.kind = "started"  => ~seen("started")
  /\ ev.kind = "finished" => seen("started") /\ ~seen("finished")

(* Faulty: the root may be terminal.                                       *)
AcceptableAlways(ev) ==
  /\ \A x \in Stored : x.by = tx.by => x.n < tx.next
  /\ LifecycleAllows(ev) /\ (ev.kind = "state" => WithTarget[ev.exec] = ev.from)

(* The checks before an event is stored.                                   *)
Acceptable(ev) ==
  /\ tx.rows[Root] \notin Terminal
  /\ \A x \in Stored : x.by = tx.by => x.n < tx.next
  /\ \E x \in Stored : x.id = CauseId
  /\ LifecycleAllows(ev)
  /\ ev.kind = "state" => WithTarget[ev.exec] = ev.from

(* materializeState: the row takes the status that the event reports.      *)
Accept ==
  LET ev == Incoming IN
  /\ More /\ status[ev.exec] # "absent" /\ ~Duplicate /\ Acceptable(ev)
  /\ tx' = [tx EXCEPT !.next = @ + 1, !.seq = @ + 1, !.last = IncomingId,
              !.new = @ \cup {[id |-> IncomingId, seq |-> tx.seq + 1, by |-> tx.by,
                               n |-> tx.next, kind |-> ev.kind, exec |-> ev.exec, op |-> ev.op,
                               from |-> ev.from, to |-> ev.to, cause |-> CauseId]},
              !.rows = [e \in DOMAIN WithTarget |->
                          IF ev.kind = "state" /\ e = ev.exec THEN ev.to ELSE WithTarget[e]]]
  /\ UNCHANGED <<status, lastSequence, lastEvent, log, sender>>

(* The end of the batch commits; the reply may be lost.                    *)
Commit(delivered) ==
  /\ tx # Null /\ tx.next > tx.hi
  /\ log' = Stored /\ lastSequence' = tx.seq /\ lastEvent' = tx.last
  /\ status' = [e \in Executions |-> IF e \in DOMAIN tx.rows THEN tx.rows[e] ELSE status[e]]
  /\ acked' = IF delivered /\ acked[tx.by] < tx.hi THEN [acked EXCEPT ![tx.by] = tx.hi] ELSE acked
  /\ tx' = Null
  /\ UNCHANGED script

(* Faulty: the rows are saved outside the transaction.                     *)
AbortKeepingRows ==
  /\ tx # Null /\ tx' = Null
  /\ status' = [e \in Executions |-> IF e \in DOMAIN tx.rows THEN tx.rows[e] ELSE status[e]]
  /\ UNCHANGED <<lastSequence, lastEvent, log, sender>>

(* A refused event, or any failure: the whole batch is rolled back.        *)
Abort ==
  /\ tx # Null /\ tx' = Null
  /\ UNCHANGED <<status, lastSequence, lastEvent, log, sender>>
-----------------------------------------------------------------------------
Next ==
  \/ \E e \in Executions : ClaimRow(e) \/ CreateChild(e)
  \/ \E e \in Executions, to \in {"queued"} \cup Terminal : UpdateStatus(e, to)
  \/ \E k \in 1..3 : Report(k)
  \/ \E reply \in BOOLEAN, to \in Terminal : Complete(reply, to)
  \/ \E w \in Workers : \E lo, hi \in 1..Len(script[w]) : Begin(w, lo, hi)
  \/ Skip \/ Accept \/ Abort
  \/ \E delivered \in BOOLEAN : Commit(delivered)

Spec == Init /\ [][Next]_vars
-----------------------------------------------------------------------------
TypeOK ==
  /\ status \in [Executions -> Statuses] /\ status[Root] # "absent"
  /\ lastSequence \in Nat
  /\ script \in [Workers -> Scripts] /\ acked \in [Workers -> Nat]
  /\ \A x \in log : x.by \in Workers \cup {Backend} /\ x.seq \in Nat /\ x.n \in Nat
  /\ tx # Null =>
       /\ DOMAIN tx = {"by", "next", "hi", "seq", "last", "new", "rows"}
       /\ tx.by \in Workers /\ tx.next \in Nat /\ tx.seq \in Nat
       /\ tx.hi \in 1..Len(script[tx.by])
       /\ Root \in DOMAIN tx.rows /\ DOMAIN tx.rows \subseteq Executions
       /\ \A e \in DOMAIN tx.rows : tx.rows[e] \in Statuses \ {"absent"}

(* The sequences that readers page by are exactly 1 to last_sequence, each *)
(* used by one event, and no event id is stored twice, whoever appends and *)
(* however often a batch arrives.                                          *)
SequenceIsDense ==
  /\ {x.seq : x \in log} = 1..lastSequence
  /\ \A x, y \in log : x.seq = y.seq \/ x.id = y.id => x = y

(* The log keeps the order of every producer.                              *)
ProducersInOrder ==
  \A x, y \in log : x.by = y.by => (x.seq < y.seq <=> x.n < y.n)

(* What the log has of a worker is a prefix of what it reported, and all   *)
(* that was acknowledged: a batch is stored whole or not at all, and a     *)
(* resent or late one neither leaves a gap nor makes its events unstorable. *)
Has(l, w, n) == \E x \in l : x.by = w /\ x.n = n

WorkersHaveNoGaps ==
  \A w \in Workers :
    /\ \A n \in 1..acked[w] : Has(log, w, n)
    /\ \A x \in log : x.by = w => \A n \in 1..x.n : Has(log, w, n)

(* An event is stored after the event that caused it.                      *)
CausesComeFirst ==
  \A x \in log : x.cause # Null => \E y \in log : y.id = x.cause /\ y.seq < x.seq

(* An operation starts at most once, finishes at most once, and after its  *)
(* start.                                                                  *)
Paired(l) ==
  \A x \in l :
    /\ x.kind \in {"started", "finished"} =>
         \A y \in l : y.kind = x.kind /\ y.op = x.op => y = x
    /\ x.kind = "finished" =>
         \E y \in l : y.kind = "started" /\ y.op = x.op /\ y.seq < x.seq

OperationsPair == Paired(log)

(* A row that is terminal is explained by the log: the last change of      *)
(* status stored for the execution is the one to its status.               *)
LastChange(l, e, s) ==
  \E x \in l :
    /\ x.kind = "state" /\ x.exec = e /\ x.to = s
    /\ \A y \in l : y.kind = "state" /\ y.exec = e => y.seq <= x.seq

TerminalIsLogged ==
  \A e \in Executions : status[e] \in Terminal => LastChange(log, e, status[e])

(* No worker's event follows the end of its root.                          *)
ClosedToWorkers ==
  [][status[Root] \in Terminal => \A x \in log' \ log : x.by = Backend]_vars

(* The strengthening behind them, of the committed log and of what an open *)
(* ingestion has made of it.                                               *)
WellFormed(l, last) ==
  /\ \A x \in l :
       /\ x.by \in Workers \cup {Backend} /\ x.seq \in 1..last /\ x.n \in Nat \ {0}
       /\ x.id = IF x.by = Backend THEN BackendId(x.seq) ELSE WorkerId(x.by, x.n)
       /\ x.by \in Workers => \A n \in 1..x.n : Has(l, x.by, n)
       /\ x.cause # Null => \E y \in l : y.id = x.cause /\ y.seq < x.seq
  /\ \A k \in 1..last : \E x \in l : x.seq = k
  /\ \A x, y \in l : /\ x.seq = y.seq => x = y
                     /\ x.by = y.by => (x.seq < y.seq <=> x.n < y.n)
  /\ \E x \in l : IsLastOf(x, l, Backend)

LogInv ==
  /\ WellFormed(log, lastSequence) /\ Paired(log)
  /\ \E x \in log : x.id = Created.id
  /\ \E x \in log : x.id = lastEvent
  /\ \A w \in Workers : \A n \in 1..acked[w] : Has(log, w, n)

TxInv ==
  tx # Null =>
    /\ tx.next \in 1..(tx.hi + 1)
    /\ WellFormed(Stored, tx.seq) /\ Paired(Stored)
    /\ \E x \in Stored : x.id = tx.last
    /\ \A n \in 1..(tx.next - 1) : Has(Stored, tx.by, n)
    /\ \A x \in tx.new : x.by = tx.by
    /\ status[Root] \in Terminal => tx.new = {} /\ tx.rows[Root] = status[Root]

EvidenceInv == TypeOK /\ LogInv /\ TxInv

(* The rows that an open ingestion has locked are explained by what it     *)
(* would commit, and it has changed the status of no other.                *)
RowsInv ==
  /\ TerminalIsLogged
  /\ tx # Null =>
       /\ \A e \in DOMAIN tx.rows : tx.rows[e] \in Terminal => LastChange(Stored, e, tx.rows[e])
       /\ \A x \in tx.new : x.kind = "state" => x.exec \in DOMAIN tx.rows
=============================================================================
