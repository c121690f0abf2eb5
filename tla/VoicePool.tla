----------------------------- MODULE VoicePool -----------------------------
(***************************************************************************)
(* The pool of dictation workers and the queue of sessions that wait for   *)
(* one (src/src/voice).  VoiceService lives in one Node process, so each   *)
(* handler runs to its first await without a break; the only await is the  *)
(* opening of the worker's socket in assignWorker, and every other handler *)
(* may run while it lasts.  A session is one call of startSession; it ends *)
(* in the queue, with a socket under way, or with an open socket.          *)
(***************************************************************************)
EXTENDS Naturals, Sequences, FiniteSets

CONSTANTS
  Size,        (* workers of the pool, 1..Size in the order of their ports *)
  Clients,     (* ids of socket.io connections; an id never comes back     *)
  MaxSessions, (* bound: calls of startSession                             *)
  Null         (* no client, no socket                                     *)

Workers  == 1..Size
Sessions == [id : 1..MaxSessions, client : Clients]

VoiceAssumption ==
  /\ Size \in Nat \ {0} /\ MaxSessions \in Nat
  /\ Null \notin Clients /\ Null \notin Sessions

VARIABLES
  conn,     (* each connection: "new", "on" or "gone"                      *)
  status,   (* slot.status: "free", "busy" or "down"                       *)
  client,   (* slot.clientId                                               *)
  ws,       (* slot.ws, as the session it was opened for                   *)
  queue,    (* sessions that wait, oldest first                            *)
  opening,  (* <<worker, session>>: assignWorker waits for the socket      *)
  open,     (* <<worker, session>>: sockets that are open and listened to  *)
  calls     (* calls of startSession so far                                *)

slots == <<status, client, ws>>
vars  == <<conn, slots, queue, opening, open, calls>>

Holds(c)    == \E w \in Workers : client[w] = c
Queued(c)   == \E i \in 1..Len(queue) : queue[i].client = c

(* workers.find takes the first of the workers that are free.              *)
FreeWorkers(st)   == {w \in Workers : st[w] = "free"}
IsFirst(w, among) == w \in among /\ \A v \in among : w <= v

(* onModuleInit has probed the health of each worker.                      *)
Init ==
  /\ conn = [c \in Clients |-> "new"]
  /\ status \in [Workers -> {"free", "down"}]
  /\ client = [w \in Workers |-> Null] /\ ws = [w \in Workers |-> Null]
  /\ queue = <<>> /\ opening = {} /\ open = {} /\ calls = 0

(* handleConnection keeps a client or, without a valid token, drops it.    *)
Connect(c) ==
  /\ conn[c] = "new"
  /\ \E to \in {"on", "gone"} : conn' = [conn EXCEPT ![c] = to]
  /\ UNCHANGED <<slots, queue, opening, open, calls>>

(* processQueue: the worker found stays free until its socket is open, so  *)
(* the loop finds it again for every session of the queue.                 *)
ProcessQueue(st, q) ==
  LET free == FreeWorkers(st)
  IN  IF free # {}
      THEN /\ queue' = <<>>
           /\ opening' = (opening \ q)
                \cup {<<w, queue[i]>> : w \in {v \in free : IsFirst(v, free)}, i \in 1..Len(queue)}
      ELSE UNCHANGED queue /\ opening' = opening \ q

(* startSession                                                            *)
Start(c) ==
  /\ conn[c] = "on" /\ calls < MaxSessions /\ calls' = calls + 1
  /\ LET s == [id |-> calls', client |-> c]
         free == FreeWorkers(status)
     IN  \/ /\ (Holds(c) \/ Queued(c))
            /\ UNCHANGED <<queue, opening>>
         \/ /\ ~Holds(c) /\ ~Queued(c)
            /\ \E w \in Workers : IsFirst(w, free) /\ opening' = opening \cup {<<w, s>>}
            /\ UNCHANGED queue
         \/ /\ ~Holds(c) /\ ~Queued(c)
            /\ free = {}
            /\ queue' = Append(queue, s)
            /\ UNCHANGED opening
  /\ UNCHANGED <<conn, slots, open>>

(* assignWorker after its await: the socket is open ...                    *)
Opened(w, s) ==
  /\ <<w, s>> \in opening /\ opening' = opening \ {<<w, s>>}
  /\ status' = [status EXCEPT ![w] = "busy"]
  /\ client' = [client EXCEPT ![w] = s.client]
  /\ ws'     = [ws EXCEPT ![w] = s]
  /\ open'   = open \cup {<<w, s>>}
  /\ UNCHANGED <<conn, queue, calls>>

(* ... or the worker could not be contacted.                               *)
Refused(w, s) ==
  /\ <<w, s>> \in opening
  /\ status' = [status EXCEPT ![w] = "down"]
  /\ ProcessQueue(status', {<<w, s>>})
  /\ UNCHANGED <<conn, client, ws, open, calls>>

(* Faulty: the slot is freed and the queue left to the next release.       *)
ReleaseOnly(w, st) ==
  /\ status' = IF st[w] = "down" THEN st ELSE [st EXCEPT ![w] = "free"]
  /\ client' = [client EXCEPT ![w] = Null]
  /\ ws'     = [ws EXCEPT ![w] = Null]
  /\ UNCHANGED <<queue, opening>>

(* releaseWorker closes the slot's socket and stops listening to it.       *)
Release(w, st) ==
  /\ status' = IF st[w] = "down" THEN st ELSE [st EXCEPT ![w] = "free"]
  /\ client' = [client EXCEPT ![w] = Null]
  /\ ws'     = [ws EXCEPT ![w] = Null]
  /\ ProcessQueue(status', {})

(* onWorkerMessage: a final partial, or an error of the worker, on any     *)
(* socket that is listened to.                                             *)
Final(w, s) ==
  /\ <<w, s>> \in open
  /\ Release(w, status) /\ open' = open \ {<<w, ws[w]>>}
  /\ UNCHANGED <<conn, calls>>

(* The socket closes, or fails and then closes: the slot is released if it *)
(* is this client's, and down after a failure.                             *)
Closed(w, s, failed) ==
  /\ <<w, s>> \in open
  /\ IF client[w] = s.client
     THEN /\ Release(w, IF failed THEN [status EXCEPT ![w] = "down"] ELSE status)
          /\ open' = open \ {<<w, s>>, <<w, ws[w]>>}
     ELSE open' = open \ {<<w, s>>} /\ UNCHANGED <<slots, queue, opening>>
  /\ UNCHANGED <<conn, calls>>

(* cancelSession and releaseIfHolding: out of the queue, or else release.  *)
Leave(c) ==
  LET mine == {w \in Workers : client[w] = c}
  IN  \/ /\ Queued(c)
         /\ queue' = SelectSeq(queue, LAMBDA s : s.client # c)
         /\ UNCHANGED <<slots, opening, open>>
      \/ /\ ~Queued(c)
         /\ \E w \in Workers :
              IsFirst(w, mine) /\ Release(w, status) /\ open' = open \ {<<w, ws[w]>>}
      \/ ~Queued(c) /\ ~Holds(c) /\ UNCHANGED <<slots, queue, opening, open>>

Cancel(c) == conn[c] = "on" /\ Leave(c) /\ UNCHANGED <<conn, calls>>

Disconnect(c) ==
  /\ conn[c] = "on" /\ conn' = [conn EXCEPT ![c] = "gone"]
  /\ Leave(c)
  /\ UNCHANGED calls

(* The backend restarts: onModuleDestroy, and onModuleInit in a new        *)
(* process whose connections are new.                                      *)
Restart ==
  /\ conn' = [c \in Clients |-> IF conn[c] = "new" THEN "new" ELSE "gone"]
  /\ status' \in [Workers -> {"free", "down"}]
  /\ client' = [w \in Workers |-> Null] /\ ws' = [w \in Workers |-> Null]
  /\ queue' = <<>> /\ opening' = {} /\ open' = {}
  /\ UNCHANGED calls

Next ==
  \/ \E c \in Clients : Connect(c) \/ Start(c) \/ Cancel(c) \/ Disconnect(c)
  \/ \E w \in Workers, s \in Sessions :
       \/ Opened(w, s) \/ Refused(w, s) \/ Final(w, s)
       \/ \E failed \in BOOLEAN : Closed(w, s, failed)
  \/ Restart

Spec == Init /\ [][Next]_vars
-----------------------------------------------------------------------------
(* Slots, queue and sockets keep their types.                              *)
TypeOK ==
  /\ conn \in [Clients -> {"new", "on", "gone"}]
  /\ status \in [Workers -> {"free", "busy", "down"}]
  /\ client \in [Workers -> Clients \cup {Null}]
  /\ ws \in [Workers -> Sessions \cup {Null}]
  /\ queue \in Seq(Sessions)
  /\ opening \subseteq Workers \X Sessions /\ open \subseteq Workers \X Sessions
  /\ calls \in 0..MaxSessions

(* No session waits in the queue while a worker is free, whichever of the  *)
(* ways a slot is released, refused or overtaken; and a free slot belongs  *)
(* to nobody, so that the next session finds it without a socket.          *)
NobodyWaitsForAFreeWorker ==
  \A w \in Workers :
    status[w] = "free" => queue = <<>> /\ client[w] = Null /\ ws[w] = Null

(* voice.service.ts: 'Each client exclusively claims a worker for the      *)
(* duration of its session.'                                               *)
ExclusiveWorker == \A x, y \in open : x[1] = y[1] => x[2].client = y[2].client
=============================================================================
