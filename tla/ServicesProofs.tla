---------------------------- MODULE ServicesProofs ----------------------------
(***************************************************************************)
(* Theorems of the services that MCServices checks side by side, each of   *)
(* its own specification and for all the constants that its assumption     *)
(* admits: VoicePool, EvidenceArchive, ArchiveCascade, CalendarTicks,      *)
(* ResourcePipeline and Accounts.                                          *)
(***************************************************************************)
EXTENDS MCServices, FiniteSetTheorems, SequenceTheorems, TLAPS

(* The slots keep their types; what waits in the queue does not matter.    *)
SlotsOK ==
  /\ status \in [Workers -> {"free", "busy", "down"}]
  /\ DOMAIN client = Workers /\ DOMAIN ws = Workers

PoolInv == SlotsOK /\ NobodyWaitsForAFreeWorker

-----------------------------------------------------------------------------
(* processQueue leaves nothing in the queue if there is a free worker.     *)
LEMMA QueueIsServed ==
  \A q : \A w \in Workers : ProcessQueue(status', q) /\ status'[w] = "free" => queue' = <<>>
BY DEF ProcessQueue, FreeWorkers

(* releaseWorker keeps the invariant, on the slots as they are or with the *)
(* slot marked down before.                                                *)
LEMMA ReleaseKeeps ==
  ASSUME PoolInv, NEW w \in Workers, NEW st,
         st = status \/ st = [status EXCEPT ![w] = "down"],
         Release(w, st)
  PROVE  PoolInv'
<1>1. st \in [Workers -> {"free", "busy", "down"}]
  BY DEF PoolInv, SlotsOK
<1>2. \A v \in Workers \ {w} : st[v] = status[v]
  BY DEF PoolInv, SlotsOK
<1>3. SlotsOK'
  BY <1>1 DEF PoolInv, SlotsOK, Release
<1>4. ASSUME NEW v \in Workers, status'[v] = "free"
      PROVE  queue' = <<>> /\ client'[v] = Null /\ ws'[v] = Null
  <2>1. queue' = <<>>
    BY <1>4, QueueIsServed DEF Release
  <2>2. CASE v = w
    BY <2>1, <2>2 DEF PoolInv, SlotsOK, Release
  <2>3. CASE v # w
    <3>1. status[v] = "free"
      BY <1>1, <1>2, <1>4, <2>3 DEF Release
    <3>2. client'[v] = client[v] /\ ws'[v] = ws[v]
      BY <2>3 DEF PoolInv, SlotsOK, Release
    <3> QED
      BY <2>1, <3>1, <3>2 DEF PoolInv, NobodyWaitsForAFreeWorker
  <2> QED
    BY <2>2, <2>3
<1> QED
  BY <1>3, <1>4 DEF PoolInv, NobodyWaitsForAFreeWorker

(* cancelSession and a disconnection: a client that waits leaves a queue   *)
(* that has no free worker beside it, any other one releases its worker.   *)
LEMMA LeaveKeeps ==
  ASSUME PoolInv, NEW c, Leave(c)
  PROVE  PoolInv'
<1>1. CASE Queued(c) /\ UNCHANGED <<status, client, ws>>
  <2>1. queue # <<>>
    BY <1>1 DEF Queued
  <2> QED
    BY <1>1, <2>1 DEF PoolInv, SlotsOK, NobodyWaitsForAFreeWorker
<1>2. CASE \E w \in Workers : Release(w, status)
  BY <1>2, ReleaseKeeps
<1>3. CASE UNCHANGED <<status, client, ws, queue>>
  BY <1>3 DEF PoolInv, SlotsOK, NobodyWaitsForAFreeWorker
<1> QED
  BY <1>1, <1>2, <1>3 DEF Leave, slots

-----------------------------------------------------------------------------
LEMMA PoolInit == Init => PoolInv
BY DEF Init, PoolInv, SlotsOK, NobodyWaitsForAFreeWorker

LEMMA PoolStep == PoolInv /\ [Next]_vars => PoolInv'
<1> SUFFICES ASSUME PoolInv, [Next]_vars
             PROVE  PoolInv'
  OBVIOUS
<1>1. ASSUME NEW c \in Clients, Connect(c)
      PROVE  PoolInv'
  BY <1>1 DEF Connect, slots, PoolInv, SlotsOK, NobodyWaitsForAFreeWorker
<1>2. ASSUME NEW c \in Clients, Start(c)
      PROVE  PoolInv'
  <2>1. SlotsOK' /\ UNCHANGED <<status, client, ws>>
    BY <1>2 DEF Start, slots, PoolInv, SlotsOK
  <2>2. queue' = queue \/ \A w \in Workers : status[w] # "free"
    BY <1>2 DEF Start, FreeWorkers
  <2> QED
    BY <2>1, <2>2 DEF PoolInv, NobodyWaitsForAFreeWorker
<1>3. ASSUME NEW c \in Clients, Cancel(c) \/ Disconnect(c)
      PROVE  PoolInv'
  BY <1>3, LeaveKeeps DEF Cancel, Disconnect
<1>4. ASSUME NEW w \in Workers, NEW s \in Sessions, Opened(w, s)
      PROVE  PoolInv'
  BY <1>4 DEF Opened, PoolInv, SlotsOK, NobodyWaitsForAFreeWorker
<1>5. ASSUME NEW w \in Workers, NEW s \in Sessions, Refused(w, s)
      PROVE  PoolInv'
  <2>1. SlotsOK'
    BY <1>5 DEF Refused, PoolInv, SlotsOK
  <2>2. ASSUME NEW v \in Workers, status'[v] = "free"
        PROVE  queue' = <<>> /\ status[v] = "free" /\ UNCHANGED <<client, ws>>
    <3>1. queue' = <<>>
      BY <1>5, <2>2, QueueIsServed DEF Refused
    <3> QED
      BY <1>5, <2>2, <3>1 DEF Refused, PoolInv, SlotsOK
  <2> QED
    BY <2>1, <2>2 DEF PoolInv, NobodyWaitsForAFreeWorker
<1>6. ASSUME NEW w \in Workers, NEW s \in Sessions, Final(w, s)
      PROVE  PoolInv'
  BY <1>6, ReleaseKeeps DEF Final
<1>7. ASSUME NEW w \in Workers, NEW s \in Sessions, NEW failed \in BOOLEAN, Closed(w, s, failed)
      PROVE  PoolInv'
  <2>1. CASE client[w] = s.client
    BY <1>7, <2>1, ReleaseKeeps DEF Closed
  <2>2. CASE client[w] # s.client
    BY <1>7, <2>2 DEF Closed, slots, PoolInv, SlotsOK, NobodyWaitsForAFreeWorker
  <2> QED
    BY <2>1, <2>2
<1>8. CASE Restart
  BY <1>8 DEF Restart, PoolInv, SlotsOK, NobodyWaitsForAFreeWorker
<1>9. CASE UNCHANGED vars
  BY <1>9 DEF vars, slots, PoolInv, SlotsOK, NobodyWaitsForAFreeWorker
<1> QED
  BY <1>1, <1>2, <1>3, <1>4, <1>5, <1>6, <1>7, <1>8, <1>9 DEF Next

(* Whatever is released, refused, lost or cancelled while sockets are      *)
(* being opened, no session waits for a worker beside a free one, and no   *)
(* free worker is still bound to a client.                                 *)
THEOREM WaitingMeansBusy == Spec => []NobodyWaitsForAFreeWorker
<1>1. PoolInv => NobodyWaitsForAFreeWorker
  BY DEF PoolInv
<1> QED
  BY <1>1, PoolInit, PoolStep, PTL DEF Spec

-----------------------------------------------------------------------------
(* EvidenceArchive: the types of the row, the log and the bundle; the      *)
(* messages of the log have their artifacts, and so have those of the      *)
(* events that a bundle has read.                                          *)
Entry ==
  Evidence!Report \cup [kind : {"closing_denied", "terminate"}, op : {Null}, what : {Null}]
  \cup [kind : {"ended"}, op : Evidence!Answer, what : {"completed"}]

Stores      == [Ids -> Evidence!Manifests \cup {Null}]
Held(l, s)  == \A i \in DOMAIN l : l[i].kind = "final" => l[i].what \in Ids /\ s[l[i].what] # Null
Proves(l, s) == \A i \in Evidence!Partials(l) : Evidence!Proved(l[i].op, l, s)

EvidenceOK ==
  /\ outcome \in {"running", "completed", "failed"} /\ log \in Seq(Entry) /\ artifacts \in Stores
  /\ script \in [events : Seq(Evidence!Report), answer : Evidence!Answer]
  /\ answer \in Evidence!Answer \cup {Null} /\ (answer = Null => pc = "idle")
  /\ pc \in {"idle", "answered", "validated", "refused", "done"}

(* After the end that a template was asserted for nothing is added.        *)
EndOK    == Evidence!Partials(log) # {} => Evidence!Terminal /\ pc = "done"
LogOK    == Held(log, artifacts) /\ PartialIsProved
BundleOK ==
  /\ DOMAIN export = {"at", "row", "events", "stored"}
  /\ export.at \in {"no", "events", "artifacts", "done"}
  /\ export.at \in {"artifacts", "done"} =>
       export.events \in Seq(Entry) /\ Held(export.events, artifacts) /\ Proves(export.events, artifacts)
  /\ BundleIsClosed

ArchivedInv == EvidenceOK /\ EndOK /\ LogOK /\ BundleOK

USE EvidenceInstance DEF Evidence!ArchiveAssumption

(* What is added after the answer of a template was asserted, a reply and  *)
(* the end, says nothing about what the answer names.                      *)
LEMMA EntriesDiffer ==
  \A e \in Entry :
    /\ e.kind \in {"reply", "ended", "closing_denied", "terminate"} =>
         e.kind \notin {"start", "finish", "final"}
    /\ e.kind = "final" => e.what \in Ids
    /\ e.kind = "ended" /\ e.op # Null => e.op \in Evidence!Answer
BY DEF Entry, Evidence!Report

LEMMA ProofOutlivesMore ==
  ASSUME NEW x \in Evidence!Answer, NEW l \in Seq(Entry), NEW more \in Seq(Entry), NEW s,
         \A i \in DOMAIN more : more[i].kind \in {"reply", "ended"}, Evidence!Proved(x, l, s)
  PROVE  Evidence!Proved(x, l \o more, s)
<1> DEFINE m == l \o more
<1>1. /\ DOMAIN l \subseteq DOMAIN m /\ \A i \in DOMAIN l : m[i] = l[i]
      /\ \A i \in DOMAIN m \ DOMAIN l : m[i].kind \in {"reply", "ended"}
  <2>1. m \in Seq(Entry) /\ Len(m) = Len(l) + Len(more)
    OBVIOUS
  <2>2. \A i \in DOMAIN m : m[i] = IF i <= Len(l) THEN l[i] ELSE more[i - Len(l)]
    OBVIOUS
  <2>3. \A i \in DOMAIN m \ DOMAIN l : i - Len(l) \in DOMAIN more /\ ~(i <= Len(l))
    BY <2>1
  <2> QED BY <2>1, <2>2, <2>3
<1> HIDE DEF m
<1>2. \A kind \in {"start", "finish", "final"} :
        {i \in DOMAIN m : m[i].kind = kind} = {i \in DOMAIN l : l[i].kind = kind}
  BY <1>1
<1>3. \A kind \in {"start", "finish"} : \A o : Evidence!Logged(m, kind, o) = Evidence!Logged(l, kind, o)
  BY <1>1 DEF Evidence!Logged
<1>4. \A kind, o : Evidence!Logged(l, kind, o) \subseteq Evidence!Logged(m, kind, o)
  BY <1>1 DEF Evidence!Logged
<1>5. \A kind, o : \A i \in Evidence!Logged(l, kind, o) : m[i] = l[i]
  BY <1>1 DEF Evidence!Logged
<1>6. Evidence!FinalMessage(m, s)
  BY <1>1, <1>2 DEF Evidence!Proved, Evidence!FinalMessage
<1>7. \A o : Evidence!FinishOf(m, o) = Evidence!FinishOf(l, o)
  BY <1>3 DEF Evidence!FinishOf
<1>8. Evidence!CompletedOps(m, x.ops)
  BY <1>3, <1>5, <1>7 DEF Evidence!Proved, Evidence!CompletedOps
<1>9. Evidence!LoopSettled(m)
  BY <1>3, <1>5 DEF Evidence!Proved, Evidence!LoopSettled
<1>10. Evidence!TriggerLogged(m, x.trigger)
  <2>1. x.trigger \in Evidence!Triggers
    BY DEF Evidence!Answer
  <2> QED BY <1>4, <2>1 DEF Evidence!Proved, Evidence!TriggerLogged, Evidence!Triggers
<1> QED BY <1>6, <1>8, <1>9, <1>10 DEF Evidence!Proved, m

(* Artifacts are added and never replaced.                                 *)
Keeps(s, t) == \A i \in Ids : s[i] # Null => t[i] = s[i]

LEMMA ProofOutlivesArtifacts ==
  ASSUME NEW l \in Seq(Entry), NEW s \in Stores, NEW t \in Stores, Keeps(s, t)
  PROVE  /\ Held(l, s) => Held(l, t)
         /\ Proves(l, s) => Proves(l, t)
<1>1. DOMAIN s = Ids /\ DOMAIN t = Ids
  BY DEF Stores
<1>2. Held(l, s) => Held(l, t)
  BY DEF Held, Keeps
<1>3. Evidence!FinalMessage(l, s) => Evidence!FinalMessage(l, t)
  BY <1>1 DEF Evidence!FinalMessage, Keeps
<1> QED BY <1>2, <1>3 DEF Proves, Evidence!Proved

LEMMA AcceptedArtifacts ==
  ASSUME ArchivedInv, NEW batch \in SUBSET Evidence!Manifests, Evidence!AcceptArtifacts(batch)
  PROVE  artifacts' \in Stores /\ Keeps(artifacts, artifacts')
<1> DEFINE new == {m \in batch : artifacts[m.id] = Null}
           chosen(i) == CHOOSE m \in new : m.id = i
<1>1. artifacts' = [i \in Ids |-> IF \E m \in new : m.id = i THEN chosen(i) ELSE artifacts[i]]
  BY DEF Evidence!AcceptArtifacts
<1>2. \A i \in Ids : (\E m \in new : m.id = i) => chosen(i) \in batch /\ artifacts[i] = Null
  OBVIOUS
<1>3. artifacts \in Stores
  BY DEF ArchivedInv, EvidenceOK
<1> HIDE DEF new, chosen
<1> QED BY <1>1, <1>2, <1>3 DEF Stores, Keeps

(* An entry that ends nothing with a template: the log stays as good.      *)
LEMMA EntryKeepsLog ==
  ASSUME ArchivedInv, NEW e \in Entry, log' = Append(log, e),
         e.kind = "ended" => e.op = Null, e.kind = "final" => artifacts[e.what] # Null,
         Evidence!Partials(log) = {}, UNCHANGED artifacts
  PROVE  log' \in Seq(Entry) /\ LogOK' /\ Evidence!Partials(log') = {}
<1>1. log \in Seq(Entry) /\ log' \in Seq(Entry)
  BY DEF ArchivedInv, EvidenceOK
<1>2. \A i \in DOMAIN log' : \/ i \in DOMAIN log /\ log'[i] = log[i]
                             \/ log'[i] = e
  BY <1>1
<1>3. Evidence!Partials(log') = {}
  BY <1>2 DEF Evidence!Partials
<1>4. Held(log, artifacts)
  BY DEF ArchivedInv, LogOK
<1>5. Held(log', artifacts')
  BY <1>2, <1>4, EntriesDiffer DEF Held
<1> QED
  BY <1>1, <1>3, <1>5 DEF LogOK, PartialIsProved, Evidence!PartialIsProved

LEMMA ArchivedInit == Evidence!Init => ArchivedInv
<1> SUFFICES ASSUME Evidence!Init PROVE ArchivedInv
  OBVIOUS
<1>1. DOMAIN log = {}
  BY DEF Evidence!Init
<1> QED
  BY <1>1 DEF Evidence!Init, ArchivedInv, EvidenceOK, EndOK, LogOK, BundleOK, Held, Stores, Evidence!Idle,
        Evidence!Partials, PartialIsProved, BundleIsClosed, Evidence!PartialIsProved, Evidence!BundleIsClosed

LEMMA RowOfBundle ==
  ASSUME ArchivedInv, UNCHANGED export
  PROVE  /\ (Keeps(artifacts, artifacts') /\ artifacts' \in Stores) \/ UNCHANGED artifacts => BundleOK'
<1>1. CASE UNCHANGED artifacts
  BY <1>1 DEF ArchivedInv, BundleOK, BundleIsClosed, Evidence!BundleIsClosed
<1>2. CASE Keeps(artifacts, artifacts') /\ artifacts' \in Stores
  <2>1. BundleIsClosed'
    BY DEF ArchivedInv, BundleOK, BundleIsClosed, Evidence!BundleIsClosed
  <2>2. artifacts \in Stores
    BY DEF ArchivedInv, EvidenceOK
  <2>3. ASSUME export.at \in {"artifacts", "done"}
        PROVE  export.events \in Seq(Entry) /\ Held(export.events, artifacts')
               /\ Proves(export.events, artifacts')
    <3>1. export.events \in Seq(Entry) /\ Held(export.events, artifacts)
          /\ Proves(export.events, artifacts)
      BY <2>3 DEF ArchivedInv, BundleOK
    <3> QED BY <1>2, <2>2, <3>1, ProofOutlivesArtifacts
  <2> QED BY <2>1, <2>3 DEF ArchivedInv, BundleOK
<1> QED BY <1>1, <1>2

LEMMA ArchivedStep == ArchivedInv /\ [Evidence!Next]_(Evidence!vars) => ArchivedInv'
<1> SUFFICES ASSUME ArchivedInv, [Evidence!Next]_(Evidence!vars)
             PROVE  ArchivedInv'
  OBVIOUS
<1> USE DEF ArchivedInv
<1>1. log \in Seq(Entry) /\ artifacts \in Stores /\ answer \in Evidence!Answer \cup {Null}
  BY DEF EvidenceOK
<1>2. \A m, n \in Evidence!Manifests : {m, n} \in SUBSET Evidence!Manifests
  OBVIOUS
<1>3. ASSUME NEW batch \in SUBSET Evidence!Manifests, Evidence!AcceptArtifacts(batch)
      PROVE  ArchivedInv'
  <2>1. artifacts' \in Stores /\ Keeps(artifacts, artifacts')
    BY <1>3, AcceptedArtifacts
  <2>2. UNCHANGED <<outcome, log, answer, pc, export, script>>
    BY <1>3 DEF Evidence!AcceptArtifacts
  <2>3. Proves(log, artifacts) /\ Held(log, artifacts)
    BY DEF LogOK, Proves, PartialIsProved, Evidence!PartialIsProved
  <2>4. LogOK'
    BY <1>1, <2>1, <2>2, <2>3, ProofOutlivesArtifacts
      DEF LogOK, Proves, PartialIsProved, Evidence!PartialIsProved
  <2>5. BundleOK'
    BY <2>1, <2>2, RowOfBundle
  <2> QED BY <2>1, <2>2, <2>4, <2>5 DEF EvidenceOK, EndOK, Evidence!Terminal
<1>4. CASE Evidence!AcceptEvent
  <2> DEFINE e == Head(script.events)
  <2>1. script.events \in Seq(Evidence!Report) /\ script.events # <<>>
    BY <1>4 DEF Evidence!AcceptEvent, EvidenceOK
  <2>2. e \in Evidence!Report /\ Tail(script.events) \in Seq(Evidence!Report)
    BY <2>1, HeadTailProperties
  <2> HIDE DEF e
  <2>3. /\ e \in Entry /\ (e.kind = "ended" => e.op = Null /\ e.what \in {"completed", "failed"})
    BY <2>2 DEF Entry, Evidence!Report
  <2>4. Evidence!Partials(log) = {}
    BY <1>4 DEF Evidence!AcceptEvent, EndOK
  <2>5. /\ log' = Append(log, e) /\ UNCHANGED <<missing, artifacts, answer, pc, export, spent>>
        /\ outcome' = IF e.kind = "ended" THEN e.what ELSE outcome
        /\ script' = [script EXCEPT !.events = Tail(@)]
        /\ e.kind = "final" => artifacts[e.what] # Null
    BY <1>4 DEF Evidence!AcceptEvent, Evidence!Allowed, e
  <2>6. log' \in Seq(Entry) /\ LogOK' /\ Evidence!Partials(log') = {}
    BY <2>3, <2>4, <2>5, EntryKeepsLog
  <2>7. BundleOK'
    BY <2>5, RowOfBundle
  <2>8. script' \in [events : Seq(Evidence!Report), answer : Evidence!Answer]
    BY <2>2, <2>5 DEF EvidenceOK
  <2> QED BY <2>3, <2>5, <2>6, <2>7, <2>8 DEF EvidenceOK, EndOK
<1>5. ASSUME NEW k \in {"closing_denied", "terminate"}, Evidence!Decide(k)
      PROVE  ArchivedInv'
  <2> DEFINE e == Evidence!Event(k, Null, Null)
  <2>1. e \in Entry /\ e.kind = k
    BY DEF Evidence!Event, Entry
  <2>2. Evidence!Partials(log) = {}
    BY <1>5 DEF Evidence!Decide, EndOK, Evidence!Terminal
  <2>3. log' = Append(log, e) /\ UNCHANGED <<outcome, missing, artifacts, script, answer, pc, export, spent>>
    BY <1>5 DEF Evidence!Decide
  <2> HIDE DEF e
  <2>4. log' \in Seq(Entry) /\ LogOK' /\ Evidence!Partials(log') = {}
    BY <2>1, <2>2, <2>3, EntryKeepsLog
  <2> QED BY <2>3, <2>4, RowOfBundle DEF EvidenceOK, EndOK
<1>6. CASE Evidence!Answered \/ Evidence!Validate \/ Evidence!Crash
  <2>1. UNCHANGED <<outcome, log, artifacts, script, export>>
    BY <1>6 DEF Evidence!Answered, Evidence!Validate, Evidence!Crash
  <2>2. Evidence!Partials(log) = {}
    BY <1>6 DEF Evidence!Answered, Evidence!Validate, Evidence!Crash, EvidenceOK, EndOK
  <2>3. /\ answer' \in Evidence!Answer /\ pc' \in {"answered", "refused", "validated"}
    BY <1>6 DEF Evidence!Answered, Evidence!Validate, Evidence!Crash, EvidenceOK
  <2>4. EvidenceOK'
    BY <2>1, <2>3 DEF EvidenceOK
  <2>5. LogOK' /\ EndOK'
    BY <2>1, <2>2 DEF LogOK, EndOK, PartialIsProved, Evidence!PartialIsProved
  <2> QED BY <2>1, <2>4, <2>5, RowOfBundle
<1>7. CASE Evidence!Complete
  <2>1. UNCHANGED <<artifacts, script, answer, export, spent>> /\ answer \in Evidence!Answer
        /\ Evidence!Partials(log) = {}
    BY <1>7 DEF Evidence!Complete, EvidenceOK, EndOK
  <2>2. BundleOK'
    BY <2>1, RowOfBundle
  <2>3. CASE UNCHANGED <<outcome, log>>
    <3>1. pc' \in {"refused", "done"}
      BY <1>7 DEF Evidence!Complete
    <3> QED
      BY <2>1, <2>2, <2>3, <3>1 DEF EvidenceOK, EndOK, LogOK, PartialIsProved, Evidence!PartialIsProved
  <2>4. CASE ~UNCHANGED <<outcome, log>>
    <3> DEFINE more == Evidence!Adds \o <<Evidence!Ending(answer)>>
    <3>1. /\ Evidence!Asserted(answer) /\ pc' = "done" /\ ~Evidence!Terminal
          /\ outcome' = Evidence!Ending(answer).what
          /\ log' = log \o Evidence!Adds \o <<Evidence!Ending(answer)>>
      BY <1>7, <2>4 DEF Evidence!Complete
    <3>2. Evidence!Ending(answer) \in Entry /\ Evidence!Ending(answer).kind = "ended"
          /\ Evidence!Ending(answer).what \in {"completed", "failed"}
          /\ Evidence!Ending(answer).op \in {Null, answer}
          /\ (Evidence!Ending(answer).op # Null => answer.source = "template")
      BY <2>1 DEF Evidence!Ending, Evidence!Event, Entry, Evidence!Report, Evidence!Answer
    <3>3. Evidence!Adds \in {<<>>, <<Evidence!Event("reply", Null, Null)>>}
          /\ Evidence!Event("reply", Null, Null) \in Entry
          /\ Evidence!Event("reply", Null, Null).kind = "reply"
      BY DEF Evidence!Adds, Evidence!Event, Entry, Evidence!Report
    <3>4. more \in Seq(Entry) /\ log' = log \o more
          /\ \A i \in DOMAIN more :
               \/ more[i].kind = "reply"
               \/ more[i] = Evidence!Ending(answer)
      <4> HIDE DEF Evidence!Adds
      <4>1. CASE Evidence!Adds = <<>>
        BY <1>1, <3>1, <3>2, <4>1
      <4>2. CASE Evidence!Adds = <<Evidence!Event("reply", Null, Null)>>
        BY <1>1, <3>1, <3>2, <3>3, <4>2
      <4> QED BY <3>3, <4>1, <4>2
    <3> HIDE DEF more
    <3>5. log' \in Seq(Entry) /\ \A i \in DOMAIN log' :
            \/ i \in DOMAIN log /\ log'[i] = log[i]
            \/ log'[i].kind = "reply"
            \/ log'[i] = Evidence!Ending(answer)
      <4>1. log' \in Seq(Entry) /\ Len(log') = Len(log) + Len(more)
        BY <1>1, <3>4
      <4>2. \A i \in DOMAIN log' : log'[i] = IF i <= Len(log) THEN log[i] ELSE more[i - Len(log)]
        BY <1>1, <3>4
      <4>3. \A i \in DOMAIN log' : i <= Len(log) \/ i - Len(log) \in DOMAIN more
        BY <1>1, <3>4, <4>1
      <4> QED BY <1>1, <3>4, <4>1, <4>2, <4>3
    <3>6. Held(log', artifacts')
      BY <2>1, <3>2, <3>5 DEF Held, LogOK
    <3>7. ASSUME NEW i \in Evidence!Partials(log')
          PROVE  Evidence!Proved(log'[i].op, log', artifacts')
      <4>1. log'[i] = Evidence!Ending(answer) /\ log'[i].op = answer /\ answer.source = "template"
        BY <2>1, <3>2, <3>5, <3>7 DEF Evidence!Partials
      <4>2. Evidence!Proved(answer, log, artifacts)
        BY <3>1, <4>1 DEF Evidence!Asserted
      <4> QED BY <1>1, <2>1, <3>2, <3>4, <4>1, <4>2, ProofOutlivesMore
    <3> QED
      BY <2>1, <2>2, <3>1, <3>2, <3>5, <3>6, <3>7
        DEF EvidenceOK, EndOK, LogOK, PartialIsProved, Evidence!PartialIsProved, Evidence!Terminal
  <2> QED BY <2>3, <2>4
<1>8. CASE Evidence!Refuse
  <2> DEFINE e == Evidence!Event("ended", Null, "failed")
  <2>1. UNCHANGED <<artifacts, script, answer, export, spent>> /\ pc' = "done" /\ answer # Null
        /\ Evidence!Partials(log) = {}
    BY <1>8 DEF Evidence!Refuse, EvidenceOK, EndOK
  <2>2. e \in Entry /\ e.kind = "ended" /\ e.op = Null
    BY DEF Evidence!Event, Entry, Evidence!Report
  <2>3. CASE UNCHANGED <<outcome, log>>
    BY <2>1, <2>3, RowOfBundle DEF EvidenceOK, EndOK, LogOK, PartialIsProved, Evidence!PartialIsProved
  <2>4. CASE outcome' = "failed" /\ log' = Append(log, e)
    <3> HIDE DEF e
    <3>1. log' \in Seq(Entry) /\ LogOK' /\ Evidence!Partials(log') = {}
      BY <2>1, <2>2, <2>4, EntryKeepsLog
    <3> QED BY <2>1, <2>4, <3>1, RowOfBundle DEF EvidenceOK, EndOK
  <2> QED BY <1>8, <2>3, <2>4 DEF Evidence!Refuse
<1>9. ASSUME UNCHANGED <<outcome, missing, log, artifacts, script, answer, pc>>, BundleOK'
      PROVE  ArchivedInv'
  BY <1>9 DEF EvidenceOK, EndOK, LogOK, PartialIsProved, Evidence!PartialIsProved, Evidence!Terminal
<1>10. CASE Evidence!ExportRow
  <2>1. /\ export' = [Evidence!Idle EXCEPT !.at = "events", !.row = missing]
        /\ UNCHANGED <<outcome, missing, log, artifacts, script, answer, pc>>
    BY <1>10 DEF Evidence!ExportRow
  <2>2. export'.at = "events" /\ DOMAIN export' = {"at", "row", "events", "stored"}
    BY <2>1 DEF Evidence!Idle
  <2>3. BundleOK'
    BY <2>2 DEF BundleOK, BundleIsClosed, Evidence!BundleIsClosed
  <2> QED BY <1>9, <2>1, <2>3
<1>11. CASE Evidence!ExportEvents
  <2>1. export' = [export EXCEPT !.at = "artifacts", !.events = log]
        /\ UNCHANGED <<outcome, missing, log, artifacts, script, answer, pc>>
    BY <1>11 DEF Evidence!ExportEvents
  <2>2. export'.at = "artifacts" /\ export'.events = log
        /\ DOMAIN export' = {"at", "row", "events", "stored"}
    BY <2>1 DEF BundleOK
  <2>3. Held(log, artifacts) /\ Proves(log, artifacts)
    BY DEF LogOK, Proves, PartialIsProved, Evidence!PartialIsProved
  <2>4. BundleOK'
    BY <1>1, <2>1, <2>2, <2>3 DEF BundleOK, BundleIsClosed, Evidence!BundleIsClosed
  <2> QED BY <1>9, <2>1, <2>4
<1>12. CASE Evidence!ExportArtifacts
  <2>1. /\ export' = [export EXCEPT !.at = "done", !.stored = artifacts,
                        !.row = @ \cup Evidence!Unfinished(export.events) \cup Evidence!Bodiless(artifacts)]
        /\ UNCHANGED <<outcome, missing, log, artifacts, script, answer, pc>>
        /\ export.at = "artifacts"
    BY <1>12 DEF Evidence!ExportArtifacts
  <2>2. /\ export'.at = "done" /\ export'.events = export.events /\ export'.stored = artifacts
        /\ Evidence!Unfinished(export.events) \cup Evidence!Bodiless(artifacts) \subseteq export'.row
        /\ DOMAIN export' = {"at", "row", "events", "stored"}
    BY <2>1 DEF BundleOK
  <2>3. Held(export.events, artifacts) /\ Proves(export.events, artifacts) /\ export.events \in Seq(Entry)
    BY <2>1 DEF BundleOK
  <2>4. BundleIsClosed'
    BY <2>1, <2>2, <2>3 DEF BundleIsClosed, Evidence!BundleIsClosed, Held, Proves
  <2>5. BundleOK'
    BY <2>1, <2>2, <2>3, <2>4 DEF BundleOK
  <2> QED BY <1>9, <2>1, <2>5
<1>13. CASE UNCHANGED Evidence!vars
  <2>1. UNCHANGED <<outcome, missing, log, artifacts, script, answer, pc, export>>
    BY <1>13 DEF Evidence!vars
  <2> QED BY <1>9, <2>1, RowOfBundle
<1> QED
  BY <1>2, <1>3, <1>4, <1>5, <1>6, <1>7, <1>8, <1>10, <1>11, <1>12, <1>13 DEF Evidence!Next

(* The check of a template answer is made twice, without and then with the *)
(* lock of the row, while events and artifacts arrive; what the second one *)
(* saw stays in the log and in the artifacts for ever.                     *)
THEOREM PartialsStayProved == Evidence!Spec => []PartialIsProved
<1>1. ArchivedInv => PartialIsProved
  BY DEF ArchivedInv, LogOK
<1> QED
  BY <1>1, ArchivedInit, ArchivedStep, PTL DEF Evidence!Spec

(* The row, the events and the artifacts are read one after the other; the *)
(* later ones have what the earlier ones refer to.                         *)
THEOREM BundlesAreClosed == Evidence!Spec => []BundleIsClosed
<1>1. ArchivedInv => BundleIsClosed
  BY DEF ArchivedInv, BundleOK
<1> QED
  BY <1>1, ArchivedInit, ArchivedStep, PTL DEF Evidence!Spec

-----------------------------------------------------------------------------
(* ArchiveCascade: how far a cascade that nobody crossed has come.  Until  *)
(* their rows are updated its resources are as it found them; then they    *)
(* are as it wished, and the files it has dealt with are settled.          *)
Settled(o, r) ==
  LET f      == file[FileOf[r]]
      shared == \E s \in rows \ {r} : FileOf[s] = FileOf[r] /\ s \notin archived
  IN  f # {} /\ (o.archive => ~shared) => f = {IF o.archive THEN "archive" ELSE "main"}

Mine(o) == o.items \cap Resources
Uncrossed(o) ==
  /\ o.at # "idle" => Mine(o) \subseteq rows
  /\ o.at \in {"status", "threads", "docs", "resources"} =>
       \A r \in Mine(o) : o.archive <=> r \notin archived
  /\ o.at \in {"move", "done"} =>
       /\ \A r \in Mine(o) : o.archive <=> r \in archived
       /\ \A r \in Mine(o) \ o.left : Settled(o, r)
  /\ o.at = "done" => o.left = {}

Stages == {"idle", "status", "threads", "docs", "resources", "move", "done"}
IsCascade(o) ==
  /\ DOMAIN o = {"at", "archive", "target", "threads", "items", "left", "calm"}
  /\ o.at \in Stages /\ o.archive \in BOOLEAN /\ o.calm \in BOOLEAN

CascadesInv ==
  /\ rows \subseteq Resources
  /\ file \in [Archive!Files -> SUBSET {"main", "archive"}]
  /\ DOMAIN cascade = Cascades
  /\ \A k \in Cascades : IsCascade(cascade[k]) /\ (cascade[k].calm => Uncrossed(cascade[k]))

HIDE EvidenceInstance
USE ArchiveInstance DEF Archive!ArchiveAssumption

LEMMA IdleIsCascade == IsCascade(Archive!Idle) /\ Archive!Idle.at = "idle" /\ Mine(Archive!Idle) = {}
BY DEF Archive!Idle, IsCascade, Stages, Mine

LEMMA CrossedIsCascade ==
  \A o, p : IsCascade(o) /\ p = [o EXCEPT !.calm = FALSE] => IsCascade(p) /\ ~p.calm
BY DEF IsCascade

LEMMA IdleIsUncrossed == Uncrossed(Archive!Idle) /\ Uncrossed(Archive!Idle)'
BY IdleIsCascade DEF Uncrossed, Archive!Idle

LEMMA CascadesInit == Archive!Init => CascadesInv
<1> SUFFICES ASSUME Archive!Init PROVE CascadesInv
  OBVIOUS
<1>1. rows \subseteq Resources /\ file \in [Archive!Files -> SUBSET {"main", "archive"}]
  BY DEF Archive!Init
<1>2. cascade = [k \in Cascades |-> Archive!Idle]
  BY DEF Archive!Init
<1> QED BY <1>1, <1>2, IdleIsCascade, IdleIsUncrossed DEF CascadesInv

(* What is no step of a cascade crosses all of them.                       *)
LEMMA CrossingKeeps ==
  ASSUME CascadesInv, cascade' = Archive!Disturb(cascade), rows' \subseteq Resources,
         file' \in [Archive!Files -> SUBSET {"main", "archive"}]
  PROVE  CascadesInv'
BY DEF CascadesInv, IsCascade, Archive!Disturb

(* A step of one cascade crosses the others; the rest is about that one.   *)
LEMMA StepKeeps ==
  ASSUME CascadesInv, NEW k \in Cascades, NEW CONSTANT new, Archive!Step(k, new), IsCascade(new),
         UNCHANGED rows, file' \in [Archive!Files -> SUBSET {"main", "archive"}],
         cascade[k].calm => Uncrossed(new)'
  PROVE  CascadesInv'
<1>1. PICK o : o = [new EXCEPT !.calm = cascade[k].calm]
  OBVIOUS
<1>2. /\ cascade' = [Archive!Disturb(cascade) EXCEPT ![k] = o]
      /\ DOMAIN Archive!Disturb(cascade) = Cascades
      /\ \A j \in Cascades : Archive!Disturb(cascade)[j] = [cascade[j] EXCEPT !.calm = FALSE]
  BY <1>1 DEF Archive!Step, Archive!Disturb
<1>3. DOMAIN cascade' = Cascades /\ cascade'[k] = o
      /\ \A j \in Cascades \ {k} : cascade'[j] = [cascade[j] EXCEPT !.calm = FALSE]
  BY <1>2
<1>4. IsCascade(cascade[k])
  BY DEF CascadesInv
<1>5. /\ o.at = new.at /\ o.archive = new.archive /\ o.items = new.items /\ o.left = new.left
      /\ o.calm = cascade[k].calm /\ DOMAIN o = DOMAIN new
  BY <1>1 DEF IsCascade
<1>6. IsCascade(o) /\ (o.calm => Uncrossed(o)')
  BY <1>4, <1>5 DEF IsCascade, Uncrossed, Mine, Settled
<1>7. \A j \in Cascades \ {k} : IsCascade(cascade[j])
  BY DEF CascadesInv
<1>8. \A j \in Cascades \ {k} : IsCascade(cascade'[j]) /\ ~cascade'[j].calm
  BY <1>3, <1>7, CrossedIsCascade
<1>9. \A j \in Cascades : IsCascade(cascade'[j]) /\ (cascade'[j].calm => Uncrossed(cascade[j])')
  <2> SUFFICES ASSUME NEW j \in Cascades
               PROVE  IsCascade(cascade'[j]) /\ (cascade'[j].calm => Uncrossed(cascade[j])')
    OBVIOUS
  <2>1. CASE j = k
    BY <1>3, <1>6, <2>1 DEF Uncrossed, Mine, Settled
  <2>2. CASE j # k
    BY <1>8, <2>2
  <2> QED BY <2>1, <2>2
<1>10. rows' \subseteq Resources
  BY DEF CascadesInv
<1> QED BY <1>3, <1>9, <1>10 DEF CascadesInv, IsCascade

(* A move settles the file of its resource, and no other is unsettled: a   *)
(* cascade moves all its files the same way.                               *)
LEMMA MoveSettles ==
  ASSUME CascadesInv, NEW k \in Cascades, NEW r \in Resources, Archive!MoveFile(k, r)
  PROVE  CascadesInv'
<1>0. PICK o, new, to, from :
        /\ o = cascade[k] /\ new = [o EXCEPT !.left = @ \ {r}]
        /\ to = IF o.archive THEN "archive" ELSE "main"
        /\ from = IF o.archive THEN "main" ELSE "archive"
  OBVIOUS
<1> DEFINE f == FileOf[r]
<1>1. IsCascade(o) /\ (o.calm => Uncrossed(o))
  BY <1>0 DEF CascadesInv
<1>2. /\ o.at = "move" /\ r \in o.left /\ Archive!Step(k, new)
      /\ UNCHANGED <<closed, rows, archived, upload, removal, crashes>>
      /\ \/ o.archive /\ Archive!SharedByActive(r) /\ UNCHANGED file
         \/ (o.archive => ~Archive!SharedByActive(r)) /\ Archive!Move(f, from, to)
  BY <1>0, <1>1 DEF Archive!MoveFile, IsCascade
<1>3. /\ IsCascade(new) /\ new.at = "move" /\ new.archive = o.archive /\ new.items = o.items
      /\ new.left = o.left \ {r}
  BY <1>0, <1>1, <1>2 DEF IsCascade
<1>4. /\ f \in Archive!Files /\ file[f] \subseteq {"main", "archive"}
      /\ \A s \in Resources : FileOf[s] \in Archive!Files
  BY DEF CascadesInv, Archive!Files
<1>5. /\ file' \in [Archive!Files -> SUBSET {"main", "archive"}]
      /\ \A g \in Archive!Files : file'[g] = file[g] \/ (g = f /\ file'[g] = {to})
      /\ (o.archive => ~Archive!SharedByActive(r)) => file'[f] \in {{}, {to}}
  <2>1. CASE UNCHANGED file /\ o.archive /\ Archive!SharedByActive(r)
    BY <2>1 DEF CascadesInv
  <2>2. CASE Archive!Move(f, from, to) /\ from \in file[f]
    <3>1. (file[f] \ {from}) \cup {to} = {to}
      BY <1>0, <1>1, <1>4 DEF IsCascade
    <3>2. file' = [file EXCEPT ![f] = {to}]
      BY <2>2, <3>1 DEF Archive!Move
    <3>3. {to} \in SUBSET {"main", "archive"}
      BY <1>0
    <3> QED BY <1>4, <3>2, <3>3 DEF CascadesInv
  <2>3. CASE Archive!Move(f, from, to) /\ from \notin file[f]
    <3>1. UNCHANGED file /\ file[f] \in {{}, {to}}
      BY <1>0, <1>1, <1>4, <2>3 DEF Archive!Move, IsCascade
    <3> QED BY <3>1 DEF CascadesInv
  <2> QED BY <1>2, <2>1, <2>2, <2>3
<1>6. ASSUME o.calm, NEW s \in Mine(o) \ (o.left \ {r})
      PROVE  Settled(new, s)'
  <2>1. CASE s = r
    BY <1>0, <1>2, <1>3, <1>5, <2>1 DEF Settled, Archive!SharedByActive
  <2>2. CASE s # r
    <3>1. Settled(o, s)
      BY <1>1, <1>2, <1>6, <2>2 DEF Uncrossed
    <3>2. file'[FileOf[s]] \in {file[FileOf[s]], {to}}
      BY <1>4, <1>5 DEF Mine
    <3> QED BY <1>0, <1>2, <1>3, <3>1, <3>2 DEF Settled
  <2> QED BY <2>1, <2>2
<1>7. o.calm => Uncrossed(new)'
  BY <1>1, <1>2, <1>3, <1>6 DEF Uncrossed, Mine
<1> QED BY <1>0, <1>2, <1>3, <1>5, <1>7, StepKeeps

LEMMA CascadesStep == CascadesInv /\ [Archive!Next]_(Archive!vars) => CascadesInv'
<1> SUFFICES ASSUME CascadesInv, [Archive!Next]_(Archive!vars)
             PROVE  CascadesInv'
  OBVIOUS
<1>1. \A k \in Cascades : IsCascade(cascade[k]) /\ (cascade[k].calm => Uncrossed(cascade[k]))
  BY DEF CascadesInv
<1>2. ASSUME NEW k \in Cascades, NEW x \in Projects \cup Threads, NEW archive \in BOOLEAN,
             Archive!Begin(k, x, archive)
      PROVE  CascadesInv'
  <2>0. PICK new :
          new = [at |-> "status", archive |-> archive, target |-> x, threads |-> Archive!ThreadsOf(x),
                 items |-> Archive!Bucket(x, archive), left |-> {},
                 calm |-> \A j \in Cascades : cascade[j].at = "idle"]
    OBVIOUS
  <2>1. cascade' = [Archive!Disturb(cascade) EXCEPT ![k] = new] /\ UNCHANGED <<rows, archived, file>>
    BY <1>2, <2>0 DEF Archive!Begin
  <2>2. /\ DOMAIN cascade' = Cascades /\ cascade'[k] = new
        /\ \A j \in Cascades \ {k} : cascade'[j] = [cascade[j] EXCEPT !.calm = FALSE]
    BY <2>1 DEF CascadesInv, Archive!Disturb
  <2>3. IsCascade(new) /\ new.at = "status" /\ new.archive = archive
        /\ new.items = Archive!Bucket(x, archive)
    BY <2>0 DEF IsCascade, Stages
  <2>4. /\ Mine(new) \subseteq rows /\ \A r \in Mine(new) : archive <=> r \notin archived
    BY <2>3 DEF Mine, Archive!Bucket
  <2>5. Uncrossed(new)'
    BY <2>1, <2>3, <2>4 DEF Uncrossed, Mine
  <2>6. \A j \in Cascades \ {k} : IsCascade(cascade'[j]) /\ ~cascade'[j].calm
    BY <1>1, <2>2, CrossedIsCascade
  <2>7. \A j \in Cascades : IsCascade(cascade'[j]) /\ (cascade'[j].calm => Uncrossed(cascade[j])')
    <3> SUFFICES ASSUME NEW j \in Cascades
                 PROVE  IsCascade(cascade'[j]) /\ (cascade'[j].calm => Uncrossed(cascade[j])')
      OBVIOUS
    <3>1. CASE j = k
      BY <2>2, <2>3, <2>5, <3>1 DEF Uncrossed, Mine, Settled
    <3>2. CASE j # k
      BY <2>6, <3>2
    <3> QED BY <3>1, <3>2
  <2> QED BY <2>1, <2>2, <2>7 DEF CascadesInv, IsCascade
<1>3. ASSUME NEW k \in Cascades, Archive!UpdateStatus(k) \/ Archive!UpdateThreads(k) \/ Archive!UpdateDocs(k)
      PROVE  CascadesInv'
  <2>0. PICK o : o = cascade[k]
    OBVIOUS
  <2>1. PICK at \in {"threads", "docs", "resources"} :
          Archive!Step(k, [o EXCEPT !.at = at]) /\ o.at \in {"status", "threads", "docs"}
    BY <1>3, <2>0 DEF Archive!UpdateStatus, Archive!UpdateThreads, Archive!UpdateDocs
  <2>2. UNCHANGED <<rows, file>> /\ (archived' = archived \/ archived' = Archive!Mark(archived, o.items \cap Docs, o.archive))
    BY <1>3, <2>0 DEF Archive!UpdateStatus, Archive!UpdateThreads, Archive!UpdateDocs
  <2>3. \A r \in Resources : r \in archived' <=> r \in archived
    BY <2>2 DEF Archive!Mark
  <2> DEFINE new == [o EXCEPT !.at = at]
  <2>4. IsCascade(new) /\ new.at = at /\ new.archive = o.archive /\ new.items = o.items
    BY <1>1, <2>0 DEF IsCascade, Stages
  <2> HIDE DEF new
  <2>5. o.calm => Uncrossed(new)'
    BY <1>1, <2>0, <2>1, <2>2, <2>3, <2>4 DEF Uncrossed, Mine
  <2>6. Archive!Step(k, new)
    BY <2>1 DEF new
  <2>7. file' \in [Archive!Files -> SUBSET {"main", "archive"}]
    BY <2>2 DEF CascadesInv
  <2> QED BY <2>0, <2>2, <2>4, <2>5, <2>6, <2>7, StepKeeps
<1>4. ASSUME NEW k \in Cascades, Archive!UpdateResources(k)
      PROVE  CascadesInv'
  <2>0. PICK o, new : o = cascade[k] /\ new = [o EXCEPT !.at = "move", !.left = o.items \cap Resources]
    OBVIOUS
  <2>1. /\ o.at = "resources" /\ Archive!Step(k, new) /\ UNCHANGED <<rows, file>>
        /\ archived' = Archive!Mark(archived, o.items \cap rows, o.archive)
    BY <1>4, <2>0 DEF Archive!UpdateResources
  <2>2. IsCascade(new) /\ new.at = "move" /\ new.archive = o.archive /\ new.items = o.items
        /\ new.left = Mine(o)
    BY <1>1, <2>0 DEF IsCascade, Stages, Mine
  <2>3. ASSUME o.calm PROVE Uncrossed(new)'
    <3>1. Mine(o) \subseteq rows
      BY <1>1, <2>0, <2>1, <2>3 DEF Uncrossed
    <3>2. \A r \in Mine(o) : o.archive <=> r \in archived'
      BY <1>1, <2>0, <2>1, <2>3, <3>1 DEF Archive!Mark, Mine, IsCascade, Uncrossed
    <3> QED BY <2>1, <2>2, <3>1, <3>2 DEF Uncrossed, Mine
  <2>4. file' \in [Archive!Files -> SUBSET {"main", "archive"}]
    BY <2>1 DEF CascadesInv
  <2> QED BY <2>0, <2>1, <2>2, <2>3, <2>4, StepKeeps
<1>5. ASSUME NEW k \in Cascades, NEW r \in Resources, Archive!MoveFile(k, r)
      PROVE  CascadesInv'
  BY <1>5, MoveSettles
<1>6. ASSUME NEW k \in Cascades, Archive!Schedule(k)
      PROVE  CascadesInv'
  <2>0. PICK o, new : o = cascade[k] /\ new = [o EXCEPT !.at = "done"]
    OBVIOUS
  <2>1. o.at = "move" /\ o.left = {} /\ Archive!Step(k, new) /\ UNCHANGED <<rows, archived, file>>
    BY <1>6, <2>0 DEF Archive!Schedule
  <2>2. IsCascade(new) /\ new.at = "done" /\ new.archive = o.archive /\ new.items = o.items /\ new.left = {}
    BY <1>1, <2>0, <2>1 DEF IsCascade, Stages
  <2>3. o.calm => Uncrossed(new)'
    BY <1>1, <2>0, <2>1, <2>2 DEF Uncrossed, Mine, Settled
  <2>4. file' \in [Archive!Files -> SUBSET {"main", "archive"}]
    BY <2>1 DEF CascadesInv
  <2> QED BY <2>0, <2>1, <2>2, <2>3, <2>4, StepKeeps
<1>7. ASSUME NEW k \in Cascades, Archive!End(k)
      PROVE  CascadesInv'
  <2>1. cascade' = [cascade EXCEPT ![k] = Archive!Idle] /\ UNCHANGED <<rows, archived, file>>
    BY <1>7 DEF Archive!End
  <2>2. DOMAIN cascade' = Cascades /\ cascade'[k] = Archive!Idle
        /\ \A j \in Cascades \ {k} : cascade'[j] = cascade[j]
    BY <2>1 DEF CascadesInv
  <2>3. ASSUME NEW j \in Cascades
        PROVE  IsCascade(cascade'[j]) /\ (cascade'[j].calm => Uncrossed(cascade[j])')
    <3>1. CASE j = k
      BY <2>2, <3>1, IdleIsCascade DEF Uncrossed, Mine
    <3>2. CASE j # k
      BY <1>1, <2>1, <2>2, <3>2 DEF Uncrossed, Mine, Settled
    <3> QED BY <3>1, <3>2
  <2> QED BY <2>1, <2>2, <2>3 DEF CascadesInv, IsCascade
<1>8. ASSUME NEW r \in Resources, Archive!UploadCheck(r) \/ Archive!UploadStore(r)
                                  \/ Archive!RemoveRow(r) \/ Archive!RemoveFile(r)
      PROVE  CascadesInv'
  <2>1. cascade' = Archive!Disturb(cascade) /\ rows' \subseteq Resources
    BY <1>8 DEF Archive!UploadCheck, Archive!UploadStore, Archive!RemoveRow, Archive!RemoveFile, CascadesInv
  <2>2. FileOf[r] \in Archive!Files
    BY DEF Archive!Files
  <2>3. file' \in [Archive!Files -> SUBSET {"main", "archive"}]
    <3>1. CASE UNCHANGED file
      BY <3>1 DEF CascadesInv
    <3>2. CASE Archive!UploadStore(r)
      BY <2>2, <3>2 DEF Archive!UploadStore, CascadesInv
    <3>3. CASE Archive!RemoveFile(r)
      BY <2>2, <3>3 DEF Archive!RemoveFile, CascadesInv
    <3> QED BY <1>8, <3>1, <3>2, <3>3 DEF Archive!UploadCheck, Archive!RemoveRow
  <2> QED BY <2>1, <2>3, CrossingKeeps
<1>9. CASE Archive!Crash
  BY <1>9 DEF Archive!Crash, Archive!Idle, CascadesInv, IsCascade, Uncrossed, Mine, Stages
<1>10. CASE UNCHANGED Archive!vars
  BY <1>10 DEF Archive!vars, CascadesInv, Uncrossed, Mine, Settled
<1> QED
  BY <1>2, <1>3, <1>4, <1>5, <1>6, <1>7, <1>8, <1>9, <1>10 DEF Archive!Next

(* A cascade that nobody crosses leaves each file where its resources look *)
(* for it, wherever crashes and earlier cascades had left it, and however  *)
(* many resources share it.                                                *)
THEOREM CascadesSettle == Archive!Spec => []CascadeSettlesFiles
<1>1. CascadesInv => CascadeSettlesFiles
  <2> SUFFICES ASSUME CascadesInv, NEW k \in Cascades, cascade[k].at = "done", cascade[k].calm,
                      NEW r \in cascade[k].items \cap Resources
               PROVE  Settled(cascade[k], r)
    BY DEF CascadeSettlesFiles, Archive!CascadeSettlesFiles, Settled
  <2> QED BY DEF CascadesInv, Uncrossed, Mine
<1> QED
  BY <1>1, CascadesInit, CascadesStep, PTL DEF Archive!Spec

-----------------------------------------------------------------------------
(* CalendarTicks: nothing that is not announced yet is behind a tick.  The *)
(* times are those of the past; what is written is due later than now.     *)
ClocksOK ==
  /\ clock \in Ticks!Times /\ epoch \in 0..clock /\ (last # Null => last \in 0..clock)
  /\ DOMAIN tick = Tickers
  /\ \A k \in Tickers :
       /\ DOMAIN tick[k] = {"at", "now", "prev", "lost"}
       /\ tick[k].at \in {"idle", "begun", "first", "alarms", "missed", "tasks", "advance"}
       /\ tick[k].now \in 0..clock /\ tick[k].prev \in 0..clock

DatedOK ==
  /\ task \in [Tasks -> Ticks!Task \cup {Null}] /\ event \in [Events -> Ticks!Event \cup {Null}]
  /\ \A t \in Tasks : task[t] # Null /\ task[t].status = "pending" /\ task[t].early => task[t].reminder # Null
  /\ \A e \in Events : event[e] # Null =>
       event[e].early \subseteq event[e].starts /\ (event[e].early # {} => event[e].offset # Null)

UnsaidTask(t) ==
  /\ task[t] # Null /\ task[t].status = "pending" /\ task[t].early
  /\ epoch < task[t].reminder /\ t \notin told
DueOf(e, s) == s - event[e].offset
UnsaidAlarm(e, s) ==
  /\ event[e] # Null /\ s \in event[e].early /\ ~event[e].track
  /\ epoch < DueOf(e, s) /\ <<e, s>> \notin told

TaskAhead(due, o) ==
  /\ o.at \in {"alarms", "missed", "tasks"} => o.prev < due
  /\ o.at = "advance" => o.now < due
AlarmAhead(e, s, due, o) ==
  /\ o.at = "alarms" => o.prev < due
  /\ o.at = "missed" => o.now < due \/ \E a \in o.lost : a.event = e /\ a.start = s /\ ~a.track
  /\ o.at \in {"tasks", "advance"} => o.now < due

TasksAhead == \A t \in Tasks : UnsaidTask(t) =>
  /\ last # Null => last < task[t].reminder
  /\ \A k \in Tickers : TaskAhead(task[t].reminder, tick[k])
AlarmsAhead == \A e \in Events, s \in Ticks!Dates : UnsaidAlarm(e, s) =>
  /\ last # Null => last < DueOf(e, s)
  /\ \A k \in Tickers : AlarmAhead(e, s, DueOf(e, s), tick[k])

TicksInv == ClocksOK /\ DatedOK /\ TasksAhead /\ AlarmsAhead

HIDE ArchiveInstance
USE TicksInstance DEF Ticks!CalendarAssumption

LEMMA DatesAreTimes ==
  ASSUME ClocksOK, DatedOK
  PROVE  /\ clock \in Nat /\ epoch \in Nat /\ epoch <= clock /\ (last # Null => last \in Nat /\ last <= clock)
         /\ \A k \in Tickers : /\ tick[k].now \in Nat /\ tick[k].now <= clock
                               /\ tick[k].prev \in Nat /\ tick[k].prev <= clock
         /\ \A t \in Tasks : UnsaidTask(t) => task[t].reminder \in Nat
         /\ \A e \in Events, s \in Ticks!Dates : UnsaidAlarm(e, s) =>
              s \in Nat /\ event[e].offset \in 0..Window /\ DueOf(e, s) \in Int
<1>1. clock \in Nat
  BY DEF ClocksOK, Ticks!Times
<1>2. ASSUME NEW t \in Tasks, UnsaidTask(t)
      PROVE  task[t].reminder \in Nat
  <2>1. task[t] \in Ticks!Task /\ task[t].reminder # Null
    BY <1>2 DEF UnsaidTask, DatedOK
  <2> QED BY <2>1 DEF Ticks!Task, Ticks!Times
<1>3. ASSUME NEW e \in Events, NEW s \in Ticks!Dates, UnsaidAlarm(e, s)
      PROVE  s \in Nat /\ event[e].offset \in 0..Window /\ DueOf(e, s) \in Int
  <2>1. event[e] \in Ticks!Event /\ event[e].offset # Null
    BY <1>3 DEF UnsaidAlarm, DatedOK
  <2>2. s \in Nat
    BY DEF Ticks!Dates
  <2> QED BY <2>1, <2>2 DEF Ticks!Event, DueOf
<1> QED BY <1>1, <1>2, <1>3 DEF ClocksOK

(* While the rows stay, what is said stays said.                           *)
LEMMA SaidStaysSaid ==
  ASSUME ClocksOK, DatedOK, ClocksOK', UNCHANGED <<task, event>>, told \subseteq told', epoch <= epoch'
  PROVE  /\ \A t \in Tasks : UnsaidTask(t)' => UnsaidTask(t)
         /\ \A e \in Events, s \in Ticks!Dates : UnsaidAlarm(e, s)' => UnsaidAlarm(e, s)
<1>1. clock \in Nat /\ epoch \in Nat /\ epoch' \in Nat
  BY DEF ClocksOK, Ticks!Times
<1>2. ASSUME NEW t \in Tasks, UnsaidTask(t)'
      PROVE  UnsaidTask(t)
  <2>1. task[t] \in Ticks!Task /\ task[t].reminder # Null
    BY <1>2 DEF UnsaidTask, DatedOK
  <2>2. task[t].reminder \in Nat
    BY <2>1 DEF Ticks!Task, Ticks!Times
  <2> QED BY <1>1, <1>2, <2>2 DEF UnsaidTask
<1>3. ASSUME NEW e \in Events, NEW s \in Ticks!Dates, UnsaidAlarm(e, s)'
      PROVE  UnsaidAlarm(e, s)
  <2>1. event[e] \in Ticks!Event /\ event[e].offset # Null
    BY <1>3 DEF UnsaidAlarm, DatedOK
  <2>2. DueOf(e, s) \in Int
    BY <2>1 DEF Ticks!Event, DueOf, Ticks!Dates
  <2> QED BY <1>1, <1>3, <2>2 DEF UnsaidAlarm, DueOf
<1> QED BY <1>2, <1>3

(* The tick k goes on with the others where they are.                      *)
LEMMA OneTickGoesOn ==
  ASSUME TicksInv, NEW k \in Tickers, NEW CONSTANT o, tick' = [tick EXCEPT ![k] = o],
         DOMAIN o = {"at", "now", "prev", "lost"},
         o.at \in {"idle", "begun", "first", "alarms", "missed", "tasks", "advance"},
         o.now \in 0..clock, o.prev \in 0..clock,
         UNCHANGED <<clock, last, task, event, epoch>>, told \subseteq told',
         \A t \in Tasks : UnsaidTask(t)' => TaskAhead(task[t].reminder, o),
         \A e \in Events, s \in Ticks!Dates : UnsaidAlarm(e, s)' => AlarmAhead(e, s, DueOf(e, s), o)
  PROVE  TicksInv'
<1>1. ClocksOK /\ DatedOK
  BY DEF TicksInv
<1>2. DOMAIN tick' = Tickers /\ tick'[k] = o /\ \A j \in Tickers \ {k} : tick'[j] = tick[j]
  BY <1>1 DEF ClocksOK
<1>3. ClocksOK'
  BY <1>1, <1>2 DEF ClocksOK
<1>4. DatedOK'
  BY <1>1 DEF DatedOK
<1>5. epoch <= epoch'
  BY <1>1 DEF ClocksOK, Ticks!Times
<1>6. /\ \A t \in Tasks : UnsaidTask(t)' => UnsaidTask(t)
      /\ \A e \in Events, s \in Ticks!Dates : UnsaidAlarm(e, s)' => UnsaidAlarm(e, s)
  BY <1>1, <1>3, <1>5, SaidStaysSaid
<1>7. TasksAhead'
  BY <1>2, <1>6 DEF TicksInv, TasksAhead
<1>8. AlarmsAhead'
  BY <1>2, <1>6 DEF TicksInv, AlarmsAhead, DueOf
<1> QED BY <1>3, <1>4, <1>7, <1>8 DEF TicksInv

LEMMA TicksInit == Ticks!Init => TicksInv
<1> SUFFICES ASSUME Ticks!Init PROVE TicksInv
  OBVIOUS
<1>1. clock = 0 /\ last = Null /\ epoch = 0 /\ tick = [k \in Tickers |-> Ticks!Idle]
      /\ task = [t \in Tasks |-> Null] /\ event = [e \in Events |-> Null]
  BY DEF Ticks!Init
<1>2. \A k \in Tickers : tick[k] = Ticks!Idle
  BY <1>1
<1>3. ClocksOK
  BY <1>1, <1>2 DEF ClocksOK, Ticks!Times, Ticks!Idle
<1>4. DatedOK
  BY <1>1 DEF DatedOK
<1> QED BY <1>1, <1>3, <1>4 DEF TicksInv, TasksAhead, AlarmsAhead, UnsaidTask, UnsaidAlarm

(* A date is early only if it is later than now, and so than every tick.   *)
LEMMA WritesLater ==
  ASSUME TicksInv, NEW due \in Int, clock < due
  PROVE  /\ last # Null => last < due
         /\ \A k \in Tickers : /\ TaskAhead(due, tick[k])
                               /\ \A e, s : AlarmAhead(e, s, due, tick[k])
BY DatesAreTimes DEF TicksInv, TaskAhead, AlarmAhead

LEMMA TaskWritesKeep ==
  ASSUME TicksInv, NEW t \in Tasks,
         \/ Ticks!RemoveTask(t)
         \/ \E st \in {"pending", "completed"}, r \in Ticks!Times \cup {Null} : Ticks!WriteTask(t, st, r)
  PROVE  TicksInv'
<1>1. UNCHANGED <<clock, last, event, tick, epoch>> /\ ClocksOK /\ DatedOK
  BY DEF Ticks!RemoveTask, Ticks!WriteTask, TicksInv
<1>2. PICK row \in Ticks!Task \cup {Null} :
        /\ task' = [task EXCEPT ![t] = row] /\ told \ {t} \subseteq told'
        /\ row # Null /\ row.status = "pending" /\ row.early => row.reminder # Null /\ clock < row.reminder
  <2>1. CASE Ticks!RemoveTask(t)
    BY <2>1 DEF Ticks!RemoveTask
  <2>2. ASSUME NEW st \in {"pending", "completed"}, NEW r \in Ticks!Times \cup {Null}, Ticks!WriteTask(t, st, r)
        PROVE  \E row \in Ticks!Task \cup {Null} :
                 /\ task' = [task EXCEPT ![t] = row] /\ told \ {t} \subseteq told'
                 /\ row # Null /\ row.status = "pending" /\ row.early => row.reminder # Null /\ clock < row.reminder
    <3> DEFINE row == [status |-> st, early |-> r # Null /\ r > clock,
                       reminder |-> IF st = "completed" /\ task[t] # Null THEN Null ELSE r]
    <3>1. task' = [task EXCEPT ![t] = row] /\ told' = told \ {t}
      BY <2>2 DEF Ticks!WriteTask
    <3>2. row \in Ticks!Task
      BY DEF Ticks!Task
    <3>3. row.status = "pending" /\ row.early => row.reminder # Null /\ clock < row.reminder
      <4>1. clock \in Nat
        BY <1>1 DEF ClocksOK, Ticks!Times
      <4> QED BY <4>1 DEF Ticks!Times
    <3> HIDE DEF row
    <3> QED BY <3>1, <3>2, <3>3
  <2> QED BY <2>1, <2>2
<1>3. task'[t] = row /\ DOMAIN task' = Tasks /\ \A u \in Tasks \ {t} : task'[u] = task[u]
  BY <1>1, <1>2 DEF DatedOK
<1>4. ClocksOK' /\ DatedOK'
  BY <1>1, <1>2, <1>3 DEF ClocksOK, DatedOK
<1>5. TasksAhead'
  <2> SUFFICES ASSUME NEW u \in Tasks, UnsaidTask(u)'
               PROVE  /\ last # Null => last < task'[u].reminder
                      /\ \A k \in Tickers : TaskAhead(task'[u].reminder, tick[k])
    BY <1>1 DEF TasksAhead
  <2>1. CASE u = t
    <3>1. row \in Ticks!Task /\ row.reminder # Null /\ clock < row.reminder
      BY <1>2, <1>3, <2>1 DEF UnsaidTask
    <3>2. row.reminder \in Int
      BY <3>1 DEF Ticks!Task, Ticks!Times
    <3> QED BY <1>3, <2>1, <3>1, <3>2, WritesLater
  <2>2. CASE u # t
    <3>1. UnsaidTask(u)
      BY <1>1, <1>2, <1>3, <2>2 DEF UnsaidTask
    <3> QED BY <1>3, <2>2, <3>1 DEF TicksInv, TasksAhead
  <2> QED BY <2>1, <2>2
<1>6. ASSUME NEW e \in Events, NEW s \in Ticks!Dates, UnsaidAlarm(e, s)'
      PROVE  UnsaidAlarm(e, s)
  <2>1. <<e, s>> # t
    OBVIOUS
  <2> QED BY <1>1, <1>2, <1>6, <2>1 DEF UnsaidAlarm, DueOf
<1>7. AlarmsAhead'
  BY <1>1, <1>6 DEF TicksInv, AlarmsAhead, DueOf
<1> QED BY <1>4, <1>5, <1>7 DEF TicksInv

LEMMA EventWritesKeep ==
  ASSUME TicksInv, NEW e \in Events,
         \/ Ticks!RemoveEvent(e)
         \/ \E starts \in Series, offset \in (0..Window) \cup {Null}, track \in BOOLEAN :
              Ticks!WriteEvent(e, starts, offset, track)
  PROVE  TicksInv'
<1>1. UNCHANGED <<clock, last, task, tick, epoch>> /\ ClocksOK /\ DatedOK
  BY DEF Ticks!RemoveEvent, Ticks!WriteEvent, TicksInv
<1>2. PICK row \in Ticks!Event \cup {Null} :
        /\ event' = [event EXCEPT ![e] = row] /\ told \ ({e} \X Ticks!Dates) \subseteq told'
        /\ row # Null => \A s \in row.early : s \in row.starts /\ row.offset # Null /\ clock < s - row.offset
  <2>1. CASE Ticks!RemoveEvent(e)
    BY <2>1 DEF Ticks!RemoveEvent
  <2>2. CASE \E starts \in Series, offset \in (0..Window) \cup {Null}, track \in BOOLEAN :
               Ticks!WriteEvent(e, starts, offset, track)
    <3>0. PICK starts \in Series, offset \in (0..Window) \cup {Null}, track \in BOOLEAN :
            Ticks!WriteEvent(e, starts, offset, track)
      BY <2>2
    <3> DEFINE early == {s \in starts : offset # Null /\ s - offset > clock}
               row == [starts |-> starts, offset |-> offset, track |-> track, early |-> early]
    <3>1. event' = [event EXCEPT ![e] = row] /\ told' = told \ ({e} \X Ticks!Dates)
      BY <3>0 DEF Ticks!WriteEvent
    <3>2. early \in SUBSET Ticks!Dates
      OBVIOUS
    <3>3. row \in Ticks!Event
      BY <3>2 DEF Ticks!Event
    <3>4. \A s \in early : s \in starts /\ offset # Null /\ clock < s - offset
      <4>1. clock \in Nat
        BY <1>1 DEF ClocksOK, Ticks!Times
      <4>2. \A s \in starts : s \in Nat
        BY DEF Ticks!Dates
      <4> QED BY <4>1, <4>2
    <3>5. row # Null => \A s \in row.early : s \in row.starts /\ row.offset # Null /\ clock < s - row.offset
      BY <3>4
    <3> HIDE DEF row
    <3> QED BY <3>1, <3>3, <3>5
  <2> QED BY <2>1, <2>2
<1>3. event'[e] = row /\ DOMAIN event' = Events /\ \A d \in Events \ {e} : event'[d] = event[d]
  BY <1>1, <1>2 DEF DatedOK
<1>4. ClocksOK' /\ DatedOK'
  BY <1>1, <1>2, <1>3 DEF ClocksOK, DatedOK
<1>5. AlarmsAhead'
  <2> SUFFICES ASSUME NEW d \in Events, NEW s \in Ticks!Dates, UnsaidAlarm(d, s)'
               PROVE  /\ last # Null => last < DueOf(d, s)'
                      /\ \A k \in Tickers : AlarmAhead(d, s, DueOf(d, s)', tick[k])
    BY <1>1 DEF AlarmsAhead
  <2>1. CASE d = e
    <3>1. row \in Ticks!Event /\ row.offset # Null /\ clock < s - row.offset
      BY <1>2, <1>3, <2>1 DEF UnsaidAlarm
    <3>2. s - row.offset \in Int
      BY <3>1 DEF Ticks!Event, Ticks!Dates
    <3>3. DueOf(d, s)' = s - row.offset
      BY <1>3, <2>1 DEF DueOf
    <3> QED BY <3>1, <3>2, <3>3, WritesLater
  <2>2. CASE d # e
    <3>1. <<d, s>> \notin {e} \X Ticks!Dates /\ event'[d] = event[d]
      BY <1>3, <2>2
    <3>2. UnsaidAlarm(d, s) /\ DueOf(d, s)' = DueOf(d, s)
      BY <1>1, <1>2, <3>1 DEF UnsaidAlarm, DueOf
    <3> QED BY <3>2 DEF TicksInv, AlarmsAhead
  <2> QED BY <2>1, <2>2
<1>6. ASSUME NEW t \in Tasks, UnsaidTask(t)'
      PROVE  UnsaidTask(t)
  <2>1. t \notin {e} \X Ticks!Dates
    OBVIOUS
  <2> QED BY <1>1, <1>2, <1>6, <2>1 DEF UnsaidTask
<1>7. TasksAhead'
  BY <1>1, <1>6 DEF TicksInv, TasksAhead
<1> QED BY <1>4, <1>5, <1>7 DEF TicksInv

(* processCalendarAlarms announces every alarm in (previous, now], but for *)
(* those that it keeps for the second part.                                *)
LEMMA AlarmsGoOut ==
  ASSUME TicksInv, NEW k \in Tickers, Ticks!SendAlarms(k)
  PROVE  TicksInv'
<1>1. ClocksOK /\ DatedOK /\ TasksAhead /\ AlarmsAhead
  BY DEF TicksInv
<1>2. PICK due, lost, o :
        /\ due = Ticks!Due(tick[k].prev, tick[k].now)
        /\ lost = {a \in due : Ticks!Lost(a.due, tick[k].now)}
        /\ o = [tick[k] EXCEPT !.at = "missed", !.lost = lost]
  OBVIOUS
<1>3. /\ tick[k].at = "alarms" /\ tick' = [tick EXCEPT ![k] = o]
      /\ told' = told \cup {Ticks!Told(a) : a \in {b \in due : ~Ticks!Lost(b.due, tick[k].now)}}
      /\ UNCHANGED <<clock, last, task, event, epoch>>
  BY <1>1, <1>2 DEF Ticks!SendAlarms, Ticks!rows, ClocksOK
<1>4. /\ DOMAIN o = {"at", "now", "prev", "lost"} /\ o.now \in 0..clock /\ o.prev \in 0..clock
      /\ o.at = "missed" /\ o.now = tick[k].now /\ o.prev = tick[k].prev /\ o.lost = lost
  BY <1>1, <1>2 DEF ClocksOK
<1>5. \A t \in Tasks : UnsaidTask(t)' => TaskAhead(task[t].reminder, o)
  <2> SUFFICES ASSUME NEW t \in Tasks, UnsaidTask(t)'
               PROVE  tick[k].prev < task[t].reminder
    BY <1>4 DEF TaskAhead
  <2> QED BY <1>1, <1>3 DEF UnsaidTask, TasksAhead, TaskAhead
<1>6. ASSUME NEW e \in Events, NEW s \in Ticks!Dates, UnsaidAlarm(e, s)'
      PROVE  AlarmAhead(e, s, DueOf(e, s), o)
  <2>1. UnsaidAlarm(e, s) /\ <<e, s>> \notin told'
    BY <1>3, <1>6 DEF UnsaidAlarm, DueOf
  <2>2. tick[k].prev < DueOf(e, s)
    BY <1>1, <1>3, <2>1 DEF AlarmsAhead, AlarmAhead
  <2>3. /\ s \in Nat /\ event[e].offset \in 0..Window /\ DueOf(e, s) \in Int
        /\ tick[k].prev \in Nat /\ tick[k].now \in Nat
    BY <1>1, <2>1, DatesAreTimes
  <2>4. ASSUME DueOf(e, s) <= tick[k].now
        PROVE  \E a \in lost : a.event = e /\ a.start = s /\ ~a.track
    <3>1. PICK a : a = [event |-> e, start |-> s, due |-> DueOf(e, s), track |-> event[e].track]
      OBVIOUS
    <3>2. /\ event[e] # Null /\ event[e] \in Ticks!Event /\ s \in event[e].starts /\ ~event[e].track
          /\ event[e].offset # Null
      BY <1>1, <2>1 DEF UnsaidAlarm, DatedOK
    <3>3. DueOf(e, s) \in Ticks!Dates
      BY <2>2, <2>3, <2>4, <1>1 DEF Ticks!Dates, ClocksOK, Ticks!Times
    <3>4. a \in Ticks!Alarm /\ a.event = e /\ a.start = s /\ a.due = DueOf(e, s) /\ a.track = event[e].track
      BY <3>1, <3>2, <3>3 DEF Ticks!Alarm, Ticks!Event
    <3>5. tick[k].prev - Window <= s /\ s <= tick[k].now + Window
      BY <2>2, <2>3, <2>4 DEF DueOf
    <3>6. a \in due
      BY <1>2, <2>2, <2>4, <3>2, <3>4, <3>5 DEF Ticks!Due, DueOf
    <3>7. Ticks!Lost(a.due, tick[k].now)
      BY <1>3, <2>1, <3>4, <3>6 DEF Ticks!Told
    <3> QED BY <1>2, <3>2, <3>4, <3>6, <3>7
  <2> QED BY <1>4, <2>3, <2>4 DEF AlarmAhead
<1> QED BY <1>3, <1>4, <1>5, <1>6, OneTickGoesOn

LEMMA MissedGoOut ==
  ASSUME TicksInv, NEW k \in Tickers, Ticks!SendMissed(k)
  PROVE  TicksInv'
<1>1. ClocksOK /\ DatedOK /\ TasksAhead /\ AlarmsAhead
  BY DEF TicksInv
<1>2. PICK o : o = [tick[k] EXCEPT !.at = "tasks", !.lost = {}]
  OBVIOUS
<1>3. /\ tick[k].at = "missed" /\ tick' = [tick EXCEPT ![k] = o]
      /\ told' = told \cup {Ticks!Told(a) : a \in {b \in tick[k].lost : b.track => Ticks!Told(b) \notin done}}
      /\ UNCHANGED <<clock, last, task, event, epoch>>
  BY <1>1, <1>2 DEF Ticks!SendMissed, Ticks!rows, ClocksOK
<1>4. /\ DOMAIN o = {"at", "now", "prev", "lost"} /\ o.now \in 0..clock /\ o.prev \in 0..clock
      /\ o.at = "tasks" /\ o.now = tick[k].now /\ o.prev = tick[k].prev
  BY <1>1, <1>2 DEF ClocksOK
<1>5. \A t \in Tasks : UnsaidTask(t)' => TaskAhead(task[t].reminder, o)
  BY <1>1, <1>3, <1>4 DEF UnsaidTask, TasksAhead, TaskAhead
<1>6. ASSUME NEW e \in Events, NEW s \in Ticks!Dates, UnsaidAlarm(e, s)'
      PROVE  AlarmAhead(e, s, DueOf(e, s), o)
  <2>1. UnsaidAlarm(e, s) /\ <<e, s>> \notin told'
    BY <1>3, <1>6 DEF UnsaidAlarm, DueOf
  <2>2. ~\E a \in tick[k].lost : a.event = e /\ a.start = s /\ ~a.track
    BY <1>3, <2>1 DEF Ticks!Told
  <2>3. tick[k].now < DueOf(e, s)
    BY <1>1, <1>3, <2>1, <2>2 DEF AlarmsAhead, AlarmAhead
  <2> QED BY <1>4, <2>3 DEF AlarmAhead
<1> QED BY <1>3, <1>4, <1>5, <1>6, OneTickGoesOn

LEMMA RemindersGoOut ==
  ASSUME TicksInv, NEW k \in Tickers, Ticks!SendReminders(k)
  PROVE  TicksInv'
<1>1. ClocksOK /\ DatedOK /\ TasksAhead /\ AlarmsAhead
  BY DEF TicksInv
<1>2. PICK o : o = [tick[k] EXCEPT !.at = "advance"]
  OBVIOUS
<1>3. /\ tick[k].at = "tasks" /\ tick' = [tick EXCEPT ![k] = o] /\ told \subseteq told'
      /\ UNCHANGED <<clock, last, task, event, epoch>>
      /\ \A t \in Tasks :
           /\ task[t] # Null /\ task[t].status = "pending" /\ task[t].reminder # Null
           /\ task[t].reminder > tick[k].prev - Backlog /\ task[t].reminder <= tick[k].now
           /\ (task[t].reminder <= tick[k].prev => Ticks!Lost(task[t].reminder, tick[k].now))
           => t \in told'
  BY <1>1, <1>2 DEF Ticks!SendReminders, Ticks!rows, ClocksOK
<1>4. /\ DOMAIN o = {"at", "now", "prev", "lost"} /\ o.now \in 0..clock /\ o.prev \in 0..clock
      /\ o.at = "advance" /\ o.now = tick[k].now
  BY <1>1, <1>2 DEF ClocksOK
<1>5. ASSUME NEW t \in Tasks, UnsaidTask(t)'
      PROVE  TaskAhead(task[t].reminder, o)
  <2>1. UnsaidTask(t) /\ t \notin told'
    BY <1>3, <1>5 DEF UnsaidTask
  <2>2. tick[k].prev < task[t].reminder
    BY <1>1, <1>3, <2>1 DEF TasksAhead, TaskAhead
  <2>3. task[t].reminder \in Nat /\ task[t].reminder # Null /\ tick[k].prev \in Nat /\ tick[k].now \in Nat
    BY <1>1, <2>1, DatesAreTimes DEF UnsaidTask, DatedOK
  <2>4. ~(task[t].reminder <= tick[k].now)
    BY <1>3, <2>1, <2>2, <2>3 DEF UnsaidTask
  <2> QED BY <1>4, <2>3, <2>4 DEF TaskAhead
<1>6. ASSUME NEW e \in Events, NEW s \in Ticks!Dates, UnsaidAlarm(e, s)'
      PROVE  AlarmAhead(e, s, DueOf(e, s), o)
  <2>1. UnsaidAlarm(e, s)
    BY <1>3, <1>6 DEF UnsaidAlarm, DueOf
  <2>2. tick[k].now < DueOf(e, s)
    BY <1>1, <1>3, <2>1 DEF AlarmsAhead, AlarmAhead
  <2> QED BY <1>4, <2>2 DEF AlarmAhead
<1> QED BY <1>3, <1>4, <1>5, <1>6, OneTickGoesOn

(* A tick sets its time when everything up to it is announced; the first   *)
(* tick, which announces nothing, when nothing later is known.             *)
LEMMA AdvanceKeeps ==
  ASSUME TicksInv, NEW k \in Tickers, Ticks!Advance(k)
  PROVE  TicksInv'
<1>1. ClocksOK /\ DatedOK /\ TasksAhead /\ AlarmsAhead
  BY DEF TicksInv
<1>2. /\ tick[k].at \in {"first", "advance"} /\ last' = tick[k].now
      /\ epoch' = IF tick[k].at = "first" /\ tick[k].now > epoch THEN tick[k].now ELSE epoch
      /\ tick' = [tick EXCEPT ![k] = Ticks!Idle]
      /\ UNCHANGED <<clock, task, event, told>>
  BY DEF Ticks!Advance, Ticks!rows
<1>3. clock \in Nat /\ epoch \in Nat /\ tick[k].now \in Nat /\ tick[k].now <= clock /\ epoch <= clock
  BY <1>1, DatesAreTimes
<1>4. DOMAIN tick' = Tickers /\ tick'[k] = Ticks!Idle /\ \A j \in Tickers \ {k} : tick'[j] = tick[j]
  BY <1>1, <1>2 DEF ClocksOK
<1>5. epoch' \in 0..clock /\ epoch <= epoch' /\ (tick[k].at = "first" => tick[k].now <= epoch')
  BY <1>2, <1>3
<1>6. ClocksOK'
  <2>1. ASSUME NEW j \in Tickers
        PROVE  /\ DOMAIN tick'[j] = {"at", "now", "prev", "lost"}
               /\ tick'[j].at \in {"idle", "begun", "first", "alarms", "missed", "tasks", "advance"}
               /\ tick'[j].now \in 0..clock /\ tick'[j].prev \in 0..clock
    <3>1. CASE j = k
      BY <1>3, <1>4, <3>1 DEF Ticks!Idle
    <3>2. CASE j # k
      BY <1>1, <1>4, <3>2 DEF ClocksOK
    <3> QED BY <3>1, <3>2
  <2> QED BY <1>1, <1>2, <1>3, <1>4, <1>5, <2>1 DEF ClocksOK
<1>7. DatedOK'
  BY <1>1, <1>2 DEF DatedOK
<1>8. /\ \A t \in Tasks : UnsaidTask(t)' => UnsaidTask(t)
      /\ \A e \in Events, s \in Ticks!Dates : UnsaidAlarm(e, s)' => UnsaidAlarm(e, s)
  BY <1>1, <1>2, <1>5, <1>6, SaidStaysSaid
<1>9. TasksAhead'
  <2> SUFFICES ASSUME NEW t \in Tasks, UnsaidTask(t)'
               PROVE  /\ last' < task[t].reminder
                      /\ \A j \in Tickers : TaskAhead(task[t].reminder, tick'[j])
    BY <1>2 DEF TasksAhead
  <2>1. UnsaidTask(t) /\ epoch' < task[t].reminder /\ task[t].reminder \in Nat
    BY <1>1, <1>2, <1>8, DatesAreTimes DEF UnsaidTask
  <2>2. \A j \in Tickers : TaskAhead(task[t].reminder, tick[j])
    BY <1>1, <2>1 DEF TasksAhead
  <2>3. last' < task[t].reminder
    BY <1>2, <1>3, <1>5, <2>1, <2>2 DEF TaskAhead
  <2>4. TaskAhead(task[t].reminder, Ticks!Idle)
    BY DEF TaskAhead, Ticks!Idle
  <2> QED BY <1>4, <2>2, <2>3, <2>4
<1>10. AlarmsAhead'
  <2> SUFFICES ASSUME NEW e \in Events, NEW s \in Ticks!Dates, UnsaidAlarm(e, s)'
               PROVE  /\ last' < DueOf(e, s)
                      /\ \A j \in Tickers : AlarmAhead(e, s, DueOf(e, s), tick'[j])
    BY <1>2 DEF AlarmsAhead, DueOf
  <2>1. UnsaidAlarm(e, s) /\ epoch' < DueOf(e, s) /\ DueOf(e, s) \in Int
    BY <1>1, <1>2, <1>8, DatesAreTimes DEF UnsaidAlarm, DueOf
  <2>2. \A j \in Tickers : AlarmAhead(e, s, DueOf(e, s), tick[j])
    BY <1>1, <2>1 DEF AlarmsAhead
  <2>3. last' < DueOf(e, s)
    BY <1>2, <1>3, <1>5, <2>1, <2>2 DEF AlarmAhead
  <2>4. AlarmAhead(e, s, DueOf(e, s), Ticks!Idle)
    BY DEF AlarmAhead, Ticks!Idle
  <2> QED BY <1>4, <2>2, <2>3, <2>4
<1> QED BY <1>6, <1>7, <1>9, <1>10 DEF TicksInv

LEMMA TicksStep == TicksInv /\ [Ticks!Next]_(Ticks!vars) => TicksInv'
<1> SUFFICES ASSUME TicksInv, [Ticks!Next]_(Ticks!vars) PROVE TicksInv'
  OBVIOUS
<1>1. ClocksOK /\ DatedOK /\ TasksAhead /\ AlarmsAhead
  BY DEF TicksInv
<1>2. CASE Ticks!Clock
  <2>1. UNCHANGED <<last, task, event, done, tick, told, epoch>> /\ clock' \in Ticks!Times /\ clock < clock'
    <3>1. clock \in Nat /\ MaxTime \in Nat
      BY <1>1 DEF ClocksOK, Ticks!Times
    <3>2. PICK t \in (clock + 1)..MaxTime : clock' = t
      BY <1>2 DEF Ticks!Clock
    <3>3. clock' \in Ticks!Times /\ clock < clock'
      BY <3>1, <3>2 DEF Ticks!Times
    <3> QED BY <1>2, <3>3 DEF Ticks!Clock, Ticks!rows
  <2>2. ClocksOK'
    BY <1>1, <2>1 DEF ClocksOK, Ticks!Times
  <2>3. DatedOK' /\ TasksAhead' /\ AlarmsAhead'
    BY <1>1, <2>1 DEF DatedOK, TasksAhead, AlarmsAhead, UnsaidTask, UnsaidAlarm, DueOf
  <2> QED BY <2>2, <2>3 DEF TicksInv
<1>3. ASSUME NEW e \in Events, NEW s \in Ticks!Dates, Ticks!Mark(e, s)
      PROVE  TicksInv'
  <2>1. UNCHANGED <<clock, last, task, event, tick, told, epoch>>
    BY <1>3 DEF Ticks!Mark
  <2> QED BY <1>1, <2>1 DEF TicksInv, ClocksOK, DatedOK, TasksAhead, AlarmsAhead, UnsaidTask, UnsaidAlarm, DueOf
<1>4. ASSUME NEW k \in Tickers, Ticks!Begin(k)
      PROVE  TicksInv'
  <2>1. PICK o : o = [Ticks!Idle EXCEPT !.at = "begun", !.now = clock]
    OBVIOUS
  <2>2. tick' = [tick EXCEPT ![k] = o] /\ UNCHANGED <<clock, last, task, event, told, epoch>>
    BY <1>4, <2>1 DEF Ticks!Begin, Ticks!rows
  <2>3. DOMAIN o = {"at", "now", "prev", "lost"} /\ o.at = "begun" /\ o.now \in 0..clock /\ o.prev \in 0..clock
    BY <1>1, <2>1 DEF Ticks!Idle, ClocksOK, Ticks!Times
  <2>4. (\A due : TaskAhead(due, o)) /\ \A e, s, due : AlarmAhead(e, s, due, o)
    BY <2>3 DEF TaskAhead, AlarmAhead
  <2> QED BY <2>2, <2>3, <2>4, OneTickGoesOn
<1>5. ASSUME NEW k \in Tickers, Ticks!ReadPrevious(k)
      PROVE  TicksInv'
  <2>1. PICK o : o = IF last = Null THEN [tick[k] EXCEPT !.at = "first"]
                     ELSE IF tick[k].now <= last THEN Ticks!Idle
                     ELSE [tick[k] EXCEPT !.at = "alarms", !.prev = last]
    OBVIOUS
  <2>2. tick' = [tick EXCEPT ![k] = o] /\ UNCHANGED <<clock, last, task, event, told, epoch>>
    BY <1>1, <1>5, <2>1 DEF Ticks!ReadPrevious, Ticks!rows, ClocksOK
  <2>3. /\ DOMAIN o = {"at", "now", "prev", "lost"} /\ o.now \in 0..clock /\ o.prev \in 0..clock
        /\ o.at \in {"idle", "first"} \/ (o.at = "alarms" /\ last # Null /\ o.prev = last)
    BY <1>1, <2>1 DEF Ticks!Idle, ClocksOK, Ticks!Times
  <2>4. \A t \in Tasks : UnsaidTask(t)' => TaskAhead(task[t].reminder, o)
    BY <1>1, <2>2, <2>3 DEF TaskAhead, TasksAhead, UnsaidTask
  <2>5. \A e \in Events, s \in Ticks!Dates : UnsaidAlarm(e, s)' => AlarmAhead(e, s, DueOf(e, s), o)
    BY <1>1, <2>2, <2>3 DEF AlarmAhead, AlarmsAhead, UnsaidAlarm, DueOf
  <2> QED BY <2>2, <2>3, <2>4, <2>5, OneTickGoesOn
<1>6. ASSUME NEW k \in Tickers, Ticks!SendAlarms(k)
      PROVE  TicksInv'
  BY <1>6, AlarmsGoOut
<1>7. ASSUME NEW k \in Tickers, Ticks!SendMissed(k)
      PROVE  TicksInv'
  BY <1>7, MissedGoOut
<1>8. ASSUME NEW k \in Tickers, Ticks!SendReminders(k)
      PROVE  TicksInv'
  BY <1>8, RemindersGoOut
<1>9. ASSUME NEW k \in Tickers, Ticks!Advance(k)
      PROVE  TicksInv'
  BY <1>9, AdvanceKeeps
<1>10. ASSUME NEW k \in Tickers, Ticks!Fail(k)
       PROVE  TicksInv'
  <2>1. PICK o : o = Ticks!Idle
    OBVIOUS
  <2>2. tick' = [tick EXCEPT ![k] = o] /\ UNCHANGED <<clock, last, task, event, told, epoch>>
    BY <1>10, <2>1 DEF Ticks!Fail, Ticks!rows
  <2>3. DOMAIN o = {"at", "now", "prev", "lost"} /\ o.at = "idle" /\ o.now \in 0..clock /\ o.prev \in 0..clock
    BY <1>1, <2>1 DEF Ticks!Idle, ClocksOK, Ticks!Times
  <2>4. (\A due : TaskAhead(due, o)) /\ \A e, s, due : AlarmAhead(e, s, due, o)
    BY <2>3 DEF TaskAhead, AlarmAhead
  <2> QED BY <2>2, <2>3, <2>4, OneTickGoesOn
<1>11. CASE UNCHANGED Ticks!vars
  <2>1. UNCHANGED <<clock, last, task, event, tick, told, epoch>>
    BY <1>11 DEF Ticks!vars, Ticks!rows
  <2> QED BY <1>1, <2>1 DEF TicksInv, ClocksOK, DatedOK, TasksAhead, AlarmsAhead, UnsaidTask, UnsaidAlarm, DueOf
<1> QED
  BY <1>2, <1>3, <1>4, <1>5, <1>6, <1>7, <1>8, <1>9, <1>10, <1>11, TaskWritesKeep, EventWritesKeep DEF Ticks!Next

(* What was due when the scheduler's time passed it has been announced,    *)
(* for all tasks, events, windows, thresholds and numbers of overlapping   *)
(* ticks, whichever fail.                                                  *)
THEOREM NothingIsMissed == Ticks!Spec => []NothingDueIsMissed
<1>1. TicksInv => NothingDueIsMissed
  <2> SUFFICES ASSUME TicksInv, last # Null PROVE Ticks!NothingDueIsMissed
    BY DEF NothingDueIsMissed, Ticks!NothingDueIsMissed
  <2>1. last \in Nat /\ epoch \in Nat
    BY DatesAreTimes DEF TicksInv
  <2>2. ASSUME NEW t \in Tasks, task[t] # Null, task[t].status = "pending", task[t].early,
               epoch < task[t].reminder, task[t].reminder <= last, t \notin told
        PROVE  FALSE
    <3>1. UnsaidTask(t)
      BY <2>2 DEF UnsaidTask
    <3>2. task[t].reminder \in Nat /\ last < task[t].reminder
      BY <3>1, DatesAreTimes DEF TicksInv, TasksAhead
    <3> QED BY <2>1, <2>2, <3>2
  <2>3. ASSUME NEW e \in Events, NEW s \in Ticks!Dates, event[e] # Null, s \in event[e].early, ~event[e].track,
               epoch < s - event[e].offset, s - event[e].offset <= last, <<e, s>> \notin told
        PROVE  FALSE
    <3>1. UnsaidAlarm(e, s)
      BY <2>3 DEF UnsaidAlarm, DueOf
    <3>2. DueOf(e, s) \in Int /\ last < DueOf(e, s)
      BY <3>1, DatesAreTimes DEF TicksInv, AlarmsAhead
    <3> QED BY <2>1, <2>3, <3>2 DEF DueOf
  <2> QED BY <2>2, <2>3 DEF Ticks!NothingDueIsMissed
<1> QED
  BY <1>1, TicksInit, TicksStep, PTL DEF Ticks!Spec

-----------------------------------------------------------------------------
(* ResourcePipeline: whatever changed the day of a resource has a date     *)
(* extraction coming, and the newest one has the day of the resource.      *)
Errand == [kind : Pipeline!Saves \cup Pipeline!Kinds \cup Pipeline!Fields \cup {"transcribe", "detect", "ingest", "date"},
           res : Uploaded, anchor : Pipeline!Anchors, before : Pipeline!Anchors]

Todo(todo) == todo \in Seq(Errand) /\ \A i \in 1..Len(todo) : todo[i].kind = "transcribe" => i = Len(todo)

RowsOK ==
  /\ resource \in [Uploaded -> {Null} \cup Pipeline!Row] /\ DOMAIN dates = Uploaded
  /\ DOMAIN used = {"rows", "patches", "tasks", "crashes"}
  /\ \A r \in Uploaded : resource[r] # Null => r \in used.rows
JobsOK ==
  /\ serial \in Nat
  /\ \A j \in jobs : DOMAIN j = {"n", "job"} /\ j.n \in 0..serial /\ j.job \in Errand
  /\ DOMAIN op = Actors /\ (\A a \in Actors : Todo(op[a]))
  /\ DOMAIN run = {"job", "todo"} /\ Todo(run.todo)
  /\ run # Pipeline!Rest => run.job \in jobs /\ run.job.job.kind # "date"

DateJobs(r) == {j \in jobs : j.job.kind = "date" /\ j.job.res = r}
Due(todo, r) == \E i \in 1..Len(todo) : todo[i].kind = "date" /\ todo[i].res = r
Coming(r) == Due(run.todo, r) \/ \E a \in Actors : Due(op[a], r)
Newest(j, r) == \A i \in DateJobs(r) : i.n <= j.n

(* Without a text there is nothing to date.                                *)
TextsFirst == \A r \in Uploaded :
  /\ ~Pipeline!Has(r) => dates[r] = "none"
  /\ resource[r] # Null /\ ~Pipeline!Has(r) => DateJobs(r) = {}
  /\ r \notin used.rows => DateJobs(r) = {}

DaysFollow == ~crossed => \A r \in Uploaded : Pipeline!Has(r) =>
  \/ Coming(r)
  \/ /\ \A j \in DateJobs(r) : Newest(j, r) => j.job.anchor = resource[r].date
     /\ DateJobs(r) = {} /\ dates[r] # "none" => dates[r] = resource[r].date

PipelineInv == RowsOK /\ JobsOK /\ TextsFirst /\ DaysFollow

HIDE TicksInstance
USE PipelineInstance DEF Pipeline!ResourceAssumption

LEMMA NullIsAnAnchor == Null \in Pipeline!Anchors
BY DEF Pipeline!Anchors

LEMMA JobIsAnErrand ==
  ASSUME NEW k \in Pipeline!Kinds \cup Pipeline!Fields \cup {"transcribe", "detect", "ingest", "date"},
         NEW r \in Uploaded, NEW d \in Pipeline!Anchors
  PROVE  /\ Pipeline!Job(k, r, d) \in Errand
         /\ Pipeline!Job(k, r, d).kind = k /\ Pipeline!Job(k, r, d).res = r /\ Pipeline!Job(k, r, d).anchor = d
BY NullIsAnAnchor DEF Errand, Pipeline!Job

LEMMA SavingIsAnErrand ==
  ASSUME RowsOK, NEW k \in Pipeline!Saves, NEW r \in Uploaded, NEW d \in Pipeline!Anchors
  PROVE  Pipeline!Saving(k, r, d) \in Errand /\ Pipeline!Saving(k, r, d).kind = k
<1>1. resource[r] # Null => resource[r].date \in Pipeline!Anchors
  BY DEF RowsOK, Pipeline!Row
<1> QED BY <1>1, NullIsAnAnchor DEF Errand, Pipeline!Saving

(* What is left to do is a sequence; a transcription comes last.           *)
LEMMA TodoNothing == Todo(<<>>) /\ \A r : ~Due(<<>>, r)
BY DEF Todo, Due

LEMMA TodoFirst ==
  ASSUME NEW x \in Errand, NEW q, Todo(q), x.kind # "transcribe" \/ q = <<>>
  PROVE  Todo(<<x>> \o q) /\ \A r : Due(q, r) => Due(<<x>> \o q, r)
<1>1. q \in Seq(Errand) /\ <<x>> \o q \in Seq(Errand) /\ Len(<<x>> \o q) = Len(q) + 1 /\ Len(q) \in Nat
  BY DEF Todo
<1>2. (<<x>> \o q)[1] = x /\ \A i \in 1..Len(q) : (<<x>> \o q)[i + 1] = q[i]
  BY <1>1
<1>3. \A i \in 1..Len(<<x>> \o q) : i = 1 \/ (i - 1 \in 1..Len(q) /\ i = (i - 1) + 1)
  BY <1>1
<1>4. ASSUME NEW i \in 1..Len(<<x>> \o q), (<<x>> \o q)[i].kind = "transcribe"
      PROVE  i = Len(<<x>> \o q)
  <2>1. CASE i = 1
    BY <1>1, <1>2, <1>4, <2>1
  <2>2. CASE i - 1 \in 1..Len(q)
    BY <1>1, <1>2, <1>4, <2>2 DEF Todo
  <2> QED BY <1>3, <2>1, <2>2
<1>5. ASSUME NEW r, NEW i \in 1..Len(q), q[i].kind = "date" /\ q[i].res = r
      PROVE  Due(<<x>> \o q, r)
  <2>1. i + 1 \in 1..Len(<<x>> \o q)
    BY <1>1
  <2> QED BY <1>2, <1>5, <2>1 DEF Due
<1> QED BY <1>1, <1>4, <1>5 DEF Todo, Due

LEMMA TodoRest ==
  ASSUME NEW q, Todo(q), q # <<>>
  PROVE  /\ Head(q) \in Errand /\ Todo(Tail(q)) /\ (Head(q).kind = "transcribe" => Tail(q) = <<>>)
         /\ \A r : Due(q, r) => Due(Tail(q), r) \/ (Head(q).kind = "date" /\ Head(q).res = r)
<1>1. PICK t, n, m : t = Tail(q) /\ n = Len(q) /\ m = Len(t)
  OBVIOUS
<1>2. /\ q \in Seq(Errand) /\ t \in Seq(Errand) /\ n \in Nat /\ m \in Nat /\ n = m + 1
      /\ Head(q) = q[1] /\ q[1] \in Errand
      /\ \A i \in 1..m : t[i] = q[i + 1]
  BY <1>1 DEF Todo
<1>3. \A i \in 1..n : q[i].kind = "transcribe" => i = n
  BY <1>1 DEF Todo
<1>4. q[1].kind = "transcribe" => m = 0
  BY <1>2, <1>3
<1>5. ASSUME NEW i \in 1..m, t[i].kind = "transcribe"
      PROVE  i = m
  <2>1. i \in Nat /\ i + 1 \in 1..n /\ t[i] = q[i + 1]
    BY <1>2
  <2>2. i + 1 = n
    BY <1>3, <1>5, <2>1
  <2> QED BY <1>2, <2>1, <2>2
<1>6. ASSUME NEW r, NEW i \in 1..n, q[i].kind = "date" /\ q[i].res = r, i # 1
      PROVE  Due(t, r)
  <2>1. i - 1 \in 1..m /\ t[i - 1] = q[i]
    BY <1>2, <1>6
  <2> QED BY <1>1, <1>6, <2>1 DEF Due
<1>7. m = 0 => t = <<>>
  BY <1>1, <1>2
<1>8. Todo(t)
  BY <1>1, <1>2, <1>5 DEF Todo
<1>9. \A r : Due(q, r) => Due(t, r) \/ (q[1].kind = "date" /\ q[1].res = r)
  BY <1>1, <1>6 DEF Due
<1> QED BY <1>1, <1>2, <1>4, <1>7, <1>8, <1>9

(* update() puts the extraction of the dates before what comes next.       *)
LEMMA OnwardTodo ==
  ASSUME NEW q, Todo(q), q # <<>>
  PROVE  /\ Todo(Pipeline!Onward(q))
         /\ \A r : Due(q, r) => Due(Pipeline!Onward(q), r) \/ (Head(q).kind = "date" /\ Head(q).res = r)
         /\ Head(q).kind \in Pipeline!Dating /\ resource[Head(q).res] # Null /\ Head(q).anchor # Head(q).before
              => Due(Pipeline!Onward(q), Head(q).res)
<1>1. PICK h, t : h = Head(q) /\ t = Tail(q)
  OBVIOUS
<1>2. h \in Errand /\ Todo(t) /\ \A r : Due(q, r) => Due(t, r) \/ (h.kind = "date" /\ h.res = r)
  BY <1>1, TodoRest
<1>3. Pipeline!Onward(q) = Pipeline!Redate(h) \o t
  BY <1>1 DEF Pipeline!Onward
<1>4. CASE h.kind \in Pipeline!Dating /\ resource[h.res] # Null /\ h.anchor # h.before
  <2>1. PICK x : x = Pipeline!Job("date", h.res, h.anchor)
    OBVIOUS
  <2>2. x \in Errand /\ x.kind = "date" /\ x.res = h.res
    <3>1. h.res \in Uploaded /\ h.anchor \in Pipeline!Anchors
      BY <1>2 DEF Errand
    <3>2. "date" \in Pipeline!Kinds \cup Pipeline!Fields \cup {"transcribe", "detect", "ingest", "date"}
      OBVIOUS
    <3>3. PICK k \in Pipeline!Kinds \cup Pipeline!Fields \cup {"transcribe", "detect", "ingest", "date"} : k = "date"
      BY <3>2
    <3>4. PICK r \in Uploaded, d \in Pipeline!Anchors : r = h.res /\ d = h.anchor
      BY <3>1
    <3>5. Pipeline!Job(k, r, d) \in Errand /\ Pipeline!Job(k, r, d).kind = k /\ Pipeline!Job(k, r, d).res = r
      BY JobIsAnErrand
    <3> QED BY <2>1, <3>3, <3>4, <3>5
  <2>3. Pipeline!Onward(q) = <<x>> \o t
    BY <1>3, <1>4, <2>1 DEF Pipeline!Redate
  <2>4. Todo(<<x>> \o t) /\ \A r : Due(t, r) => Due(<<x>> \o t, r)
    BY <1>2, <2>2, TodoFirst
  <2>5. Due(<<x>> \o t, h.res)
    <3>1. 1 \in 1..Len(<<x>> \o t) /\ (<<x>> \o t)[1] = x
      BY <1>2, <2>2 DEF Todo
    <3> QED BY <2>2, <3>1 DEF Due
  <2> QED BY <1>1, <1>2, <2>3, <2>4, <2>5
<1>5. CASE ~(h.kind \in Pipeline!Dating /\ resource[h.res] # Null /\ h.anchor # h.before)
  <2>1. Pipeline!Onward(q) = t
    BY <1>2, <1>3, <1>5 DEF Pipeline!Redate, Todo
  <2> QED BY <1>1, <1>2, <1>5, <2>1
<1> QED BY <1>4, <1>5

(* A step that asks for no dates, answers none and changes no day.         *)
LEMMA UndatedKeeps ==
  ASSUME PipelineInv, RowsOK', JobsOK', used'.rows = used.rows, dates' = dates, crossed => crossed',
         \A r \in Uploaded :
           /\ DateJobs(r)' \subseteq DateJobs(r) /\ (crossed' \/ DateJobs(r)' = DateJobs(r))
           /\ resource[r] = Null <=> resource'[r] = Null
           /\ resource[r] # Null => resource'[r].date = resource[r].date
                                    /\ (resource[r].content => resource'[r].content)
           /\ Coming(r) => crossed' \/ Coming(r)'
  PROVE  PipelineInv'
<1>1. TextsFirst'
  BY DEF PipelineInv, TextsFirst, Pipeline!Has
<1>2. DaysFollow'
  <2> SUFFICES ASSUME ~crossed', NEW r \in Uploaded, Pipeline!Has(r)', ~Coming(r)'
               PROVE  /\ \A j \in DateJobs(r)' : Newest(j, r)' => j.job.anchor = resource'[r].date
                      /\ DateJobs(r)' = {} /\ dates[r] # "none" => dates[r] = resource'[r].date
    BY DEF DaysFollow
  <2>1. resource[r] # Null /\ resource'[r].date = resource[r].date /\ DateJobs(r)' = DateJobs(r)
        /\ ~crossed /\ ~Coming(r)
    BY DEF Pipeline!Has
  <2>2. \A j : Newest(j, r)' => Newest(j, r)
    BY <2>1 DEF Newest
  <2>3. CASE Pipeline!Has(r)
    BY <2>1, <2>2, <2>3 DEF PipelineInv, DaysFollow
  <2>4. CASE ~Pipeline!Has(r)
    BY <2>1, <2>4 DEF PipelineInv, TextsFirst
  <2> QED BY <2>3, <2>4
<1> QED BY <1>1, <1>2 DEF PipelineInv

LEMMA PerformedJobs ==
  ASSUME JobsOK, NEW s \in Errand, Pipeline!Perform(s)
  PROVE  /\ serial' \in Nat /\ jobs \subseteq jobs'
         /\ \A j \in jobs' : DOMAIN j = {"n", "job"} /\ j.n \in 0..serial' /\ j.job \in Errand
<1>1. CASE UNCHANGED <<jobs, serial>>
  BY <1>1 DEF JobsOK
<1>2. CASE serial' = serial + 1 /\ jobs' = jobs \cup {[n |-> serial + 1, job |-> s]}
  BY <1>2 DEF JobsOK
<1> QED BY <1>1, <1>2 DEF Pipeline!Perform, Pipeline!Create

(* What a save makes of a row.                                             *)
LEMMA SavedRow ==
  ASSUME RowsOK, NEW s \in Errand, s.kind \in Pipeline!Saves, resource[s.res] # Null
  PROVE  /\ Pipeline!New(s) \in Pipeline!Row
         /\ Pipeline!New(s).date = IF s.kind \in Pipeline!Dating THEN s.anchor ELSE resource[s.res].date
         /\ resource[s.res].content => Pipeline!New(s).content
<1>1. s.res \in Uploaded /\ s.anchor \in Pipeline!Anchors
  BY DEF Errand
<1>2. PICK row : row = resource[s.res]
  OBVIOUS
<1>3. row \in Pipeline!Row
  BY <1>1, <1>2 DEF RowsOK
<1>4. CASE s.kind = "patch"
  BY <1>1, <1>2, <1>3, <1>4 DEF Pipeline!New, Pipeline!Dating, Pipeline!Row
<1>5. CASE s.kind \in {"extracted", "transcribing"}
  <2>1. Pipeline!New(s) = [row EXCEPT !.content = TRUE, !.date = s.anchor, !.status = s.kind]
    BY <1>2, <1>5 DEF Pipeline!New
  <2>2. /\ [row EXCEPT !.content = TRUE, !.date = s.anchor, !.status = s.kind] \in Pipeline!Row
        /\ [row EXCEPT !.content = TRUE, !.date = s.anchor, !.status = s.kind].date = s.anchor
        /\ [row EXCEPT !.content = TRUE, !.date = s.anchor, !.status = s.kind].content = TRUE
    BY <1>1, <1>3, <1>5 DEF Pipeline!Row
  <2> QED BY <1>5, <2>1, <2>2 DEF Pipeline!Dating
<1>6. CASE s.kind = "confirmed"
  BY <1>1, <1>2, <1>3, <1>6 DEF Pipeline!New, Pipeline!Dating, Pipeline!Row
<1>7. CASE s.kind = "ready"
  BY <1>1, <1>2, <1>3, <1>7 DEF Pipeline!New, Pipeline!Dating, Pipeline!Row
<1> QED BY <1>4, <1>5, <1>6, <1>7 DEF Pipeline!Saves

(* The next step of a request or a processor, wherever it is done.         *)
LEMMA PerformKeeps ==
  ASSUME PipelineInv, NEW s \in Errand, Pipeline!Perform(s), UNCHANGED <<dates, used>>, JobsOK',
         \A r : Coming(r) => Coming(r)' \/ (s.kind = "date" /\ s.res = r),
         s.kind \in Pipeline!Dating /\ resource[s.res] # Null /\ s.anchor # s.before => Coming(s.res)'
  PROVE  PipelineInv'
<1>1. RowsOK /\ JobsOK /\ TextsFirst /\ DaysFollow /\ s.res \in Uploaded
  BY DEF PipelineInv, Errand
<1>2. CASE s.kind \in Pipeline!Saves
  <2>1. /\ resource' = IF resource[s.res] = Null THEN resource ELSE [resource EXCEPT ![s.res] = Pipeline!New(s)]
        /\ crossed' = (crossed \/ (s.kind \in Pipeline!Dating /\ resource[s.res] # Null
                                   /\ resource[s.res].date # s.before))
        /\ UNCHANGED <<jobs, serial>>
    BY <1>2 DEF Pipeline!Perform, Pipeline!Save
  <2>2. \A r : DateJobs(r)' = DateJobs(r)
    BY <2>1 DEF DateJobs
  <2>3. \A r : Coming(r) => Coming(r)'
    BY <1>2 DEF Pipeline!Saves
  <2>4. CASE resource[s.res] = Null
    <3>1. RowsOK'
      BY <1>1, <2>1, <2>4 DEF RowsOK
    <3> QED BY <2>1, <2>2, <2>3, <2>4, <3>1, UndatedKeeps
  <2>5. CASE resource[s.res] # Null
    <3>1. PICK row : row = Pipeline!New(s)
      OBVIOUS
    <3>2. /\ row \in Pipeline!Row /\ (resource[s.res].content => row.content)
          /\ row.date = IF s.kind \in Pipeline!Dating THEN s.anchor ELSE resource[s.res].date
      BY <1>1, <1>2, <2>5, <3>1, SavedRow
    <3>3. resource'[s.res] = row /\ \A r \in Uploaded \ {s.res} : resource'[r] = resource[r]
      BY <1>1, <2>1, <2>5, <3>1 DEF RowsOK
    <3>4. resource' = [resource EXCEPT ![s.res] = row]
      BY <2>1, <2>5, <3>1
    <3>5. row # Null
      BY <3>2
    <3>6. RowsOK'
      BY <1>1, <2>5, <3>2, <3>3, <3>4 DEF RowsOK
    <3>7. CASE row.date = resource[s.res].date
      BY <2>1, <2>2, <2>3, <2>5, <3>2, <3>3, <3>5, <3>6, <3>7, UndatedKeeps
    <3>8. CASE row.date # resource[s.res].date
      <4>1. s.kind \in Pipeline!Dating /\ row.date = s.anchor /\ (~crossed' => s.anchor # s.before)
        BY <2>1, <2>5, <3>2, <3>8
      <4>2. TextsFirst'
        BY <1>1, <2>2, <2>5, <3>2, <3>3 DEF TextsFirst, Pipeline!Has
      <4>3. DaysFollow'
        <5> SUFFICES ASSUME ~crossed', NEW r \in Uploaded, Pipeline!Has(r)', ~Coming(r)'
                     PROVE  /\ \A j \in DateJobs(r)' : Newest(j, r)' => j.job.anchor = resource'[r].date
                            /\ DateJobs(r)' = {} /\ dates[r] # "none" => dates[r] = resource'[r].date
          BY DEF DaysFollow
        <5>1. r # s.res
          BY <2>5, <4>1
        <5>2. resource'[r] = resource[r] /\ ~crossed /\ ~Coming(r) /\ Pipeline!Has(r)
          BY <2>1, <2>3, <3>3, <5>1 DEF Pipeline!Has
        <5>3. \A j : Newest(j, r)' => Newest(j, r)
          BY <2>2 DEF Newest
        <5> QED BY <1>1, <2>2, <5>2, <5>3 DEF DaysFollow
      <4> QED BY <3>6, <4>2, <4>3 DEF PipelineInv
    <3> QED BY <3>7, <3>8
  <2> QED BY <2>4, <2>5
<1>3. CASE s.kind \notin Pipeline!Saves
  <2>1. Pipeline!Create(s) /\ UNCHANGED <<resource, dates, used>>
    BY <1>3 DEF Pipeline!Perform
  <2>2. RowsOK'
    BY <1>1, <2>1 DEF RowsOK
  <2>3. CASE s.kind # "date"
    <3>1. (crossed => crossed') /\ (jobs' = jobs \/ jobs' = jobs \cup {[n |-> serial + 1, job |-> s]})
      BY <2>1, <2>3 DEF Pipeline!Create
    <3>2. \A r : DateJobs(r)' = DateJobs(r)
      BY <2>3, <3>1 DEF DateJobs
    <3> QED BY <2>1, <2>2, <2>3, <3>1, <3>2, UndatedKeeps
  <2>4. CASE s.kind = "date" /\ ~Pipeline!Has(s.res)
    <3>1. UNCHANGED <<jobs, serial, crossed>>
      BY <2>1, <2>4 DEF Pipeline!Create
    <3>2. \A r : DateJobs(r)' = DateJobs(r) /\ (Pipeline!Has(r) <=> Pipeline!Has(r)')
      BY <2>1, <3>1 DEF DateJobs, Pipeline!Has
    <3>3. TextsFirst'
      BY <1>1, <2>1, <3>2 DEF TextsFirst
    <3>4. DaysFollow'
      <4> SUFFICES ASSUME ~crossed', NEW r \in Uploaded, Pipeline!Has(r)', ~Coming(r)'
                   PROVE  /\ \A j \in DateJobs(r)' : Newest(j, r)' => j.job.anchor = resource'[r].date
                          /\ DateJobs(r)' = {} /\ dates[r] # "none" => dates[r] = resource'[r].date
        BY <2>1 DEF DaysFollow
      <4>1. Pipeline!Has(r) /\ ~Coming(r) /\ ~crossed
        BY <2>4, <3>1, <3>2
      <4>2. \A j : Newest(j, r)' => Newest(j, r)
        BY <3>2 DEF Newest
      <4> QED BY <1>1, <2>1, <3>2, <4>1, <4>2 DEF DaysFollow
    <3> QED BY <2>2, <3>3, <3>4 DEF PipelineInv
  <2>5. CASE s.kind = "date" /\ Pipeline!Has(s.res)
    <3>1. PICK new : new = [n |-> serial + 1, job |-> s]
      OBVIOUS
    <3>2. /\ jobs' = jobs \cup {new} /\ new.n = serial + 1 /\ new.job = s
          /\ crossed' = (crossed \/ s.anchor # resource[s.res].date)
      BY <2>1, <2>5, <3>1 DEF Pipeline!Create
    <3>3. \A r : r # s.res => DateJobs(r)' = DateJobs(r)
      BY <3>2 DEF DateJobs
    <3>4. new \in DateJobs(s.res)' /\ \A j \in DateJobs(s.res)' : j = new \/ (j \in jobs /\ j.n \in 0..serial)
      BY <1>1, <2>5, <3>2 DEF DateJobs, JobsOK
    <3>5. \A j \in DateJobs(s.res)' : Newest(j, s.res)' => j = new
      <4>1. serial \in Nat
        BY <1>1 DEF JobsOK
      <4> QED BY <3>2, <3>4, <4>1 DEF Newest
    <3>6. \A r : Pipeline!Has(r) <=> Pipeline!Has(r)'
      BY <2>1 DEF Pipeline!Has
    <3>7. s.res \in used.rows
      BY <1>1, <2>5 DEF RowsOK, Pipeline!Has
    <3>8. TextsFirst'
      BY <1>1, <2>1, <2>5, <3>3, <3>6, <3>7 DEF TextsFirst
    <3>9. DaysFollow'
      <4> SUFFICES ASSUME ~crossed', NEW r \in Uploaded, Pipeline!Has(r)', ~Coming(r)'
                   PROVE  /\ \A j \in DateJobs(r)' : Newest(j, r)' => j.job.anchor = resource'[r].date
                          /\ DateJobs(r)' = {} /\ dates[r] # "none" => dates[r] = resource'[r].date
        BY <2>1 DEF DaysFollow
      <4>1. CASE r = s.res
        BY <2>1, <3>2, <3>4, <3>5, <4>1
      <4>2. CASE r # s.res
        <5>1. Pipeline!Has(r) /\ ~Coming(r) /\ ~crossed
          BY <3>2, <3>6, <4>2
        <5>2. \A j : Newest(j, r)' => Newest(j, r)
          BY <3>3, <4>2 DEF Newest
        <5> QED BY <1>1, <2>1, <3>3, <4>2, <5>1, <5>2 DEF DaysFollow
      <4> QED BY <4>1, <4>2
    <3> QED BY <2>2, <3>8, <3>9 DEF PipelineInv
  <2> QED BY <2>3, <2>4, <2>5
<1> QED BY <1>2, <1>3

(* A request is begun or goes on.                                          *)
LEMMA RequestMoves ==
  ASSUME JobsOK, NEW a \in Actors, NEW q, Todo(q), op' = [op EXCEPT ![a] = q], UNCHANGED run,
         serial' \in Nat, jobs \subseteq jobs',
         \A j \in jobs' : DOMAIN j = {"n", "job"} /\ j.n \in 0..serial' /\ j.job \in Errand
  PROVE  /\ JobsOK'
         /\ \A r : Coming(r) => Coming(r)' \/ (Due(op[a], r) /\ ~Due(q, r))
         /\ \A r : Due(q, r) => Coming(r)'
<1>1. DOMAIN op' = Actors /\ op'[a] = q /\ \A b \in Actors \ {a} : op'[b] = op[b]
  BY DEF JobsOK
<1>2. JobsOK'
  BY <1>1 DEF JobsOK
<1>3. \A r : Coming(r)' <=> Due(run.todo, r) \/ \E b \in Actors : Due(op'[b], r)
  BY DEF Coming
<1> QED BY <1>1, <1>2, <1>3 DEF Coming

(* A processor begins, goes on or ends; the executions are as they were,   *)
(* or with more, or without one of no date.                                *)
LEMMA ProcessorMoves ==
  ASSUME JobsOK, NEW j, NEW q, Todo(q), run' = [job |-> j, todo |-> q] \/ (run' = Pipeline!Rest /\ q = <<>>),
         UNCHANGED op, serial' \in Nat,
         \A i \in jobs' : DOMAIN i = {"n", "job"} /\ i.n \in 0..serial' /\ i.job \in Errand,
         run' # Pipeline!Rest => j \in jobs' /\ j.job.kind # "date"
  PROVE  /\ JobsOK'
         /\ \A r : Coming(r) => Coming(r)' \/ (Due(run.todo, r) /\ ~Due(q, r))
         /\ \A r : Due(q, r) => Coming(r)'
<1>1. run'.todo = q /\ DOMAIN run' = {"job", "todo"} /\ (run' # Pipeline!Rest => run'.job = j)
  BY DEF Pipeline!Rest
<1>2. JobsOK'
  BY <1>1 DEF JobsOK
<1>3. \A r : Coming(r)' <=> Due(q, r) \/ \E b \in Actors : Due(op[b], r)
  BY <1>1 DEF Coming
<1> QED BY <1>2, <1>3 DEF Coming

LEMMA PipelineInit == Pipeline!Init => PipelineInv
<1> SUFFICES ASSUME Pipeline!Init PROVE PipelineInv
  OBVIOUS
<1>1. RowsOK
  BY DEF Pipeline!Init, RowsOK
<1>2. JobsOK
  BY TodoNothing DEF Pipeline!Init, JobsOK, Pipeline!Rest
<1>3. TextsFirst /\ DaysFollow
  BY DEF Pipeline!Init, TextsFirst, DaysFollow, Pipeline!Has, DateJobs
<1> QED BY <1>1, <1>2, <1>3 DEF PipelineInv

(* uploadAndProcess: the row is new, and has neither text nor dates.       *)
LEMMA UploadKeeps ==
  ASSUME PipelineInv, NEW a \in Actors, NEW r \in Uploaded, NEW k \in Pipeline!Kinds, Pipeline!Upload(a, r, k)
  PROVE  PipelineInv'
<1>1. RowsOK /\ JobsOK /\ TextsFirst /\ DaysFollow
  BY DEF PipelineInv
<1>2. PICK row, q :
        /\ row = [status |-> "extracting", content |-> FALSE, date |-> Null, language |-> FALSE, fields |-> {}]
        /\ q = IF k = "image" THEN <<>> ELSE <<Pipeline!Job(k, r, Null)>>
  OBVIOUS
<1>3. /\ op[a] = <<>> /\ r \notin used.rows /\ resource' = [resource EXCEPT ![r] = row]
      /\ op' = [op EXCEPT ![a] = q] /\ used' = [used EXCEPT !.rows = @ \cup {r}]
      /\ UNCHANGED <<dates, jobs, serial, run, crossed>>
  BY <1>2 DEF Pipeline!Upload
<1>4. row \in Pipeline!Row /\ row.content = FALSE
  BY <1>2, NullIsAnAnchor DEF Pipeline!Row
<1>5. Todo(q)
  <2>1. CASE k = "image"
    BY <1>2, <2>1, TodoNothing
  <2>2. CASE k # "image"
    <3>1. PICK x : x = Pipeline!Job(k, r, Null)
      OBVIOUS
    <3>2. x \in Errand
      BY <3>1, JobIsAnErrand, NullIsAnAnchor
    <3>3. Todo(<<x>>)
      BY <3>2 DEF Todo
    <3> QED BY <1>2, <2>2, <3>1, <3>3
  <2> QED BY <2>1, <2>2
<1>6. JobsOK' /\ \A d : Coming(d) => Coming(d)'
  <2>1. serial' \in Nat /\ jobs \subseteq jobs'
        /\ \A j \in jobs' : DOMAIN j = {"n", "job"} /\ j.n \in 0..serial' /\ j.job \in Errand
    BY <1>1, <1>3 DEF JobsOK
  <2>2. \A d : ~Due(op[a], d)
    BY <1>3, TodoNothing
  <2> QED BY <1>1, <1>3, <1>5, <2>1, <2>2, RequestMoves
<1>7. resource'[r] = row /\ \A d \in Uploaded \ {r} : resource'[d] = resource[d]
  BY <1>1, <1>3 DEF RowsOK
<1>8. used'.rows = used.rows \cup {r} /\ DOMAIN used' = DOMAIN used
  BY <1>1, <1>3 DEF RowsOK
<1>9. RowsOK'
  BY <1>1, <1>3, <1>4, <1>7, <1>8 DEF RowsOK
<1>10. \A d : DateJobs(d)' = DateJobs(d)
  BY <1>3 DEF DateJobs
<1>11. ~Pipeline!Has(r)' /\ ~Pipeline!Has(r) /\ DateJobs(r) = {}
  <2>1. resource[r] = Null
    BY <1>1, <1>3 DEF RowsOK
  <2> QED BY <1>1, <1>3, <1>4, <1>7, <2>1 DEF TextsFirst, Pipeline!Has
<1>12. TextsFirst'
  BY <1>1, <1>3, <1>7, <1>8, <1>10, <1>11 DEF TextsFirst, Pipeline!Has
<1>13. DaysFollow'
  <2> SUFFICES ASSUME ~crossed', NEW d \in Uploaded, Pipeline!Has(d)', ~Coming(d)'
               PROVE  /\ \A j \in DateJobs(d)' : Newest(j, d)' => j.job.anchor = resource'[d].date
                      /\ DateJobs(d)' = {} /\ dates'[d] # "none" => dates'[d] = resource'[d].date
    BY DEF DaysFollow
  <2>1. d # r /\ resource'[d] = resource[d] /\ Pipeline!Has(d) /\ ~Coming(d) /\ ~crossed
    BY <1>3, <1>6, <1>7, <1>11 DEF Pipeline!Has
  <2>2. \A j : Newest(j, d)' => Newest(j, d)
    BY <1>10 DEF Newest
  <2> QED BY <1>1, <1>3, <1>10, <2>1, <2>2 DEF DaysFollow
<1> QED BY <1>6, <1>9, <1>12, <1>13 DEF PipelineInv

(* removeWithFile: the dates go with the row.                              *)
LEMMA RemoveKeeps ==
  ASSUME PipelineInv, NEW r \in Uploaded, Pipeline!Remove(r)
  PROVE  PipelineInv'
<1>1. RowsOK /\ JobsOK /\ TextsFirst /\ DaysFollow
  BY DEF PipelineInv
<1>2. /\ resource' = [resource EXCEPT ![r] = Null] /\ dates' = [dates EXCEPT ![r] = "none"]
      /\ UNCHANGED <<jobs, serial, op, run, crossed, used>>
  BY DEF Pipeline!Remove
<1>3. /\ resource'[r] = Null /\ dates'[r] = "none" /\ DOMAIN dates' = Uploaded
      /\ \A d \in Uploaded \ {r} : resource'[d] = resource[d] /\ dates'[d] = dates[d]
  BY <1>1, <1>2 DEF RowsOK
<1>4. RowsOK'
  BY <1>1, <1>2, <1>3 DEF RowsOK
<1>5. JobsOK'
  BY <1>1, <1>2 DEF JobsOK
<1>6. \A d : DateJobs(d)' = DateJobs(d) /\ (Coming(d)' <=> Coming(d)) /\ \A j : Newest(j, d)' <=> Newest(j, d)
  BY <1>2 DEF DateJobs, Coming, Newest
<1>7. TextsFirst'
  BY <1>1, <1>2, <1>3, <1>6 DEF TextsFirst, Pipeline!Has
<1>8. DaysFollow'
  <2> SUFFICES ASSUME ~crossed', NEW d \in Uploaded, Pipeline!Has(d)', ~Coming(d)'
               PROVE  /\ \A j \in DateJobs(d)' : Newest(j, d)' => j.job.anchor = resource'[d].date
                      /\ DateJobs(d)' = {} /\ dates'[d] # "none" => dates'[d] = resource'[d].date
    BY DEF DaysFollow
  <2>1. d # r /\ resource'[d] = resource[d] /\ dates'[d] = dates[d]
        /\ Pipeline!Has(d) /\ ~Coming(d) /\ ~crossed
    BY <1>2, <1>3, <1>6 DEF Pipeline!Has
  <2> QED BY <1>1, <1>6, <2>1 DEF DaysFollow
<1> QED BY <1>4, <1>5, <1>7, <1>8 DEF PipelineInv

(* An answer with dates: they are those of the newest extraction, once     *)
(* there is no other, if each came after those that were asked for before. *)
LEMMA DatedKeeps ==
  ASSUME PipelineInv, NEW j \in jobs, NEW good \in BOOLEAN, Pipeline!Dated(j, good)
  PROVE  PipelineInv'
<1>1. RowsOK /\ JobsOK /\ TextsFirst /\ DaysFollow
  BY DEF PipelineInv
<1>2. PICK r : r = j.job.res
  OBVIOUS
<1>3. r \in Uploaded /\ j.n \in Nat /\ \A i \in jobs : i.n \in Nat
  BY <1>1, <1>2 DEF JobsOK, Errand
<1>4. /\ j.job.kind = "date" /\ jobs' = jobs \ {j} /\ run = Pipeline!Rest /\ run' = Pipeline!Rest
      /\ crossed' = (crossed \/ ~good \/ Pipeline!Older(j) # {})
      /\ dates' = IF good /\ resource[r] # Null THEN [dates EXCEPT ![r] = j.job.anchor] ELSE dates
      /\ UNCHANGED <<resource, serial, op, used>>
  BY <1>2 DEF Pipeline!Dated, Pipeline!Taken, Pipeline!End, Pipeline!Replace
<1>5. RowsOK'
  BY <1>1, <1>4 DEF RowsOK
<1>6. JobsOK'
  BY <1>1, <1>4 DEF JobsOK
<1>7. /\ j \in DateJobs(r) /\ DateJobs(r)' = DateJobs(r) \ {j}
      /\ \A d : d # r => DateJobs(d)' = DateJobs(d)
      /\ \A d : (Coming(d)' <=> Coming(d)) /\ (Pipeline!Has(d)' <=> Pipeline!Has(d))
  BY <1>2, <1>4 DEF DateJobs, Coming, Pipeline!Has
<1>8. TextsFirst'
  <2>1. resource[r] # Null => Pipeline!Has(r)
    BY <1>1, <1>3, <1>7 DEF TextsFirst
  <2>2. \A d \in Uploaded : ~Pipeline!Has(d) => dates'[d] = dates[d]
    BY <1>1, <1>4, <2>1 DEF RowsOK
  <2> QED BY <1>1, <1>4, <1>7, <2>2 DEF TextsFirst
<1>9. DaysFollow'
  <2> SUFFICES ASSUME ~crossed', NEW d \in Uploaded, Pipeline!Has(d)', ~Coming(d)'
               PROVE  /\ \A i \in DateJobs(d)' : Newest(i, d)' => i.job.anchor = resource[d].date
                      /\ DateJobs(d)' = {} /\ dates'[d] # "none" => dates'[d] = resource[d].date
    BY <1>4 DEF DaysFollow
  <2>1. ~crossed /\ good /\ Pipeline!Older(j) = {} /\ Pipeline!Has(d) /\ ~Coming(d)
    BY <1>4, <1>7
  <2>2. /\ \A i \in DateJobs(d) : Newest(i, d) => i.job.anchor = resource[d].date
        /\ DateJobs(d) = {} /\ dates[d] # "none" => dates[d] = resource[d].date
    BY <1>1, <2>1 DEF DaysFollow
  <2>3. CASE d # r
    <3>1. dates'[d] = dates[d] /\ DateJobs(d)' = DateJobs(d) /\ \A i : Newest(i, d)' => Newest(i, d)
      BY <1>1, <1>4, <1>7, <2>3 DEF RowsOK, Newest
    <3> QED BY <2>2, <3>1
  <2>4. CASE d = r
    <3>1. \A i \in DateJobs(r) : j.n <= i.n
      BY <1>2, <1>3, <2>1 DEF Pipeline!Older, DateJobs
    <3>2. \A i \in DateJobs(r)' : Newest(i, r)' => Newest(i, r)
      BY <1>7, <3>1 DEF Newest
    <3>3. ASSUME DateJobs(r)' = {} PROVE dates'[r] = resource[r].date
      <4>1. \A i \in DateJobs(r) : i = j
        BY <1>7, <3>3
      <4>2. Newest(j, r)
        BY <1>3, <4>1 DEF Newest
      <4>3. j.job.anchor = resource[r].date
        BY <1>7, <2>2, <2>4, <4>2
      <4>4. dates'[r] = j.job.anchor
        BY <1>1, <1>3, <1>4, <2>1, <2>4 DEF RowsOK, Pipeline!Has
      <4> QED BY <4>3, <4>4
    <3> QED BY <1>7, <2>2, <2>4, <3>2, <3>3
  <2> QED BY <2>3, <2>4
<1> QED BY <1>5, <1>6, <1>8, <1>9 DEF PipelineInv

(* A request or a processor goes on with its next step.                    *)
LEMMA GoOnKeeps ==
  ASSUME PipelineInv, NEW a \in Actors, Pipeline!GoOn(a)
  PROVE  PipelineInv'
<1>1. RowsOK /\ JobsOK
  BY DEF PipelineInv
<1>2. PICK s, q : s = Head(op[a]) /\ q = Pipeline!Onward(op[a])
  OBVIOUS
<1>3. /\ op[a] # <<>> /\ Pipeline!Perform(s) /\ op' = [op EXCEPT ![a] = q] /\ UNCHANGED <<dates, run, used>>
  BY <1>1, <1>2 DEF Pipeline!GoOn, JobsOK
<1>4. Todo(op[a])
  BY <1>1 DEF JobsOK
<1>5. /\ s \in Errand /\ Todo(q)
      /\ \A r : Due(op[a], r) => Due(q, r) \/ (s.kind = "date" /\ s.res = r)
      /\ s.kind \in Pipeline!Dating /\ resource[s.res] # Null /\ s.anchor # s.before => Due(q, s.res)
  BY <1>2, <1>3, <1>4, OnwardTodo, TodoRest
<1>6. /\ serial' \in Nat /\ jobs \subseteq jobs'
      /\ \A j \in jobs' : DOMAIN j = {"n", "job"} /\ j.n \in 0..serial' /\ j.job \in Errand
  BY <1>1, <1>3, <1>5, PerformedJobs
<1>7. /\ JobsOK' /\ \A r : Coming(r) => Coming(r)' \/ (Due(op[a], r) /\ ~Due(q, r))
      /\ \A r : Due(q, r) => Coming(r)'
  BY <1>1, <1>3, <1>5, <1>6, RequestMoves
<1>8. \A r : Coming(r) => Coming(r)' \/ (s.kind = "date" /\ s.res = r)
  BY <1>5, <1>7
<1>9. s.kind \in Pipeline!Dating /\ resource[s.res] # Null /\ s.anchor # s.before => Coming(s.res)'
  BY <1>5, <1>7
<1> QED BY <1>3, <1>5, <1>7, <1>8, <1>9, PerformKeeps

LEMMA ContinueKeeps ==
  ASSUME PipelineInv, Pipeline!Continue
  PROVE  PipelineInv'
<1>1. RowsOK /\ JobsOK /\ run # Pipeline!Rest /\ UNCHANGED <<dates, op, used>>
  BY DEF PipelineInv, Pipeline!Continue
<1>2. Todo(run.todo) /\ run.job \in jobs /\ run.job.job.kind # "date"
  BY <1>1 DEF JobsOK
<1>3. CASE run.todo = <<>>
  <2>1. jobs' = jobs \ {run.job} /\ run' = Pipeline!Rest /\ UNCHANGED <<resource, serial, crossed>>
    BY <1>3 DEF Pipeline!Continue, Pipeline!End
  <2>2. PICK j : j = run.job
    OBVIOUS
  <2>3. JobsOK' /\ \A r : Coming(r) => Coming(r)' \/ (Due(run.todo, r) /\ ~Due(<<>>, r))
    <3>1. serial' \in Nat /\ \A i \in jobs' : DOMAIN i = {"n", "job"} /\ i.n \in 0..serial' /\ i.job \in Errand
      BY <1>1, <2>1 DEF JobsOK
    <3> QED BY <1>1, <2>1, <3>1, TodoNothing, ProcessorMoves
  <2>4. \A r : Coming(r) => Coming(r)'
    BY <1>3, <2>3, TodoNothing
  <2>5. \A r : DateJobs(r)' = DateJobs(r)
    BY <1>2, <2>1 DEF DateJobs
  <2>6. RowsOK'
    BY <1>1, <2>1 DEF RowsOK
  <2> QED BY <1>1, <2>1, <2>3, <2>4, <2>5, <2>6, UndatedKeeps
<1>4. CASE run.todo # <<>>
  <2>1. PICK s, q, j : s = Head(run.todo) /\ q = Pipeline!Onward(run.todo) /\ j = run.job
    OBVIOUS
  <2>2. Pipeline!Perform(s) /\ run' = [job |-> j, todo |-> q]
    <3>1. run' = [run EXCEPT !.todo = q] /\ DOMAIN run = {"job", "todo"} /\ Pipeline!Perform(s)
      BY <1>1, <1>4, <2>1 DEF Pipeline!Continue, JobsOK
    <3> QED BY <2>1, <3>1
  <2>3. /\ s \in Errand /\ Todo(q)
        /\ \A r : Due(run.todo, r) => Due(q, r) \/ (s.kind = "date" /\ s.res = r)
        /\ s.kind \in Pipeline!Dating /\ resource[s.res] # Null /\ s.anchor # s.before => Due(q, s.res)
    BY <1>2, <1>4, <2>1, OnwardTodo, TodoRest
  <2>4. /\ serial' \in Nat /\ jobs \subseteq jobs'
        /\ \A i \in jobs' : DOMAIN i = {"n", "job"} /\ i.n \in 0..serial' /\ i.job \in Errand
    BY <1>1, <2>2, <2>3, PerformedJobs
  <2>5. j \in jobs' /\ j.job.kind # "date"
    BY <1>2, <2>1, <2>4
  <2>6. /\ JobsOK' /\ \A r : Coming(r) => Coming(r)' \/ (Due(run.todo, r) /\ ~Due(q, r))
        /\ \A r : Due(q, r) => Coming(r)'
    BY <1>1, <2>2, <2>3, <2>4, <2>5, ProcessorMoves
  <2>7. \A r : Coming(r) => Coming(r)' \/ (s.kind = "date" /\ s.res = r)
    BY <2>3, <2>6
  <2>8. s.kind \in Pipeline!Dating /\ resource[s.res] # Null /\ s.anchor # s.before => Coming(s.res)'
    BY <2>3, <2>6
  <2> QED BY <1>1, <2>2, <2>3, <2>6, <2>7, <2>8, PerformKeeps
<1> QED BY <1>3, <1>4

(* A request or a processor begins with something to do, from nothing.     *)
LEMMA RequestBegins ==
  ASSUME PipelineInv, NEW a \in Actors, NEW q, Todo(q), op[a] = <<>>, op' = [op EXCEPT ![a] = q],
         UNCHANGED <<resource, dates, jobs, serial, run, crossed>>, used'.rows = used.rows, DOMAIN used' = DOMAIN used
  PROVE  PipelineInv'
<1>1. RowsOK /\ JobsOK
  BY DEF PipelineInv
<1>2. RowsOK'
  BY <1>1 DEF RowsOK
<1>3. serial' \in Nat /\ jobs \subseteq jobs'
      /\ \A j \in jobs' : DOMAIN j = {"n", "job"} /\ j.n \in 0..serial' /\ j.job \in Errand
  BY <1>1 DEF JobsOK
<1>4. JobsOK' /\ \A r : Coming(r) => Coming(r)' \/ (Due(op[a], r) /\ ~Due(q, r))
  BY <1>1, <1>3, RequestMoves
<1>5. \A r : Coming(r) => Coming(r)'
  BY <1>4, TodoNothing
<1>6. \A r : DateJobs(r)' = DateJobs(r)
  BY DEF DateJobs
<1> QED BY <1>2, <1>4, <1>5, <1>6, UndatedKeeps

LEMMA ProcessorBegins ==
  ASSUME PipelineInv, NEW j \in jobs, NEW q, Todo(q), run = Pipeline!Rest, run' = [job |-> j, todo |-> q],
         j.job.kind # "date", UNCHANGED <<dates, jobs, serial, op, crossed, used>>,
         RowsOK',
         \A r \in Uploaded :
           /\ resource[r] = Null <=> resource'[r] = Null
           /\ resource[r] # Null => resource'[r].date = resource[r].date
                                    /\ (resource[r].content => resource'[r].content)
  PROVE  PipelineInv'
<1>1. JobsOK
  BY DEF PipelineInv
<1>2. serial' \in Nat /\ j \in jobs'
      /\ \A i \in jobs' : DOMAIN i = {"n", "job"} /\ i.n \in 0..serial' /\ i.job \in Errand
  BY <1>1 DEF JobsOK
<1>3. JobsOK' /\ \A r : Coming(r) => Coming(r)' \/ (Due(run.todo, r) /\ ~Due(q, r))
  BY <1>1, <1>2, ProcessorMoves
<1>4. \A r : Coming(r) => Coming(r)'
  BY <1>3, TodoNothing DEF Pipeline!Rest
<1>5. \A r : DateJobs(r)' = DateJobs(r)
  BY DEF DateJobs
<1> QED BY <1>3, <1>4, <1>5, UndatedKeeps

(* One column of the row is saved that is neither its day nor whether it   *)
(* has a text.                                                             *)
LEMMA SaveKeepsDay ==
  ASSUME RowsOK, NEW r \in Uploaded, NEW row, UNCHANGED <<dates, used>>,
         resource' = (IF resource[r] = Null THEN resource ELSE [resource EXCEPT ![r] = row]),
         resource[r] # Null => row \in Pipeline!Row /\ row.date = resource[r].date
                               /\ (resource[r].content => row.content)
  PROVE  /\ RowsOK'
         /\ \A d \in Uploaded :
              /\ resource[d] = Null <=> resource'[d] = Null
              /\ resource[d] # Null => resource'[d].date = resource[d].date
                                       /\ (resource[d].content => resource'[d].content)
<1>1. CASE resource[r] = Null
  BY <1>1 DEF RowsOK
<1>2. CASE resource[r] # Null
  <2>1. resource' = [resource EXCEPT ![r] = row] /\ row \in Pipeline!Row /\ row # Null
    BY <1>2
  <2>2. resource'[r] = row /\ \A d \in Uploaded \ {r} : resource'[d] = resource[d]
    BY <2>1 DEF RowsOK
  <2>3. RowsOK'
    BY <1>2, <2>1, <2>2 DEF RowsOK
  <2> QED BY <1>2, <2>1, <2>2, <2>3
<1> QED BY <1>1, <1>2

(* An execution without dates is over.                                     *)
LEMMA EndKeeps ==
  ASSUME PipelineInv, NEW j \in jobs, run = Pipeline!Rest, jobs' = jobs \ {j}, run' = Pipeline!Rest,
         UNCHANGED <<dates, serial, op, used>>, crossed => crossed', j.job.kind = "date" => crossed', RowsOK',
         \A r \in Uploaded :
           /\ resource[r] = Null <=> resource'[r] = Null
           /\ resource[r] # Null => resource'[r].date = resource[r].date
                                    /\ (resource[r].content => resource'[r].content)
  PROVE  PipelineInv'
<1>1. JobsOK'
  BY DEF PipelineInv, JobsOK
<1>2. \A r : DateJobs(r)' \subseteq DateJobs(r) /\ (crossed' \/ DateJobs(r)' = DateJobs(r))
  BY DEF DateJobs
<1>3. \A r : Coming(r) => Coming(r)'
  BY DEF Coming
<1> QED BY <1>1, <1>2, <1>3, UndatedKeeps

(* A worker's answer that is not about dates.                              *)
LEMMA AnswersKeep ==
  ASSUME PipelineInv, NEW j \in jobs,
         \/ \E d \in Pipeline!Anchors : Pipeline!Extracted(j, d)
         \/ \E good \in BOOLEAN : Pipeline!Transcribed(j, good) \/ Pipeline!Detected(j, good)
  PROVE  PipelineInv'
<1>1. RowsOK /\ JobsOK
  BY DEF PipelineInv
<1>2. PICK r : r = j.job.res
  OBVIOUS
<1>3. r \in Uploaded
  BY <1>1, <1>2 DEF JobsOK, Errand
<1>4. \A d : d \in Pipeline!Anchors => Todo(<<Pipeline!Saving("extracted", r, d)>>)
  <2> SUFFICES ASSUME NEW d \in Pipeline!Anchors PROVE Todo(<<Pipeline!Saving("extracted", r, d)>>)
    OBVIOUS
  <2>1. PICK x : x = Pipeline!Saving("extracted", r, d)
    OBVIOUS
  <2>2. PICK k \in Pipeline!Saves : k = "extracted"
    BY DEF Pipeline!Saves
  <2>3. x \in Errand
    BY <1>1, <1>3, <2>1, <2>2, SavingIsAnErrand
  <2> QED BY <2>1, <2>3 DEF Todo
<1>5. ASSUME NEW d \in Pipeline!Anchors
      PROVE  Todo(<<Pipeline!Saving("transcribing", r, d), Pipeline!Job("transcribe", r, Null)>>)
  <2>1. PICK x, y : x = Pipeline!Saving("transcribing", r, d) /\ y = Pipeline!Job("transcribe", r, Null)
    OBVIOUS
  <2>2. PICK k \in Pipeline!Saves : k = "transcribing"
    BY DEF Pipeline!Saves
  <2>3. x \in Errand /\ x.kind = "transcribing"
    BY <1>1, <1>3, <2>1, <2>2, SavingIsAnErrand
  <2>4. PICK m \in Pipeline!Kinds \cup Pipeline!Fields \cup {"transcribe", "detect", "ingest", "date"} : m = "transcribe"
    OBVIOUS
  <2>5. y \in Errand
    BY <1>3, <2>1, <2>4, JobIsAnErrand, NullIsAnAnchor
  <2> QED BY <2>1, <2>3, <2>5 DEF Todo
<1>6. \A k : k \in {"detect", "ingest", "date"} => \A d \in Pipeline!Anchors :
        Pipeline!Job(k, r, d) \in Errand /\ Pipeline!Job(k, r, d).kind = k
  <2> SUFFICES ASSUME NEW k \in {"detect", "ingest", "date"}, NEW d \in Pipeline!Anchors
               PROVE  Pipeline!Job(k, r, d) \in Errand /\ Pipeline!Job(k, r, d).kind = k
    OBVIOUS
  <2>1. k \in Pipeline!Kinds \cup Pipeline!Fields \cup {"transcribe", "detect", "ingest", "date"}
    OBVIOUS
  <2> QED BY <1>3, <2>1, JobIsAnErrand
<1>7. ASSUME NEW d \in Pipeline!Anchors, Pipeline!Extracted(j, d)
      PROVE  PipelineInv'
  <2>1. PICK q : q = IF j.job.kind = "media"
                     THEN <<Pipeline!Saving("transcribing", r, d), Pipeline!Job("transcribe", r, Null)>>
                     ELSE <<Pipeline!Saving("extracted", r, d)>>
    OBVIOUS
  <2>2. Todo(q)
    BY <1>4, <1>5, <2>1
  <2>3. /\ run = Pipeline!Rest /\ j.job.kind # "date" /\ run' = [job |-> j, todo |-> q]
        /\ UNCHANGED <<resource, dates, jobs, serial, op, crossed, used>>
    BY <1>2, <1>7, <2>1 DEF Pipeline!Extracted, Pipeline!Begin
  <2>4. RowsOK'
    BY <1>1, <2>3 DEF RowsOK
  <2> QED BY <2>2, <2>3, <2>4, ProcessorBegins
<1>8. ASSUME NEW good \in BOOLEAN, Pipeline!Transcribed(j, good)
      PROVE  PipelineInv'
  <2>1. PICK q, row : /\ q = IF good THEN <<Pipeline!Job("detect", r, Null)>> ELSE <<>>
                      /\ row = [resource[r] EXCEPT !.status = "confirmed_extraction", !.content = @ \/ good]
    OBVIOUS
  <2>2. Todo(q)
    <3>1. PICK x : x = Pipeline!Job("detect", r, Null)
      OBVIOUS
    <3>2. x \in Errand
      BY <1>6, <3>1, NullIsAnAnchor
    <3>3. Todo(<<x>>)
      BY <3>2 DEF Todo
    <3> QED BY <2>1, <3>1, <3>3, TodoNothing
  <2>3. /\ run = Pipeline!Rest /\ j.job.kind = "transcribe" /\ run' = [job |-> j, todo |-> q]
        /\ resource' = (IF resource[r] = Null THEN resource ELSE [resource EXCEPT ![r] = row])
        /\ UNCHANGED <<dates, jobs, serial, op, crossed, used>>
    BY <1>2, <1>8, <2>1 DEF Pipeline!Transcribed, Pipeline!Taken, Pipeline!Begin, Pipeline!Save
  <2>4. resource[r] # Null => row \in Pipeline!Row /\ row.date = resource[r].date /\ (resource[r].content => row.content)
    BY <1>1, <1>3, <2>1 DEF RowsOK, Pipeline!Row
  <2>5. /\ RowsOK'
        /\ \A d \in Uploaded :
             /\ resource[d] = Null <=> resource'[d] = Null
             /\ resource[d] # Null => resource'[d].date = resource[d].date
                                      /\ (resource[d].content => resource'[d].content)
    BY <1>1, <1>3, <2>3, <2>4, SaveKeepsDay
  <2> QED BY <2>2, <2>3, <2>5, ProcessorBegins
<1>9. ASSUME NEW good \in BOOLEAN, Pipeline!Detected(j, good)
      PROVE  PipelineInv'
  <2>1. PICK next : next = IF Pipeline!Has(r) THEN <<Pipeline!Job("ingest", r, Null), Pipeline!Job("date", r, resource[r].date)>>
                           ELSE <<>>
    OBVIOUS
  <2>2. PICK q, x : q = (IF ~good THEN <<>> ELSE <<x>> \o next) /\ x = Pipeline!Saving("ready", r, Null)
    OBVIOUS
  <2>3. Todo(next)
    <3>1. CASE Pipeline!Has(r)
      <4>1. resource[r].date \in Pipeline!Anchors
        BY <1>1, <1>3, <3>1 DEF RowsOK, Pipeline!Has, Pipeline!Row
      <4>2. PICK y, z : y = Pipeline!Job("ingest", r, Null) /\ z = Pipeline!Job("date", r, resource[r].date)
        OBVIOUS
      <4>3. y \in Errand /\ y.kind = "ingest" /\ z \in Errand
        BY <1>6, <4>1, <4>2, NullIsAnAnchor
      <4>4. z.kind = "date"
        BY <1>6, <4>1, <4>2
      <4>5. Todo(<<y, z>>)
        BY <4>3, <4>4 DEF Todo
      <4> QED BY <2>1, <3>1, <4>2, <4>5
    <3> QED BY <2>1, <3>1, TodoNothing
  <2>4. x \in Errand /\ x.kind = "ready"
    <3>1. PICK k \in Pipeline!Saves : k = "ready"
      BY DEF Pipeline!Saves
    <3> QED BY <1>1, <1>3, <2>2, <3>1, NullIsAnAnchor, SavingIsAnErrand
  <2>5. Todo(q)
    BY <2>2, <2>3, <2>4, TodoFirst, TodoNothing
  <2>6. /\ run = Pipeline!Rest /\ j.job.kind = "detect" /\ run' = [job |-> j, todo |-> q]
        /\ UNCHANGED <<resource, dates, jobs, serial, op, crossed, used>>
    BY <1>2, <1>9, <2>1, <2>2 DEF Pipeline!Detected, Pipeline!Taken, Pipeline!Begin
  <2>7. RowsOK'
    BY <1>1, <2>6 DEF RowsOK
  <2> QED BY <2>5, <2>6, <2>7, ProcessorBegins
<1> QED BY <1>7, <1>8, <1>9

LEMMA EndingsKeep ==
  ASSUME PipelineInv, NEW j \in jobs,
         Pipeline!Ingested(j) \/ Pipeline!Fail(j)
         \/ \E field \in Pipeline!Fields, good \in BOOLEAN : Pipeline!Described(j, field, good)
  PROVE  PipelineInv'
<1>1. RowsOK /\ JobsOK
  BY DEF PipelineInv
<1>2. PICK r : r = j.job.res
  OBVIOUS
<1>3. r \in Uploaded
  BY <1>1, <1>2 DEF JobsOK, Errand
<1>4. CASE Pipeline!Ingested(j)
  <2>1. PICK row : row = [resource[r] EXCEPT !.status = "ready"]
    OBVIOUS
  <2>2. /\ run = Pipeline!Rest /\ j.job.kind = "ingest" /\ jobs' = jobs \ {j} /\ run' = Pipeline!Rest
        /\ resource' = (IF resource[r] = Null THEN resource ELSE [resource EXCEPT ![r] = row])
        /\ UNCHANGED <<dates, serial, op, crossed, used>>
    BY <1>2, <1>4, <2>1 DEF Pipeline!Ingested, Pipeline!Taken, Pipeline!End, Pipeline!Save
  <2>3. resource[r] # Null => row \in Pipeline!Row /\ row.date = resource[r].date /\ (resource[r].content => row.content)
    BY <1>1, <1>3, <2>1 DEF RowsOK, Pipeline!Row
  <2>4. /\ RowsOK'
        /\ \A d \in Uploaded :
             /\ resource[d] = Null <=> resource'[d] = Null
             /\ resource[d] # Null => resource'[d].date = resource[d].date
                                      /\ (resource[d].content => resource'[d].content)
    BY <1>1, <1>3, <2>2, <2>3, SaveKeepsDay
  <2> QED BY <2>2, <2>4, EndKeeps
<1>5. CASE Pipeline!Fail(j)
  <2>1. /\ run = Pipeline!Rest /\ jobs' = jobs \ {j} /\ run' = Pipeline!Rest
        /\ UNCHANGED <<resource, dates, serial, op, used>>
        /\ (crossed => crossed') /\ (j.job.kind = "date" => crossed')
    BY <1>5 DEF Pipeline!Fail, Pipeline!End
  <2>2. RowsOK'
    BY <1>1, <2>1 DEF RowsOK
  <2> QED BY <2>1, <2>2, EndKeeps
<1>6. ASSUME NEW field \in Pipeline!Fields, NEW good \in BOOLEAN, Pipeline!Described(j, field, good)
      PROVE  PipelineInv'
  <2>1. PICK row : row = IF good THEN [resource[r] EXCEPT !.fields = @ \cup {field}] ELSE resource[r]
    OBVIOUS
  <2>2. /\ run = Pipeline!Rest /\ j.job.kind = field /\ jobs' = jobs \ {j} /\ run' = Pipeline!Rest
        /\ UNCHANGED <<dates, serial, op, crossed, used>>
    BY <1>6 DEF Pipeline!Described, Pipeline!Taken, Pipeline!End
  <2>3. resource' = (IF resource[r] = Null THEN resource ELSE [resource EXCEPT ![r] = row])
    BY <1>1, <1>2, <1>3, <1>6, <2>1 DEF Pipeline!Described, Pipeline!Save, RowsOK
  <2>4. resource[r] # Null => row \in Pipeline!Row /\ row.date = resource[r].date /\ (resource[r].content => row.content)
    BY <1>1, <1>3, <2>1 DEF RowsOK, Pipeline!Row
  <2>5. /\ RowsOK'
        /\ \A d \in Uploaded :
             /\ resource[d] = Null <=> resource'[d] = Null
             /\ resource[d] # Null => resource'[d].date = resource[d].date
                                      /\ (resource[d].content => resource'[d].content)
    BY <1>1, <1>3, <2>2, <2>3, <2>4, SaveKeepsDay
  <2>6. j.job.kind # "date"
    BY <2>2 DEF Pipeline!Fields
  <2> QED BY <2>2, <2>5, <2>6, EndKeeps
<1> QED BY <1>4, <1>5, <1>6

LEMMA PipelineStep == PipelineInv /\ [Pipeline!Next]_(Pipeline!vars) => PipelineInv'
<1> SUFFICES ASSUME PipelineInv, [Pipeline!Next]_(Pipeline!vars) PROVE PipelineInv'
  OBVIOUS
<1>1. RowsOK /\ JobsOK
  BY DEF PipelineInv
<1>2. ASSUME NEW a \in Actors, NEW r \in Uploaded, NEW d \in Pipeline!Anchors, Pipeline!Patch(a, r, d)
      PROVE  PipelineInv'
  <2>1. PICK x : x = Pipeline!Saving("patch", r, d)
    OBVIOUS
  <2>2. PICK k \in Pipeline!Saves : k = "patch"
    BY DEF Pipeline!Saves
  <2>3. x \in Errand
    BY <1>1, <2>1, <2>2, SavingIsAnErrand
  <2>4. Todo(<<x>>)
    BY <2>3 DEF Todo
  <2>5. /\ op[a] = <<>> /\ op' = [op EXCEPT ![a] = <<x>>] /\ used' = [used EXCEPT !.patches = @ + 1]
        /\ UNCHANGED <<resource, dates, jobs, serial, run, crossed>>
    BY <1>2, <2>1 DEF Pipeline!Patch
  <2>6. used'.rows = used.rows /\ DOMAIN used' = DOMAIN used
    BY <1>1, <2>5 DEF RowsOK
  <2> QED BY <2>4, <2>5, <2>6, RequestBegins
<1>3. ASSUME NEW a \in Actors, NEW r \in Uploaded, Pipeline!Confirm(a, r)
      PROVE  PipelineInv'
  <2>1. PICK x, y : x = Pipeline!Saving("confirmed", r, Null) /\ y = Pipeline!Job("detect", r, Null)
    OBVIOUS
  <2>2. PICK k \in Pipeline!Saves : k = "confirmed"
    BY DEF Pipeline!Saves
  <2>3. PICK m \in Pipeline!Kinds \cup Pipeline!Fields \cup {"transcribe", "detect", "ingest", "date"} : m = "detect"
    OBVIOUS
  <2>4. x \in Errand /\ x.kind = "confirmed"
    BY <1>1, <2>1, <2>2, NullIsAnAnchor, SavingIsAnErrand
  <2>5. y \in Errand /\ y.kind = "detect"
    BY <2>1, <2>3, NullIsAnAnchor, JobIsAnErrand
  <2>6. Todo(<<x, y>>)
    BY <2>4, <2>5 DEF Todo
  <2>7. /\ op[a] = <<>> /\ op' = [op EXCEPT ![a] = <<x, y>>]
        /\ UNCHANGED <<resource, dates, jobs, serial, run, crossed, used>>
    BY <1>3, <2>1 DEF Pipeline!Confirm
  <2> QED BY <2>6, <2>7, RequestBegins
<1>4. ASSUME NEW r \in Uploaded, NEW f \in Pipeline!Fields, Pipeline!Ask(r, f)
      PROVE  PipelineInv'
  <2>1. PICK s : s = Pipeline!Job(f, r, Null)
    OBVIOUS
  <2>2. s \in Errand /\ s.kind = f /\ s.kind # "date" /\ s.kind \notin Pipeline!Saves
    <3>1. PICK m \in Pipeline!Kinds \cup Pipeline!Fields \cup {"transcribe", "detect", "ingest", "date"} : m = f
      OBVIOUS
    <3>2. s \in Errand /\ s.kind = f
      BY <2>1, <3>1, NullIsAnAnchor, JobIsAnErrand
    <3> QED BY <3>2 DEF Pipeline!Fields, Pipeline!Saves
  <2>3. /\ Pipeline!Create(s) /\ used' = [used EXCEPT !.tasks = @ + 1] /\ UNCHANGED <<resource, dates, op, run>>
    BY <1>4, <2>1 DEF Pipeline!Ask
  <2>4. Pipeline!Perform(s)
    BY <2>2, <2>3 DEF Pipeline!Perform
  <2>5. /\ serial' \in Nat /\ jobs \subseteq jobs'
        /\ \A j \in jobs' : DOMAIN j = {"n", "job"} /\ j.n \in 0..serial' /\ j.job \in Errand
    BY <1>1, <2>2, <2>4, PerformedJobs
  <2>6. JobsOK'
    BY <1>1, <2>3, <2>5 DEF JobsOK
  <2>7. (crossed => crossed') /\ (jobs' = jobs \/ jobs' = jobs \cup {[n |-> serial + 1, job |-> s]})
    BY <2>2, <2>3 DEF Pipeline!Create
  <2>8. \A d : DateJobs(d)' = DateJobs(d) /\ (Coming(d) => Coming(d)')
    BY <2>2, <2>3, <2>7 DEF DateJobs, Coming
  <2>9. used'.rows = used.rows /\ RowsOK'
    BY <1>1, <2>3 DEF RowsOK
  <2> QED BY <2>3, <2>6, <2>7, <2>8, <2>9, UndatedKeeps
<1>5. CASE Pipeline!FileGone
  <2>1. /\ run # Pipeline!Rest /\ run.todo # <<>> /\ Head(run.todo).kind = "transcribe"
        /\ jobs' = jobs \ {run.job} /\ run' = Pipeline!Rest
        /\ UNCHANGED <<resource, dates, serial, op, crossed, used>>
    BY <1>5 DEF Pipeline!FileGone, Pipeline!End
  <2>2. Todo(run.todo) /\ run.job \in jobs /\ run.job.job.kind # "date"
    BY <1>1, <2>1 DEF JobsOK
  <2>3. \A d : ~Due(run.todo, d)
    <3>1. PICK q : q = run.todo
      OBVIOUS
    <3>2. Todo(q) /\ q # <<>> /\ Head(q).kind = "transcribe"
      BY <2>1, <2>2, <3>1
    <3>3. Tail(q) = <<>> /\ \A d : Due(q, d) => Due(Tail(q), d) \/ (Head(q).kind = "date" /\ Head(q).res = d)
      BY <3>2, TodoRest
    <3> QED BY <3>1, <3>2, <3>3, TodoNothing
  <2>4. JobsOK' /\ \A d : Coming(d) => Coming(d)'
    BY <1>1, <2>1, <2>3, TodoNothing DEF JobsOK, Coming, Pipeline!Rest
  <2>5. \A d : DateJobs(d)' = DateJobs(d)
    BY <2>1, <2>2 DEF DateJobs
  <2>6. RowsOK'
    BY <1>1, <2>1 DEF RowsOK
  <2> QED BY <2>1, <2>4, <2>5, <2>6, UndatedKeeps
<1>6. CASE Pipeline!Crash
  <2>1. /\ used' = [used EXCEPT !.crashes = @ + 1] /\ op' = [a \in Actors |-> <<>>] /\ run' = Pipeline!Rest
        /\ crossed' = (crossed \/ Pipeline!Dates(run.todo) \/ \E a \in Actors : Pipeline!Dates(op[a]))
        /\ UNCHANGED <<resource, dates, jobs, serial>>
    BY <1>6 DEF Pipeline!Crash
  <2>2. \A q, d : Todo(q) /\ Due(q, d) => Pipeline!Dates(q)
    BY DEF Todo, Due, Pipeline!Dates
  <2>3. \A d : Coming(d) => crossed'
    BY <1>1, <2>1, <2>2 DEF Coming, JobsOK
  <2>4. JobsOK'
    BY <1>1, <2>1, TodoNothing DEF JobsOK, Pipeline!Rest
  <2>5. \A d : DateJobs(d)' = DateJobs(d)
    BY <2>1 DEF DateJobs
  <2>6. used'.rows = used.rows /\ RowsOK'
    BY <1>1, <2>1 DEF RowsOK
  <2> QED BY <2>1, <2>3, <2>4, <2>5, <2>6, UndatedKeeps
<1>7. CASE UNCHANGED Pipeline!vars
  <2>1. UNCHANGED <<resource, dates, jobs, serial, op, run, crossed, used>>
    BY <1>7 DEF Pipeline!vars
  <2>2. RowsOK' /\ JobsOK'
    BY <1>1, <2>1 DEF RowsOK, JobsOK
  <2>3. \A d : DateJobs(d)' = DateJobs(d) /\ (Coming(d) => Coming(d)')
    BY <2>1 DEF DateJobs, Coming
  <2> QED BY <2>1, <2>2, <2>3, UndatedKeeps
<1>8. ASSUME NEW j \in jobs, Pipeline!Process(j)
      PROVE  PipelineInv'
  <2>1. ASSUME NEW good \in BOOLEAN,
               \/ Pipeline!Summarized(j, good) \/ Pipeline!KeyPointed(j, good)
               \/ Pipeline!Keyworded(j, good) \/ Pipeline!Translated(j, good)
        PROVE  PipelineInv'
    <3>1. \E field \in Pipeline!Fields : Pipeline!Described(j, field, good)
      BY <2>1 DEF Pipeline!Summarized, Pipeline!KeyPointed, Pipeline!Keyworded, Pipeline!Translated, Pipeline!Fields
    <3> QED BY <3>1, EndingsKeep
  <2>2. ASSUME NEW good \in BOOLEAN, Pipeline!Dated(j, good)
        PROVE  PipelineInv'
    BY <2>2, DatedKeeps
  <2> QED BY <1>8, <2>1, <2>2, AnswersKeep, EndingsKeep DEF Pipeline!Process
<1>9. ASSUME NEW a \in Actors, Pipeline!Request(a)
      PROVE  PipelineInv'
  BY <1>2, <1>3, <1>9, UploadKeeps, GoOnKeeps DEF Pipeline!Request
<1> QED
  BY <1>4, <1>5, <1>6, <1>7, <1>8, <1>9, RemoveKeeps, ContinueKeeps DEF Pipeline!Next

(* Whoever set the day of a resource, its dates follow, for all resources, *)
(* days, requests that overlap and crashes, unless an extraction of dates  *)
(* failed or came out of order.                                            *)
THEOREM DatesFollow == Pipeline!Spec => []DatesFollowPublication
<1>1. PipelineInv => DatesFollowPublication
  <2> SUFFICES ASSUME PipelineInv, NEW r \in Uploaded, ~crossed, ~Pipeline!Asked(r), dates[r] # "none"
               PROVE  dates[r] = resource[r].date
    BY DEF DatesFollowPublication, Pipeline!DatesFollowPublication
  <2>1. DateJobs(r) = {} /\ run = Pipeline!Rest /\ \A a \in Actors : op[a] = <<>>
    BY DEF Pipeline!Asked, DateJobs
  <2>2. ~Coming(r)
    BY <2>1, TodoNothing DEF Coming, Pipeline!Rest
  <2>3. Pipeline!Has(r)
    BY DEF PipelineInv, TextsFirst
  <2> QED BY <2>1, <2>2, <2>3 DEF PipelineInv, DaysFollow
<1> QED
  BY <1>1, PipelineInit, PipelineStep, PTL DEF Pipeline!Spec

-----------------------------------------------------------------------------
(* Accounts, from the theorems of AccountsProofs.  Between requests the    *)
(* members of a group have its permissions, however many users, groups and *)
(* requests there are, if no request about a group was overlapped by       *)
(* another one about users or groups, or cut off before its last write.    *)
THEOREM MembersAreFollowed == Members!Spec => []MembersFollowTheirGroup
BY MembersInstance, Members!MembersFollow DEF MembersFollowTheirGroup

(* And no access token carries permissions that its user lost longer ago   *)
(* than the life of one, however often it is refreshed.                    *)
THEOREM RevocationsTakeEffect == SignedIn!Spec => []RevocationTakesEffect
BY SignedInInstance, SignedIn!RevocationHolds DEF RevocationTakesEffect
=============================================================================
