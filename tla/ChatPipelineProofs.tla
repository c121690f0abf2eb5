------------------------- MODULE ChatPipelineProofs -------------------------
(***************************************************************************)
(* Theorems of ChatPipeline for any chats, agents, results and bounds.     *)
(***************************************************************************)
EXTENDS ChatPipeline, SequenceTheorems, TLAPS

PCs == {"idle", "act", "replace", "forget", "announce", "reply", "read", "touch",
        "complete", "notify", "markCompleted", "markFailed"}

(* The tick has a result that its execution does not have the end of yet.  *)
Underway == {"act", "replace", "forget", "announce", "reply", "read", "touch", "complete"}

Consistent(s) == s.pinned <=> s.expiry = "none"
HasResult(c)  == DOMAIN result[c] = {"reply", "error", "action", "target"}

(* The tables, the handlers and the tick keep their types.                 *)
OwnersOK ==
  /\ ownerOf \in [Chats -> Owners] /\ owner \in [Owners -> Snapshot \cup {Null}]
  /\ removed \subseteq Owners

UsersOK ==
  /\ sending \in [Chats -> [at : {"new", "read", "stored", "touched", "sent", "lost"},
                            read : Snapshot \cup {Null}]]
  /\ \A c \in Chats : sending[c].at \in {"read", "stored"} => sending[c].read \in Snapshot
  /\ edit \in [agent : Agents, read : Snapshot] \cup {Null} /\ expired \subseteq Agents

ShownOK ==
  said \subseteq Chats /\ replies \in [Chats -> {Shown(r) : r \in Results} \cup {Null}]

MemoryOK ==
  /\ memory \in Seq(Chats \cup {Manual, Null})
  /\ cards \subseteq Chats \X (1..Len(memory))
  /\ entry \in 0..Len(memory)
  /\ (pc \in {"idle", "act"} => entry = 0) /\ (pc \in {"replace", "forget", "announce"} => entry # 0)

QueueOK ==
  /\ status \in [Chats -> {"absent", "queued", "ready"} \cup Terminal]
  /\ DOMAIN result = Chats
  /\ \A c \in Chats : result[c] # Null => HasResult(c)
  /\ \A c \in Chats : status[c] = "ready" => HasResult(c) /\ result[c] \in Results
  /\ fence \in [Chats -> BOOLEAN] /\ attempts \in [Chats -> 0..MaxAttempts]
  /\ saved \in [Chats -> Nat] /\ answers \in [Chats -> 0..MaxAttempts]
  /\ \A c \in Chats : answers[c] <= attempts[c]
  /\ reopened \subseteq Chats /\ faults \in 0..MaxFaults

(* An execution is there once its message is stored and queued.            *)
SentOK ==
  \A c \in Chats : /\ sending[c].at # "sent" => status[c] = "absent"
                   /\ fence[c] => status[c] # "absent"

TickOK ==
  /\ pc \in PCs /\ job \in Job \cup {Null} /\ (job = Null <=> pc = "idle")
  /\ seen \in Snapshot \cup {Null} /\ (pc = "touch" => seen \in Snapshot)

(* What an edit has read of an agent is consistent too.                    *)
AgentsOK ==
  PinnedNeverExpires /\ (edit # Null => Consistent(edit.read))

(* How far the tick is: the execution it works on still has a result; then *)
(* the reply is stored, and then the execution is at its end, unless stale *)
(* recovery took it back.                                                  *)
StageOK ==
  /\ pc # "idle" => status[job.chat] # "absent"
  /\ pc \in Underway => HasResult(job.chat) /\ status[job.chat] # "completed"
  /\ pc \in {"read", "touch", "complete"} =>
       Owner(job.chat) \in removed \/ SameReply(job.chat, job.result)
  /\ pc = "notify" => status[job.chat] \in Terminal \/ job.chat \in reopened
  /\ pc = "markCompleted" => job.chat \in reopened

(* An answer whose action is still to come has not been saved yet.         *)
Due(c) ==
  IF pc # "idle" /\ job.chat = c THEN IF pc = "act" THEN 1 ELSE 0
  ELSE IF status[c] = "ready" THEN 1 ELSE 0
SavesOK == \A c \in Chats : saved[c] + Due(c) <= answers[c] + faults

ChatInv ==
  /\ OwnersOK /\ UsersOK /\ ShownOK /\ MemoryOK /\ QueueOK /\ SentOK /\ TickOK
  /\ AgentsOK /\ StageOK /\ AnswerIsRecorded /\ SavesOK

-----------------------------------------------------------------------------
(* A part of the invariant whose variables a step leaves alone is kept.    *)
LEMMA Untouched ==
  ASSUME ChatInv
  PROVE  /\ UNCHANGED <<ownerOf, owner, removed>> => OwnersOK'
         /\ UNCHANGED <<sending, edit, expired>> => UsersOK'
         /\ UNCHANGED <<said, replies>> => ShownOK'
         /\ UNCHANGED <<memory, cards, pc, entry>> => MemoryOK'
         /\ UNCHANGED <<status, result, fence, attempts, saved, answers, reopened, faults>> => QueueOK'
         /\ UNCHANGED <<sending, status, fence>> => SentOK'
         /\ UNCHANGED <<pc, job, seen>> => TickOK'
         /\ UNCHANGED <<owner, edit>> => AgentsOK'
         /\ UNCHANGED <<ownerOf, pc, job, replies, status, result, reopened, removed>> => StageOK'
         /\ UNCHANGED <<ownerOf, status, result, replies, reopened, removed>> => AnswerIsRecorded'
         /\ UNCHANGED <<pc, job, status, saved, answers, faults>> => SavesOK'
<1> USE DEF ChatInv
<1>1. UNCHANGED <<ownerOf, owner, removed>> => OwnersOK'
  BY DEF OwnersOK
<1>2. UNCHANGED <<sending, edit, expired>> => UsersOK'
  BY DEF UsersOK
<1>3. UNCHANGED <<said, replies>> => ShownOK'
  BY DEF ShownOK
<1>4. UNCHANGED <<memory, cards, pc, entry>> => MemoryOK'
  BY DEF MemoryOK
<1>5. UNCHANGED <<status, result, fence, attempts, saved, answers, reopened, faults>> => QueueOK'
  BY DEF QueueOK, HasResult
<1>6. UNCHANGED <<pc, job, seen>> => TickOK'
  BY DEF TickOK
<1>7. UNCHANGED <<owner, edit>> => AgentsOK'
  BY DEF AgentsOK, PinnedNeverExpires, Alive, Consistent
<1>8. UNCHANGED <<ownerOf, pc, job, replies, status, result, reopened, removed>> => StageOK'
  BY DEF StageOK, HasResult, Owner, SameReply
<1>9. UNCHANGED <<ownerOf, status, result, replies, reopened, removed>> => AnswerIsRecorded'
  BY DEF AnswerIsRecorded, Owner
<1>10. UNCHANGED <<pc, job, status, saved, answers, faults>> => SavesOK'
  BY DEF SavesOK, Due
<1>11. UNCHANGED <<sending, status, fence>> => SentOK'
  BY DEF SentOK
<1> QED
  BY <1>1, <1>2, <1>3, <1>4, <1>5, <1>6, <1>7, <1>8, <1>9, <1>10, <1>11

(* touchInteraction keeps a row a row, and gives an agent a date if and    *)
(* only if it is not pinned.                                               *)
LEMMA TouchedIsSound ==
  ASSUME NEW o, NEW s \in Snapshot
  PROVE  Touched(o, s) \in Snapshot /\ (o \in Agents => Consistent(Touched(o, s)))
BY DEF Touched, Snapshot, Consistent

(* A row that is written to an owner keeps the owners.                     *)
LEMMA WriteOwner ==
  ASSUME ChatInv, NEW o \in Owners, NEW s \in Snapshot, o \in Agents => Consistent(s),
         owner' = [owner EXCEPT ![o] = s], UNCHANGED <<ownerOf, removed>>,
         edit' = edit \/ edit' = Null
  PROVE  OwnersOK' /\ AgentsOK'
<1>1. OwnersOK'
  BY DEF ChatInv, OwnersOK
<1>2. PinnedNeverExpires'
  BY DEF ChatInv, OwnersOK, AgentsOK, PinnedNeverExpires, Alive, Consistent, Owners
<1>3. AgentsOK'
  BY <1>2 DEF ChatInv, AgentsOK, Consistent
<1> QED
  BY <1>1, <1>3

LEMMA ChatInit == Init => ChatInv
<1> SUFFICES ASSUME Init
             PROVE  ChatInv
  OBVIOUS
<1> USE DEF Init
<1>1. OwnersOK
  BY DEF OwnersOK, Owners, Snapshot
<1>2. UsersOK
  BY DEF UsersOK
<1>3. ShownOK
  BY DEF ShownOK
<1>4. MemoryOK
  <2>1. memory \in Seq(Chats \cup {Manual, Null})
    OBVIOUS
  <2> QED
    BY <2>1 DEF MemoryOK
<1>5. QueueOK
  BY ChatAssumption DEF QueueOK
<1>6. TickOK
  BY DEF TickOK, PCs
<1>7. AgentsOK
  BY ChatAssumption DEF AgentsOK, PinnedNeverExpires, Consistent, Owners, Alive
<1>8. StageOK
  BY DEF StageOK, Underway
<1>9. AnswerIsRecorded
  BY DEF AnswerIsRecorded
<1>10. SavesOK
  <2>1. ASSUME NEW c \in Chats
        PROVE  saved[c] + Due(c) <= answers[c] + faults
    <3>1. saved[c] = 0 /\ answers[c] = 0 /\ faults = 0
      OBVIOUS
    <3>2. Due(c) = 0
      BY DEF Due
    <3> QED
      BY <3>1, <3>2
  <2> QED
    BY <2>1 DEF SavesOK
<1>11. SentOK
  BY DEF SentOK
<1> QED
  BY <1>1, <1>2, <1>3, <1>4, <1>5, <1>6, <1>7, <1>8, <1>9, <1>10, <1>11 DEF ChatInv

-----------------------------------------------------------------------------
(* sendMessage.                                                            *)
LEMMA SendStep ==
  ASSUME ChatInv, NEW c \in Chats,
         SendRead(c) \/ SendStore(c) \/ SendTouch(c) \/ SendQueue(c) \/ SendThrow(c)
  PROVE  ChatInv'
<1> USE DEF tables, row, tick, users, history
<1>1. Owner(c) \in Owners
  BY DEF ChatInv, OwnersOK, Owner
<1>2. CASE SendRead(c)
  <2>1. owner[Owner(c)] \in Snapshot
    BY <1>1, <1>2 DEF SendRead, Alive, ChatInv, OwnersOK
  <2>2. UsersOK' /\ SentOK'
    BY <1>2, <2>1 DEF SendRead, ChatInv, UsersOK, SentOK
  <2> QED
    BY <1>2, <2>2, Untouched DEF SendRead, ChatInv
<1>3. CASE SendStore(c)
  <2>1. UsersOK' /\ ShownOK' /\ SentOK'
    BY <1>3 DEF SendStore, ChatInv, UsersOK, ShownOK, SentOK
  <2> QED
    BY <1>3, <2>1, Untouched DEF SendStore, ChatInv
<1>4. CASE SendTouch(c)
  <2>1. sending[c].read \in Snapshot
    BY <1>4 DEF SendTouch, ChatInv, UsersOK
  <2>2. OwnersOK' /\ AgentsOK'
    BY <1>1, <1>4, <2>1, TouchedIsSound, WriteOwner DEF SendTouch
  <2>3. UsersOK' /\ SentOK'
    BY <1>4 DEF SendTouch, ChatInv, UsersOK, SentOK
  <2> QED
    BY <1>4, <2>2, <2>3, Untouched DEF SendTouch, ChatInv
<1>5. CASE SendQueue(c)
  <2>1. UsersOK' /\ QueueOK' /\ SentOK'
    BY <1>5 DEF SendQueue, ChatInv, UsersOK, QueueOK, SentOK, HasResult
  <2>2. StageOK'
    BY <1>5 DEF SendQueue, ChatInv, StageOK, SentOK, TickOK, QueueOK, HasResult, Owner, SameReply, Underway, Job
  <2>3. AnswerIsRecorded' /\ SavesOK'
    BY <1>5 DEF SendQueue, ChatInv, AnswerIsRecorded, SavesOK, Due, QueueOK, Owner
  <2> QED
    BY <1>5, <2>1, <2>2, <2>3, Untouched DEF SendQueue, ChatInv
<1>6. CASE SendThrow(c)
  <2>1. UsersOK' /\ SentOK'
    BY <1>6 DEF SendThrow, ChatInv, UsersOK, SentOK
  <2> QED
    BY <1>6, <2>1, Untouched DEF SendThrow, ChatInv
<1> QED
  BY <1>2, <1>3, <1>4, <1>5, <1>6

(* The queue: an answer, a lost attempt, stale recovery.                   *)
LEMMA QueueStep ==
  ASSUME ChatInv, NEW c \in Chats,
         (\E r \in Results : Answer(c, r)) \/ LoseAttempt(c) \/ Recover(c)
  PROVE  ChatInv'
<1> USE DEF tables, row, tick, users, history
<1>1. MaxAttempts \in Nat
  BY ChatAssumption
<1>2. ASSUME NEW r \in Results, Answer(c, r)
      PROVE  ChatInv'
  <2>1. r \in Results /\ DOMAIN r = {"reply", "error", "action", "target"}
    BY ChatAssumption
  <2>2. result' = [result EXCEPT ![c] = r] /\ status' = [status EXCEPT ![c] = "ready"] /\ status[c] = "queued"
    BY <1>2 DEF Answer
  <2>3. QueueOK'
    <3>1. answers[c] + 1 <= attempts[c] + 1 /\ attempts[c] + 1 \in 0..MaxAttempts
          /\ answers[c] + 1 \in 0..MaxAttempts
      BY <1>1, <1>2 DEF Answer, ChatInv, QueueOK
    <3> QED
      BY <1>2, <2>1, <3>1 DEF Answer, ChatInv, QueueOK, HasResult
  <2>4. SentOK' /\ AnswerIsRecorded'
    BY <1>2 DEF Answer, ChatInv, SentOK, AnswerIsRecorded, QueueOK, Owner
  <2>5. StageOK'
    BY <1>2, <2>1 DEF Answer, ChatInv, StageOK, QueueOK, TickOK, HasResult, Owner, SameReply, Underway, Terminal
  <2>6. SavesOK'
    BY <1>2 DEF Answer, ChatInv, SavesOK, QueueOK, Due
  <2> QED
    BY <1>2, <2>3, <2>4, <2>5, <2>6, Untouched DEF Answer, ChatInv
<1>3. CASE LoseAttempt(c)
  <2>1. attempts[c] + 1 \in 0..MaxAttempts /\ answers[c] <= attempts[c] + 1
    BY <1>1, <1>3 DEF LoseAttempt, ChatInv, QueueOK
  <2>2. PICK to \in {"failed", "queued"} : status' = [status EXCEPT ![c] = to]
    BY <1>3 DEF LoseAttempt
  <2>3. QueueOK' /\ SentOK'
    BY <1>3, <2>1, <2>2 DEF LoseAttempt, ChatInv, QueueOK, SentOK, HasResult, Terminal
  <2>4. StageOK'
    BY <1>3, <2>2 DEF LoseAttempt, ChatInv, StageOK, QueueOK, TickOK, HasResult, Owner, SameReply, Underway, Terminal
  <2>5. AnswerIsRecorded' /\ SavesOK'
    BY <1>3, <2>2 DEF LoseAttempt, ChatInv, AnswerIsRecorded, SavesOK, QueueOK, Due, Owner
  <2> QED
    BY <1>3, <2>3, <2>4, <2>5, Untouched DEF LoseAttempt, ChatInv
<1>4. CASE Recover(c)
  <2>1. PICK to \in {"failed", "queued"} : UpdateStatus(c, to)
    BY <1>4 DEF Recover
  <2>2. status' = [status EXCEPT ![c] = to] /\ fence' \in {fence, [fence EXCEPT ![c] = FALSE]}
    BY <2>1 DEF UpdateStatus, ChatInv, QueueOK
  <2>3. reopened' = IF status[c] \in Terminal THEN reopened \cup {c} ELSE reopened
    BY <1>4 DEF Recover
  <2>4. QueueOK' /\ SentOK'
    BY <1>4, <2>2, <2>3 DEF Recover, ChatInv, QueueOK, SentOK, HasResult, Terminal
  <2>5. StageOK'
    BY <1>4, <2>2, <2>3 DEF Recover, ChatInv, StageOK, QueueOK, TickOK, HasResult, Owner, SameReply, Underway, Terminal
  <2>6. AnswerIsRecorded' /\ SavesOK'
    BY <1>4, <2>2, <2>3 DEF Recover, ChatInv, AnswerIsRecorded, SavesOK, QueueOK, Due, Owner
  <2> QED
    BY <1>4, <2>4, <2>5, <2>6, Untouched DEF Recover, ChatInv
<1> QED
  BY <1>2, <1>3, <1>4

-----------------------------------------------------------------------------
(* The tick reads a result.                                                *)
LEMMA PickStep ==
  ASSUME ChatInv, NEW c \in Chats, Pick(c)
  PROVE  ChatInv'
<1> USE DEF tables, row, tick, users, history
<1>1. result[c] \in Results /\ HasResult(c) /\ status[c] = "ready"
  BY DEF Pick, ChatInv, QueueOK
<1>2. job' \in Job /\ job' # Null /\ job'.chat = c
  BY <1>1, ChatAssumption DEF Pick, Job
<1>3. TickOK' /\ MemoryOK'
  BY <1>2 DEF Pick, ChatInv, TickOK, MemoryOK, PCs
<1>4. StageOK'
  BY <1>1, <1>2 DEF Pick, StageOK, Underway, HasResult
<1>5. \A d \in Chats : Due(d)' <= Due(d)
  BY <1>1, <1>2 DEF Pick, Due
<1>6. SavesOK'
  <2>1. \A d \in Chats : saved[d] \in Nat /\ answers[d] \in Nat /\ faults \in Nat
                         /\ Due(d) \in Nat /\ Due(d)' \in Nat
    BY DEF ChatInv, QueueOK, Due
  <2> QED
    BY <1>5, <2>1 DEF Pick, ChatInv, SavesOK
<1> QED
  BY <1>3, <1>4, <1>6, Untouched DEF Pick, ChatInv

(* The tick goes on with its job, past the point where its action is due.  *)
LEMMA TickGoesOn ==
  ASSUME ChatInv, pc # "idle", pc' \in PCs \ {"idle", "act", "touch"},
         UNCHANGED <<job, seen, status, saved, answers, faults>>
  PROVE  TickOK' /\ SavesOK'
<1>1. TickOK'
  BY DEF ChatInv, TickOK
<1>2. ASSUME NEW c \in Chats
      PROVE  (saved[c] + Due(c))' <= (answers[c] + faults)'
  <2>1. saved[c] \in Nat /\ answers[c] \in Nat /\ faults \in Nat /\ Due(c) \in Nat
    BY DEF ChatInv, QueueOK, Due
  <2>2. Due(c)' \in Nat /\ Due(c)' <= Due(c)
    BY DEF Due
  <2>3. saved[c] + Due(c) <= answers[c] + faults
    BY DEF ChatInv, SavesOK
  <2> QED
    BY <2>1, <2>2, <2>3
<1> QED
  BY <1>1, <1>2 DEF SavesOK

(* Until the reply is due nothing is known of it.                          *)
LEMMA StaysUnderway ==
  ASSUME ChatInv, pc \in Underway, pc' \in Underway \ {"read", "touch", "complete"},
         UNCHANGED <<job, status, result>>
  PROVE  StageOK'
BY DEF ChatInv, StageOK, Underway, HasResult

(* The memory action, each step of it and its end.                         *)
LEMMA MemoryStep ==
  ASSUME ChatInv,
         SaveEntry \/ FindEntry \/ ReplaceEntry \/ ForgetEntry \/ Announce \/ MemoryDone
  PROVE  ChatInv'
<1> USE DEF tables, row, tick, users, history
<1> DEFINE Authors == Chats \cup {Manual, Null}
<1>1. memory \in Seq(Authors) /\ Len(memory) \in Nat /\ cards \subseteq Chats \X (1..Len(memory))
      /\ entry \in 0..Len(memory)
  BY DEF ChatInv, MemoryOK
<1>2. ASSUME pc # "idle"
      PROVE  job \in Job /\ job.chat \in Chats
  BY <1>2 DEF ChatInv, TickOK, Job
<1>3. CASE SaveEntry
  <2>1. pc = "act" /\ pc' = "announce" /\ job.chat \in Chats
    BY <1>2, <1>3 DEF SaveEntry, Wants
  <2>2. memory' \in Seq(Authors) /\ Len(memory') = Len(memory) + 1 /\ entry' = Len(memory')
    BY <1>1, <1>3, <2>1 DEF SaveEntry
  <2>3. MemoryOK'
    BY <1>1, <1>3, <2>1, <2>2 DEF SaveEntry, MemoryOK
  <2>4. TickOK' /\ QueueOK'
    BY <1>3, <2>1 DEF SaveEntry, ChatInv, TickOK, QueueOK, HasResult, PCs
  <2>5. StageOK'
    BY <1>3, <2>1, StaysUnderway DEF SaveEntry, Underway
  <2>6. ASSUME NEW c \in Chats
        PROVE  (saved[c] + Due(c))' <= (answers[c] + faults)'
    <3>1. saved[c] \in Nat /\ answers[c] \in Nat /\ faults \in Nat
          /\ saved[c] + Due(c) <= answers[c] + faults
      BY DEF ChatInv, QueueOK, SavesOK
    <3>2. CASE c = job.chat
      <4>1. Due(c) = 1 /\ Due(c)' = 0
        BY <1>3, <2>1, <3>2 DEF SaveEntry, Due
      <4>2. saved'[c] = saved[c] + 1 /\ answers' = answers /\ faults' = faults
        BY <1>3, <3>2 DEF SaveEntry, ChatInv, QueueOK
      <4> QED
        BY <3>1, <4>1, <4>2
    <3>3. CASE c # job.chat
      <4>1. Due(c)' = Due(c)
        BY <1>3, <3>3 DEF SaveEntry, Due
      <4>2. saved'[c] = saved[c] /\ answers' = answers /\ faults' = faults
        BY <1>3, <3>3 DEF SaveEntry, ChatInv, QueueOK
      <4> QED
        BY <3>1, <4>1, <4>2
    <3> QED
      BY <3>2, <3>3
  <2>7. SavesOK'
    BY <2>6 DEF SavesOK
  <2> QED
    BY <1>3, <2>3, <2>4, <2>5, <2>7, Untouched DEF SaveEntry, ChatInv
<1>4. CASE FindEntry
  <2>1. pc = "act" /\ pc' \in {"replace", "forget"}
    BY <1>4 DEF FindEntry, Wants
  <2>2. entry' \in 1..Len(memory)
    BY <1>4 DEF FindEntry, InMemory
  <2>3. MemoryOK'
    BY <1>1, <1>4, <2>1, <2>2 DEF FindEntry, MemoryOK
  <2>4. TickOK' /\ SavesOK'
    BY <1>4, <2>1, TickGoesOn DEF FindEntry, PCs
  <2>5. StageOK'
    BY <1>4, <2>1, StaysUnderway DEF FindEntry, Underway
  <2> QED
    BY <1>4, <2>3, <2>4, <2>5, Untouched DEF FindEntry, ChatInv
<1>5. CASE ReplaceEntry \/ ForgetEntry
  <2>1. pc \in {"replace", "forget"} /\ pc' = "announce" /\ job.chat \in Chats
    BY <1>2, <1>5 DEF ReplaceEntry, ForgetEntry
  <2>2. entry \in 1..Len(memory)
    BY <1>1, <2>1 DEF ChatInv, MemoryOK
  <2>3. PICK who \in Authors : memory' = [memory EXCEPT ![entry] = who]
    BY <1>5, <2>1 DEF ReplaceEntry, ForgetEntry
  <2>4. memory' \in Seq(Authors) /\ Len(memory') = Len(memory)
    BY <1>1, <2>2, <2>3, ExceptSeq
  <2>5. MemoryOK'
    BY <1>1, <1>5, <2>1, <2>2, <2>4 DEF ReplaceEntry, ForgetEntry, MemoryOK
  <2>6. TickOK' /\ SavesOK'
    BY <1>5, <2>1, TickGoesOn DEF ReplaceEntry, ForgetEntry, PCs
  <2>7. StageOK'
    BY <1>5, <2>1, StaysUnderway DEF ReplaceEntry, ForgetEntry, Underway
  <2> QED
    BY <1>5, <2>5, <2>6, <2>7, Untouched DEF ReplaceEntry, ForgetEntry, ChatInv
<1>6. CASE Announce
  <2>1. pc = "announce" /\ pc' = "reply" /\ job.chat \in Chats
    BY <1>2, <1>6 DEF Announce
  <2>2. entry \in 1..Len(memory)
    BY <1>1, <2>1 DEF ChatInv, MemoryOK
  <2>3. MemoryOK'
    BY <1>1, <1>6, <2>1, <2>2 DEF Announce, MemoryOK
  <2>4. TickOK' /\ SavesOK'
    BY <1>6, <2>1, TickGoesOn DEF Announce, PCs
  <2>5. StageOK'
    BY <1>6, <2>1, StaysUnderway DEF Announce, Underway
  <2> QED
    BY <1>6, <2>3, <2>4, <2>5, Untouched DEF Announce, ChatInv
<1>7. CASE MemoryDone
  <2>1. pc \in {"act", "replace", "forget", "announce"} /\ pc' = "reply"
    BY <1>7 DEF MemoryDone
  <2>2. MemoryOK'
    BY <1>7, <2>1 DEF MemoryDone, ChatInv, MemoryOK
  <2>3. TickOK' /\ SavesOK'
    BY <1>7, <2>1, TickGoesOn DEF MemoryDone, PCs
  <2>4. StageOK'
    BY <1>7, <2>1, StaysUnderway DEF MemoryDone, Underway
  <2> QED
    BY <1>7, <2>2, <2>3, <2>4, Untouched DEF MemoryDone, ChatInv
<1> QED
  BY <1>3, <1>4, <1>5, <1>6, <1>7

-----------------------------------------------------------------------------
(* recordAssistantReply and recordAgentReply.                              *)
LEMMA ReplyStep ==
  ASSUME ChatInv, ReplyAgain \/ RecordReply \/ ReadOwner \/ TouchOwner
  PROVE  ChatInv'
<1> USE DEF tables, row, tick, users, history
<1>1. ASSUME pc # "idle"
      PROVE  job \in Job /\ job.chat \in Chats /\ job.result \in Results /\ Owner(job.chat) \in Owners
  BY <1>1 DEF ChatInv, TickOK, OwnersOK, Owner, Job
<1>2. ASSUME pc \in {"reply", "read", "touch"}, pc' \in {"read", "touch", "complete"},
             UNCHANGED <<memory, cards, entry>>
      PROVE  MemoryOK'
  BY <1>2 DEF ChatInv, MemoryOK
<1>3. CASE ReplyAgain
  <2>1. TickOK' /\ SavesOK'
    BY <1>3, TickGoesOn DEF ReplyAgain, PCs
  <2>2. StageOK'
    BY <1>3 DEF ReplyAgain, ChatInv, StageOK, HasResult, Owner, SameReply, Underway
  <2> QED
    BY <1>2, <1>3, <2>1, <2>2, Untouched DEF ReplyAgain, ChatInv
<1>4. CASE RecordReply
  <2>1. TickOK' /\ SavesOK'
    BY <1>4, TickGoesOn DEF RecordReply, PCs
  <2>2. ShownOK'
    BY <1>1, <1>4 DEF RecordReply, ChatInv, ShownOK
  <2>3. replies'[job.chat] = Shown(job.result)
    BY <1>1, <1>4 DEF RecordReply, ChatInv, ShownOK
  <2>4. StageOK'
    BY <1>4, <2>3 DEF RecordReply, ChatInv, StageOK, HasResult, Owner, SameReply, Underway
  <2>5. status[job.chat] # "completed"
    BY <1>4 DEF RecordReply, ChatInv, StageOK, Underway
  <2>6. AnswerIsRecorded'
    BY <1>4, <2>5 DEF RecordReply, ChatInv, AnswerIsRecorded, ShownOK, Owner
  <2> QED
    BY <1>2, <1>4, <2>1, <2>2, <2>4, <2>6, Untouched DEF RecordReply, ChatInv
<1>5. CASE ReadOwner
  <2>1. pc = "read" /\ pc' \in {"touch", "complete"}
    BY <1>5 DEF ReadOwner
  <2>2. seen' \in Snapshot \cup {Null} /\ (pc' = "touch" => seen' \in Snapshot)
    BY <1>1, <1>5, <2>1 DEF ReadOwner, ChatInv, OwnersOK, Alive
  <2>3. TickOK'
    BY <1>5, <2>1, <2>2 DEF ReadOwner, ChatInv, TickOK, PCs
  <2>4. StageOK'
    BY <1>5, <2>1 DEF ReadOwner, ChatInv, StageOK, HasResult, Owner, SameReply, Underway
  <2>5. SavesOK'
    BY <1>5, <2>1 DEF ReadOwner, ChatInv, SavesOK, Due
  <2> QED
    BY <1>2, <1>5, <2>1, <2>3, <2>4, <2>5, Untouched DEF ReadOwner, ChatInv
<1>6. CASE TouchOwner
  <2>1. seen \in Snapshot /\ Owner(job.chat) \in Owners
    BY <1>1, <1>6 DEF TouchOwner, ChatInv, TickOK
  <2>2. OwnersOK' /\ AgentsOK'
    BY <1>6, <2>1, TouchedIsSound, WriteOwner DEF TouchOwner
  <2>3. TickOK' /\ SavesOK'
    BY <1>6, TickGoesOn DEF TouchOwner, PCs
  <2>4. StageOK'
    BY <1>6 DEF TouchOwner, ChatInv, StageOK, HasResult, Owner, SameReply, Underway
  <2> QED
    BY <1>2, <1>6, <2>2, <2>3, <2>4, Untouched DEF TouchOwner, ChatInv
<1> QED
  BY <1>3, <1>4, <1>5, <1>6

-----------------------------------------------------------------------------
(* The tick leaves nothing behind of its job once it has ended.            *)
LEMMA EndOfTick ==
  ASSUME ChatInv, EndTick, UNCHANGED <<memory, cards>>
  PROVE  MemoryOK' /\ TickOK' /\ StageOK'
<1>1. Len(memory) \in Nat
  BY DEF ChatInv, MemoryOK
<1>2. MemoryOK'
  BY <1>1 DEF ChatInv, EndTick, MemoryOK
<1>3. TickOK' /\ StageOK'
  BY DEF EndTick, TickOK, StageOK, PCs, Underway
<1> QED
  BY <1>2, <1>3

(* completeExecution, and what handleCron does after process.              *)
LEMMA EndStep ==
  ASSUME ChatInv, Complete \/ Recheck \/ Throw \/ Mark
  PROVE  ChatInv'
<1> USE DEF tables, row, tick, users, history
<1>1. ASSUME pc # "idle"
      PROVE  /\ job.chat \in Chats /\ job.result \in Results
             /\ status[job.chat] # "absent"
  BY <1>1 DEF ChatInv, TickOK, StageOK, Job
<1>2. ASSUME pc \notin {"idle", "act", "replace", "forget", "announce"},
             pc' \notin {"idle", "act", "replace", "forget", "announce"},
             UNCHANGED <<memory, cards, entry>>
      PROVE  MemoryOK'
  BY <1>2 DEF ChatInv, MemoryOK
<1>3. CASE Complete
  <2> DEFINE c == job.chat
             end == IF job.result.error THEN "failed" ELSE "completed"
             said1 == [result EXCEPT ![c].reply = job.result.reply]
  <2>1. pc = "complete" /\ pc' = "notify" /\ c \in Chats /\ job.result \in Results
    BY <1>1, <1>3 DEF Complete
  <2>2. HasResult(c) /\ (Owner(c) \in removed \/ SameReply(c, job.result))
    BY <2>1 DEF ChatInv, StageOK, Underway
  <2>3. MemoryOK'
    BY <1>2, <1>3, <2>1 DEF Complete
  <2>4. CASE status[c] \in Terminal
    <3>1. UNCHANGED <<status, result>>
      BY <1>3, <2>4 DEF Complete
    <3>2. TickOK' /\ SavesOK'
      BY <1>3, <2>1, <3>1, TickGoesOn DEF Complete, PCs
    <3>3. StageOK'
      BY <1>1, <1>3, <2>1, <2>4, <3>1 DEF Complete, StageOK, Underway
    <3> QED
      BY <1>3, <2>3, <3>1, <3>2, <3>3, Untouched DEF Complete, ChatInv
  <2>5. CASE status[c] \notin Terminal
    <3>1. /\ status' = [status EXCEPT ![c] = end] /\ end \in Terminal
          /\ result' = IF job.result.error THEN [result EXCEPT ![c] = Null] ELSE said1
      BY <1>3, <2>5 DEF Complete, Terminal
    <3>2. /\ DOMAIN said1 = Chats /\ \A d \in Chats \ {c} : said1[d] = result[d]
          /\ DOMAIN said1[c] = DOMAIN result[c]
          /\ "reply" \in DOMAIN result[c] => said1[c].reply = job.result.reply
      BY <2>1 DEF ChatInv, QueueOK
    <3> HIDE DEF said1, end
    <3>3. DOMAIN said1[c] = {"reply", "error", "action", "target"}
      BY <2>2, <3>2 DEF HasResult
    <3>4. QueueOK'
      <4>1. DOMAIN result' = Chats /\ \A d \in Chats \ {c} : result'[d] = result[d]
        BY <3>1, <3>2 DEF ChatInv, QueueOK
      <4>2. result'[c] # Null => DOMAIN result'[c] = {"reply", "error", "action", "target"}
        BY <2>1, <3>1, <3>3 DEF ChatInv, QueueOK
      <4>3. status' \in [Chats -> {"absent", "queued", "ready"} \cup Terminal]
            /\ \A d \in Chats : status'[d] = "ready" => d # c /\ status[d] = "ready"
        BY <2>1, <3>1 DEF ChatInv, QueueOK, Terminal
      <4> QED
        BY <1>3, <4>1, <4>2, <4>3 DEF Complete, ChatInv, QueueOK, HasResult
    <3>5. SentOK' /\ TickOK'
      BY <1>1, <1>3, <2>1, <3>1 DEF Complete, ChatInv, QueueOK, SentOK, TickOK, PCs, Terminal
    <3>6. StageOK'
      BY <1>3, <2>1, <3>1 DEF Complete, ChatInv, QueueOK, StageOK, Underway, Terminal
    <3>7. AnswerIsRecorded'
      <4>1. ASSUME NEW d \in Chats, status'[d] = "completed", d \notin reopened, Owner(d) \notin removed
            PROVE  replies[d] = [text |-> result'[d].reply, error |-> FALSE]
        <5>1. CASE d # c
          BY <3>1, <3>2, <4>1, <5>1 DEF ChatInv, QueueOK, AnswerIsRecorded
        <5>2. CASE d = c
          <6>1. ~job.result.error /\ result' = said1
            BY <2>1, <3>1, <4>1, <5>2 DEF ChatInv, QueueOK, end
          <6>2. job.result.error = FALSE
            BY <2>1, <6>1, ChatAssumption
          <6>3. replies[c] = [text |-> job.result.reply, error |-> FALSE]
            BY <2>2, <4>1, <5>2, <6>2 DEF SameReply, Shown
          <6> QED
            BY <2>2, <3>2, <5>2, <6>1, <6>3 DEF HasResult
        <5> QED
          BY <5>1, <5>2
      <4> QED
        BY <1>3, <4>1 DEF Complete, AnswerIsRecorded, Owner
    <3>8. SavesOK'
      BY <1>3, <2>1, <3>1 DEF Complete, ChatInv, SavesOK, QueueOK, Due, Terminal
    <3> QED
      BY <1>3, <2>3, <3>4, <3>5, <3>6, <3>7, <3>8, Untouched DEF Complete, ChatInv
  <2> QED
    BY <2>4, <2>5
<1>4. CASE Recheck
  <2>1. pc = "notify" /\ job.chat \in Chats
    BY <1>1, <1>4 DEF Recheck
  <2>2. CASE status[job.chat] \in Terminal /\ EndTick
    <3>1. SavesOK'
      BY <1>4, <2>1, <2>2 DEF Recheck, EndTick, ChatInv, SavesOK, Due, Terminal
    <3> QED
      BY <1>4, <2>2, <3>1, EndOfTick, Untouched DEF Recheck, ChatInv
  <2>3. CASE status[job.chat] \notin Terminal /\ pc' = "markCompleted" /\ UNCHANGED <<job, entry, seen>>
    <3>1. TickOK' /\ SavesOK'
      BY <1>4, <2>1, <2>3, TickGoesOn DEF Recheck, PCs
    <3>2. StageOK' /\ MemoryOK'
      BY <1>1, <1>2, <1>4, <2>1, <2>3 DEF Recheck, ChatInv, StageOK, Underway
    <3> QED
      BY <1>4, <3>1, <3>2, Untouched DEF Recheck, ChatInv
  <2> QED
    BY <1>4, <2>2, <2>3 DEF Recheck
<1>5. CASE Throw
  <2>1. pc # "idle" /\ pc' = "markFailed"
    BY <1>5 DEF Throw
  <2>2. TickOK' /\ SavesOK'
    BY <1>5, <2>1, TickGoesOn DEF Throw, PCs
  <2>3. StageOK' /\ MemoryOK'
    BY <1>1, <1>5, <2>1 DEF Throw, ChatInv, MemoryOK, StageOK, Underway
  <2> QED
    BY <1>5, <2>2, <2>3, Untouched DEF Throw, ChatInv
<1>6. CASE Mark
  <2> DEFINE c == job.chat
  <2>1. pc \in {"markCompleted", "markFailed"} /\ c \in Chats
    BY <1>1, <1>6 DEF Mark
  <2>2. PICK to \in Terminal : UpdateStatus(c, to) /\ (to = "completed" => c \in reopened)
    BY <1>6, <2>1 DEF Mark, ChatInv, StageOK, Terminal
  <2>3. status' = [status EXCEPT ![c] = to] /\ fence' \in {fence, [fence EXCEPT ![c] = FALSE]}
    BY <2>2 DEF UpdateStatus, ChatInv, QueueOK
  <2>4. QueueOK' /\ SentOK'
    BY <1>1, <1>6, <2>1, <2>2, <2>3 DEF Mark, ChatInv, QueueOK, SentOK, HasResult, Terminal
  <2>5. AnswerIsRecorded'
    BY <1>6, <2>1, <2>2, <2>3 DEF Mark, ChatInv, QueueOK, AnswerIsRecorded, Owner
  <2>6. SavesOK'
    <3>1. ASSUME NEW d \in Chats
          PROVE  Due(d)' <= Due(d) /\ Due(d) \in Nat /\ Due(d)' \in Nat
      BY <1>6, <2>1, <2>2, <2>3 DEF Mark, EndTick, ChatInv, QueueOK, Due, Terminal
    <3>2. ASSUME NEW d \in Chats
          PROVE  saved[d] \in Nat /\ answers[d] \in Nat /\ faults \in Nat
      BY DEF ChatInv, QueueOK
    <3> QED
      BY <1>6, <3>1, <3>2 DEF Mark, ChatInv, SavesOK
  <2> QED
    BY <1>6, <2>4, <2>5, <2>6, EndOfTick, Untouched DEF Mark, ChatInv
<1> QED
  BY <1>3, <1>4, <1>5, <1>6

-----------------------------------------------------------------------------
(* An owner goes with its messages.                                        *)
LEMMA DropKeeps ==
  ASSUME ChatInv, NEW o \in Owners, DropOwner(o), edit' = edit,
         UNCHANGED <<ownerOf, memory, entry, pc, job, status, result, reopened>>
  PROVE  OwnersOK' /\ ShownOK' /\ MemoryOK' /\ AgentsOK' /\ StageOK' /\ AnswerIsRecorded'
<1>1. OwnersOK' /\ ShownOK'
  BY DEF DropOwner, ChatInv, OwnersOK, ShownOK
<1>2. MemoryOK'
  BY DEF DropOwner, ChatInv, MemoryOK
<1>3. AgentsOK'
  BY DEF DropOwner, ChatInv, OwnersOK, AgentsOK, PinnedNeverExpires, Alive, Consistent, Owners
<1>4. pc # "idle" => job.chat \in Chats
  BY DEF ChatInv, TickOK, Job
<1>5. \A c \in Chats : Owner(c)' = Owner(c) /\ (Owner(c) \notin removed' => replies'[c] = replies[c])
  BY DEF DropOwner, Owner
<1>6. removed \subseteq removed'
  BY DEF DropOwner
<1>7. StageOK'
  BY <1>4, <1>5, <1>6 DEF ChatInv, StageOK, HasResult, SameReply, Underway
<1>8. AnswerIsRecorded'
  BY <1>5, <1>6 DEF ChatInv, AnswerIsRecorded
<1> QED
  BY <1>1, <1>2, <1>3, <1>7, <1>8

(* Users and the daily cleanup.                                            *)
LEMMA UserStep ==
  ASSUME ChatInv,
         \/ \E a \in Agents : EditRead(a) \/ Remove(a) \/ Expire(a) \/ RemoveExpired(a)
         \/ \E pin \in BOOLEAN : EditSave(pin)
         \/ ListExpired
         \/ \E i \in 1..Len(memory) : RemoveMemory(i)
  PROVE  ChatInv'
<1> USE DEF tables, row, tick, users, history
<1>1. ASSUME NEW a \in Agents
      PROVE  a \in Owners /\ (Alive(a) => owner[a] \in Snapshot /\ Consistent(owner[a]))
  BY DEF ChatInv, OwnersOK, AgentsOK, PinnedNeverExpires, Alive, Consistent, Owners
<1>2. ASSUME NEW a \in Agents, EditRead(a)
      PROVE  ChatInv'
  <2>1. UsersOK' /\ AgentsOK'
    BY <1>1, <1>2 DEF EditRead, ChatInv, UsersOK, AgentsOK, PinnedNeverExpires, Alive, Consistent
  <2> QED
    BY <1>2, <2>1, Untouched DEF EditRead, ChatInv
<1>3. ASSUME NEW a \in Agents, Remove(a)
      PROVE  ChatInv'
  BY <1>1, <1>3, DropKeeps, Untouched DEF Remove, ChatInv
<1>4. ASSUME NEW a \in Agents, Expire(a)
      PROVE  ChatInv'
  <2>1. [owner[a] EXCEPT !.expiry = "past"] \in Snapshot
        /\ Consistent([owner[a] EXCEPT !.expiry = "past"])
    BY <1>1, <1>4 DEF Expire, Snapshot, Consistent
  <2>2. owner' = [owner EXCEPT ![a] = [owner[a] EXCEPT !.expiry = "past"]]
    BY <1>4 DEF Expire
  <2>3. OwnersOK' /\ AgentsOK'
    BY <1>1, <1>4, <2>1, <2>2, WriteOwner DEF Expire
  <2> QED
    BY <1>4, <2>3, Untouched DEF Expire, ChatInv
<1>5. ASSUME NEW a \in Agents, RemoveExpired(a)
      PROVE  ChatInv'
  <2>1. UsersOK'
    BY <1>5 DEF RemoveExpired, ChatInv, UsersOK
  <2>2. CASE DropOwner(a)
    BY <1>1, <1>5, <2>1, <2>2, DropKeeps, Untouched DEF RemoveExpired, ChatInv
  <2>3. CASE UNCHANGED <<owner, said, replies, cards, removed>>
    BY <1>5, <2>1, <2>3, Untouched DEF RemoveExpired, ChatInv
  <2> QED
    BY <1>5, <2>2, <2>3 DEF RemoveExpired
<1>6. ASSUME NEW pin \in BOOLEAN, EditSave(pin)
      PROVE  ChatInv'
  <2> DEFINE s == IF pin = edit.read.pinned THEN edit.read
                  ELSE [pinned |-> pin, expiry |-> IF pin THEN "none" ELSE "future"]
  <2>1. edit.agent \in Owners /\ edit.read \in Snapshot /\ Consistent(edit.read)
    BY <1>6 DEF EditSave, ChatInv, UsersOK, AgentsOK, Owners
  <2>2. s \in Snapshot /\ Consistent(s)
    BY <2>1 DEF Snapshot, Consistent
  <2>3. owner' = [owner EXCEPT ![edit.agent] = s] /\ edit' = Null
    BY <1>6 DEF EditSave
  <2> HIDE DEF s
  <2>4. OwnersOK' /\ AgentsOK'
    BY <1>6, <2>1, <2>2, <2>3, WriteOwner DEF EditSave
  <2>5. UsersOK'
    BY <1>6 DEF EditSave, ChatInv, UsersOK
  <2> QED
    BY <1>6, <2>4, <2>5, Untouched DEF EditSave, ChatInv
<1>7. CASE ListExpired
  <2>1. UsersOK'
    BY <1>7 DEF ListExpired, ChatInv, UsersOK
  <2> QED
    BY <1>7, <2>1, Untouched DEF ListExpired, ChatInv
<1>8. ASSUME NEW i \in 1..Len(memory), RemoveMemory(i)
      PROVE  ChatInv'
  <2>1. memory' \in Seq(Chats \cup {Manual, Null}) /\ Len(memory') = Len(memory)
    BY <1>8, ExceptSeq DEF RemoveMemory, ChatInv, MemoryOK
  <2>2. MemoryOK'
    BY <1>8, <2>1 DEF RemoveMemory, ChatInv, MemoryOK
  <2> QED
    BY <1>8, <2>2, Untouched DEF RemoveMemory, ChatInv
<1> QED
  BY <1>2, <1>3, <1>4, <1>5, <1>6, <1>7, <1>8

(* A restart: an action that was done may be due again, and is counted.    *)
LEMMA FaultStep ==
  ASSUME ChatInv, Fault
  PROVE  ChatInv'
<1> USE DEF tables, row, tick, users, history
<1>1. MaxFaults \in Nat
  BY ChatAssumption
<1>2. UsersOK' /\ SentOK' /\ AgentsOK'
  BY DEF Fault, ChatInv, UsersOK, SentOK, AgentsOK, PinnedNeverExpires, Alive, Consistent
<1>3. QueueOK'
  BY <1>1 DEF Fault, ChatInv, QueueOK, HasResult
<1>4. ASSUME NEW c \in Chats
      PROVE  (saved[c] + Due(c))' <= (answers[c] + faults)'
  <2>1. saved[c] \in Nat /\ answers[c] \in Nat /\ faults \in Nat
        /\ saved[c] + Due(c) <= answers[c] + faults
    BY DEF ChatInv, QueueOK, SavesOK
  <2>2. Due(c) \in {0, 1} /\ Due(c)' \in {0, 1}
    BY DEF Due
  <2>3. faults' = faults + 1 /\ saved' = saved /\ answers' = answers
    BY DEF Fault
  <2> QED
    BY <2>1, <2>2, <2>3
<1>5. SavesOK'
  BY <1>4 DEF SavesOK
<1> QED
  BY <1>2, <1>3, <1>5, EndOfTick, Untouched DEF Fault, ChatInv

-----------------------------------------------------------------------------
LEMMA ChatStep == ChatInv /\ [Next]_vars => ChatInv'
<1> SUFFICES ASSUME ChatInv, [Next]_vars
             PROVE  ChatInv'
  OBVIOUS
<1>1. CASE UNCHANGED vars
  BY <1>1, Untouched DEF vars, tables, row, tick, users, history, ChatInv
<1>2. CASE \E c \in Chats : \/ SendRead(c) \/ SendStore(c) \/ SendTouch(c) \/ SendQueue(c) \/ SendThrow(c)
                            \/ (\E r \in Results : Answer(c, r)) \/ LoseAttempt(c) \/ Recover(c)
                            \/ Pick(c)
  BY <1>2, SendStep, QueueStep, PickStep
<1> QED
  BY <1>1, <1>2, MemoryStep, ReplyStep, EndStep, UserStep, FaultStep DEF Next

LEMMA ChatHolds == Spec => []ChatInv
BY ChatInit, ChatStep, PTL DEF Spec

(* Rows, messages, memory and control points keep their types, for any     *)
(* number of chats, agents, results, attempts and restarts.                *)
THEOREM ChatTyping == Spec => []TypeOK
<1>1. ChatInv => TypeOK
  BY DEF ChatInv, TypeOK, OwnersOK, UsersOK, ShownOK, MemoryOK, QueueOK, HasResult, TickOK, PCs
<1> QED
  BY <1>1, ChatHolds, PTL

(* Whatever is answered, lost and requeued between the transaction that    *)
(* stores the reply and the one that completes the execution, a completed  *)
(* chat shows the result of its execution.                                 *)
THEOREM CompletedChatsShowTheirAnswer == Spec => []AnswerIsRecorded
<1>1. ChatInv => AnswerIsRecorded
  BY DEF ChatInv
<1> QED
  BY <1>1, ChatHolds, PTL

(* An answer is saved to the memory at most once, but for restarts of the  *)
(* backend, each of which may repeat one save.                             *)
THEOREM SavesAreCounted == Spec => []SavesPerAnswer
<1>1. ChatInv => SavesPerAnswer
  <2> SUFFICES ASSUME ChatInv, NEW c \in Chats
               PROVE  saved[c] <= answers[c] + faults
    BY DEF SavesPerAnswer
  <2>1. saved[c] \in Nat /\ answers[c] \in Nat /\ faults \in Nat
        /\ saved[c] + Due(c) <= answers[c] + faults
    BY DEF ChatInv, QueueOK, SavesOK
  <2>2. Due(c) \in Nat
    BY DEF Due
  <2> QED
    BY <2>1, <2>2
<1> QED
  BY <1>1, ChatHolds, PTL

(* However messages, edits and replies overwrite the agent they have read, *)
(* a pinned agent has no date and every other one has.                     *)
THEOREM PinnedAgentsStay == Spec => []PinnedNeverExpires
<1>1. ChatInv => PinnedNeverExpires
  BY DEF ChatInv, AgentsOK
<1> QED
  BY <1>1, ChatHolds, PTL

(* No step changes a reply that is shown; it goes with its owner.          *)
THEOREM RepliesStay == Spec => RepliesAreFinal
<1>1. ASSUME ChatInv, [Next]_vars, NEW c \in Chats, replies[c] # Null
      PROVE  replies'[c] = replies[c] \/ ~Alive(Owner(c))'
  <2> USE DEF tables, row, tick, users, history
  <2>1. CASE RecordReply
    BY <1>1, <2>1 DEF RecordReply, ChatInv, ShownOK
  <2>2. ASSUME NEW a \in Agents, Remove(a) \/ RemoveExpired(a)
        PROVE  replies'[c] = replies[c] \/ ~Alive(Owner(c))'
    <3>1. CASE UNCHANGED replies
      BY <3>1
    <3>2. CASE DropOwner(a) /\ UNCHANGED ownerOf
      <4>1. a \in Owners /\ owner'[a] = Null
        BY <1>1, <3>2 DEF DropOwner, ChatInv, OwnersOK, Owners
      <4> QED
        BY <3>2, <4>1 DEF DropOwner, Alive, Owner
    <3> QED
      BY <2>2, <3>1, <3>2 DEF Remove, RemoveExpired
  <2>3. CASE UNCHANGED replies
    BY <2>3
  <2>4. UNCHANGED replies \/ RecordReply \/ \E a \in Agents : Remove(a) \/ RemoveExpired(a)
    <3>1. CASE UNCHANGED vars
      BY <3>1 DEF vars
    <3>2. ASSUME NEW d \in Chats,
                 \/ SendRead(d) \/ SendStore(d) \/ SendTouch(d) \/ SendQueue(d) \/ SendThrow(d)
                 \/ (\E r \in Results : Answer(d, r)) \/ LoseAttempt(d) \/ Recover(d) \/ Pick(d)
          PROVE  UNCHANGED replies
      BY <3>2 DEF SendRead, SendStore, SendTouch, SendQueue, SendThrow, Answer, LoseAttempt, Recover, Pick
    <3>3. CASE SaveEntry \/ FindEntry \/ ReplaceEntry \/ ForgetEntry \/ Announce \/ MemoryDone
      BY <3>3 DEF SaveEntry, FindEntry, ReplaceEntry, ForgetEntry, Announce, MemoryDone
    <3>4. CASE ReplyAgain \/ ReadOwner \/ TouchOwner \/ Complete \/ Recheck \/ Throw \/ Mark
      BY <3>4 DEF ReplyAgain, ReadOwner, TouchOwner, Complete, Recheck, Throw, Mark
    <3>5. CASE (\E a \in Agents : EditRead(a) \/ Expire(a)) \/ (\E pin \in BOOLEAN : EditSave(pin))
               \/ ListExpired \/ (\E i \in 1..Len(memory) : RemoveMemory(i)) \/ Fault
      BY <3>5 DEF EditRead, Expire, EditSave, ListExpired, RemoveMemory, Fault
    <3> QED
      BY <1>1, <3>1, <3>2, <3>3, <3>4, <3>5 DEF Next
  <2> QED
    BY <2>1, <2>2, <2>3, <2>4
<1>2. ChatInv /\ [Next]_vars =>
        [\A c \in Chats : replies[c] # Null => replies'[c] = replies[c] \/ ~Alive(Owner(c))']_vars
  BY <1>1
<1> QED
  BY <1>2, ChatHolds, PTL DEF Spec, RepliesAreFinal
=============================================================================
