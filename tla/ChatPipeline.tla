---------------------------- MODULE ChatPipeline ----------------------------
(***************************************************************************)
(* A chat from the user's message to the reply, in the tables of the       *)
(* assistants and agents (src/src/assistant, agent, assistant-memory and   *)
(* the processor of src/src/execution-processor for chats).  HTTP handlers *)
(* store the message and queue the execution; the tick of handleCron       *)
(* carries out the memory action of the result, stores the reply, touches  *)
(* its owner and completes the execution, each in a transaction of its     *)
(* own.  Meanwhile users edit and remove owners and memories, agents       *)
(* expire, the queue may take an execution back, and the backend restarts. *)
(*                                                                         *)
(* The life cycle of the execution is that of ExecutionQueue with claims   *)
(* and answers of workers in one step; fence[c] says that the row still    *)
(* has the attempt that answered, which is all that stale recovery asks.   *)
(* A save of TypeORM writes back every column that was read earlier and    *)
(* inserts the row again if it is gone.                                    *)
(***************************************************************************)
EXTENDS Integers, Sequences

CONSTANTS
  Chats,        (* execution ids of chats                                  *)
  Personal,     (* the assistant with isSystem: it has the memory          *)
  Agents,       (* agents; they expire unless pinned                       *)
  Results,      (* results of workers: [reply, error, action, target]      *)
  Manual,       (* a memory written by the user                            *)
  MaxAttempts,  (* column max_attempts                                     *)
  MaxFaults,    (* bound: restarts of the backend                          *)
  Null          (* SQL NULL; nothing under way                             *)

Owners   == Agents \cup {Personal}
Terminal == {"completed", "failed"}
Actions  == {"none", "save", "replace", "forget"}
Snapshot == [pinned : BOOLEAN, expiry : {"none", "future", "past"}]

ASSUME ChatAssumption ==
  /\ Personal \notin Agents /\ Null \notin Chats \cup Owners \cup Results
  /\ Manual \notin Chats \cup {Null}
  /\ \A r \in Results : /\ DOMAIN r = {"reply", "error", "action", "target"}
                        /\ r.reply # Null /\ r.error \in BOOLEAN
                        /\ r.action \in Actions /\ r.target \in Nat
  /\ Null \notin Snapshot /\ Null \notin [chat : Chats, result : Results]
  /\ MaxAttempts \in Nat \ {0} /\ MaxFaults \in Nat

VARIABLES
  ownerOf,   (* payload.ownerId of each chat                               *)
  owner,     (* rows of the owners: pinned and expiresAt, or Null          *)
  sending,   (* sendMessage of each chat: control point and the row read   *)
  said,      (* chats whose user message is stored                         *)
  replies,   (* the stored reply of each chat, as Shown of it, or Null     *)
  cards,     (* event messages: <<chat, memory entry>>                     *)
  memory,    (* entries by id: who wrote them, Null once removed           *)
  status, result, fence, attempts,   (* the execution of each chat         *)
  pc, job, entry, seen,  (* the tick: control point, execution and result  *)
             (* it read, entry it changed, owner row it read               *)
  edit,      (* AgentService.update: the row it read, or Null              *)
  expired,   (* runDailyCleanup: agents listed and not yet removed         *)
  faults,    (* restarts so far                                            *)
  saved, answers, reopened, removed   (* history: entries created and      *)
             (* results per chat; chats requeued after their end; owners   *)
             (* that were ever removed                                     *)

tables  == <<owner, said, replies, cards, memory>>
row     == <<status, result, fence, attempts>>
tick    == <<pc, job, entry, seen>>
users   == <<sending, edit, expired>>
history == <<saved, answers, reopened, removed>>
vars    == <<ownerOf, tables, row, tick, users, faults, history>>

Owner(c) == ownerOf[c]
Alive(o) == owner[o] # Null

(* What the chat shows of a result: its text and whether it is an error.   *)
(* The redaction of the text in the row of the execution is left out.      *)
Shown(r) == [text |-> r.reply, error |-> r.error]
-----------------------------------------------------------------------------
Init ==
  /\ ownerOf \in [Chats -> Owners]
  /\ owner = [o \in Owners |-> [pinned |-> FALSE, expiry |-> IF o = Personal THEN "none" ELSE "future"]]
  /\ sending  = [c \in Chats |-> [at |-> "new", read |-> Null]]
  /\ said = {} /\ cards = {}
  /\ replies  = [c \in Chats |-> Null]
  /\ memory   = <<Manual>>
  /\ status   = [c \in Chats |-> "absent"]
  /\ result   = [c \in Chats |-> Null]
  /\ fence    = [c \in Chats |-> FALSE]
  /\ attempts = [c \in Chats |-> 0]
  /\ pc = "idle" /\ job = Null /\ entry = 0 /\ seen = Null
  /\ edit = Null /\ expired = {} /\ faults = 0
  /\ saved    = [c \in Chats |-> 0]
  /\ answers  = [c \in Chats |-> 0]
  /\ reopened = {} /\ removed = {}

(* Faulty: every interaction sets a date.                                  *)
TouchedAlways(o, s) == [pinned |-> s.pinned, expiry |-> IF o \in Agents THEN "future" ELSE "none"]

(* touchInteraction, on a row read earlier (assistants only set lastSeen). *)
Touched(o, s) ==
  IF o \notin Agents THEN s
  ELSE [s EXCEPT !.expiry = IF s.pinned THEN "none" ELSE "future"]

(* sendMessage reads the owner, stores the message, saves the touched row  *)
(* and queues the execution.                                               *)
SendRead(c) ==
  /\ sending[c].at = "new" /\ Alive(Owner(c))
  /\ sending' = [sending EXCEPT ![c] = [at |-> "read", read |-> owner[Owner(c)]]]
  /\ UNCHANGED <<ownerOf, tables, row, tick, edit, expired, faults, history>>

SendStore(c) ==
  /\ sending[c].at = "read" /\ Alive(Owner(c))
  /\ said' = said \cup {c}
  /\ sending' = [sending EXCEPT ![c].at = "stored"]
  /\ UNCHANGED <<ownerOf, owner, replies, cards, memory, row, tick, edit, expired, faults, history>>

SendTouch(c) ==
  /\ sending[c].at = "stored"
  /\ owner' = [owner EXCEPT ![Owner(c)] = Touched(Owner(c), sending[c].read)]
  /\ sending' = [sending EXCEPT ![c].at = "touched"]
  /\ UNCHANGED <<ownerOf, said, replies, cards, memory, row, tick, edit, expired, faults, history>>

SendQueue(c) ==
  /\ sending[c].at = "touched"
  /\ status' = [status EXCEPT ![c] = "queued"]
  /\ sending' = [sending EXCEPT ![c] = [at |-> "sent", read |-> Null]]
  /\ UNCHANGED <<ownerOf, tables, result, fence, attempts, tick, edit, expired, faults, history>>

(* A step of it throws (the message finds its owner gone).                 *)
SendThrow(c) ==
  /\ sending[c].at \in {"read", "stored", "touched"}
  /\ sending' = [sending EXCEPT ![c] = [at |-> "lost", read |-> Null]]
  /\ UNCHANGED <<ownerOf, tables, row, tick, edit, expired, faults, history>>
-----------------------------------------------------------------------------
(* The execution queue.  A worker answers, or loses its attempt.           *)
Answer(c, r) ==
  /\ status[c] = "queued" /\ attempts[c] < MaxAttempts
  /\ status'   = [status EXCEPT ![c] = "ready"]
  /\ result'   = [result EXCEPT ![c] = r]
  /\ fence'    = [fence EXCEPT ![c] = TRUE]
  /\ attempts' = [attempts EXCEPT ![c] = @ + 1]
  /\ answers'  = [answers EXCEPT ![c] = @ + 1]
  /\ UNCHANGED <<ownerOf, tables, tick, users, faults, saved, reopened, removed>>

LoseAttempt(c) ==
  /\ status[c] = "queued" /\ attempts[c] < MaxAttempts
  /\ attempts' = [attempts EXCEPT ![c] = @ + 1]
  /\ status' = [status EXCEPT ![c] = IF attempts[c] + 1 >= MaxAttempts THEN "failed" ELSE "queued"]
  /\ UNCHANGED <<ownerOf, tables, result, fence, tick, users, faults, history>>

(* updateStatus, which clears the attempt.                                 *)
UpdateStatus(c, to) ==
  IF status[c] = to THEN UNCHANGED <<status, fence>>
  ELSE status' = [status EXCEPT ![c] = to] /\ fence' = [fence EXCEPT ![c] = FALSE]

(* Stale recovery listed the row before it was answered and updates it now *)
(* that its attempt is still the same, whatever became of it.              *)
Recover(c) ==
  /\ fence[c]
  /\ UpdateStatus(c, IF attempts[c] >= MaxAttempts THEN "failed" ELSE "queued")
  /\ reopened' = IF status[c] \in Terminal THEN reopened \cup {c} ELSE reopened
  /\ UNCHANGED <<ownerOf, tables, result, attempts, tick, users, faults, saved, answers, removed>>
-----------------------------------------------------------------------------
(* The tick reads a row that is ready, with its result.                    *)
Pick(c) ==
  /\ pc = "idle" /\ status[c] = "ready"
  /\ pc' = "act" /\ job' = [chat |-> c, result |-> result[c]]
  /\ UNCHANGED <<ownerOf, tables, row, entry, seen, users, faults, history>>

(* The memory action.  Whatever throws in it is caught, and the reply      *)
(* follows; only the personal assistant has a memory.                      *)
(*                                                                         *)
(* A save first looks for a similar entry, with a memory-search execution  *)
(* that it polls.  That execution would be completed by the very tick that *)
(* polls it, so the search times out and the entry is always created.      *)
Wants(a)   == pc = "act" /\ job.result.action = a
Target     == job.result.target
InMemory   == Target \in 1..Len(memory) /\ memory[Target] # Null
Remembers  == Owner(job.chat) = Personal

SaveEntry ==
  /\ Wants("save") /\ Remembers
  /\ memory' = Append(memory, job.chat)
  /\ entry' = Len(memory') /\ pc' = "announce"
  /\ saved' = [saved EXCEPT ![job.chat] = @ + 1]
  /\ UNCHANGED <<ownerOf, owner, said, replies, cards, row, job, seen, users, faults>>
  /\ UNCHANGED <<answers, reopened, removed>>

(* replace and forget read the entry ...                                   *)
FindEntry ==
  /\ Wants("replace") \/ Wants("forget")
  /\ Remembers /\ InMemory
  /\ entry' = Target /\ pc' = job.result.action
  /\ UNCHANGED <<ownerOf, tables, row, job, seen, users, faults, history>>

(* ... and then write or remove it.                                        *)
ReplaceEntry ==
  /\ pc = "replace"
  /\ memory' = [memory EXCEPT ![entry] = job.chat]
  /\ pc' = "announce"
  /\ UNCHANGED <<ownerOf, owner, said, replies, cards, row, job, entry, seen, users, faults, history>>

ForgetEntry ==
  /\ pc = "forget" /\ memory[entry] # Null
  /\ memory' = [memory EXCEPT ![entry] = Null]
  /\ pc' = "announce"
  /\ UNCHANGED <<ownerOf, owner, said, replies, cards, row, job, entry, seen, users, faults, history>>

Announce ==
  /\ pc = "announce"
  /\ cards' = cards \cup {<<job.chat, entry>>}
  /\ pc' = "reply"
  /\ UNCHANGED <<ownerOf, owner, said, replies, memory, row, job, entry, seen, users, faults, history>>

(* Faulty: an action that fails is tried again.                            *)
MemoryRetry ==
  /\ pc \in {"act", "replace", "forget", "announce"}
  /\ IF pc = "announce" THEN pc' = "act" /\ entry' = 0 ELSE pc' = "reply" /\ entry' = entry
  /\ UNCHANGED <<ownerOf, tables, row, job, seen, users, faults, history>>

(* No action, one that does not apply, or one that throws.                 *)
MemoryDone ==
  /\ pc \in {"act", "replace", "forget", "announce"}
  /\ pc' = "reply"
  /\ UNCHANGED <<ownerOf, tables, row, job, entry, seen, users, faults, history>>

(* Faulty: any reply of the execution will do.                             *)
SameReplyLoosely(c, r) == replies[c] # Null

(* recordAssistantReply, recordAgentReply.  A reply that is stored already *)
(* is returned if it is the same one, and otherwise a conflict; a reply    *)
(* whose owner is gone violates a foreign key.                             *)
SameReply(c, r) == replies[c] = Shown(r)

ReplyAgain ==
  /\ pc = "reply" /\ SameReply(job.chat, job.result)
  /\ pc' = "complete"
  /\ UNCHANGED <<ownerOf, tables, row, job, entry, seen, users, faults, history>>

(* Faulty: the reply is saved without a look at the one there is.          *)
RecordAlways ==
  /\ pc = "reply" /\ Alive(Owner(job.chat))
  /\ replies' = [replies EXCEPT ![job.chat] = Shown(job.result)]
  /\ pc' = "read"
  /\ UNCHANGED <<ownerOf, owner, said, cards, memory, row, job, entry, seen, users, faults, history>>

RecordReply ==
  /\ pc = "reply" /\ replies[job.chat] = Null /\ Alive(Owner(job.chat))
  /\ replies' = [replies EXCEPT ![job.chat] = Shown(job.result)]
  /\ pc' = "read"
  /\ UNCHANGED <<ownerOf, owner, said, cards, memory, row, job, entry, seen, users, faults, history>>

ReadOwner ==
  /\ pc = "read"
  /\ seen' = owner[Owner(job.chat)]
  /\ pc' = IF Alive(Owner(job.chat)) THEN "touch" ELSE "complete"
  /\ UNCHANGED <<ownerOf, tables, row, job, entry, users, faults, history>>

TouchOwner ==
  /\ pc = "touch"
  /\ owner' = [owner EXCEPT ![Owner(job.chat)] = Touched(Owner(job.chat), seen)]
  /\ pc' = "complete"
  /\ UNCHANGED <<ownerOf, said, replies, cards, memory, row, job, entry, seen, users, faults, history>>

(* completeExecution, with the reply that the tick read.                   *)
Complete ==
  /\ pc = "complete" /\ pc' = "notify"
  /\ IF status[job.chat] \in Terminal THEN UNCHANGED <<status, result>>
     ELSE /\ status' = [status EXCEPT ![job.chat] = IF job.result.error THEN "failed" ELSE "completed"]
          /\ result' = IF job.result.error THEN [result EXCEPT ![job.chat] = Null]
                       ELSE [result EXCEPT ![job.chat].reply = job.result.reply]
  /\ UNCHANGED <<ownerOf, tables, fence, attempts, job, entry, seen, users, faults, history>>

EndTick == pc' = "idle" /\ job' = Null /\ entry' = 0 /\ seen' = Null

(* handleCron after process: the row is read again.                        *)
Recheck ==
  /\ pc = "notify"
  /\ \/ status[job.chat] \in Terminal /\ EndTick
     \/ status[job.chat] \notin Terminal /\ pc' = "markCompleted" /\ UNCHANGED <<job, entry, seen>>
  /\ UNCHANGED <<ownerOf, tables, row, users, faults, history>>

(* What process throws (a conflict, a failed transaction or push) fails    *)
(* the execution.                                                          *)
Throw ==
  /\ pc \in {"act", "reply", "read", "touch", "complete", "notify", "markCompleted"}
  /\ pc' = "markFailed"
  /\ UNCHANGED <<ownerOf, tables, row, job, entry, seen, users, faults, history>>

Mark ==
  /\ pc \in {"markCompleted", "markFailed"}
  /\ UpdateStatus(job.chat, IF pc = "markCompleted" THEN "completed" ELSE "failed")
  /\ EndTick
  /\ UNCHANGED <<ownerOf, tables, result, attempts, users, faults, history>>
-----------------------------------------------------------------------------
(* AgentService.update reads the agent, and saves it after an await; of    *)
(* the columns only pinned and expiresAt are kept here.                    *)
EditRead(a) ==
  /\ edit = Null /\ Alive(a)
  /\ edit' = [agent |-> a, read |-> owner[a]]
  /\ UNCHANGED <<ownerOf, tables, row, tick, sending, expired, faults, history>>

EditSave(pin) ==
  /\ edit # Null /\ edit' = Null
  /\ owner' = [owner EXCEPT ![edit.agent] =
                 IF pin = edit.read.pinned THEN edit.read
                 ELSE [pinned |-> pin, expiry |-> IF pin THEN "none" ELSE "future"]]
  /\ UNCHANGED <<ownerOf, said, replies, cards, memory, row, tick, sending, expired, faults, history>>

(* AgentService.remove: the messages go with the agent.                    *)
DropOwner(o) ==
  /\ owner'   = [owner EXCEPT ![o] = Null]
  /\ said'    = {c \in said : Owner(c) # o}
  /\ replies' = [c \in Chats |-> IF Owner(c) = o THEN Null ELSE replies[c]]
  /\ cards'   = {k \in cards : Owner(k[1]) # o}
  /\ removed' = removed \cup {o}

Remove(a) ==
  /\ Alive(a) /\ DropOwner(a)
  /\ UNCHANGED <<ownerOf, memory, row, tick, users, faults, saved, answers, reopened>>

(* Time passes; once a day the expired agents are listed, and then removed *)
(* one by one.                                                             *)
Expire(a) ==
  /\ Alive(a) /\ owner[a].expiry = "future"
  /\ owner' = [owner EXCEPT ![a].expiry = "past"]
  /\ UNCHANGED <<ownerOf, said, replies, cards, memory, row, tick, users, faults, history>>

ListExpired ==
  /\ expired = {}
  /\ expired' = {a \in Agents : Alive(a) /\ owner[a].expiry = "past"}
  /\ expired' # {}
  /\ UNCHANGED <<ownerOf, tables, row, tick, sending, edit, faults, history>>

RemoveExpired(a) ==
  /\ a \in expired /\ expired' = expired \ {a}
  /\ \/ Alive(a) /\ DropOwner(a)
     \/ UNCHANGED <<owner, said, replies, cards, removed>>   (* it is gone, or remove throws *)
  /\ UNCHANGED <<ownerOf, memory, row, tick, sending, edit, faults, saved, answers, reopened>>

(* The user removes a memory.                                              *)
RemoveMemory(i) ==
  /\ memory[i] # Null
  /\ memory' = [memory EXCEPT ![i] = Null]
  /\ UNCHANGED <<ownerOf, owner, said, replies, cards, row, tick, users, faults, history>>

(* The backend restarts: tick, handlers and cleanup are gone.  A database  *)
(* that refuses even the last write of a tick looks the same to the rows.  *)
Fault ==
  /\ faults < MaxFaults /\ faults' = faults + 1
  /\ EndTick
  /\ sending' = [c \in Chats |-> IF sending[c].at \in {"new", "sent"} THEN sending[c]
                                 ELSE [at |-> "lost", read |-> Null]]
  /\ edit' = Null /\ expired' = {}
  /\ UNCHANGED <<ownerOf, tables, row, history>>
-----------------------------------------------------------------------------
Next ==
  \/ \E c \in Chats : \/ SendRead(c) \/ SendStore(c) \/ SendTouch(c) \/ SendQueue(c) \/ SendThrow(c)
                      \/ (\E r \in Results : Answer(c, r)) \/ LoseAttempt(c) \/ Recover(c)
                      \/ Pick(c)
  \/ SaveEntry \/ FindEntry \/ ReplaceEntry \/ ForgetEntry \/ Announce \/ MemoryDone
  \/ ReplyAgain \/ RecordReply \/ ReadOwner \/ TouchOwner
  \/ Complete \/ Recheck \/ Throw \/ Mark
  \/ \E a \in Agents : EditRead(a) \/ Remove(a) \/ Expire(a) \/ RemoveExpired(a)
  \/ \E pin \in BOOLEAN : EditSave(pin)
  \/ ListExpired
  \/ \E i \in 1..Len(memory) : RemoveMemory(i)
  \/ Fault

Spec == Init /\ [][Next]_vars
-----------------------------------------------------------------------------
Job == [chat : Chats, result : Results]

(* Rows, messages, memory and control points keep their types; the tick    *)
(* has a job from its read to its end and an entry only once it acts.      *)
TypeOK ==
  /\ ownerOf \in [Chats -> Owners] /\ owner \in [Owners -> Snapshot \cup {Null}]
  /\ sending \in [Chats -> [at : {"new", "read", "stored", "touched", "sent", "lost"},
                            read : Snapshot \cup {Null}]]
  /\ said \subseteq Chats
  /\ replies \in [Chats -> {Shown(r) : r \in Results} \cup {Null}]
  /\ memory \in Seq(Chats \cup {Manual, Null})
  /\ cards \subseteq Chats \X (1..Len(memory))
  /\ status \in [Chats -> {"absent", "queued", "ready"} \cup Terminal]
  /\ \A c \in Chats : result[c] # Null => DOMAIN result[c] = {"reply", "error", "action", "target"}
  /\ fence \in [Chats -> BOOLEAN] /\ attempts \in [Chats -> 0..MaxAttempts]
  /\ pc \in {"idle", "act", "replace", "forget", "announce", "reply", "read", "touch",
             "complete", "notify", "markCompleted", "markFailed"}
  /\ job \in Job \cup {Null} /\ (job = Null <=> pc = "idle")
  /\ entry \in 0..Len(memory)
  /\ (pc \in {"idle", "act"} => entry = 0) /\ (pc \in {"replace", "forget", "announce"} => entry # 0)
  /\ seen \in Snapshot \cup {Null}
  /\ edit \in [agent : Agents, read : Snapshot] \cup {Null} /\ expired \subseteq Agents
  /\ faults \in 0..MaxFaults
  /\ saved \in [Chats -> Nat] /\ answers \in [Chats -> 0..MaxAttempts]
  /\ reopened \subseteq Chats /\ removed \subseteq Owners

(* A chat whose execution is completed shows the reply that the execution  *)
(* has as its result, although the two are written in two transactions     *)
(* (recordAssistantReply, completeExecution) and the execution may be      *)
(* requeued and answered differently in between.  Excepted are chats that  *)
(* stale recovery took back after their end, and removed owners.           *)
AnswerIsRecorded ==
  \A c \in Chats :
    status[c] = "completed" /\ c \notin reopened /\ Owner(c) \notin removed =>
      replies[c] = [text |-> result[c].reply, error |-> FALSE]

(* The memory action is no part of the transaction that ends the           *)
(* execution, and nothing marks it as done: only a restart may make an     *)
(* answer be saved to the memory twice.                                    *)
SavesPerAnswer == \A c \in Chats : saved[c] <= answers[c] + faults

(* Chats, edits and the reply of the tick each write an agent they read    *)
(* earlier, and undo each other; still a pinned agent never gets a date    *)
(* and an unpinned one is never without.                                   *)
PinnedNeverExpires ==
  \A a \in Agents : Alive(a) => (owner[a].pinned <=> owner[a].expiry = "none")

(* The reply of a chat never changes once it is shown, whatever results    *)
(* later attempts bring; it only goes with its owner.                      *)
RepliesAreFinal ==
  [][\A c \in Chats : replies[c] # Null => replies'[c] = replies[c] \/ ~Alive(Owner(c))']_vars

(* test/unit/agent/agent-expiration.service.spec.ts: the daily cleanup     *)
(* 'removes only expired agents'.                                          *)
RemovesOnlyExpired ==
  [][\A a \in Agents :
       a \in expired \ expired' /\ Alive(a) /\ ~Alive(a)' => owner[a].expiry = "past"]_vars
=============================================================================
