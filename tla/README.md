# documents-backend in TLA+

documents-backend is a NestJS service over PostgreSQL. It keeps the documents,
resources, datasets and calendars of a workspace, and it hands the expensive
work (extraction, embeddings, chats with tools) to *models workers*, separate
processes that are not in this repository and that share its database. This
directory holds TLA+ modules of the parts whose correctness depends on the
order in which things happen, TLC configurations that check them on small
instances, and TLAPS proofs of the main results for every instance.

All paths are below `src/src/` unless they start with `docs/` or `test/`, which
are below `src/`.

## 1. The system

| Component | State | Operations | Talks to |
|---|---|---|---|
| Execution queue: `execution/execution.service.ts`, `task-schedule/` | rows of `executions` (status, phase, attempt_id, claimed_by, retry_count), local state of two cron jobs | create, updateStatus, handleCron (every 5 s), requeueStaleExecutions (every 30 s), completeExecution | workers through the rows; processors by call |
| Operation budget: `inference-budget-policy.ts` | budget part of `progress_ledger` | requestProgressGrant, reserveOperationBudget, start of an operation | evidence log; worker by HTTP |
| Progress ledger and tool repeat guard: `execution-progress.ts`, `exact-tool-repeat-guard.ts` | projection of the log | fold of the events, warn / block / terminate | budget, evidence log |
| Evidence log: `execution.service.ts` | `execution_events`, last_sequence and last_event_id of the root | acceptEvents, appendBackendEvent and its callers | workers by HTTP; all of the above |
| Artifacts and bundles | `execution_artifacts` | acceptArtifacts, deterministic partial results, exportBundle | evidence log |
| Execution processors: `execution-processor/` | none | process(execution), per task type | domain services |
| Worker registry: `worker/` | `workers` (status, last_heartbeat) | markStaleOffline, list | queue reads the heartbeat |
| Assistants and agents | messages, memory, expiry | send, reply, save / replace / forget a memory, pin, daily expiry | queue, notifications |
| Resource pipeline: `resource/`, `resource-date/`, `model/` | columns of a resource, its dates | upload, PATCH, confirm, extract, detect language, ingest, date extraction | queue, file storage |
| Pending entities, entities | pending rows, entities, aliases, links to resources | extract, translate, merge, cancel, edit, confirm, remove | resources, queue |
| Indexed files | rows with checksum and stamp, files on disk | write, read with synchronisation, scan, delete, clear, extraction, ingestion | queue, file system |
| Archive, file storage | status columns of projects, threads, resources and documents; two file stores | archive, unarchive, upload, remove | file system |
| Calendar, tasks | events, completions, reminders, `app_state` | reminder tick | notifications |
| Data sources | settings, cron jobs, synced records | sync, PATCH, remove, restart | providers, datasets |
| Datasets | schema, records, anchors of extracted cells | schema changes, records, imports, extraction of rows and cells | queue |
| Voice pool | slots, queue, sockets | connect, assign, probe, release | voice workers by WebSocket |
| Authentication | users, groups, permissions, tokens | login, refresh, changes of users and groups, seeding | all controllers |
| Documents, notes, canvases, search, export, offline, notifications | single rows | create, read, update, delete, push | clients |

### What is hard, and what must hold

* **Queue.** Two cron jobs, several workers and the HTTP handlers write the same
  rows, each in transactions of their own and with awaits between a read and the
  write that depends on it. A worker that was only slow comes back after its
  row was given to another. The backend may stop between a processor's effects
  and the terminal status. *Must hold:* work is handed out at most max_attempts
  times, one attempt at most can store a result, no row is stranded, effects
  are applied once per result, completed means dealt with.
* **Budget.** Requests are retried after lost replies and outlive the attempt
  that sent them. *Must hold:* the hard limit over all attempts, a ledger that
  balances, decisions that never change.
* **Ledger and guard.** State is a fold of the log, decisions are searches of it.
  *Must hold:* the fold is the budget; a call is blocked only as a genuine repeat
  that was announced, and a chat ended only after the blocked result was shown.
* **Evidence log.** Batches of several producers arrive twice, late or in part
  known, and roll back as a whole. *Must hold:* dense sequence numbers, the order
  of each producer, no gap, causes before effects, paired operations, nothing
  from a worker after the end.
* **Artifacts and partial results.** A chat may end on the evidence of its log alone,
  which a check reads while more of it arrives; a bundle is read in three queries.
  *Must hold:* what ended so stays proved by its log; a bundle has what its
  events refer to, or says what it lacks.
* **Assistants.** A reply is made of a memory action, a message, a touch of its owner and
  the terminal status, in that order and in separate transactions. *Must hold:* one
  reply per message, one save per answer, pinned agents do not expire.
* **Resources.** Each column has several writers (a user's PATCH, processors) that
  read, save, and then ask for further executions, which come back in any order.
  *Must hold:* the dates of a resource are those of its publication date.
* **Entities.** Confirmations and merges are series of statements without a
  transaction. *Must hold:* what was confirmed stays linked.
* **Indexed files.** A row is read, its file looked at, and the row saved, while the
  owner edits the file and the worker extracts it. *Must hold:* checksum and text of
  a row are of one version of the file; a change is found.
* **Archive.** Tens of separate updates and moves, of files that resources share.
  *Must hold:* a cascade leaves each file where its resources look for it.
* **Calendar.** Ticks overlap, fail half way, or stay away. *Must hold:* everything due is told.
* **Data sources.** Syncs replace records without a transaction and save settings they
  read at the start. *Must hold:* no record twice, the cron job follows the row.
* **Datasets.** Users and extractions save whole rows that they read earlier; schemas
  change under stored values. *Must hold:* edits survive extraction, queries
  still cast.
* **Voice.** *Must hold:* a worker serves one session, waiting sessions advance.
* **Authentication.** Permissions are copied from groups to users and from users to
  tokens. *Must hold:* a group's change reaches its members; what is revoked ends.

`PROJECT.json` lists each hazard at its line with the property that covers it.

## 2. Modules

| Module | Models | Extended or instantiated by |
|---|---|---|
| `ExecutionQueue` | life cycle of a row; both cron jobs; workers; restarts | `MCExecutionQueue`, `ExecutionQueueProofs` |
| `OperationBudget` | **abstract specification** of the budget: counters and decisions per operation | `MCOperationBudget`, `OperationBudgetProofs`, `ProgressLedger` |
| `ProgressLedger` | the log, its fold and the guard; **implements** `OperationBudget` | `MCProgressLedger`, `ProgressLedgerProofs` |
| `EventLog` | acceptEvents event by event and all backend writers, over a tree of executions | `MCEventLog`, `EventLogProofs` |
| `ChatPipeline` | a chat from message to reply: messages, memory, agents and their expiry around the finalization tick | `MCChatPipeline`, `ChatPipelineProofs` |
| `VoicePool` | slots, sockets and the queue of the dictation workers | `MCServices` |
| `CalendarTicks` | alarms, reminders and the tick that announces them | `MCServices` |
| `ArchiveCascade` | archiving and unarchiving, with shared files, uploads and removals | `MCServices` |
| `ResourcePipeline` | a resource and its executions, from upload to dates | `MCServices` |
| `EvidenceArchive` | artifacts, deterministic partial results, bundles | `MCServices` |
| `Accounts` | users, groups, tokens | `AccountsProofs`, which `MCServices` instantiates |
| `Datasets` | schema, records, edits and extraction | `MCContent` |
| `DataSync` | syncs, settings and schedules of a data source | `MCContent` |
| `EntityReview` | pending rows, entities and links | `MCContent` |
| `IndexedFiles` | files, their rows and the processors of their text | `MCContent` |

`MCServices` and `MCContent` put components that share no state beside each
other: a behaviour picks a *part* at the start and is one of its behaviours, the
variables of the other parts keeping their first value. The union of the parts is
checked, not their product. Each of the two extends one component and has one
instance of each other component, whose constants are constants of the MC module
too, with values only in the .cfg; a part is a *share* of its component (`Share`,
`ShareOfFeed`, `ShareOfReview`, `ShareOfFiles`): a condition on states that keeps
its behaviours to the case it is about. `Accounts` has two instances, with
authentication off (`Members`) and on (`SignedIn`), and `Datasets` a second one with other bounds
(`Schemas`). Each instance's assumption is
`ASSUME`d. `ServicesProofs` and `ContentProofs` extend the two modules, so that what
they prove of an instance, such as `Feed!Spec => []RecordsFollowTheSource`, is a theorem about all of
the component's behaviours, for all constants, and not about the share.

Definitions whose comment begins with *Faulty* are variants of an operator with a
plausible mistake. Nothing in a specification refers to them; they show, for each
property, a change of the code that the property would find (`mutants` in
`PROJECT.json`).

### ExecutionQueue

The columns of the row are functions on `Executions`; `older` is the order of
updated_at, which findReadyForFinalization sorts by. `handleCron` is a process
with control point `cronPc` and the row it picked, `cronExec`: one action per
await, `CronPick` (the read), `CronProcess` (the processor, which may throw before
or after its effects), `CronComplete` and `CronNotify` (a chat processor's
completeExecution and the push after it), `CronRecheck` (the findOne), `CronMark`
(markAsCompleted, or markAsFailed in the catch block), `CronThrow` into that
catch block. Stale recovery is `ListStale` (the read, which already decides
`exhausted`) and one `Recover` per row (a transaction fenced by the attempt it
read). `Fault` is a restart, or a database error where the code gives up.
`attempt_id`, a UUID in the code, is the number of the claim; `NoAttempt` is NULL.

Workers are outside the repository. `ClaimRow`, `Submit`, `Discard` follow
`docs/execution-system.md:13-30`: a claim under FOR UPDATE SKIP LOCKED with a new
attempt id, result writes fenced by that id, a successful result left in
backend_finalization. `SaveRow` is what an ingestion or a budget request does to this
row: it is saved, and so moves to the end of the order. `FallSilent`, `Heartbeat` and `Die` are what a heartbeat
threshold of 60 s can see of a process.

### OperationBudget

One chat execution. `RequestGrant`, `Reserve` and `Start` are the three
transactions of a worker; each takes the attempt that sent it, so late requests of
an old attempt are possible and `ActiveAttempt` is what refuses them. A request
that the code answers without a change (a repeat or a refusal) is a stuttering
step. `guardAllows` stands for the tool repeat guard, which this level leaves open.

### ProgressLedger

The same transactions one level down: state is the log, `ApplyEvent` is the case
analysis of projectExecutionProgress, `AppendEvents` appends and folds. `Blocks`,
`Terminates` and `Warns` are the searches of `exact-tool-repeat-guard.ts`, position
by position. `print` stands for tool name and operationFingerprint, `hash` for the
content hash of a tool output. The worker here is obedient: it retries lost calls
and echoes the warnings of the last reply. `Budget == INSTANCE OperationBudget`
maps the ledger to the abstract state; `signals` and `warned` are counted in the log.

### EventLog

acceptEvents locks the root, then takes the batch event by event, and locks and
reads the row of a child when it meets its first event; so an ingestion is `Begin`,
a `Skip` or `Accept` per event, and `Commit` or `Abort`, with the open
transaction in `tx`. Every other writer holds the lock of the root for the whole of
its transaction and is one action (`UpdateStatus`, `Report`, `Complete`), enabled
while `tx = Null`. Workers' claims of children and the insertion of
children do not take that lock and interleave freely, except with a row that
the ingestion has locked (`Locked`). A worker sends what is
not acknowledged, in order, and a post may arrive late, twice or overlap
another. In the code a worker's cause is checked to be in the log; here each
worker event names the one before it.

### ChatPipeline

`SendRead` to `SendQueue` are the awaits of sendMessage; `Pick` to `Mark` those of a
tick of handleCron with AssistantChatProcessor: memory action, its event card, the
reply (`RecordReply`, or `ReplyAgain` when it is stored already), the touch of the
owner (`ReadOwner`, `TouchOwner`) and `Complete`. A save of TypeORM writes the columns of
the entity that was read, so it may undo what happened since, or insert a row that was
removed; `sending[c].read`, `seen` and `edit.read` are those entities. The
memory-search by which a save looks for a similar entry is polled by the only job
that could finalize it, so it times out and `SaveEntry` always creates. The queue is
folded to what this level can observe: `Answer` is a claim and its result,
`LoseAttempt` a claim that stale recovery ends, and `fence` says that the row has
the attempt that answered, which is what lets `Recover` take it back late.
Chats belong to the personal assistant, which has the memory, or to an agent,
which expires.

### VoicePool

One Node process, so a handler is one action up to its only await: the opening of the
worker's socket in assignWorker, which `opening` holds as a worker and a session until
`Opened` or `Refused`. During it the slot is still `free` and has no client, as in the
code, so `Start` and `ProcessQueue` may choose it again. `open` are the sockets that are
listened to, `ws` and `client` what the slot names; a later assignment overwrites
both, and `Final` and `Closed` act through the slot as the listeners do.
Audio chunks and estimated waiting times are left out.

### CalendarTicks

A tick is `Begin` (now is taken), `ReadPrevious`, `SendAlarms`, `SendMissed`,
`SendReminders`, `Advance`, with `Fail` anywhere in between; ticks overlap, and `Clock`
leaps. An event is the set of its starts: the expansion of recurrence rules and time zones
is data. What a stale update would bring back is covered by updates that may write
any values. `told` is what was announced since the row was last written, `epoch` the latest
time that a tick which found no stored time has set.

### ArchiveCascade

`Begin` to `Schedule` are the awaits of archiveProject, archiveThread and their
inverses; `MoveFile` handles one resource. `file[f]` is the set of stores that hold the file, since a
file is named by its hash and an upload may restore it to the main store while the archive
has it too. `calm` says that nothing crossed a cascade. `Crash` ends a cascade where it is.
`Descendants` is a recursive function, since the module is proved about; no module declares a
RECURSIVE operator.

### ResourcePipeline

A request or a processor saves a row and then creates executions, one step each:
`op[a]` and `run.todo` are what it still has to do. `Redate` is the comparison in
update() that asks for dates when the day differs from the row it read. A date answer
carries the anchor it was resolved with (`Dated`); `crossed` is set when answers overtake each other, fail or
are lost, which excludes what the code cannot help. The texts are known only by being there.

### EvidenceArchive

`AcceptEvent` and `AcceptArtifacts` take what a runtime reports in the order of its
script, its answer (`Answered`) at any time. `Validate` is validateDeterministicPartial before
the transaction and `Complete` the check again under the lock; `Proved` is
assertDeterministicPartial, conjunct by conjunct: the final message and its artifact, the
finished operations in the order the answer names, no open call of the loop, the
trigger. `ExportRow`, `ExportEvents` and `ExportArtifacts` are the three reads of a bundle.

### Accounts

A request is a chain of statements in `job[a]` (`FindGroup`, `SaveUser`, `SyncUsers`,
`SaveGroup`, `Unassign`, ...). `row` is the entity it read; saveUser writes it back whole.
`tokens` carry user, permissions and age, `Refresh` signs what the row has now, and `had`
says how many ticks ago each user was last active with each permission set. The
users of the interface are those whose token or whose installation (`AuthEnabled`) admits them.
`crossed` says that a request about a group met another request; two requests that meet on one user do
no harm, as the proof below shows, and are not excluded.

### Datasets

One dataset. Each handler plans a save computed from what it read (`pend`), and `Save`
writes it later over the row as it is by then; `stale` says that the row changed in
between. `Merge` is applyExtractionResult: only the cells that the user has not edited.
`jobs` carry the schema they were asked with. `mine` is the history of what
users typed over extracted cells, `sound` that all changes of the schema were ones
analyzeSchemaChange calls safe.

### DataSync

A sync is `Begin`, `SaveSource`, `Start`, `Fetch` (the pages together), `CreateDataset`, `LinkDataset`, then
`DeleteAll` and `InsertAll`, or `ReadExisting`, `UpdateFound` per key and `InsertNew`; it saves the
copy of the settings that it loaded (`copy`) with each status. `tame` says that no syncs overlapped, `kept` that
no sync saved over settings changed meanwhile. Pages of a provider that moves its records
between two requests are not distinguished.

### EntityReview

A translation batch (`ReadRows`, `Upsert`), a confirmation (`FindEntity`, `CreateEntity`, `FindLink`,
`InsertLink`, `RemoveRow`), a merge of pending rows (`SaveTarget`, `SaveSource`) and of entities
(`SaveMerged`, `MoveLinks`, `DropLinks`, `DeleteSource`) run statement by statement. `told` are
the links that stand for rows a user confirmed; `crossed` excludes
merges and removals of an entity that others are using at that moment.

### IndexedFiles

The owner edits the folder (`EditFile`, `RemoveFile`) between the steps of requests: a write
(`WriteBytes`, `Stat`, `SaveFile`), a read (`CheckStat`, `Reread`), a scan (`ListRows`,
`ScanFile`). Size and time of a file are one stamp that each change renews. `Process` checks
the checksum of an extraction against a row that it reads, `StoreText` merges the answer into
it and `StoreVectors` marks it. `raced` says that a file changed between the
reading of its bytes and its stat, which no comparison of stamps can see later.

## 3. Runs

| Run | Instance | Question and answer |
|---|---|---|
| `queue_safety` | 2 rows of any kind, 2 workers, one of which may fail, 2 attempts, 1 fault | Five invariants hold under all interleavings of both cron jobs, both workers and the fault. |
| `queue_liveness` | the same, both rows of a kind with a processor | Every queued row is settled. |
| `queue_requeue` | the same | **Violated**: a row in backend_finalization is requeued or failed (finding 1). |
| `queue_terminal` | two chats | **Violated**: a completed chat becomes failed (finding 2). |
| `budget` | 3 normal, 1 repair and 2 tool operations, 2 attempts, 4 policies around the configured limits | Limits, counters, signals and decisions hold. |
| `ledger` | 1 inference, 4 calls of one tool and 1 of another, 2 attempts, lost replies, the last call in a batch | The guard escalates in order, blocked calls are repeats, an obedient worker is never refused, and the fold implements `OperationBudget`. |
| `event_log` | a root and a child, 2 workers, 2 or 3 reports each, at most 2 backend transactions started | Seven properties of the log under resent, late and aborted batches. |
| `chat` | a chat of the personal assistant or of an agent, 2 attempts, 1 restart, answers that save, replace, forget or fail | The chat shows the reply it completed with and keeps it; one save per answer and restart; pinned agents have no date. |
| `agent_expiry` | the same with one plain answer | **Violated**: an agent pinned after it was listed is removed (finding 3). |
| `services` | eleven parts of six components, below | Eight invariants hold. |
| `content` | nine parts of four components, below | Seven invariants hold. |
| `voice_exclusive` | 1 worker, 2 clients | **Violated**: two clients get one worker (finding 4). |

| Part of `services` | Instance | Properties |
|---|---|---|
| voice | 2 workers, 3 clients, 3 sessions, restarts | `NobodyWaitsForAFreeWorker` |
| reminders, alarms | 1 task, or 1 event that starts at 2; 2 overlapping ticks, time up to 2, 1 fault | `NothingDueIsMissed` |
| archive | a project with a thread, whose child names no project, a document, 2 resources with one file; 1 cascade, crossed by uploads and removals; 1 crash | `CascadeSettlesFiles` |
| overlap, restarts, requests | 1 resource, 5 executions; 2 requests with 2 patches; 1 patch and 1 crash; 1 text task | `DatesFollowPublication` |
| exports, crashes | 2 tool calls, 5 scripts of a runtime, 1 artifact; 1 export, or 1 crash | `PartialIsProved`, `BundleIsClosed` |
| members | 2 users, 2 groups, 2 requests at a time, 3 in all, 1 restart, authentication off | `MembersFollowTheirGroup` |
| sessions | 1 user, 1 group, authentication on, tokens that live 2 ticks, 3 requests, 1 restart | `RevocationTakesEffect` |

| Part of `content` | Instance | Properties |
|---|---|---|
| edits | 1 record, 1 field, 2 writers, 2 executions, 1 schema | `EditsWinOverExtraction`, `SafeChangesKeepQueries` |
| schemas | 1 writer, 1 execution, 3 schemas in a row | the same |
| stored | 2 keys with 2 versions, one of them invalid, 1 sync, 1 dataset, 2 changes, 1 fault | `RecordsFollowTheSource`, `CronFollowsTheRow` |
| settings | 2 syncs of a provider that delivers nothing, 3 changes, 1 fault | the same |
| links | 2 rows of one resource under review, 2 requests, 2 entities, 1 merge, 1 crash | `ConfirmedStaysLinked` |
| found | what an extraction finds in a second resource, in two languages, 1 edit, 1 crash | the same |
| together, alone, nested | 1 file, 2 contents: 2 requests and 2 stamps; 1 request, 3 stamps, a clear and a crash; 2 names with one last segment | `RowIsOneVersion`, `ChangesAreFound` |

Why the bounds are enough to meet the interesting cases:

* *Two rows, two workers.* The hazards of the queue are between one row and two
  processes that believe to hold it, or between the two rows that a tick and a
  list of stale rows may confuse. The order in `older` needs two rows to matter.
* *Two attempts* are the least for which a row is requeued once and exhausted
  once, so that both outcomes of stale recovery occur and an old attempt
  competes with a new one. One fault reaches each control point of the tick.
* *Budget:* policies with a hard limit of 1 and 3 against a configured 2 give a
  request that is smaller, and one that is cut; soft limits of 0 and 3 give
  none, and one cut below the hard limit. The repair bucket has a configured
  limit of 0. Three normal operations exceed the limit of two.
* *Guard:* four equal calls are the least for warn, block and terminate (the first
  is allowed, the second warned about), with outputs that may differ.
* *Log:* batches of two let a batch be known in part; the scripts have an operation
  that starts with one worker and finishes with another, a state change of the child
  and one of the root, followed by an event after the end.
* *Chat:* one chat already has two attempts with answers that may differ, a tick that
  may be interrupted at each step, and an owner that its sender, the tick, an edit,
  its expiry and its removal write at the same time.
* *Two actors* in the parts of `services` and `content` whose hazard is an overlap (a
  third writer only adds another save over a row that is already stale), one where
  the hazard is a crash or a longer history, so that both fit. Each scenario has the least
  of everything for its case: two resources to share a file, a child
  thread without a project for the cascade to miss, two groups to move between, three schemas to
  remove a field and add it again with another type, two contents and three stamps for a file
  that changes twice while its first version is being extracted.
* *One fault or crash* reaches each control point of each series of steps, since
  it is enabled at all of them.

`a1` and `a2`, `x` and `y` are interchangeable in every instance, which
`SYMMETRY` uses (only invariants are checked there). Type invariants are
stated in each module as documentation of its state, and no run spends time on them: those of
`ExecutionQueue`, `OperationBudget`, `EventLog` and `ChatPipeline` are theorems, and the types that the
other proofs need are parts of their invariants (`TypeInv`, `StoreOK`, `FeedOK`, `EvidenceOK`, ...).

Deadlock is not checked: each instance has a last state (all attempts, requests, sessions and changes used, all
events stored) in which nothing is left to do.

**Fairness** (only `queue_liveness`). Both cron jobs are weakly fair: Nest fires them
on an interval for ever. This supposes that the host is not above 80% of its
load for ever, since handleCron skips its tick there. A worker that is not dead
polls the queue and ends what it took: weak fairness of `Take` and `Answer`,
which are disabled while it is dead. One of the two workers never dies or falls
silent for ever; without it nothing could progress. `Fault`, `Die` and `Create`
are not fair. The instance has rows of the kind `handled`. A
row with a payload that is no object blocks the tick for ever (`CronPick`), but every
caller of create passes an object.

The other components have no liveness property: voice workers, providers and runtimes are
outside the repository and nothing in it justifies fairness for them, a slot that is down is
never probed again, and the ticks of the calendar are stated as a safety property of each
completed tick.

## 4. What is proved

Each safety property of each passing run, and the refinement, is a theorem (`theorems` in
`PROJECT.json` pairs them). A theorem is of the component's own specification, for every value of the
constants that satisfies the module's assumption: any number of rows, workers, attempts, operations,
policies, children, scripts, batch sizes, chats, agents, clients, users, groups, threads, files,
records, keys, overlapping requests and bounds. The assumptions are `QueueAssumption`,
`BudgetAssumption`, `LedgerAssumption`, `EventLogAssumption`, `ChatAssumption`, `AccountsAssumption`,
`CalendarAssumption`, `ResourceAssumption`, two `ArchiveAssumption`s, `DatasetsAssumption`,
`DataSyncAssumption`, `FilesAssumption`; they say that markers such as `Null` differ from values, that
bounds are numbers and that data have their types, that operations and threads are finitely many. The
theorems on `VoicePool` and `EntityReview` need none. TLC evaluates all of them on its instances.

Each proof has an inductive invariant that says more than the property; it was checked by TLC before it was
proved, and has one step per action.

**ExecutionQueueProofs.** `TypeOK` is inductive. `AttemptsBounded`, `SingleOwner`
and `RunningRowHasOwner` follow from `AttemptInv`. `AttemptsBounded` is not
inductive because stale recovery applies a decision made on an old row. The
invariant says why this is harmless: a non-null attempt id is always the last
claim and `claims = retryCount + 1` (`RowInv`), so an item of the list whose attempt
still matches has a retry count that cannot have moved since (`StaleInv`); and two
jobs never share an attempt (`JobInv`). `EffectsPerResult` and
`CompletedIsProcessed` follow from `EffectInv`, which follows the result through
the tick: a row that waits has a result not yet applied, unless a fault accounts for it.

**OperationBudgetProofs.** `BudgetInv` adds to the checked invariants that nothing
happens before the grant and that soft limits are below hard ones. With it
the counters are cardinalities (`LedgerIsBalanced`), and `HardLimitHolds` is the sum of
two of them. `DecisionsAreDurable` is an action property. The lemmas before them say
how `InState` changes when one decision does, from the theorems on finite sets.

**ProgressLedgerProofs.** `LedgerImplementsBudget` is the refinement: every step of the log maps to a
step of `OperationBudget` or to a stutter. State is a fold, of which nothing is proved as a whole: what a
transaction appends is one to three events, so each step unfolds `ApplyEvent` for these, from the ledger before it
(`Reserved` and `Started` say what results). `LedgerKeepsHardLimit` carries the abstract
theorem over to the log. The invariant `Inv` has four parts: types, with no step past idle without a
grant (`TypeInv`); the worker holds what was decided in its own attempt and was told what is due, which makes
`NeverRefused` inductive (`WorkerInv`); an operation has one start, and the inferences that the guard counts
warnings against are starts of the log that were given them (`StartInv`); and every source, warning, block
and termination has its evidence *before* it (`LogInv`). Evidence stays where it is when the log grows, so
only new events need some, and the searches of the guard find it there: `BlocksHaveEvidence` and
`TerminationsWereAnnounced` are read off `LogInv`.

**EventLogProofs.** `EvidenceInv` is one invariant of the committed log and of what
an open ingestion has made of it: both are `WellFormed` and `Paired`, the batch
has been dealt with up to `next`, and a root that is terminal has let the
ingestion store nothing. `Begin` copies the first to the second, `Accept` extends the
second by one event, `Commit` copies it back; a backend writer adds up to three
events (`AppendWellFormed`, `AppendThree`). Seven theorems are read off it. `TerminalRowsAreLogged` needs `RowsInv`
too: not only the rows, but also what the open ingestion would leave in them when it
commits, are explained by the last change of status in the log that goes with them. An aborted ingestion then leaves no
row without its explanation.

**ChatPipelineProofs.** `ChatInv` is the types of each part, in conjuncts of few variables so that
a step has to be looked at only where it writes (`Untouched`), and: an execution is there only once its
message is stored (`SentOK`, which the proof asked for: without it the insert of the queue
might meet a row that was answered already); how far the tick is (`StageOK`: from `read` on
the reply is stored or its owner was removed, and until `complete` the row keeps its result unless stale
recovery reopened it); `saved + Due <= answers + faults`, where `Due` counts an
answer whose action is still to come (`SavesOK`); an edit's copy of an agent is as consistent as
the agent (`AgentsOK`). `RepliesStay` is an action property.

**ServicesProofs.**
* `WaitingMeansBusy`: nobody is queued while a worker is free. Inductive with the types of the
  slots (`PoolInv`), because each action that frees a slot serves the queue in the same step
  (`QueueIsServed`, `ReleaseKeeps`) and no action makes a slot free otherwise.
* `PartialsStayProved`, `BundlesAreClosed`: the log of an execution only grows and artifacts are never
  replaced (`Keeps`), so a proof made of them under the lock lasts; after a partial nothing is accepted
  (`EndOK`); and a bundle reads events before artifacts, so what its events refer to is stored when the
  third query looks for it (`BundleOK`).
* `CascadesSettle`: a cascade that was not disturbed finds its resources unchanged until it updates
  them, and each file it has dealt with settled (`Uncrossed`); the other cascades that touch
  the same rows count as a disturbance. Which threads are collected does not matter to it.
* `NothingIsMissed`: whatever is not announced yet is not behind the stored time, nor behind a tick
  that has not come to announce it (`TasksAhead`, `AlarmsAhead`, by the point each tick is at). Overlapping ticks
  move the stored time back, which can only announce twice.
* `DatesFollow`: a resource whose day changed has a date extraction coming, or the newest open one has its
  day as anchor, or there is none and the dates have it (`DaysFollow`); a resource without text has no dates and
  no such extraction (`TextsFirst`).
* `MembersAreFollowed`, `RevocationsTakeEffect`: the theorems of `AccountsProofs` for the two instances.

**AccountsProofs.** `RevocationHolds`: no token has permissions that its user lost more than the life
of a token ago. `Fresh` compares clocks: the age of a token is at least the time since
its user was last active with its permissions, and below the expiry; a login that found its user signs
before a tick passes. A refresh reads the row, so its new token starts both clocks at zero. `MembersFollow`:
between requests the members of a group have its permissions. While a group is being
saved its members are ahead of it (`RowsFollow`), rows that requests carry follow their groups or
will be refused (`JobsFollow`), and a request about a group is alone (`Alone`). The search
for it showed that requests about users may overlap freely, even on one user, and `crossed` became
weaker, hence the property stronger.

**ContentProofs.**
* `EditsAreKept`: extraction never replaces what a user typed over an extracted cell. An extraction
  passes over a cell because of its mark, and may be planned before the edit and saved after it. `RowsMarked`
  says that typed cells are marked as edited; `PlansOK` that each save under way either still agrees with what was
  typed, or is a user's own change, or was computed from a row that has been saved since
  (`stale`), which is how an undone edit ends the promise; `IdsTaken` that a new record has an id nobody typed in.
* `QueriesKeepWorking`: while all changes of the schema were reported as safe, stored values fit it. So do the
  plans of saves under way, and open executions have today's types (`AllFit`); before the first
  edit there is nothing (`Untouched`).
* `CronFollows`: the row is there while a PATCH is about to update the schedule, and else the
  job runs if and only if the row is enabled (`CronOK`).
* `RecordsFollow`: one sync runs at a time (`OneSync`), each key has one record at most (`OneOfEach`), and
  at each point a sync knows what the dataset has (`Knows`): nothing before the insert of a full sync, the
  rows it read before the updates of an incremental one, no record of a key that it takes for new.
* `ConfirmedStays`: links that stand for confirmed rows are there, and a request that is about to
  remove a row has its link, one that is about to drop links or to delete an entity has none of them left
  (`ToldIsLinked`); a merge meets no other merge and no confirmation (`MergesApart`).
* `VersionsNeverMix`: a row's text is that of its checksum. The rows that requests and processors
  carry are as whole as those stored (`RequestsOK`, `RunningOK`), so each save, however stale, writes one version;
  an answer is merged only into a row whose checksum is that of the bytes that were extracted.
* `EveryChangeIsSeen`: whatever row is stored or carried, its stamp was given, and if the file still has it,
  the checksum is that of the file (`Known`). A change gives a stamp that nobody has seen
  (`KnowledgeStays`), which is why no later save of an old row can hide it.

**Only model-checked.** `EventuallySettled`, which is liveness under fairness and beyond the prover. The four
violations are counterexamples of TLC.


## 5. Findings

1. **Finalization is not owned** (`execution.service.ts:612`, run `queue_requeue`). Stale
   recovery lists the rows in worker_execution whose worker is silent, then updates
   them in turn, comparing the attempt id only. A worker that was merely late may
   store its result in between: the row is in backend_finalization with the same
   attempt. It is put back to queued, its result is dropped and the work repeated,
   or it is failed as attempts_exhausted although the result is there.
   `docs/execution-system.md` knows only completed and failed after
   backend_finalization, reached through the processors.
2. **Terminal is not final** (`task-schedule.service.ts:97`, run `queue_terminal`).
   An exception after completeExecution has committed, in the push to the sockets
   or in the findOne, reaches a catch block that fails the completed chat, and
   the log gets a second terminal change of status, which
   `test/unit/execution/contract-conformance.spec.ts:165` excludes.
3. **The cleanup removes agents that are not expired** (`agent-expiration.service.ts:36`,
   run `agent_expiry`). The list is read once; each removal awaits the clearing of an
   index and reads the agent again without a look at pinned or expiresAt. An agent that
   was pinned or used meanwhile goes, with its messages.
   `test/unit/agent/agent-expiration.service.spec.ts:55` is 'removes only expired agents'.
4. **Two clients on one voice worker** (`voice.service.ts:155`, run `voice_exclusive`). The slot stays free
   and without a client until its socket is open; a session that starts meanwhile, or a second one of the
   queue, gets the same worker, and the later one takes the slot over.
   `voice.service.ts:24` says 'Each client exclusively claims a worker for the duration of its session.'

Seen while modelling, without a run of their own:

* `Datasets!ForcedExtractionIsApplied` fails: extractCell accepts a forced extraction of an
  edited cell, for which the comment of `dataset-extraction.service.ts` makes an exception,
  and applyExtractionResult skips the cell all the same.
* A resource may have two pending rows of one name: a batch looks for the name among the rows
  it has read, a row that is created by hand is not compared with any.
* seed-admin renews the permissions of its group and not of the members (`apart` in `Accounts`); a profile
  update that read its user before a deactivation saves the user as active again; a user
  who joins a group while it is being updated keeps the old permissions (`crossed`).
* The search for a similar memory entry inside the tick can never be answered.

## 6. Not modelled

* Queue: priorities, available_at, capabilities and the status waiting: they
  select among claims, and the workers decide them. The status cancelled is set by no
  code in `src/`.
* Workers' events that change the status of a row are in `EventLog`, not in
  `ExecutionQueue`: no test or fixture shows a worker that ends a row of the queue so.
* Tokens, phases and loops in the ledger: statistics without influence on a decision.
* Canonical hashes and the schema of envelopes: an event id stands for its content.
  A duplicate id with another content is a refused batch, which `Abort` covers.
* Recurrence rules and time zones, CSV parsing, the configurations of providers, file previews,
  passwords and avatars, charts, cell types other than number and text: data that no property is about.
* Notes in the archive: collected and updated as documents are.
* Search, relationships, timeline and export read, or create one execution. Images, relationships
  and timeline have processors that fill one column and are not modelled.
* Offline: the protocol of snapshots, edits and conflicts is run by a client that is
  not in the repository; the backend applies one edit at a time.
* Documents, canvases, comments, marks, references, bibliography: create, read, update and delete of single rows.

## 7. Plan

What would extend this project, in this order:

1. An abstract specification of the queue (a row that is queued, held, answered, settled) and the
   queue as its implementation, with the first two findings as the steps it lacks.
2. The `TypeOK` of the remaining modules as theorems, where their proofs have needed parts of it only.
3. Action properties: a partial result that was accepted is not replaced, an entity's links only move with
   a merge, the stored time of the ticks moves forward while no two overlap.
4. `ChatPipeline`: memory written by hand, assistants that can be removed.
5. Processors of images and relationships as parts of `ResourcePipeline` and `EntityReview`.
