----------------------------- MODULE MCServices -----------------------------
(***************************************************************************)
(* Six components that share no state, one beside the other: a behaviour   *)
(* picks a part at the start and is one of its behaviours.  The variables  *)
(* of the other parts keep their first value.  VoicePool is extended, so   *)
(* that its property has its name; the others are instances, of which each *)
(* part takes a share.                                                     *)
(***************************************************************************)
EXTENDS VoicePool, TLC

CONSTANTS
  c1, c2, c3, a1, a2,
  Tasks, Events, Series, Tickers, MaxTime, MaxFaults, Threshold, Window, Backlog,  (* CalendarTicks    *)
  Projects, Threads, Docs, Resources, ProjectOf, ParentOf, Places, FileOf, Cascades, (* ArchiveCascade *)
  Uploaded, Days, Actors, MaxJobs, MaxPatches, MaxTasks,                           (* ResourcePipeline *)
  Ops, Ids, Texts, Reply, Scripts, MaxExports,                                     (* EvidenceArchive  *)
  Users, Groups, Perms, All, Managing, Admin, Expiry, MaxRequests, MaxRestarts,    (* Accounts         *)
  MaxCrashes

VARIABLES
  part,
  clock, last, task, event, done, tick, told, epoch, faults,         (* CalendarTicks    *)
  closed, rows, archived, file, upload, removal, cascade, crashes,   (* ArchiveCascade   *)
  resource, dates, jobs, serial, op, run, crossed, used,             (* ResourcePipeline *)
  outcome, missing, log, artifacts, script, answer, pc, export, spent, (* EvidenceArchive *)
  user, group, admin, tokens, refresh, job, mixed, had, requests, restarts  (* Accounts  *)

tickVars     == <<clock, last, task, event, done, tick, told, epoch, faults>>
archiveVars  == <<closed, rows, archived, file, upload, removal, cascade, crashes>>
resourceVars == <<resource, dates, jobs, serial, op, run, crossed, used>>
evidenceVars == <<outcome, missing, log, artifacts, script, answer, pc, export, spent>>
accountVars  == <<user, group, admin, tokens, refresh, job, mixed, had, requests, restarts>>

ThreeClients == {c1, c2, c3}

Ticks    == INSTANCE CalendarTicks
Archive  == INSTANCE ArchiveCascade WITH op <- cascade
Pipeline == INSTANCE ResourcePipeline WITH Resources <- Uploaded
Evidence == INSTANCE EvidenceArchive WITH status <- outcome, used <- spent

(* A project p with thread t1, whose child t2 names no project; one file   *)
(* that a resource of each thread shares.                                  *)
TheProject == [t \in {"t1", "t2"} |-> IF t = "t1" THEN "p" ELSE Null]
TheParent  == [t \in {"t1", "t2"} |-> IF t = "t1" THEN Null ELSE "t1"]
ThePlaces  == [i \in {"d", "r1", "r2"} |-> CASE i = "d" -> {"p"} [] i = "r1" -> {"t1"} [] i = "r2" -> {"t2"}]
TheFile    == [r \in {"r1", "r2"} |-> "f"]
AtTwo      == {{2}}

(* What a runtime may report and answer: a final message before a loop     *)
(* that goes on, an empty closing call, calls out of order and two final   *)
(* messages, a loop that ends the execution itself, a normal reply.        *)
Say(k, o, w) == [kind |-> k, op |-> o, what |-> w]
Script(events, source, trigger, ops) ==
  [events |-> events, answer |-> [source |-> source, trigger |-> trigger, ops |-> ops]]
TheScripts ==
  { Script(<<Say("start", "o1", Null), Say("finish", "o1", "succeeded"), Say("final", Null, "a1"),
             Say("start", "o2", Null), Say("finish", "o2", "unknown")>>,
           "template", "closing_unavailable", <<"o1">>),
    Script(<<Say("start", "o1", Null), Say("start", "o2", Null), Say("finish", "o2", "succeeded"),
             Say("finish", "o1", "failed"), Say("closing", Null, Null), Say("empty", Null, Null),
             Say("final", Null, "a1")>>,
           "template", "closing_output_empty", <<"o2">>),
    Script(<<Say("start", "o1", Null), Say("start", "o2", Null), Say("finish", "o2", "succeeded"),
             Say("finish", "o1", "succeeded"), Say("final", Null, "a1"), Say("final", Null, "a1")>>,
           "template", "exact_tool_repeat_persisted", <<"o2", "o1">>),
    Script(<<Say("start", "o1", Null), Say("finish", "o1", "succeeded"), Say("ended", Null, "failed")>>,
           "loop", "exact_tool_repeat_persisted", <<>>),
    Script(<<Say("start", "o1", Null), Say("finish", "o1", "succeeded"), Say("reply", Null, Null),
             Say("ended", Null, "completed")>>,
           "full", "closing_unavailable", <<>>) }

(* Accounts, of which the module of the proofs brings the theorems: two    *)
(* users and groups with authentication off, one user's tokens with it on. *)
Members  == INSTANCE AccountsProofs WITH AuthEnabled <- FALSE, Expiry <- 0, crossed <- mixed
SignedIn == INSTANCE AccountsProofs WITH AuthEnabled <- TRUE, crossed <- mixed
TwoKinds  == {"some", "all"}
ManageAll == {"all"}

ASSUME TicksInstance    == Ticks!CalendarAssumption
ASSUME ArchiveInstance  == Archive!ArchiveAssumption
ASSUME PipelineInstance == Pipeline!ResourceAssumption
ASSUME EvidenceInstance == Evidence!ArchiveAssumption
ASSUME MembersInstance  == Members!AccountsAssumption
ASSUME SignedInInstance == SignedIn!AccountsAssumption

-----------------------------------------------------------------------------
TickParts     == {"reminders", "alarms"}
PipelineParts == {"overlap", "restarts", "requests"}
EvidenceParts == {"exports", "crashes"}
Parts == {"voice", "archive", "members", "sessions"} \cup TickParts \cup PipelineParts \cup EvidenceParts

(* The share that a part takes of its component: tasks or events; two      *)
(* overlapping requests, then a restart, then the tasks on a text; a       *)
(* bundle that is exported, then a crash; one user and one group.          *)
Lonely == op[a2] = <<>>
Share ==
  /\ part = "reminders" => \A e \in Events : event[e] = Null
  /\ part = "alarms"    => \A t \in Tasks : task[t] = Null
  /\ part = "overlap"   => used.tasks = 0 /\ used.crashes = 0
  /\ part = "restarts"  => used.tasks = 0 /\ used.patches <= 1 /\ Lonely
  /\ part = "requests"  => used.patches = 0 /\ used.crashes = 0 /\ Lonely
  /\ part = "exports"   => spent.crashes = 0
  /\ part = "crashes"   => spent.exports = 0
  /\ part = "sessions"  => /\ \A u \in Users \ {Admin} : user[u] = Null
                           /\ \A g, h \in Groups : g = h \/ "unused" \in {group[g], group[h]}

MCInit ==
  /\ part \in Parts
  /\ Init /\ (part # "voice" => \A w \in 1..2 : status[w] = "free")
  /\ Ticks!Init
  /\ Archive!Init /\ (part # "archive" => rows = {})
  /\ Pipeline!Init
  /\ Evidence!Init /\ (part \notin EvidenceParts => script = CHOOSE s \in Scripts : TRUE)
  /\ IF part = "members" THEN Members!Init ELSE SignedIn!Init /\ admin = CHOOSE g \in Groups : TRUE

NoVoice    == UNCHANGED vars
NoTick     == UNCHANGED tickVars
NoArchive  == UNCHANGED archiveVars
NoResource == UNCHANGED resourceVars
NoEvidence == UNCHANGED evidenceVars
NoAccount  == UNCHANGED accountVars

MCNext ==
  /\ UNCHANGED part
  /\ \/ part = "voice"     /\ Next           /\ NoTick  /\ NoArchive /\ NoResource /\ NoEvidence /\ NoAccount
     \/ part \in TickParts /\ Ticks!Next /\ Share' /\ NoVoice /\ NoArchive /\ NoResource /\ NoEvidence /\ NoAccount
     \/ part = "archive"   /\ Archive!Next   /\ NoVoice /\ NoTick /\ NoResource /\ NoEvidence /\ NoAccount
     \/ part \in PipelineParts /\ Pipeline!Next /\ Share' /\ NoVoice /\ NoTick /\ NoArchive /\ NoEvidence /\ NoAccount
     \/ part \in EvidenceParts /\ Evidence!Next /\ Share' /\ NoVoice /\ NoTick /\ NoArchive /\ NoResource /\ NoAccount
     \/ part = "members"   /\ Members!Next      /\ NoVoice /\ NoTick /\ NoArchive /\ NoResource /\ NoEvidence
     \/ part = "sessions"  /\ SignedIn!Next /\ Share' /\ NoVoice /\ NoTick /\ NoArchive /\ NoResource /\ NoEvidence

MCSpec ==
  MCInit /\ [][MCNext]_<<part, vars, tickVars, archiveVars, resourceVars, evidenceVars, accountVars>>

Symmetry == Permutations({a1, a2})

-----------------------------------------------------------------------------
(* ArchiveCascade: a cascade that nothing disturbed leaves the files of its*)
(* resources in the archive, or in the main store, but for shared ones.    *)
CascadeSettlesFiles == Archive!CascadeSettlesFiles

(* CalendarTicks: whatever the last completed tick should have told of, an *)
(* earlier one or it has, although ticks overlap and fail.                 *)
NothingDueIsMissed == Ticks!NothingDueIsMissed

(* ResourcePipeline: once no extraction is asked for, the dates of a       *)
(* resource were computed from the publication date it has.                *)
DatesFollowPublication == Pipeline!DatesFollowPublication

(* EvidenceArchive: an execution ends with a deterministic partial result  *)
(* only if the log and the artifacts prove it, crashes or not.             *)
PartialIsProved == Evidence!PartialIsProved

(* EvidenceArchive: an exported bundle holds what its events refer to, or  *)
(* names what it lacks, although events arrive while it is read.           *)
BundleIsClosed == Evidence!BundleIsClosed

(* Accounts: at rest a member of a group has the group's permissions,      *)
(* unless given others by hand, or a request about a group overlapped      *)
(* another request.                                                        *)
MembersFollowTheirGroup == Members!MembersFollowTheirGroup

(* Accounts: no access token carries permissions that its user lost longer *)
(* ago than the life of one token.                                         *)
RevocationTakesEffect == SignedIn!RevocationTakesEffect
=============================================================================
