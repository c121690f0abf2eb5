--------------------------- MODULE ArchiveCascade ---------------------------
(***************************************************************************)
(* Archiving and unarchiving of projects and threads (src/src/archive)     *)
(* with the files of their resources (src/src/file-storage): a series of   *)
(* updates and file moves, each on its own, that a crash may end anywhere  *)
(* and that others may cross: another cascade, uploads and removals.       *)
(* Files are named by their hash, so two resources may share one.          *)
(*                                                                         *)
(* The reads of collectByProject and collectByThread are one step.  Notes  *)
(* are collected and updated as documents are and are left out.            *)
(***************************************************************************)
EXTENDS Naturals, FiniteSets

CONSTANTS
  Projects, Threads, Docs, Resources,  (* ids of rows                      *)
  ProjectOf,   (* thread -> its project, or Null                           *)
  ParentOf,    (* thread -> its parent thread, or Null                     *)
  Places,      (* doc or resource -> the set of its project and thread     *)
  FileOf,      (* resource -> the hash of its file                         *)
  Cascades,    (* requests that may run at the same time                   *)
  MaxCrashes,  (* bound: stops of the backend                              *)
  Null

Items == Docs \cup Resources
Files == {FileOf[r] : r \in Resources}

ArchiveAssumption ==
  /\ Docs \cap Resources = {} /\ Projects \cap Threads = {}
  /\ Null \notin Projects \cup Threads \cup Resources
  /\ ProjectOf \in [Threads -> Projects \cup {Null}]
  /\ ParentOf \in [Threads -> Threads \cup {Null}]
  /\ Places \in [Items -> SUBSET (Projects \cup Threads)]
  /\ DOMAIN FileOf = Resources /\ MaxCrashes \in Nat /\ IsFiniteSet(Threads)

VARIABLES
  closed,    (* projects and threads whose status is 'archived'            *)
  rows,      (* resources that have a row                                  *)
  archived,  (* items that are archived                                    *)
  file,      (* each file: the stores that have it, "main" and "archive"   *)
  upload,    (* resources whose upload found no row with its hash          *)
  removal,   (* resources whose row is removed and whose file is not yet   *)
  op,        (* the cascades                                               *)
  crashes

vars == <<closed, rows, archived, file, upload, removal, op, crashes>>

Idle == [at |-> "idle", archive |-> FALSE, target |-> Null, threads |-> {},
         items |-> {}, left |-> {}, calm |-> TRUE]

Init ==
  /\ closed = {} /\ archived = {}
  /\ rows \in SUBSET Resources
  /\ file = [f \in Files |-> IF \E r \in rows : FileOf[r] = f THEN {"main"} ELSE {}]
  /\ upload = {} /\ removal = {} /\ crashes = 0
  /\ op = [k \in Cascades |-> Idle]

(* collectDescendantThreadIds: level by level; on a cycle of parents,      *)
(* where the loop of the code does not end, this stops.                    *)
Descendants(x) ==
  LET found[n \in Nat] ==
        IF n = 0 THEN {x} ELSE found[n - 1] \cup {t \in Threads : ParentOf[t] \in found[n - 1]}
  IN  found[Cardinality(Threads)]

(* collectThreadIdsForProject: the threads of the project, and not the     *)
(* descendants of them that name no project.                               *)
ThreadsOf(x) == IF x \in Projects THEN {t \in Threads : ProjectOf[t] = x} ELSE Descendants(x)

(* findDocs, findNotes, findResources                                      *)
Bucket(x, archive) ==
  {i \in Docs \cup rows :
     /\ Places[i] \cap (ThreadsOf(x) \cup {x}) # {}
     /\ archive <=> i \notin archived}

(* What one cascade does is a disturbance for the others.                  *)
Disturb(o) == [k \in Cascades |-> [o[k] EXCEPT !.calm = FALSE]]
Step(k, new) == op' = [Disturb(op) EXCEPT ![k] = [new EXCEPT !.calm = op[k].calm]]

(* archiveProject, archiveThread and their inverses return at once when    *)
(* the status is already as wished.                                        *)
Begin(k, x, archive) ==
  /\ op[k].at = "idle" /\ (archive <=> x \notin closed)
  /\ op' = [Disturb(op) EXCEPT ![k] =
       [at |-> "status", archive |-> archive, target |-> x, threads |-> ThreadsOf(x),
        items |-> Bucket(x, archive), left |-> {},
        calm |-> \A j \in Cascades : op[j].at = "idle"]]
  /\ UNCHANGED <<closed, rows, archived, file, upload, removal, crashes>>

Mark(set, xs, archive) == IF archive THEN set \cup xs ELSE set \ xs

UpdateStatus(k) ==
  /\ op[k].at = "status"
  /\ closed' = Mark(closed, {op[k].target}, op[k].archive)
  /\ Step(k, [op[k] EXCEPT !.at = "threads"])
  /\ UNCHANGED <<rows, archived, file, upload, removal, crashes>>

UpdateThreads(k) ==
  /\ op[k].at = "threads"
  /\ closed' = Mark(closed, op[k].threads, op[k].archive)
  /\ Step(k, [op[k] EXCEPT !.at = "docs"])
  /\ UNCHANGED <<rows, archived, file, upload, removal, crashes>>

UpdateDocs(k) ==
  /\ op[k].at = "docs"
  /\ archived' = Mark(archived, op[k].items \cap Docs, op[k].archive)
  /\ Step(k, [op[k] EXCEPT !.at = "resources"])
  /\ UNCHANGED <<closed, rows, file, upload, removal, crashes>>

UpdateResources(k) ==
  /\ op[k].at = "resources"
  /\ archived' = Mark(archived, op[k].items \cap rows, op[k].archive)
  /\ Step(k, [op[k] EXCEPT !.at = "move", !.left = op[k].items \cap Resources])
  /\ UNCHANGED <<closed, rows, file, upload, removal, crashes>>

(* fs.move with overwrite; without a source it throws, which is logged.    *)
Move(f, from, to) ==
  IF from \in file[f] THEN file' = [file EXCEPT ![f] = (@ \ {from}) \cup {to}] ELSE UNCHANGED file

(* Faulty: a file that is shared by archived resources only is not moved.  *)
SharedAlways(r) == \E s \in rows \ {r} : FileOf[s] = FileOf[r]

(* moveResourceFilesToArchive leaves a file that another active row shares.*)
SharedByActive(r) == \E s \in rows \ {r} : FileOf[s] = FileOf[r] /\ s \notin archived

MoveFile(k, r) ==
  /\ op[k].at = "move" /\ r \in op[k].left
  /\ Step(k, [op[k] EXCEPT !.left = @ \ {r}])
  /\ IF op[k].archive
     THEN IF SharedByActive(r) THEN UNCHANGED file ELSE Move(FileOf[r], "main", "archive")
     ELSE Move(FileOf[r], "archive", "main")
  /\ UNCHANGED <<closed, rows, archived, upload, removal, crashes>>

(* scheduleVectorDeletion, when it archives: the executions are fire and   *)
(* forget and touch nothing that is modelled here.                         *)
Schedule(k) ==
  /\ op[k].at = "move" /\ op[k].left = {}
  /\ Step(k, [op[k] EXCEPT !.at = "done"])
  /\ UNCHANGED <<closed, rows, archived, file, upload, removal, crashes>>

End(k) ==
  /\ op[k].at = "done" /\ op' = [op EXCEPT ![k] = Idle]
  /\ UNCHANGED <<closed, rows, archived, file, upload, removal, crashes>>
-----------------------------------------------------------------------------
(* uploadAndProcess: no row has the hash; the file is stored and the row   *)
(* created later, and nothing keeps another upload of the file out.        *)
UploadCheck(r) ==
  /\ r \notin rows \cup upload \cup removal
  /\ \A s \in rows : FileOf[s] # FileOf[r]
  /\ upload' = upload \cup {r} /\ op' = Disturb(op)
  /\ UNCHANGED <<closed, rows, archived, file, removal, crashes>>

UploadStore(r) ==
  /\ r \in upload
  /\ upload' = upload \ {r} /\ rows' = rows \cup {r} /\ archived' = archived \ {r}
  /\ file' = [file EXCEPT ![FileOf[r]] = @ \cup {"main"}]
  /\ op' = Disturb(op)
  /\ UNCHANGED <<closed, removal, crashes>>

(* removeWithFile: first the row, then the file of the main store.         *)
RemoveRow(r) ==
  /\ r \in rows /\ rows' = rows \ {r} /\ removal' = removal \cup {r}
  /\ op' = Disturb(op)
  /\ UNCHANGED <<closed, archived, file, upload, crashes>>

RemoveFile(r) ==
  /\ r \in removal /\ removal' = removal \ {r}
  /\ file' = [file EXCEPT ![FileOf[r]] = @ \ {"main"}]
  /\ op' = Disturb(op)
  /\ UNCHANGED <<closed, rows, archived, upload, crashes>>

Crash ==
  /\ crashes < MaxCrashes /\ crashes' = crashes + 1
  /\ op' = [k \in Cascades |-> Idle] /\ upload' = {} /\ removal' = {}
  /\ UNCHANGED <<closed, rows, archived, file>>

Next ==
  \/ \E k \in Cascades :
       \/ \E x \in Projects \cup Threads, archive \in BOOLEAN : Begin(k, x, archive)
       \/ UpdateStatus(k) \/ UpdateThreads(k) \/ UpdateDocs(k) \/ UpdateResources(k)
       \/ \E r \in Resources : MoveFile(k, r)
       \/ Schedule(k) \/ End(k)
  \/ \E r \in Resources : UploadCheck(r) \/ UploadStore(r) \/ RemoveRow(r) \/ RemoveFile(r)
  \/ Crash

Spec == Init /\ [][Next]_vars
-----------------------------------------------------------------------------
(* Statuses, files and the cascades keep their types.                      *)
TypeOK ==
  /\ closed \subseteq Projects \cup Threads
  /\ rows \subseteq Resources /\ archived \subseteq Items
  /\ file \in [Files -> SUBSET {"main", "archive"}]
  /\ upload \subseteq Resources \ rows /\ removal \subseteq Resources \ rows
  /\ crashes \in 0..MaxCrashes
  /\ \A k \in Cascades :
       /\ op[k].at \in {"idle", "status", "threads", "docs", "resources", "move", "done"}
       /\ op[k].left \subseteq op[k].items /\ op[k].items \subseteq Items
       /\ op[k].threads \subseteq Threads

(* A cascade that nobody crosses leaves each file of its resources where   *)
(* getFileBuffer looks for it, whatever cascades were broken off before it *)
(* and wherever they left the file: in the main store after an unarchive,  *)
(* in the archive after an archive, unless an active resource shares it    *)
(* (or the removal of a resource that shared it has deleted it).           *)
CascadeSettlesFiles ==
  \A k \in Cascades :
    op[k].at = "done" /\ op[k].calm =>
      \A r \in op[k].items \cap Resources :
        LET f      == file[FileOf[r]]
            shared == \E s \in rows \ {r} : FileOf[s] = FileOf[r] /\ s \notin archived
        IN  f # {} /\ (op[k].archive => ~shared)
              => f = {IF op[k].archive THEN "archive" ELSE "main"}
=============================================================================
