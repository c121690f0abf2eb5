----------------------------- MODULE IndexedFiles -----------------------------
(***************************************************************************)
(* The files of an assistant's or an agent's working folder and the rows   *)
(* that index them (src/src/indexed-file), with the processors that store  *)
(* the text and the vectors of a file (src/src/execution-processor).       *)
(*                                                                         *)
(* The folder is also edited by its owner.  A row knows a file by its      *)
(* checksum and by the size and time of its last sight, here one stamp     *)
(* that every change of the file renews.  A step is what happens between   *)
(* two awaits that matter: a file is read and the row that depends on it   *)
(* saved in one step, and the lookups that open a request are one step.    *)
(* TypeORM's save of a row read earlier overwrites it whole, or inserts it *)
(* again.  Names are canonical, in one folder; paths are left out.         *)
(***************************************************************************)
EXTENDS Naturals, FiniteSets

CONSTANTS
  Names, Contents,
  Base,          (* name -> its last segment                               *)
  Textual,       (* names whose type is served as it is                    *)
  Actors,        (* requests that may run at the same time                 *)
  MaxStamp, MaxRows, MaxClears, MaxCrashes,   (* bounds                    *)
  Null

FilesAssumption ==
  /\ DOMAIN Base = Names /\ Textual \subseteq Names
  /\ MaxStamp \in Nat /\ MaxRows \in Nat /\ MaxClears \in Nat /\ MaxCrashes \in Nat

Ids == 1..MaxRows

VARIABLES
  disk,     (* name -> what the file has, or Null                          *)
  stamp,    (* the last stamp given                                        *)
  rows,     (* indexed_files                                               *)
  serial,   (* the last row id given                                       *)
  jobs,     (* executions for the worker; two that are equal are one       *)
  op,       (* what each actor is doing                                    *)
  run,      (* what the processors are doing, one execution at a time      *)
  raced,    (* a file changed between its bytes and its stat, history      *)
  used      (* clears and crashes so far                                   *)

vars == <<disk, stamp, rows, serial, jobs, op, run, raced, used>>

File(c, s)   == [content |-> c, stamp |-> s]
Row(n, c, s) == [name |-> n, sum |-> c, stamp |-> s, text |-> Null, embedded |-> FALSE]
Job(kind, i, c) == [kind |-> kind, id |-> i, sum |-> c]
Idle == [at |-> "idle"]
Do(a, o) == op' = [op EXCEPT ![a] = o]

Init ==
  /\ disk \in [Names -> {Null} \cup {File(c, 1) : c \in Contents}] /\ stamp = 1
  /\ rows = [i \in Ids |-> Null] /\ serial = 0 /\ jobs = {}
  /\ op = [a \in Actors |-> Idle] /\ run = Idle
  /\ raced = FALSE /\ used = [clears |-> 0, crashes |-> 0]

RowsNamed(n) == {i \in Ids : rows[i] # Null /\ rows[i].name = n}
RowsBased(n) == {i \in Ids : rows[i] # Null /\ Base[rows[i].name] = Base[n]}

(* The owner and the name of a row are unique: a second one is refused.    *)
Insert(row) == IF RowsNamed(row.name) # {} THEN UNCHANGED <<rows, serial, jobs>> ELSE
               /\ serial < MaxRows /\ serial' = serial + 1
               /\ rows' = [rows EXCEPT ![serial + 1] = row]
               /\ jobs' = jobs \cup {Job("extract", serial + 1, row.sum)}
Clash(i, row)  == RowsNamed(row.name) \ {i} # {}
Save(i, row)   == rows' = IF Clash(i, row) THEN rows ELSE [rows EXCEPT ![i] = row]
Renew(i, row)  == /\ Save(i, row)
                  /\ jobs' = IF Clash(i, row) THEN jobs ELSE jobs \cup {Job("extract", i, row.sum)}
                  /\ UNCHANGED serial
Drop(is)       == rows' = [i \in Ids |-> IF i \in is THEN Null ELSE rows[i]]

(* writeFile: an existing file is refused unless it may be overwritten.    *)
Write(a, n, c, overwrite) ==
  /\ op[a].at = "idle" /\ stamp < MaxStamp
  /\ (disk[n] # Null \/ RowsNamed(n) # {}) => overwrite
  /\ \E i \in IF RowsNamed(n) = {} THEN {Null} ELSE RowsNamed(n) :
       Do(a, [at |-> "write", name |-> n, content |-> c, id |-> i, stamp |-> Null])
  /\ UNCHANGED <<disk, stamp, rows, serial, jobs, run, raced, used>>

Touch(n, c) == /\ stamp < MaxStamp /\ stamp' = stamp + 1
               /\ disk' = [disk EXCEPT ![n] = File(c, stamp + 1)]

WriteBytes(a) ==
  /\ op[a].at = "write" /\ Touch(op[a].name, op[a].content)
  /\ Do(a, [op[a] EXCEPT !.at = "stat"])
  /\ UNCHANGED <<rows, serial, jobs, run, raced, used>>

(* The stat of a write and of an adoption, after their bytes.              *)
Stat(a) ==
  /\ op[a].at = "stat"
  /\ LET f == disk[op[a].name] IN
     IF f = Null THEN Do(a, Idle) /\ UNCHANGED raced
     ELSE /\ Do(a, [op[a] EXCEPT !.at = "save", !.stamp = f.stamp])
          /\ raced' = (raced \/ f.content # op[a].content)
  /\ UNCHANGED <<disk, stamp, rows, serial, jobs, run, used>>

(* Save and enqueueExtraction; the row is reset.                           *)
SaveFile(a) ==
  /\ op[a].at = "save"
  /\ LET row == Row(op[a].name, op[a].content, op[a].stamp) IN
     IF op[a].id = Null THEN Insert(row) ELSE Renew(op[a].id, row)
  /\ Do(a, Idle)
  /\ UNCHANGED <<disk, stamp, run, raced, used>>

(* readWithSync: by id, or by name, by last segment, or from the folder.   *)
Read(a, i) ==
  /\ op[a].at = "idle" /\ rows[i] # Null
  /\ Do(a, [at |-> "check", id |-> i, row |-> rows[i]])
  /\ UNCHANGED <<disk, stamp, rows, serial, jobs, run, raced, used>>

(* tryAdoptFromDisk: a file of the folder that no row names.               *)
Adopt(a, n) ==
  /\ op[a].at = "idle" /\ RowsBased(n) = {} /\ disk[n] # Null
  /\ Do(a, [at |-> "stat", name |-> n, content |-> disk[n].content, id |-> Null, stamp |-> Null])
  /\ UNCHANGED <<disk, stamp, rows, serial, jobs, run, raced, used>>

ReadByName(a, n) ==
  \/ \E i \in RowsNamed(n) : Read(a, i)
  \/ /\ RowsNamed(n) = {} /\ Cardinality(RowsBased(n)) = 1
     /\ \E i \in RowsBased(n) : Read(a, i)
  \/ Adopt(a, n)

CheckStat(a) ==
  /\ op[a].at = "check"
  /\ LET f == disk[op[a].row.name] IN
     IF f = Null THEN Drop({op[a].id}) /\ Do(a, Idle)
     ELSE /\ Do(a, IF f.stamp = op[a].row.stamp THEN Idle
                   ELSE [at |-> "reread", id |-> op[a].id, row |-> op[a].row, stamp |-> f.stamp])
          /\ UNCHANGED rows
  /\ UNCHANGED <<disk, stamp, serial, jobs, run, raced, used>>

(* Faulty: a new stamp alone is taken for a touch.                         *)
SyncTrustsStamp(i, row, n, s) ==
  Save(i, [row EXCEPT !.stamp = s]) /\ UNCHANGED <<serial, jobs>>

(* A row whose file has another stamp than the row had: new bytes reset    *)
(* it, the same bytes renew its stamp.                                     *)
Sync(i, row, n, s) ==
  IF disk[n].content # row.sum
  THEN Renew(i, Row(n, disk[n].content, s))
  ELSE Save(i, [row EXCEPT !.stamp = s]) /\ UNCHANGED <<serial, jobs>>

Reread(a) ==
  /\ op[a].at = "reread"
  /\ LET n == op[a].row.name IN
     IF disk[n] = Null THEN UNCHANGED <<rows, serial, jobs>>
     ELSE Sync(op[a].id, op[a].row, n, op[a].stamp)
  /\ Do(a, Idle)
  /\ UNCHANGED <<disk, stamp, run, raced, used>>

(* deleteFile: the file, then the row.                                     *)
Delete(a, i) ==
  /\ op[a].at = "idle" /\ rows[i] # Null
  /\ disk' = [disk EXCEPT ![rows[i].name] = Null]
  /\ Do(a, [at |-> "drop", id |-> i])
  /\ UNCHANGED <<stamp, rows, serial, jobs, run, raced, used>>

DropRow(a) ==
  /\ op[a].at = "drop" /\ Drop({op[a].id}) /\ Do(a, Idle)
  /\ UNCHANGED <<disk, stamp, serial, jobs, run, raced, used>>

(* doScanFolder, one at a time for an owner: the folder is listed, then    *)
(* the rows, then each file is compared with its row of the list; a row    *)
(* with the same name that the list has not ends the scan with an error.   *)
Scan(a) ==
  /\ op[a].at = "idle" /\ \A b \in Actors : op[b].at \notin {"listed", "scan"}
  /\ Do(a, [at |-> "listed",
            files |-> {[name |-> n, stamp |-> disk[n].stamp] : n \in {m \in Names : disk[m] # Null}}])
  /\ UNCHANGED <<disk, stamp, rows, serial, jobs, run, raced, used>>

ListRows(a) ==
  /\ op[a].at = "listed"
  /\ LET known == {i \in Ids : rows[i] # Null}
     IN  Do(a, [at |-> "scan", files |-> op[a].files,
                rows |-> [i \in known |-> rows[i]],
                gone |-> {i \in known : \A f \in op[a].files : f.name # rows[i].name}])
  /\ UNCHANGED <<disk, stamp, rows, serial, jobs, run, raced, used>>

ScanFile(a) ==
  /\ op[a].at = "scan"
  /\ \E f \in op[a].files :
       LET n == f.name
           known == {i \in DOMAIN op[a].rows : op[a].rows[i].name = n}
       IN  /\ Do(a, IF \E i \in RowsNamed(n) : i \notin known /\ disk[n] # Null
                    THEN Idle ELSE [op[a] EXCEPT !.files = @ \ {f}])
           /\ IF known = {}
              THEN IF disk[n] = Null THEN UNCHANGED <<rows, serial, jobs>>
                   ELSE Insert(Row(n, disk[n].content, f.stamp))
              ELSE \E i \in known :
                     IF op[a].rows[i].stamp = f.stamp \/ disk[n] = Null
                     THEN UNCHANGED <<rows, serial, jobs>>
                     ELSE Sync(i, op[a].rows[i], n, f.stamp)
  /\ UNCHANGED <<disk, stamp, run, raced, used>>

ScanEnd(a) ==
  /\ op[a].at = "scan" /\ op[a].files = {}
  /\ Drop(op[a].gone) /\ Do(a, Idle)
  /\ UNCHANGED <<disk, stamp, serial, jobs, run, raced, used>>

(* clearAllForOwner: the owner is removed or gets another folder.          *)
ClearAll ==
  /\ used.clears < MaxClears /\ used' = [used EXCEPT !.clears = @ + 1]
  /\ Drop(Ids)
  /\ UNCHANGED <<disk, stamp, serial, jobs, op, run, raced>>

(* Faulty: the checksum of the execution is not compared.                  *)
AcceptsAnyBytes(j) == rows[j.id] # Null

(* An execution that failed, or whose row is gone or has other bytes, ends *)
(* without effect.                                                         *)
Accepts(j) == rows[j.id] # Null /\ rows[j.id].sum = j.sum

Discard(j) ==
  /\ run.at = "idle" /\ j \in jobs /\ jobs' = jobs \ {j}
  /\ UNCHANGED <<disk, stamp, rows, serial, op, run, raced, used>>

Process(j) ==
  /\ run.at = "idle" /\ j \in jobs /\ Accepts(j)
  /\ run' = [at |-> j.kind, job |-> j, row |-> rows[j.id]]
  /\ UNCHANGED <<disk, stamp, rows, serial, jobs, op, raced, used>>

(* The worker's answer: the text of the bytes it was given, or none.       *)
StoreText(text) ==
  /\ run.at = "extract" /\ text \in {"", run.job.sum}
  /\ Save(run.job.id, [run.row EXCEPT !.text = text])
  /\ jobs' = (jobs \ {run.job}) \cup
       IF text = "" \/ Clash(run.job.id, run.row) THEN {} ELSE {Job("ingest", run.job.id, run.row.sum)}
  /\ run' = Idle
  /\ UNCHANGED <<disk, stamp, serial, op, raced, used>>

StoreVectors(some) ==
  /\ run.at = "ingest"
  /\ Save(run.job.id, [run.row EXCEPT !.embedded = some])
  /\ jobs' = jobs \ {run.job} /\ run' = Idle
  /\ UNCHANGED <<disk, stamp, serial, op, raced, used>>

(* The owner of the folder works in it.                                    *)
EditFile(n, c) ==
  /\ Touch(n, c)
  /\ UNCHANGED <<rows, serial, jobs, op, run, raced, used>>

RemoveFile(n) ==
  /\ disk[n] # Null /\ disk' = [disk EXCEPT ![n] = Null]
  /\ UNCHANGED <<stamp, rows, serial, jobs, op, run, raced, used>>

(* The backend stops; an execution it was processing is processed again.   *)
Crash ==
  /\ used.crashes < MaxCrashes /\ used' = [used EXCEPT !.crashes = @ + 1]
  /\ op' = [a \in Actors |-> Idle] /\ run' = Idle
  /\ UNCHANGED <<disk, stamp, rows, serial, jobs, raced>>

Request(a) ==
  \/ \E n \in Names, c \in Contents, o \in BOOLEAN : Write(a, n, c, o)
  \/ \E i \in Ids : Read(a, i) \/ Delete(a, i)
  \/ \E n \in Names : ReadByName(a, n)
  \/ Scan(a)

Step(a) == \/ WriteBytes(a) \/ Stat(a) \/ SaveFile(a) \/ CheckStat(a) \/ Reread(a)
           \/ DropRow(a) \/ ListRows(a) \/ ScanFile(a) \/ ScanEnd(a)

Next ==
  \/ \E a \in Actors : Request(a) \/ Step(a)
  \/ \E j \in jobs : Process(j) \/ Discard(j)
  \/ \E t \in Contents \cup {""} : StoreText(t)
  \/ \E some \in BOOLEAN : StoreVectors(some)
  \/ \E n \in Names : RemoveFile(n) \/ \E c \in Contents : EditFile(n, c)
  \/ ClearAll \/ Crash

Spec == Init /\ [][Next]_vars

-----------------------------------------------------------------------------
Texts == Contents \cup {"", Null}
RowType == [name : Names, sum : Contents, stamp : 1..MaxStamp, text : Texts, embedded : BOOLEAN]

(* The disk, the rows and the saves under way keep their types.            *)
TypeOK ==
  /\ \A n \in Names : disk[n] = Null \/ disk[n] \in [content : Contents, stamp : 1..MaxStamp]
  /\ stamp \in 1..MaxStamp /\ serial \in 0..MaxRows
  /\ rows \in [Ids -> RowType \cup {Null}]
  /\ jobs \subseteq [kind : {"extract", "ingest"}, id : Ids, sum : Contents]
  /\ \A a \in Actors : op[a].at \in
       {"idle", "write", "stat", "save", "check", "reread", "drop", "listed", "scan"}
  /\ run.at \in {"idle", "extract", "ingest"} /\ raced \in BOOLEAN

(* The text that a row serves is that of the bytes it has the checksum of: *)
(* answers of the worker that come late, in another order or twice, and    *)
(* rows that requests read earlier and save later, never mix two versions  *)
(* of a file (the checksum comparison of the processor, and the resets of  *)
(* readWithSync, doScanFolder and writeFile).                              *)
RowIsOneVersion ==
  \A i \in Ids : rows[i] # Null => rows[i].text \in {Null, "", rows[i].sum}

(* A change of a file is found at its next read or scan: a row that has    *)
(* the stamp of its file has its checksum too (readWithSync compares no    *)
(* more than that), unless the file changed between the bytes and the stat *)
(* of a write or of an adoption.                                           *)
ChangesAreFound ==
  raced \/ \A i \in Ids : rows[i] # Null => LET f == disk[rows[i].name] IN
    (f # Null /\ f.stamp = rows[i].stamp) => f.content = rows[i].sum
=============================================================================
