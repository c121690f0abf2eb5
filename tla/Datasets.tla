------------------------------ MODULE Datasets ------------------------------
(***************************************************************************)
(* One dataset (src/src/dataset): its schema, its records, the edits of    *)
(* users and the extraction of cells from resources.  Every handler reads  *)
(* the dataset or the record, computes, and saves whole columns, so a      *)
(* write may be computed from a row that has changed since (pend).         *)
(*                                                                         *)
(* A field has a type that matters to SQL, "number", or one that does not, *)
(* "text"; booleans, dates, options, required fields and extractionStatus  *)
(* are left out, as are charts and the links between records.  Every field *)
(* is described, so that extraction asks for it.                           *)
(***************************************************************************)
EXTENDS Naturals, FiniteSets

CONSTANTS
  Records,   (* ids of dataset_records                                     *)
  Keys,      (* keys of fields                                             *)
  Writers,   (* requests and processor calls that may overlap              *)
  MaxJobs,   (* bound: dataset.extract-row executions that are open        *)
  MaxEdits,  (* bound: schema changes                                      *)
  Null       (* SQL and JSON null                                          *)

Numbers == {"1"}                       (* cell values that ::numeric takes *)
Cell    == Numbers \cup {"word"}
Value   == Cell \cup {Null, "absent"}  (* "absent": the object has no such key *)
Schema  == [Keys -> {"number", "text", Null}]
Row     == [data : [Keys -> Value], anchor : [Keys -> {Null, "auto", "edited"}],
            source : BOOLEAN]

DatasetsAssumption ==
  /\ MaxJobs \in Nat /\ MaxEdits \in Nat
  /\ Null \notin Cell \cup {"absent", "number", "text", "auto", "edited"} \cup Records \cup Row

VARIABLES
  dataset,  (* Null, or the row of datasets: sourceMode and schema         *)
  row,      (* dataset_records                                             *)
  born,     (* records inserted so far, or about to be: ids do not return  *)
  pend,     (* each writer: Null, or what it is about to save              *)
  jobs,     (* open executions: the row, columnsToExtract, the types in    *)
            (* the payload and whether the user forced the cell            *)
  edits,    (* schema changes so far                                       *)
  mine,     (* history: what a user typed over an extracted cell           *)
  sound,    (* history: every schema change was safe and undisturbed       *)
  ignored   (* history: a forced extraction found a value and dropped it   *)

vars == <<dataset, row, born, pend, jobs, edits, mine, sound, ignored>>

Nothing == [k \in Keys |-> Null]

Init ==
  /\ dataset = Null /\ row = [r \in Records |-> Null] /\ born = {}
  /\ pend = [w \in Writers |-> Null] /\ jobs = {} /\ edits = 0
  /\ mine = [r \in Records |-> Nothing] /\ sound = TRUE /\ ignored = FALSE

Fields == {k \in Keys : dataset.schema[k] # Null}
-----------------------------------------------------------------------------
(* createDataset; a manual dataset has no sources to extract from.         *)
CreateDataset(mode, schema) ==
  /\ dataset = Null /\ edits = 0 /\ edits' = 1
  /\ dataset' = [mode |-> mode, schema |-> schema]
  /\ UNCHANGED <<row, born, pend, jobs, mine, sound, ignored>>

(* Faulty: fields that go are not reported.                                *)
RemovedIgnored(new) == {}

(* analyzeSchemaChange: fields that go and have values, and fields that    *)
(* change their type.                                                      *)
RemovedFields(new) ==
  {k \in Fields : new[k] = Null /\ \E r \in Records : row[r] # Null /\ row[r].data[k] \in Cell}
TypeChanges(new) == {k \in Fields : new[k] # Null /\ new[k] # dataset.schema[k]}
Safe(new) == RemovedFields(new) = {} /\ TypeChanges(new) = {}

(* updateDataset: the records stay as they are.                            *)
UpdateDataset(mode, schema) ==
  /\ dataset # Null /\ edits < MaxEdits /\ edits' = edits + 1
  /\ dataset' = [mode |-> mode, schema |-> schema]
  /\ sound' = (sound /\ Safe(schema) /\ jobs = {} /\ \A w \in Writers : pend[w] = Null)
  /\ UNCHANGED <<row, born, pend, jobs, mine, ignored>>

(* removeDataset takes the records with it.                                *)
RemoveDataset ==
  /\ dataset # Null /\ dataset' = Null
  /\ row' = [r \in Records |-> Null] /\ mine' = [r \in Records |-> Nothing]
  /\ UNCHANGED <<born, pend, jobs, edits, sound, ignored>>
-----------------------------------------------------------------------------
(* validateRecordData and cleanRecordData, by a schema                     *)
ValidFor(s, d) == \A k \in Keys : s[k] = "number" => d[k] \in Numbers \cup {Null, "absent"}
CleanFor(s, d) == [k \in Keys |-> IF s[k] # Null THEN d[k] ELSE "absent"]
Valid(d) == ValidFor(dataset.schema, d)
Clean(d) == CleanFor(dataset.schema, d)

(* A writer has read and validated; it will save new over the row it saw.  *)
Plan(w, kind, r, new, typed) ==
  /\ pend[w] = Null
  /\ pend' = [pend EXCEPT ![w] =
       [kind |-> kind, row |-> r, new |-> new, typed |-> typed, stale |-> FALSE]]

(* createRecord                                                            *)
CreateRecord(w, r, d) ==
  /\ dataset # Null /\ r \notin born /\ born' = born \cup {r} /\ Valid(d)
  /\ Plan(w, "insert", r,
          [data |-> Clean(d), anchor |-> Nothing, source |-> FALSE], {})
  /\ UNCHANGED <<dataset, row, jobs, edits, mine, sound, ignored>>

(* importValidatedRecords, for the rows that pass (a row that does not is  *)
(* reported): bulkCreateRecords of one row.                                *)
ImportRecords(w, r, d) == CreateRecord(w, r, d)

(* createFromCsv of a file with one row: the dataset first.                *)
CreateFromCsv(w, schema, r, d) ==
  /\ r \notin born /\ born' = born \cup {r} /\ ValidFor(schema, d)
  /\ dataset = Null /\ edits = 0 /\ edits' = 1
  /\ dataset' = [mode |-> "manual", schema |-> schema]
  /\ Plan(w, "insert", r,
          [data |-> CleanFor(schema, d), anchor |-> Nothing, source |-> FALSE], {})
  /\ UNCHANGED <<row, jobs, mine, sound, ignored>>

(* updateRecord: data is what the request sends; an anchored cell whose    *)
(* value changes is marked as edited by the user.                          *)
UpdateRecord(w, r, d) ==
  /\ dataset # Null /\ row[r] # Null /\ Valid(d)
  /\ LET Changed(k) == k \in Fields /\ d[k] # "absent" /\ d[k] # row[r].data[k]
     IN  Plan(w, "user", r,
              [row[r] EXCEPT !.data = Clean(d),
                             !.anchor = [k \in Keys |-> IF Changed(k) /\ @[k] # Null THEN "edited" ELSE @[k]]],
              {k \in Keys : Changed(k) /\ row[r].anchor[k] # Null})
  /\ UNCHANGED <<dataset, row, born, jobs, edits, mine, sound, ignored>>

(* removeRecord and bulkDeleteRecords                                      *)
RemoveRecords(rs) ==
  /\ dataset # Null /\ rs # {} /\ \A r \in rs : row[r] # Null
  /\ row'  = [r \in Records |-> IF r \in rs THEN Null ELSE row[r]]
  /\ mine' = [r \in Records |-> IF r \in rs THEN Nothing ELSE mine[r]]
  /\ pend' = [w \in Writers |-> IF pend[w] # Null /\ pend[w].row \in rs
                                THEN [pend[w] EXCEPT !.stale = TRUE] ELSE pend[w]]
  /\ UNCHANGED <<dataset, born, jobs, edits, sound, ignored>>
-----------------------------------------------------------------------------
(* enqueueExtractionExecution                                              *)
Enqueue(r, keys, forced) ==
  jobs' = jobs \cup {[row |-> r, keys |-> keys, types |-> dataset.schema, forced |-> forced]}

(* upsertRow finds the row of a resource or creates it.                    *)
UpsertRow(r) ==
  IF row[r] # Null THEN row[r]
  ELSE [data |-> [k \in Keys |-> "absent"], anchor |-> Nothing, source |-> TRUE]

(* resolveSources: a resource that has no row yet, or its row; none of a   *)
(* manual dataset.  loadRowContext: the row is there and has a resource.   *)
Sourced(r)    == row[r] # Null /\ row[r].source
Sources       == IF dataset = Null \/ dataset.mode = "manual" THEN {}
                 ELSE {r \in Records : r \notin born \/ Sourced(r)}
RowContext(r) == dataset # Null /\ Sourced(r)

(* extractAll ...                                                          *)
ExtractAll(w, r) ==
  /\ r \in Sources /\ born' = born \cup {r}
  /\ Plan(w, IF row[r] = Null THEN "upsert" ELSE "all", r, UpsertRow(r), {})
  /\ UNCHANGED <<dataset, row, jobs, edits, mine, sound, ignored>>

(* ... and extractRow.                                                     *)
ExtractRow(w, r) ==
  /\ RowContext(r)
  /\ Plan(w, "row", r, row[r], {})
  /\ UNCHANGED <<dataset, row, born, jobs, edits, mine, sound, ignored>>

(* extractCell asks before it extracts a cell that the user edited.        *)
ExtractCell(r, k, force) ==
  /\ RowContext(r) /\ k \in Fields
  /\ row[r].anchor[k] = "edited" => force
  /\ Cardinality(jobs) < MaxJobs
  /\ Enqueue(r, {k}, force)
  /\ UNCHANGED <<dataset, row, born, pend, edits, mine, sound, ignored>>

(* What the worker returns for a column: a value that fits the type it was *)
(* given, with an anchor or without, or nothing; or an error for the row.  *)
Results(job) ==
  {f \in [Keys -> Value \X BOOLEAN] :
     \A k \in Keys :
       /\ job.types[k] = "number" => f[k][1] \notin Cell \ Numbers
       /\ job.types[k] = Null \/ k \notin job.keys => f[k][1] = "absent"
       /\ f[k][1] \in {Null, "absent"} => ~f[k][2]}

(* Faulty: the cells that the user edited are taken as well.               *)
TakesAll(old, job, res) == {k \in job.keys : res[k][1] # "absent"}

(* The columns that applyExtractionResult writes.                          *)
Takes(old, job, res) == {k \in job.keys : old.anchor[k] # "edited" /\ res[k][1] # "absent"}

Merge(old, job, res) ==
  LET keys == Takes(old, job, res)
  IN  [old EXCEPT !.data = [k \in Keys |-> IF k \in keys THEN res[k][1] ELSE @[k]],
                  !.anchor = [k \in Keys |-> IF k \notin keys THEN @[k]
                                             ELSE IF res[k][1] = Null THEN Null
                                             ELSE IF res[k][2] THEN "auto" ELSE @[k]]]

(* applyExtractionResult of an execution, which is then closed.            *)
Apply(w, job, res) ==
  /\ job \in jobs /\ row[job.row] # Null
  /\ Plan(w, "apply", job.row, Merge(row[job.row], job, res), {})
  /\ jobs' = jobs \ {job}
  /\ ignored' = (ignored \/ (job.forced /\ \E k \in job.keys :
                               res[k][1] \in Cell /\ k \notin Takes(row[job.row], job, res)))
  /\ UNCHANGED <<dataset, row, born, edits, mine, sound>>

ApplyError(w, job) ==
  /\ job \in jobs /\ row[job.row] # Null
  /\ Plan(w, "apply", job.row, row[job.row], {})
  /\ jobs' = jobs \ {job}
  /\ UNCHANGED <<dataset, row, born, edits, mine, sound, ignored>>

(* The record is gone, or the execution failed.                            *)
Drop(job) ==
  /\ job \in jobs /\ jobs' = jobs \ {job}
  /\ UNCHANGED <<dataset, row, born, pend, edits, mine, sound, ignored>>
-----------------------------------------------------------------------------
(* What the user typed over extracted cells, after the save of p.          *)
TypedOver(p) ==
  [k \in Keys |-> IF k \in p.typed THEN p.new.data[k]
                  ELSE IF p.stale \/ (p.kind = "user" /\ p.new.data[k] # mine[p.row][k]) THEN Null
                  ELSE mine[p.row][k]]

(* recordRepository.save: a row that is gone is inserted again when the    *)
(* entity was loaded with its dataset, and refused otherwise.              *)
Save(w) ==
  /\ pend[w] # Null
  /\ LET p  == pend[w]
         ok == /\ dataset # Null
               /\ row[p.row] # Null \/ p.kind \in {"insert", "upsert", "apply"}
     IN  /\ row' = IF ok THEN [row EXCEPT ![p.row] = p.new] ELSE row
         /\ mine' = IF ok THEN [mine EXCEPT ![p.row] = TypedOver(p)] ELSE mine
         /\ pend' = [v \in Writers |->
              IF v = w THEN Null
              ELSE IF pend[v] # Null /\ pend[v].row = p.row /\ ok
              THEN [pend[v] EXCEPT !.stale = TRUE] ELSE pend[v]]
         /\ IF ok /\ p.kind \in {"upsert", "all", "row"} /\ Cardinality(jobs) < MaxJobs
            THEN Enqueue(p.row, Fields, FALSE) ELSE UNCHANGED jobs
  /\ UNCHANGED <<dataset, born, edits, sound, ignored>>

Next ==
  \/ \E m \in {"manual", "project_resources"}, s \in Schema : CreateDataset(m, s) \/ UpdateDataset(m, s)
  \/ RemoveDataset
  \/ \E w \in Writers : Save(w)
  \/ \E w \in Writers, r \in Records :
       \/ ExtractAll(w, r) \/ ExtractRow(w, r)
       \/ \E d \in [Keys -> Value], s \in Schema : CreateFromCsv(w, s, r, d)
       \/ \E d \in [Keys -> Value] : CreateRecord(w, r, d) \/ ImportRecords(w, r, d) \/ UpdateRecord(w, r, d)
  \/ \E rs \in SUBSET Records : RemoveRecords(rs)
  \/ \E r \in Records, k \in Keys, force \in BOOLEAN : ExtractCell(r, k, force)
  \/ \E job \in jobs : \/ Drop(job)
                       \/ \E w \in Writers : \/ ApplyError(w, job)
                                             \/ \E res \in Results(job) : Apply(w, job, res)

Spec == Init /\ [][Next]_vars
-----------------------------------------------------------------------------
(* The dataset, its rows and what is about to be saved keep their types.   *)
TypeOK ==
  /\ dataset = Null \/ dataset \in [mode : {"manual", "project_resources"}, schema : Schema]
  /\ row \in [Records -> Row \cup {Null}] /\ born \subseteq Records
  /\ \A w \in Writers : pend[w] # Null => pend[w].row \in Records /\ pend[w].new \in Row
  /\ \A j \in jobs : j.row \in Records /\ j.keys \subseteq Keys
  /\ Cardinality(jobs) <= MaxJobs /\ edits \in 0..MaxEdits
  /\ mine \in [Records -> [Keys -> Cell \cup {Null}]]
  /\ {sound, ignored} \subseteq BOOLEAN

(* What a user typed over an extracted cell stays until the user changes   *)
(* it: no extraction that reads the record afterwards replaces it, whether *)
(* of the row, of the cell or of the whole dataset, of before the edit or  *)
(* after it.  (A save that read the record before the edit undoes it.)     *)
EditsWinOverExtraction ==
  \A r \in Records, k \in Keys : mine[r][k] # Null => row[r].data[k] = mine[r][k]

(* queryRecords casts each value of a number field that it filters or      *)
(* sorts by, and one that is no number fails the query.                    *)
QueryFails ==
  /\ dataset # Null
  /\ \E k \in Fields, r \in Records :
       dataset.schema[k] = "number" /\ row[r] # Null /\ row[r].data[k] \in Cell \ Numbers

(* As long as the schema changes only where analyzeSchemaChange says it is *)
(* safe, and while nothing is under way, no query fails: not after fields  *)
(* are removed and added again, nor after imports, edits or extractions.   *)
SafeChangesKeepQueries == sound => ~QueryFails

(* dataset-extraction.service.ts: 'manual edits win over extraction unless *)
(* the user explicitly forced a re-extract.'  It does not hold: the answer *)
(* of a forced extraction passes over the edited cell it was asked for.    *)
ForcedExtractionIsApplied == ~ignored
=============================================================================
