------------------------------ MODULE DataSync ------------------------------
(***************************************************************************)
(* A data source and the dataset it fills (src/src/data-source): syncs     *)
(* that a cron job or a request starts and that may overlap, the settings  *)
(* that users change meanwhile, and restarts.  A sync loads the row of the *)
(* source when it begins and saves that copy, settings included, three     *)
(* times or more.                                                          *)
(*                                                                         *)
(* What the provider delivers is a version of each key; a record without a *)
(* key, rate limits, credentials and the mapping of fields are left out.   *)
(* Nobody but the syncs writes the records here.                           *)
(***************************************************************************)
EXTENDS Naturals, FiniteSets

CONSTANTS
  Keys,        (* values of incrementalKey                                 *)
  Versions,    (* data that a key may have                                 *)
  Invalid,     (* <<key, version>> that validateRecordData refuses         *)
  Syncs,       (* calls of syncDataSource that may overlap                 *)
  MaxDatasets, (* bound: datasets that syncs create                        *)
  MaxChanges,  (* bound: settings written                                  *)
  MaxFaults,   (* bound: restarts and failed steps                         *)
  Null         (* no row, nothing delivered for a key                      *)

Datasets  == 1..MaxDatasets
Rows      == Keys \X Versions
Delivered == [Keys -> Versions \cup {Null}]
Source    == [enabled : BOOLEAN, strategy : {"full", "incremental"}, dataset : {0} \cup Datasets]

DataSyncAssumption ==
  /\ {MaxDatasets, MaxChanges, MaxFaults} \subseteq Nat
  /\ Invalid \subseteq Rows /\ Null \notin Versions \cup Source

VARIABLES
  source,   (* Null, or the row of data_sources; enabled stands for a      *)
            (* schedule on an enabled source, dataset 0 for none           *)
  cron,     (* the job data-source-sync-<id> is registered                 *)
  asked,    (* a PATCH has saved and will updateSchedule                   *)
  remote,   (* what the provider has now                                   *)
  made,     (* datasets created so far                                     *)
  rows,     (* dataset_records: how many of each                           *)
  sync,     (* the syncs                                                   *)
  changes, faults,
  tame,     (* history: no sync has begun beside another                   *)
  kept      (* history: no sync has saved settings that were changed after *)
            (* it loaded them                                              *)

vars == <<source, cron, asked, remote, made, rows, sync, changes, faults, tame, kept>>

Idle == [at |-> "idle", copy |-> Null, left |-> Keys,
         got |-> [k \in Keys |-> Null], old |-> {}]
Busy == {s \in Syncs : sync[s].at # "idle"}

Init ==
  /\ source = Null /\ cron = FALSE /\ asked = FALSE
  /\ remote \in Delivered
  /\ made = 0 /\ rows = [d \in Datasets |-> [r \in Rows |-> 0]]
  /\ sync = [s \in Syncs |-> Idle] /\ changes = 0 /\ faults = 0
  /\ tame = TRUE /\ kept = TRUE

Publish(new) ==
  /\ remote' = new /\ new # remote
  /\ UNCHANGED <<source, cron, asked, made, rows, sync, changes, faults, tame, kept>>
-----------------------------------------------------------------------------
(* POST: the row, and the cron job of an enabled source.                   *)
Create(enabled, strategy) ==
  /\ source = Null /\ changes = 0 /\ changes' = 1
  /\ source' = [enabled |-> enabled, strategy |-> strategy, dataset |-> 0]
  /\ cron' = enabled
  /\ UNCHANGED <<asked, remote, made, rows, sync, faults, tame, kept>>

(* PATCH: DataSourceService.update ...                                     *)
Update(enabled, strategy) ==
  /\ source # Null /\ ~asked /\ changes < MaxChanges /\ changes' = changes + 1
  /\ source' = [source EXCEPT !.enabled = enabled, !.strategy = strategy]
  /\ asked' = TRUE
  /\ UNCHANGED <<cron, remote, made, rows, sync, faults, tame, kept>>

(* ... and updateSchedule with the row as it is found then.                *)
UpdateSchedule ==
  /\ asked /\ asked' = FALSE
  /\ cron' = IF source = Null THEN cron ELSE source.enabled
  /\ UNCHANGED <<source, remote, made, rows, sync, changes, faults, tame, kept>>

(* DELETE: unregisterCron, then the row.                                   *)
Remove ==
  /\ source # Null /\ ~asked /\ changes < MaxChanges /\ changes' = changes + 1
  /\ source' = Null /\ cron' = FALSE
  /\ UNCHANGED <<asked, remote, made, rows, sync, faults, tame, kept>>
-----------------------------------------------------------------------------
(* syncDataSource, from the cron job or POST :id/sync, loads the source.   *)
Begin(s) ==
  /\ sync[s].at = "idle" /\ source # Null
  /\ sync' = [sync EXCEPT ![s] = [Idle EXCEPT !.at = "start", !.copy = source]]
  /\ tame' = (tame /\ Busy = {})
  /\ UNCHANGED <<source, cron, asked, remote, made, rows, changes, faults, kept>>

(* dsRepo.save(ds) writes every column of the copy that differs, and       *)
(* inserts the row again when it has been removed.                         *)
SaveSource(copy) ==
  /\ source' = copy
  /\ kept' = (kept /\ source # Null /\ source.enabled = copy.enabled /\ source.strategy = copy.strategy)

To(s, at) == sync' = [sync EXCEPT ![s].at = at]

Start(s) ==
  /\ sync[s].at = "start" /\ SaveSource(sync[s].copy) /\ To(s, "fetch")
  /\ UNCHANGED <<cron, asked, remote, made, rows, changes, faults, tame>>

(* The provider is asked for page after page of what it has then; a record *)
(* is taken to stay on its page while they are read.                       *)
Paged(s, page) == [k \in Keys |-> IF k \in page THEN remote[k] ELSE sync[s].got[k]]

(* After the last page; without a record the sync is over.                 *)
Fetch(s, page) ==
  LET left == sync[s].left \ page
      got  == Paged(s, page)
  IN  /\ sync[s].at = "fetch"
      /\ page \subseteq sync[s].left /\ (page = {} => left = {})
      /\ sync' = [sync EXCEPT ![s].got = got, ![s].left = left,
           ![s].at = IF left # {} THEN "fetch"
                     ELSE IF \A k \in Keys : got[k] = Null THEN "finish"
                     ELSE IF sync[s].copy.dataset = 0 THEN "create" ELSE "records"]
  /\ UNCHANGED <<source, cron, asked, remote, made, rows, changes, faults, tame, kept>>

CreateDataset(s) ==
  /\ sync[s].at = "create" /\ made < MaxDatasets /\ made' = made + 1
  /\ sync' = [sync EXCEPT ![s].at = "link", ![s].copy.dataset = made']
  /\ UNCHANGED <<source, cron, asked, remote, rows, changes, faults, tame, kept>>

LinkDataset(s) ==
  /\ sync[s].at = "link" /\ SaveSource(sync[s].copy) /\ To(s, "records")
  /\ UNCHANGED <<cron, asked, remote, made, rows, changes, faults, tame>>

Fetched(s) == {r \in Rows : sync[s].got[r[1]] = r[2]}
Target(s)  == rows[sync[s].copy.dataset]
Add(bag, set) == [r \in Rows |-> bag[r] + (IF r \in set THEN 1 ELSE 0)]

(* Full refresh: the records are deleted ...                               *)
DeleteAll(s) ==
  /\ sync[s].at = "records" /\ sync[s].copy.strategy = "full" /\ To(s, "insert")
  /\ rows' = [rows EXCEPT ![sync[s].copy.dataset] = [r \in Rows |-> 0]]
  /\ UNCHANGED <<source, cron, asked, remote, made, changes, faults, tame, kept>>

(* ... and bulkCreateRecords drops those that do not validate.             *)
InsertAll(s) ==
  /\ sync[s].at = "insert" /\ To(s, "finish")
  /\ rows' = [rows EXCEPT ![sync[s].copy.dataset] = Add(@, Fetched(s) \ Invalid)]
  /\ UNCHANGED <<source, cron, asked, remote, made, changes, faults, tame, kept>>

(* incrementalSync: existingMap has one record of each key.                *)
ReadExisting(s) ==
  /\ sync[s].at = "records" /\ sync[s].copy.strategy = "incremental"
  /\ \E old \in SUBSET {r \in Rows : Target(s)[r] > 0} :
       /\ {r[1] : r \in old} = {r[1] : r \in {q \in Rows : Target(s)[q] > 0}}
       /\ \A r, q \in old : r[1] = q[1] => r = q
       /\ sync' = [sync EXCEPT ![s].at = "update", ![s].old = old]
  /\ UNCHANGED <<source, cron, asked, remote, made, rows, changes, faults, tame, kept>>

Found(s) == {k \in Keys : sync[s].got[k] # Null /\ \E r \in sync[s].old : r[1] = k}

(* The records found are saved, and the save fails when one is gone ...    *)
UpdateFound(s) ==
  /\ sync[s].at = "update"
  /\ LET from == {r \in sync[s].old : r[1] \in Found(s)}
         to   == {r \in Fetched(s) : r[1] \in Found(s)}
     IN  /\ \A r \in from : Target(s)[r] > 0
         /\ rows' = [rows EXCEPT ![sync[s].copy.dataset] =
                       Add([r \in Rows |-> @[r] - (IF r \in from THEN 1 ELSE 0)], to)]
  /\ To(s, "new")
  /\ UNCHANGED <<source, cron, asked, remote, made, changes, faults, tame, kept>>

(* Faulty: every delivered record is inserted.                             *)
InsertEvery(s) ==
  /\ sync[s].at = "new" /\ To(s, "finish")
  /\ rows' = [rows EXCEPT ![sync[s].copy.dataset] = Add(@, Fetched(s))]
  /\ UNCHANGED <<source, cron, asked, remote, made, changes, faults, tame, kept>>

(* ... then the others are inserted, valid or not.                         *)
InsertNew(s) ==
  /\ sync[s].at = "new" /\ To(s, "finish")
  /\ rows' = [rows EXCEPT ![sync[s].copy.dataset] =
                Add(@, {r \in Fetched(s) : r[1] \notin Found(s)})]
  /\ UNCHANGED <<source, cron, asked, remote, made, changes, faults, tame, kept>>

Finish(s) ==
  /\ sync[s].at = "finish" /\ SaveSource(sync[s].copy)
  /\ sync' = [sync EXCEPT ![s] = Idle]
  /\ UNCHANGED <<cron, asked, remote, made, rows, changes, faults, tame>>

(* A step throws: the source is saved as failed.                           *)
Fail(s) ==
  /\ sync[s].at \notin {"idle", "start"} /\ faults < MaxFaults /\ faults' = faults + 1
  /\ SaveSource(sync[s].copy)
  /\ sync' = [sync EXCEPT ![s] = Idle]
  /\ UNCHANGED <<cron, asked, remote, made, rows, changes, tame>>

(* Faulty: the jobs are registered without a look at the row.              *)
LoadAll == cron' = (source # Null)

(* loadSchedules                                                           *)
LoadSchedules == cron' = (source # Null /\ source.enabled)

(* The backend restarts; onModuleInit loads the schedules.                 *)
Restart ==
  /\ faults < MaxFaults /\ faults' = faults + 1
  /\ LoadSchedules /\ asked' = FALSE
  /\ sync' = [s \in Syncs |-> Idle]
  /\ UNCHANGED <<source, remote, made, rows, changes, tame, kept>>

Next ==
  \/ \E new \in Delivered : Publish(new)
  \/ \E b \in BOOLEAN, st \in {"full", "incremental"} : Create(b, st) \/ Update(b, st)
  \/ UpdateSchedule \/ Remove \/ Restart
  \/ \E s \in Syncs : \/ Begin(s) \/ Start(s) \/ CreateDataset(s) \/ LinkDataset(s)
                      \/ DeleteAll(s) \/ InsertAll(s) \/ ReadExisting(s) \/ UpdateFound(s)
                      \/ InsertNew(s) \/ Finish(s) \/ Fail(s)
                      \/ \E page \in SUBSET Keys : Fetch(s, page)

Spec == Init /\ [][Next]_vars
-----------------------------------------------------------------------------
(* The source, its copies and the records keep their types.                *)
TypeOK ==
  /\ source \in Source \cup {Null} /\ {cron, asked, tame, kept} \subseteq BOOLEAN
  /\ remote \in Delivered /\ made \in {0} \cup Datasets
  /\ \A d \in Datasets, r \in Rows : rows[d][r] \in Nat
  /\ \A s \in Syncs :
       /\ sync[s].at \in {"idle", "start", "fetch", "create", "link", "records", "insert",
                          "update", "new", "finish"}
       /\ sync[s].copy \in Source \cup {Null} /\ sync[s].got \in Delivered
       /\ sync[s].old \subseteq Rows /\ sync[s].left \subseteq Keys
  /\ changes \in 0..MaxChanges /\ faults \in 0..MaxFaults

(* As long as syncs do not overlap, no key is stored twice, wherever a     *)
(* sync is broken off and however the strategy changes in between; and a   *)
(* sync that gets to its end leaves of each key that was delivered what    *)
(* was delivered (in a full refresh, unless it is invalid) and, in a full  *)
(* refresh, nothing else.                                                  *)
RecordsFollowTheSource ==
  tame =>
    /\ \A d \in Datasets, k \in Keys :
         \A r, q \in {p \in Rows : p[1] = k /\ rows[d][p] > 0} : r = q /\ rows[d][r] = 1
    /\ \A s \in Syncs : sync[s].at = "finish" /\ Fetched(s) # {} =>
         LET stored == {r \in Rows : Target(s)[r] > 0}
         IN  IF sync[s].copy.strategy = "full" THEN stored = Fetched(s) \ Invalid
             ELSE Fetched(s) \subseteq stored

(* Once a request for it is through, the cron job of the source runs if    *)
(* and only if the row is enabled, restarts or not.  (Unless a sync has    *)
(* saved over the settings, or a removed row, what it had loaded before.)  *)
CronFollowsTheRow == kept /\ ~asked => cron = (source # Null /\ source.enabled)
=============================================================================
