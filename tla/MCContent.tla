------------------------------ MODULE MCContent ------------------------------
(***************************************************************************)
(* Four components of the content, one beside the other: a behaviour picks *)
(* a part at the start and is one of its behaviours.  The variables of the *)
(* other parts keep their first value.  Datasets is extended, so that its  *)
(* properties have their names; the others have one instance each, of      *)
(* which each of their parts takes a share.                                *)
(***************************************************************************)
EXTENDS Datasets, Sequences, TLC

CONSTANTS
  a1, a2, x, y,
  Delivers, Versions, Invalid, Syncs, MaxDatasets, MaxChanges, MaxFaults,           (* DataSync     *)
  Resources, Words, Scopes, Typed, UnderReview, Extraction, English, Languages, MaxPending, MaxEntities,
  MaxMerges,                                                                        (* EntityReview *)
  Names, Contents, Base, Textual, Actors, MaxStamp, MaxRows, MaxClears, MaxCrashes   (* IndexedFiles *)

VARIABLES
  part,
  source, cron, asked, remote, made, records, sync, changes, faults, tame, kept, (* DataSync     *)
  pending, entity, links, status, batches, review, ids, told, crossed, spent,    (* EntityReview *)
  disk, stamp, rows, serial, tasks, op, run, raced, used                         (* IndexedFiles *)

syncVars    == <<source, cron, asked, remote, made, records, sync, changes, faults, tame, kept>>
reviewVars  == <<pending, entity, links, status, batches, review, ids, told, crossed, spent>>
fileVars    == <<disk, stamp, rows, serial, tasks, op, run, raced, used>>

(* Overlapping edits and extractions; then three schemas in a row.         *)
TwoWriters == {a1, a2}
Last       == [n \in Names |-> "n"]
Schemas == INSTANCE Datasets WITH Writers <- {a1}, MaxJobs <- 1, MaxEdits <- 3

Feed   == INSTANCE DataSync WITH Keys <- Delivers, rows <- records
Review == INSTANCE EntityReview WITH op <- review, serial <- ids, used <- spent
Files == INSTANCE IndexedFiles WITH jobs <- tasks

ASSUME SchemasInstance == Schemas!DatasetsAssumption
ASSUME FeedInstance    == Feed!DataSyncAssumption
ASSUME ReviewInstance  == Review!ReviewAssumption
ASSUME FilesInstance   == Files!FilesAssumption

(* One resource has a row for each word; what is found in the other one is *)
(* delivered in two languages.                                             *)
EachWord     == <<<<"r1", "a">>, <<"r1", "b">>>>
AsTheyCome   == <<"a", "b">>
SameWord     == [w \in Words |-> w]
TwoLanguages == [r \in Resources |-> IF r = "r1" THEN <<>> ELSE <<"en", "es">>]
BadRecord    == {<<"a", 2>>}

-----------------------------------------------------------------------------
FileParts   == {"together", "alone", "nested"}
FeedParts   == {"stored", "settings"}
ReviewParts == {"links", "found"}
Parts       == {"edits", "schemas"} \cup FeedParts \cup ReviewParts \cup FileParts

(* DataSync: one sync at a time with all that it stores; two, and more     *)
(* settings, of a provider that delivers nothing.                          *)
ShareOfFeed ==
  /\ part = "stored"   => changes <= 2 /\ \A s \in Syncs \ {a1} : sync[s] = Feed!Idle
  /\ part = "settings" => (\A k \in Delivers : remote[k] = Null)
                          /\ \A s \in Syncs : sync[s].at = "fetch" => sync[s].left = Delivers

(* EntityReview: rows under review that two users merge and confirm; what  *)
(* an extraction of two languages finds, with an edit in between.          *)
RestsInOne ==
  /\ \A p \in DOMAIN UnderReview : pending[p] = Review!Row("r1", UnderReview[p][2], TRUE)
  /\ Review!RowsOf("r1") = DOMAIN UnderReview
  /\ \A a \in Actors : "res" \in DOMAIN review[a] => review[a].res = "r2"
ShareOfReview ==
  /\ part = "links" => status["r2"] = "extracted" /\ spent.edits = 0
  /\ part = "found" => RestsInOne /\ spent.merges = 0 /\ \A a \in Actors \ {a1} : review[a] = Review!Idle

(* IndexedFiles: two requests on one file; one request with clears,        *)
(* crashes and a longer life of the file; two names with one last segment. *)
Only(as)  == \A a \in Actors \ as : op[a] = Files!Idle
OneName   == /\ \A n \in Names \ {"n"} : disk[n] = Null
             /\ \A a \in Actors : "name" \in DOMAIN op[a] => op[a].name = "n"
             /\ serial <= 1
Unharmed  == used = [clears |-> 0, crashes |-> 0]
ShareOfFiles ==
  /\ part = "together" => stamp <= 2 /\ OneName /\ Unharmed
  /\ part = "alone"    => OneName /\ Only({a1})
  /\ part = "nested"   => /\ stamp <= 1 /\ Only({a1}) /\ Unharmed
                         /\ \A n \in Names : disk[n] # Null => disk[n].content = x
                         /\ \A a \in Actors : op[a].at # "write"

MCInit ==
  /\ part \in Parts
  /\ IF part = "schemas" THEN Schemas!Init ELSE Init
  /\ Feed!Init /\ IF part = "stored" THEN ShareOfFeed ELSE remote = [k \in Delivers |-> Null]
  /\ Review!Init
  /\ Files!Init /\ IF part \in FileParts THEN ShareOfFiles ELSE disk = [n \in Names |-> Null]

NoDataset == UNCHANGED vars
NoSync    == UNCHANGED syncVars
NoReview  == UNCHANGED reviewVars
NoFile    == UNCHANGED fileVars

MCNext ==
  /\ UNCHANGED part
  /\ \/ part = "edits"    /\ Next          /\ NoSync /\ NoReview /\ NoFile
     \/ part = "schemas"  /\ Schemas!Next  /\ NoSync /\ NoReview /\ NoFile
     \/ part \in FeedParts   /\ Feed!Next   /\ ShareOfFeed'   /\ NoDataset /\ NoReview /\ NoFile
     \/ part \in ReviewParts /\ Review!Next /\ ShareOfReview' /\ NoDataset /\ NoSync /\ NoFile
     \/ part \in FileParts   /\ Files!Next  /\ ShareOfFiles'  /\ NoDataset /\ NoSync /\ NoReview

MCSpec == MCInit /\ [][MCNext]_<<part, vars, syncVars, reviewVars, fileVars>>

Symmetry == Permutations({a1, a2}) \cup Permutations({x, y})

-----------------------------------------------------------------------------
(* DataSync: while syncs do not overlap no key is stored twice, and a sync *)
(* that gets to its end leaves what the provider delivered.                *)
RecordsFollowTheSource == Feed!RecordsFollowTheSource

(* DataSync: between requests the cron job runs if and only if the source  *)
(* is enabled, restarts or not.                                            *)
CronFollowsTheRow == Feed!CronFollowsTheRow

(* EntityReview: a resource stays linked to each entity the user was told  *)
(* is confirmed for it, through merges, translations and crashes.          *)
ConfirmedStaysLinked == Review!ConfirmedStaysLinked

(* IndexedFiles: the extracted text of a row belongs to the bytes whose    *)
(* checksum the row has, however late an extraction answers.               *)
RowIsOneVersion == Files!RowIsOneVersion

(* IndexedFiles: a row with the stamp of its file has the checksum of its  *)
(* bytes, so the next read or scan finds every change.                     *)
ChangesAreFound == Files!ChangesAreFound
=============================================================================
