---------------------------- MODULE ContentProofs ----------------------------
(***************************************************************************)
(* Theorems of the four components of MCContent: Datasets for any records, *)
(* keys and overlapping writers; DataSync for any keys, versions, syncs;   *)
(* EntityReview for any words, rows, entities and requests; IndexedFiles   *)
(* for any files, contents, requests and bounds.                           *)
(***************************************************************************)
EXTENDS MCContent, TLAPS

Pending == [kind : {"insert", "upsert", "all", "row", "user", "apply"}, row : Records, new : Row,
            typed : SUBSET Keys, stale : BOOLEAN]

StoreOK ==
  /\ row \in [Records -> Row \cup {Null}]
  /\ mine \in [Records -> [Keys -> Value]]
  /\ pend \in [Writers -> Pending \cup {Null}]

(* A cell that holds what the user typed is marked as edited.              *)
Marked(data, anchor, r) ==
  \A k \in Keys : mine[r][k] # Null => data[k] = mine[r][k] /\ anchor[k] = "edited"
(* Ids of rows are taken before the row is there.                          *)
IdsTaken == (\A r \in Records \ born : row[r] = Null)
            /\ \A w \in Writers : pend[w] # Null => pend[w].row \in born
RowsMarked == \A r \in Records : (\E k \in Keys : mine[r][k] # Null) =>
                row[r] # Null /\ Marked(row[r].data, row[r].anchor, r)

(* What a writer is about to save: cells that the user types are marked,   *)
(* and if the row is still the one that was read, cells that he typed      *)
(* before are there and marked, or he has changed them himself.            *)
Plans(p) ==
  /\ \A k \in p.typed : p.new.anchor[k] = "edited"
  /\ ~p.stale => \A k \in Keys \ p.typed :
       mine[p.row][k] # Null =>
         \/ p.new.data[k] = mine[p.row][k] /\ p.new.anchor[k] = "edited"
         \/ p.kind = "user" /\ p.new.data[k] # mine[p.row][k]
PlansOK == \A w \in Writers : pend[w] # Null => Plans(pend[w])

EditInv == StoreOK /\ IdsTaken /\ RowsMarked /\ PlansOK
JobsOK  == \A j \in jobs : j.row \in Records

-----------------------------------------------------------------------------
(* The parts of a row.                                                     *)
LEMMA RowParts ==
  ASSUME NEW c \in Row
  PROVE  c.data \in [Keys -> Value] /\ c.anchor \in [Keys -> {Null, "auto", "edited"}] /\ c.source \in BOOLEAN
BY DEF Row

(* A writer that plans to save keeps the rows; its plan must be sound.     *)
LEMMA PlanKeeps ==
  ASSUME EditInv, NEW w \in Writers, NEW kind \in {"insert", "upsert", "all", "row", "user", "apply"},
         NEW r \in Records, NEW new \in Row, NEW typed \in SUBSET Keys,
         Plan(w, kind, r, new, typed), UNCHANGED <<row, mine>>, r \in born', born \subseteq born',
         \A k \in typed : new.anchor[k] = "edited",
         \A k \in Keys \ typed : mine[r][k] # Null =>
           \/ new.data[k] = mine[r][k] /\ new.anchor[k] = "edited"
           \/ kind = "user" /\ new.data[k] # mine[r][k]
  PROVE  EditInv'
<1> DEFINE p == [kind |-> kind, row |-> r, new |-> new, typed |-> typed, stale |-> FALSE]
<1>1. p \in Pending /\ Plans(p)
  BY DEF Pending, Plans
<1>2. pend' = [pend EXCEPT ![w] = p]
  BY DEF Plan
<1> HIDE DEF p
<1>3. StoreOK'
  BY <1>1, <1>2 DEF EditInv, StoreOK
<1>4. \A q : Plans(q)' <=> Plans(q)
  BY DEF Plans
<1>5. PlansOK'
  BY <1>1, <1>2, <1>4 DEF EditInv, StoreOK, PlansOK
<1>6. RowsMarked'
  BY DEF EditInv, RowsMarked, Marked
<1>7. IdsTaken'
  <2>1. p.row = r
    BY DEF p
  <2> QED
    BY <1>2, <2>1 DEF EditInv, StoreOK, IdsTaken
<1> QED
  BY <1>3, <1>5, <1>6, <1>7 DEF EditInv

(* The row that a writer read holds what the user typed.                   *)
LEMMA ReadIsMarked ==
  ASSUME EditInv, NEW r \in Records, row[r] # Null, NEW k \in Keys, mine[r][k] # Null
  PROVE  row[r].data[k] = mine[r][k] /\ row[r].anchor[k] = "edited"
BY DEF EditInv, RowsMarked, Marked

(* An extraction leaves edited cells as they are.                          *)
LEMMA MergeKeepsEdits ==
  ASSUME NEW old \in Row, NEW j, NEW res \in [Keys -> Value \X BOOLEAN]
  PROVE  /\ Merge(old, j, res) \in Row
         /\ \A k \in Keys : old.anchor[k] = "edited" =>
              Merge(old, j, res).data[k] = old.data[k] /\ Merge(old, j, res).anchor[k] = "edited"
<1> DEFINE keys   == Takes(old, j, res)
           data   == [k \in Keys |-> IF k \in keys THEN res[k][1] ELSE old.data[k]]
           anchor == [k \in Keys |-> IF k \notin keys THEN old.anchor[k]
                                     ELSE IF res[k][1] = Null THEN Null
                                     ELSE IF res[k][2] THEN "auto" ELSE old.anchor[k]]
<1>1. Merge(old, j, res) = [old EXCEPT !.data = data, !.anchor = anchor]
  BY DEF Merge
<1>2. data \in [Keys -> Value]
  BY RowParts
<1>3. anchor \in [Keys -> {Null, "auto", "edited"}]
  BY RowParts
<1>4. \A k \in Keys : old.anchor[k] = "edited" => data[k] = old.data[k] /\ anchor[k] = "edited"
  BY DEF Takes
<1> HIDE DEF data, anchor
<1> QED
  BY <1>1, <1>2, <1>3, <1>4 DEF Row

-----------------------------------------------------------------------------
(* At the start nothing is typed.                                          *)
LEMMA EditInit ==
  ASSUME DatasetsAssumption, Init
  PROVE  EditInv
<1>1. StoreOK
  <2>1. Null \in Value
    BY DEF Value
  <2> QED
    BY <2>1 DEF Init, StoreOK, Nothing
<1>2. RowsMarked
  BY DEF Init, RowsMarked, Nothing
<1>3. PlansOK
  BY DEF Init, PlansOK
<1>4. IdsTaken
  BY DEF Init, IdsTaken
<1> QED
  BY <1>1, <1>2, <1>3, <1>4 DEF EditInv

(* Steps that touch neither rows nor plans.                                *)
LEMMA QuietKeeps ==
  ASSUME EditInv, UNCHANGED <<row, mine, pend, born>>
  PROVE  EditInv'
BY DEF EditInv, StoreOK, IdsTaken, RowsMarked, Marked, PlansOK, Plans

(* A row that is not there, or a cell of it, is not one a user typed in.   *)
LEMMA NewIsUntyped ==
  ASSUME EditInv, NEW r \in Records, row[r] = Null, NEW k \in Keys
  PROVE  mine[r][k] = Null
BY DEF EditInv, RowsMarked

(* Cleaning keeps the types of a record.                                   *)
LEMMA CleanTypes ==
  ASSUME NEW s, NEW d \in [Keys -> Value]
  PROVE  CleanFor(s, d) \in [Keys -> Value]
BY DEF CleanFor, Value

(* The rows that exist have the type of a row.                             *)
LEMMA RowsTyped ==
  ASSUME EditInv, NEW r \in Records, row[r] # Null
  PROVE  row[r] \in Row
BY DEF EditInv, StoreOK
-----------------------------------------------------------------------------
(* Handlers that add a record.                                             *)
LEMMA InsertKeeps ==
  ASSUME EditInv, NEW w \in Writers, NEW r \in Records, NEW s, NEW d \in [Keys -> Value],
         r \notin born, born' = born \cup {r}, UNCHANGED <<row, mine>>,
         Plan(w, "insert", r, [data |-> CleanFor(s, d), anchor |-> Nothing, source |-> FALSE], {})
  PROVE  EditInv'
<1> DEFINE new == [data |-> CleanFor(s, d), anchor |-> Nothing, source |-> FALSE]
<1>1. new \in Row
  BY CleanTypes DEF Row, Nothing
<1>2. \A k \in Keys : mine[r][k] = Null
  BY NewIsUntyped DEF EditInv, IdsTaken
<1> HIDE DEF new
<1> QED
  BY <1>1, <1>2, PlanKeeps DEF new

(* createRecord, the import, and createFromCsv                             *)
LEMMA CreateKeeps ==
  ASSUME EditInv, NEW w \in Writers, NEW r \in Records, NEW s, NEW d \in [Keys -> Value],
         CreateRecord(w, r, d) \/ ImportRecords(w, r, d) \/ CreateFromCsv(w, s, r, d)
  PROVE  EditInv'
<1>1. CASE CreateRecord(w, r, d)
  BY <1>1, InsertKeeps DEF CreateRecord, Clean
<1>2. CASE ImportRecords(w, r, d)
  BY <1>2, InsertKeeps DEF ImportRecords, CreateRecord, Clean
<1>3. CASE CreateFromCsv(w, s, r, d)
  BY <1>3, InsertKeeps DEF CreateFromCsv
<1> QED
  BY <1>1, <1>2, <1>3

(* extractRow, extractAll and a failed extraction save what they read.     *)
LEMMA SaveAsRead ==
  ASSUME EditInv, NEW w \in Writers, NEW kind \in {"upsert", "all", "row", "apply"},
         NEW r \in Records, row[r] # Null, r \in born,
         Plan(w, kind, r, row[r], {}), UNCHANGED <<row, mine>>, born \subseteq born'
  PROVE  EditInv'
<1>1. row[r] \in Row
  BY RowsTyped
<1>2. \A k \in Keys : mine[r][k] # Null =>
        row[r].data[k] = mine[r][k] /\ row[r].anchor[k] = "edited"
  BY ReadIsMarked
<1> QED
  BY <1>1, <1>2, PlanKeeps
LEMMA ExtractKeeps ==
  ASSUME EditInv, NEW w \in Writers, NEW r \in Records, ExtractAll(w, r) \/ ExtractRow(w, r)
  PROVE  EditInv'
<1>1. CASE ExtractRow(w, r)
  <2>1. row[r] # Null /\ r \in born /\ Plan(w, "row", r, row[r], {}) /\ UNCHANGED <<row, mine, born>>
    BY <1>1 DEF ExtractRow, RowContext, Sourced, EditInv, IdsTaken
  <2> QED
    BY <2>1, SaveAsRead
<1>2. CASE ExtractAll(w, r) /\ row[r] # Null
  <2>1. r \in born /\ Plan(w, "all", r, row[r], {}) /\ UNCHANGED <<row, mine>> /\ born \subseteq born'
    BY <1>2 DEF ExtractAll, UpsertRow, EditInv, IdsTaken
  <2> QED
    BY <1>2, <2>1, SaveAsRead
<1>3. CASE ExtractAll(w, r) /\ row[r] = Null
  <2> DEFINE new == [data |-> [k \in Keys |-> "absent"], anchor |-> Nothing, source |-> TRUE]
  <2>1. new \in Row
    BY DEF Row, Nothing, Value
  <2>2. Plan(w, "upsert", r, new, {}) /\ UNCHANGED <<row, mine>> /\ r \in born' /\ born \subseteq born'
    BY <1>3 DEF ExtractAll, UpsertRow
  <2>3. \A k \in Keys : mine[r][k] = Null
    BY <1>3, NewIsUntyped
  <2> HIDE DEF new
  <2> QED
    BY <2>1, <2>2, <2>3, PlanKeeps
<1> QED
  BY <1>1, <1>2, <1>3

(* updateRecord marks what the user changes over an extracted cell.        *)
LEMMA UpdateKeeps ==
  ASSUME EditInv, NEW w \in Writers, NEW r \in Records, NEW d \in [Keys -> Value],
         UpdateRecord(w, r, d)
  PROVE  EditInv'
<1> DEFINE old        == row[r]
           Changed(k) == k \in Fields /\ d[k] # "absent" /\ d[k] # old.data[k]
           data       == CleanFor(dataset.schema, d)
           anchor     == [k \in Keys |-> IF Changed(k) /\ old.anchor[k] # Null
                                         THEN "edited" ELSE old.anchor[k]]
           new        == [old EXCEPT !.data = data, !.anchor = anchor]
           typed      == {k \in Keys : Changed(k) /\ old.anchor[k] # Null}
<1>1. Plan(w, "user", r, new, typed) /\ row[r] # Null /\ UNCHANGED <<row, mine, born>>
  BY DEF UpdateRecord, Clean
<1>2. old \in Row
  BY <1>1, RowsTyped
<1>3. data \in [Keys -> Value]
  BY CleanTypes
<1>4. anchor \in [Keys -> {Null, "auto", "edited"}]
  BY <1>2, RowParts
<1>5. \A k \in typed : anchor[k] = "edited"
  OBVIOUS
<1>6. \A k \in Keys : old.anchor[k] = "edited" => anchor[k] = "edited"
  OBVIOUS
<1>7. \A k \in Keys : mine[r][k] # Null => old.data[k] = mine[r][k] /\ old.anchor[k] = "edited"
  BY <1>1, ReadIsMarked
<1>8. r \in born /\ typed \in SUBSET Keys
  BY <1>1 DEF EditInv, IdsTaken
<1> HIDE DEF data, anchor, typed, old
<1>9. new \in Row /\ new.data = data /\ new.anchor = anchor
  BY <1>2, <1>3, <1>4 DEF Row
<1> HIDE DEF new
<1>10. \A k \in Keys \ typed : mine[r][k] # Null =>
          \/ new.data[k] = mine[r][k] /\ new.anchor[k] = "edited"
          \/ new.data[k] # mine[r][k]
  BY <1>6, <1>7, <1>9
<1> QED
  BY <1>1, <1>5, <1>8, <1>9, <1>10, PlanKeeps

(* applyExtractionResult plans a row that keeps the edited cells.          *)
LEMMA ApplyKeeps ==
  ASSUME EditInv, JobsOK, NEW w \in Writers, NEW j \in jobs,
         NEW res \in [Keys -> Value \X BOOLEAN], Apply(w, j, res) \/ ApplyError(w, j)
  PROVE  EditInv'
<1> DEFINE r == j.row
<1>1. r \in Records /\ row[r] # Null /\ UNCHANGED <<row, mine, born>>
  BY DEF JobsOK, Apply, ApplyError
<1>2. r \in born
  BY <1>1 DEF EditInv, IdsTaken
<1>3. CASE ApplyError(w, j)
  BY <1>1, <1>2, <1>3, SaveAsRead DEF ApplyError
<1>4. CASE Apply(w, j, res)
  <2> DEFINE new == Merge(row[r], j, res)
  <2>1. Plan(w, "apply", r, new, {})
    BY <1>4 DEF Apply
  <2>2. row[r] \in Row
    BY <1>1, RowsTyped
  <2>3. new \in Row /\ \A k \in Keys : row[r].anchor[k] = "edited" =>
          new.data[k] = row[r].data[k] /\ new.anchor[k] = "edited"
    BY <2>2, MergeKeepsEdits
  <2>4. \A k \in Keys : mine[r][k] # Null =>
          row[r].data[k] = mine[r][k] /\ row[r].anchor[k] = "edited"
    BY <1>1, ReadIsMarked
  <2> HIDE DEF new, r
  <2> QED
    BY <1>1, <1>2, <2>1, <2>3, <2>4, PlanKeeps
<1> QED
  BY <1>3, <1>4
-----------------------------------------------------------------------------
(* Removed rows take what was typed in them along, and a writer that read  *)
(* one of them knows an old row.                                           *)
LEMMA RemoveKeeps ==
  ASSUME DatasetsAssumption, EditInv,
         RemoveDataset \/ \E rs \in SUBSET Records : RemoveRecords(rs)
  PROVE  EditInv'
<1>0. Nothing \in [Keys -> Value] /\ \A k \in Keys : Nothing[k] = Null
  BY DEF Nothing, Value
<1>1. CASE RemoveDataset
  <2>1. /\ row' = [r \in Records |-> Null] /\ mine' = [r \in Records |-> Nothing]
        /\ UNCHANGED <<born, pend>>
    BY <1>1 DEF RemoveDataset
  <2>2. StoreOK' /\ IdsTaken' /\ RowsMarked'
    BY <1>0, <2>1 DEF EditInv, StoreOK, IdsTaken, RowsMarked, Marked
  <2>3. ASSUME NEW w \in Writers, pend[w] # Null
        PROVE  Plans(pend[w])'
    <3>1. pend[w] \in Pending
      BY <2>3 DEF EditInv, StoreOK
    <3>2. pend[w].row \in Records
      BY <3>1 DEF Pending
    <3>3. Plans(pend[w])
      BY <2>3 DEF EditInv, PlansOK
    <3> QED
      BY <1>0, <2>1, <3>2, <3>3 DEF Plans
  <2> QED
    BY <2>1, <2>2, <2>3 DEF EditInv, PlansOK
<1>2. CASE \E rs \in SUBSET Records : RemoveRecords(rs)
  <2> PICK rs \in SUBSET Records : RemoveRecords(rs)
    BY <1>2
  <2>1. /\ row'  = [r \in Records |-> IF r \in rs THEN Null ELSE row[r]]
        /\ mine' = [r \in Records |-> IF r \in rs THEN Nothing ELSE mine[r]]
        /\ pend' = [w \in Writers |-> IF pend[w] # Null /\ pend[w].row \in rs
                                      THEN [pend[w] EXCEPT !.stale = TRUE] ELSE pend[w]]
        /\ born' = born
    BY DEF RemoveRecords
  <2>2. ASSUME NEW w \in Writers, pend[w] # Null
        PROVE  pend'[w] \in Pending /\ pend'[w].row = pend[w].row /\ Plans(pend[w])'
    <3>1. pend[w] \in Pending
      BY <2>2 DEF EditInv, StoreOK
    <3>2. Plans(pend[w])
      BY <2>2 DEF EditInv, PlansOK
    <3>3. CASE pend[w].row \in rs
      <4>1. pend'[w] = [pend[w] EXCEPT !.stale = TRUE]
        BY <2>1, <2>2, <3>3
      <4>2. /\ pend'[w] \in Pending /\ pend'[w].row = pend[w].row /\ pend'[w].stale
            /\ pend'[w].new = pend[w].new /\ pend'[w].typed = pend[w].typed
        BY <3>1, <4>1 DEF Pending
      <4> QED
        BY <1>0, <2>1, <3>1, <3>2, <3>3, <4>2 DEF Plans
    <3>4. CASE pend[w].row \notin rs
      <4>1. pend'[w] = pend[w] /\ pend[w].row \in Records
        BY <2>1, <3>1, <3>4 DEF Pending
      <4>2. mine'[pend[w].row] = mine[pend[w].row]
        BY <2>1, <3>4, <4>1
      <4> QED
        BY <3>1, <3>2, <4>1, <4>2 DEF Plans
    <3> QED
      BY <3>3, <3>4
  <2>3. \A w \in Writers : pend[w] = Null => pend'[w] = Null
    BY <2>1
  <2>4. StoreOK'
    <3>1. pend' \in [Writers -> Pending \cup {Null}]
      BY <2>1, <2>2, <2>3
    <3> QED
      BY <1>0, <2>1, <3>1 DEF EditInv, StoreOK
  <2>5. IdsTaken'
    BY <2>1, <2>2, <2>3 DEF EditInv, IdsTaken
  <2>6. RowsMarked'
    BY <1>0, <2>1 DEF EditInv, RowsMarked, Marked
  <2>7. PlansOK'
    BY <2>2, <2>3 DEF PlansOK
  <2> QED
    BY <2>4, <2>5, <2>6, <2>7 DEF EditInv
<1> QED
  BY <1>1, <1>2
(* A save installs a sound plan and makes the other plans for its row old. *)
LEMMA SaveKeeps ==
  ASSUME DatasetsAssumption, EditInv, NEW w \in Writers, Save(w)
  PROVE  EditInv'
<1> DEFINE p  == pend[w]
           ok == dataset # Null /\ (row[p.row] # Null \/ p.kind \in {"insert", "upsert", "apply"})
<1>1. /\ p # Null
      /\ row' = IF ok THEN [row EXCEPT ![p.row] = p.new] ELSE row
      /\ mine' = IF ok THEN [mine EXCEPT ![p.row] = TypedOver(p)] ELSE mine
      /\ pend' = [v \in Writers |->
            IF v = w THEN Null
            ELSE IF pend[v] # Null /\ pend[v].row = p.row /\ ok
            THEN [pend[v] EXCEPT !.stale = TRUE] ELSE pend[v]]
      /\ born' = born
  BY DEF Save
<1>2. p \in Pending /\ Plans(p) /\ p.row \in born
  BY <1>1 DEF EditInv, StoreOK, PlansOK, IdsTaken
<1> DEFINE r == p.row
           new == p.new
           typed == TypedOver(p)
<1>3. r \in Records /\ new \in Row /\ p.typed \in SUBSET Keys
  BY <1>2 DEF Pending
<1>4. typed \in [Keys -> Value]
  <2>1. new.data \in [Keys -> Value] /\ mine[r] \in [Keys -> Value] /\ Null \in Value
    BY <1>3, RowParts DEF EditInv, StoreOK, Value
  <2> QED
    BY <2>1 DEF TypedOver
<1>5. \A k \in Keys : typed[k] # Null => new.data[k] = typed[k] /\ new.anchor[k] = "edited"
  <2> SUFFICES ASSUME NEW k \in Keys, typed[k] # Null
               PROVE  new.data[k] = typed[k] /\ new.anchor[k] = "edited"
    OBVIOUS
  <2>1. CASE k \in p.typed
    BY <1>2, <2>1 DEF TypedOver, Plans
  <2>2. CASE k \notin p.typed
    <3>1. /\ ~p.stale /\ ~(p.kind = "user" /\ new.data[k] # mine[r][k])
          /\ typed[k] = mine[r][k]
      BY <2>2 DEF TypedOver
    <3> QED
      BY <1>2, <2>2, <3>1 DEF Plans
  <2> QED
    BY <2>1, <2>2
<1> HIDE DEF typed
<1>6. ASSUME NEW v \in Writers, pend'[v] # Null
      PROVE  pend'[v] \in Pending /\ pend'[v].row \in born /\ Plans(pend[v])'
  <2>1. v # w /\ pend[v] # Null
    BY <1>1, <1>6
  <2>2. pend[v] \in Pending /\ pend[v].row \in born /\ Plans(pend[v])
    BY <2>1 DEF EditInv, StoreOK, PlansOK, IdsTaken
  <2>3. CASE pend[v].row = r /\ ok
    <3>1. pend'[v] = [pend[v] EXCEPT !.stale = TRUE]
      BY <1>1, <2>1, <2>3
    <3>2. /\ pend'[v] \in Pending /\ pend'[v].row = pend[v].row /\ pend'[v].stale
          /\ pend'[v].new = pend[v].new /\ pend'[v].typed = pend[v].typed
      BY <2>2, <3>1 DEF Pending
    <3> QED
      BY <2>2, <3>2 DEF Plans
  <2>4. CASE ~(pend[v].row = r /\ ok)
    <3>1. pend'[v] = pend[v]
      BY <1>1, <2>1, <2>4
    <3>2. pend[v].row \in Records
      BY <2>2 DEF Pending
    <3>3. mine'[pend[v].row] = mine[pend[v].row]
      BY <1>1, <1>3, <2>4, <3>2 DEF EditInv, StoreOK
    <3> QED
      BY <2>2, <3>1, <3>3 DEF Plans
  <2> QED
    BY <2>3, <2>4
<1>7. StoreOK'
  <2>1. pend' \in [Writers -> Pending \cup {Null}]
    BY <1>1, <1>6
  <2>2. row' \in [Records -> Row \cup {Null}]
    BY <1>1, <1>3 DEF EditInv, StoreOK
  <2>3. mine' \in [Records -> [Keys -> Value]]
    BY <1>1, <1>3, <1>4 DEF EditInv, StoreOK, typed
  <2> QED
    BY <2>1, <2>2, <2>3 DEF StoreOK
<1>8. IdsTaken'
  BY <1>1, <1>2, <1>3, <1>6 DEF EditInv, StoreOK, IdsTaken
<1>9. RowsMarked'
  <2>0. Null \notin Row
    BY DEF DatasetsAssumption
  <2>1. CASE ok
    <3>1. row' = [row EXCEPT ![r] = new] /\ mine' = [mine EXCEPT ![r] = typed]
      BY <1>1, <2>1 DEF typed
    <3>2. ASSUME NEW s \in Records, NEW k \in Keys, mine'[s][k] # Null
          PROVE  row'[s] # Null /\ row'[s].data[k] = mine'[s][k] /\ row'[s].anchor[k] = "edited"
      <4>1. CASE s = r
        BY <1>3, <1>5, <2>0, <3>1, <3>2, <4>1 DEF EditInv, StoreOK
      <4>2. CASE s # r
        BY <3>1, <3>2, <4>2 DEF EditInv, StoreOK, RowsMarked, Marked
      <4> QED
        BY <4>1, <4>2
    <3> QED
      BY <3>2 DEF RowsMarked, Marked
  <2>2. CASE ~ok
    BY <1>1, <2>2 DEF EditInv, RowsMarked, Marked
  <2> QED
    BY <2>1, <2>2
<1>10. PlansOK'
  BY <1>6 DEF PlansOK
<1> QED
  BY <1>7, <1>8, <1>9, <1>10 DEF EditInv
-----------------------------------------------------------------------------
(* Executions name records.                                                *)
LEMMA JobsKeep ==
  ASSUME EditInv, JobsOK, [Next]_vars
  PROVE  JobsOK'
<1>1. CASE UNCHANGED vars
  BY <1>1 DEF JobsOK, vars
<1>2. ASSUME NEW w \in Writers, Save(w)
      PROVE  JobsOK'
  <2>1. pend[w].row \in Records
    BY <1>2 DEF EditInv, StoreOK, Save, Pending
  <2> QED
    BY <1>2, <2>1 DEF JobsOK, Save, Enqueue
<1>3. ASSUME NEW r \in Records, NEW k \in Keys, NEW force \in BOOLEAN, ExtractCell(r, k, force)
      PROVE  JobsOK'
  BY <1>3 DEF JobsOK, ExtractCell, Enqueue
<1>4. ASSUME NEW job \in jobs, \/ Drop(job)
                               \/ \E w \in Writers : \/ ApplyError(w, job)
                                                     \/ \E res \in Results(job) : Apply(w, job, res)
      PROVE  JobsOK'
  BY <1>4 DEF JobsOK, Drop, ApplyError, Apply
<1>5. ASSUME UNCHANGED jobs
      PROVE  JobsOK'
  BY <1>5 DEF JobsOK
<1> QED
  BY <1>1, <1>2, <1>3, <1>4, <1>5
  DEF Next, CreateDataset, UpdateDataset, RemoveDataset, ExtractAll, ExtractRow, CreateFromCsv,
      CreateRecord, ImportRecords, UpdateRecord, RemoveRecords

LEMMA EditStep ==
  ASSUME DatasetsAssumption, EditInv, JobsOK, [Next]_vars
  PROVE  EditInv'
<1>1. CASE UNCHANGED vars
  BY <1>1, QuietKeeps DEF vars
<1>2. ASSUME NEW m, NEW s, CreateDataset(m, s) \/ UpdateDataset(m, s)
      PROVE  EditInv'
  BY <1>2, QuietKeeps DEF CreateDataset, UpdateDataset
<1>3. ASSUME RemoveDataset \/ \E rs \in SUBSET Records : RemoveRecords(rs)
      PROVE  EditInv'
  BY <1>3, RemoveKeeps
<1>4. ASSUME NEW w \in Writers, Save(w)
      PROVE  EditInv'
  BY <1>4, SaveKeeps
<1>5. ASSUME NEW w \in Writers, NEW r \in Records, ExtractAll(w, r) \/ ExtractRow(w, r)
      PROVE  EditInv'
  BY <1>5, ExtractKeeps
<1>6. ASSUME NEW w \in Writers, NEW r \in Records, NEW s, NEW d \in [Keys -> Value],
             \/ CreateFromCsv(w, s, r, d) \/ CreateRecord(w, r, d)
             \/ ImportRecords(w, r, d) \/ UpdateRecord(w, r, d)
      PROVE  EditInv'
  BY <1>6, CreateKeeps, UpdateKeeps
<1>7. ASSUME NEW r \in Records, NEW k \in Keys, NEW force \in BOOLEAN, ExtractCell(r, k, force)
      PROVE  EditInv'
  BY <1>7, QuietKeeps DEF ExtractCell
<1>8. ASSUME NEW job \in jobs, \/ Drop(job)
                               \/ \E w \in Writers : \/ ApplyError(w, job)
                                                     \/ \E res \in Results(job) : Apply(w, job, res)
      PROVE  EditInv'
  <2>1. CASE Drop(job)
    BY <2>1, QuietKeeps DEF Drop
  <2>2. CASE \E w \in Writers : ApplyError(w, job)
    <3>1. [k \in Keys |-> <<Null, FALSE>>] \in [Keys -> Value \X BOOLEAN]
      BY DEF Value
    <3> QED
      BY <2>2, <3>1, ApplyKeeps
  <2>3. CASE \E w \in Writers : \E res \in Results(job) : Apply(w, job, res)
    <3>1. Results(job) \subseteq [Keys -> Value \X BOOLEAN]
      BY DEF Results
    <3> QED
      BY <2>3, <3>1, ApplyKeeps
  <2> QED
    BY <1>8, <2>1, <2>2, <2>3
<1> QED
  BY <1>1, <1>2, <1>3, <1>4, <1>5, <1>6, <1>7, <1>8 DEF Next

(* What a user typed over an extracted cell is there until the user        *)
(* changes it or saves over it from an older reading: updateRecord marks   *)
(* the cell, applyExtractionResult passes over marked cells, and every     *)
(* other save brings back what it read.                                    *)
THEOREM EditsAreKept ==
  ASSUME DatasetsAssumption
  PROVE  Spec => []EditsWinOverExtraction
<1>1. Init => EditInv /\ JobsOK
  BY EditInit DEF Init, JobsOK
<1>2. EditInv /\ JobsOK /\ [Next]_vars => EditInv' /\ JobsOK'
  BY EditStep, JobsKeep
<1>3. EditInv => EditsWinOverExtraction
  BY DEF EditInv, RowsMarked, Marked, EditsWinOverExtraction
<1> QED
  BY <1>1, <1>2, <1>3, PTL DEF Spec
-----------------------------------------------------------------------------
(* What a record holds is of a field of the schema, and a number where the *)
(* field is one.                                                           *)
FitsSchema(s, d) ==
  \A k \in Keys : d[k] \in Cell => s[k] # Null /\ (s[k] = "number" => d[k] \in Numbers)

(* Until there is a dataset there is nothing; after that, while schema     *)
(* changes are sound, rows and what is about to be saved fit the schema,   *)
(* and open executions were given the types that it still has.             *)
Untouched == /\ dataset = Null /\ jobs = {}
             /\ \A r \in Records : row[r] = Null
             /\ \A w \in Writers : pend[w] = Null
AllFit == /\ \A r \in Records : row[r] # Null => FitsSchema(dataset.schema, row[r].data)
          /\ \A w \in Writers : pend[w] # Null => FitsSchema(dataset.schema, pend[w].new.data)
          /\ \A j \in jobs : j.types = dataset.schema
FitInv == /\ edits \in Nat
          /\ edits = 0 => Untouched
          /\ sound /\ dataset # Null => AllFit

LEMMA NotCells ==
  ASSUME DatasetsAssumption
  PROVE  Null \notin Cell /\ "absent" \notin Cell
BY DEF DatasetsAssumption, Cell, Numbers

(* What has been validated and cleaned fits, and so does an answer that is *)
(* merged into a row that fits.                                            *)
LEMMA CleanFits ==
  ASSUME DatasetsAssumption, NEW s, NEW d, ValidFor(s, d)
  PROVE  FitsSchema(s, CleanFor(s, d))
BY NotCells DEF FitsSchema, CleanFor, ValidFor, Cell

LEMMA MergeFits ==
  ASSUME DatasetsAssumption, NEW old \in Row, NEW j, NEW res \in Results(j),
         FitsSchema(j.types, old.data)
  PROVE  FitsSchema(j.types, Merge(old, j, res).data)
<1> DEFINE keys   == Takes(old, j, res)
           data   == [k \in Keys |-> IF k \in keys THEN res[k][1] ELSE old.data[k]]
           anchor == [k \in Keys |-> IF k \notin keys THEN old.anchor[k]
                                     ELSE IF res[k][1] = Null THEN Null
                                     ELSE IF res[k][2] THEN "auto" ELSE old.anchor[k]]
<1>1. Merge(old, j, res) = [old EXCEPT !.data = data, !.anchor = anchor]
  BY DEF Merge
<1>2. FitsSchema(j.types, data)
  <2> SUFFICES ASSUME NEW k \in Keys, data[k] \in Cell
               PROVE  j.types[k] # Null /\ (j.types[k] = "number" => data[k] \in Numbers)
    BY DEF FitsSchema
  <2>1. CASE k \in keys
    BY <2>1, NotCells DEF Results, Takes
  <2>2. CASE k \notin keys
    BY <2>2 DEF FitsSchema
  <2> QED BY <2>1, <2>2
<1> HIDE DEF data, anchor
<1>3. Merge(old, j, res).data = data
  BY <1>1 DEF Row
<1> QED BY <1>2, <1>3

(* A writer plans to save something that fits.                             *)
LEMMA PlanFits ==
  ASSUME EditInv, FitInv, dataset # Null, NEW w \in Writers, NEW kind, NEW r, NEW new, NEW typed,
         Plan(w, kind, r, new, typed), UNCHANGED <<dataset, row, edits, sound>>, jobs' \subseteq jobs,
         sound => FitsSchema(dataset.schema, new.data)
  PROVE  FitInv'
<1> DEFINE p == [kind |-> kind, row |-> r, new |-> new, typed |-> typed, stale |-> FALSE]
<1>1. p.new = new
  OBVIOUS
<1>2. pend' = [pend EXCEPT ![w] = p]
  BY DEF Plan
<1> HIDE DEF p
<1>3. edits \in Nat /\ edits # 0 /\ pend \in [Writers -> Pending \cup {Null}]
  BY DEF FitInv, Untouched, EditInv, StoreOK
<1>4. ASSUME sound
      PROVE  AllFit'
  <2>1. AllFit
    BY <1>4 DEF FitInv
  <2>2. ASSUME NEW v \in Writers, pend'[v] # Null
        PROVE  FitsSchema(dataset.schema, pend'[v].new.data)
    <3>1. CASE v = w
      BY <1>1, <1>2, <1>3, <1>4, <3>1
    <3>2. CASE v # w
      BY <1>2, <1>3, <2>1, <2>2, <3>2 DEF AllFit
    <3> QED BY <3>1, <3>2
  <2> QED BY <2>1, <2>2 DEF AllFit, FitsSchema
<1> QED BY <1>3, <1>4 DEF FitInv

(* Steps that keep the rows, the plans and the types of open executions.   *)
LEMMA FitQuiet ==
  ASSUME FitInv, UNCHANGED <<dataset, row, pend, edits, sound>>,
         \/ jobs' \subseteq jobs
         \/ dataset # Null /\ \A j \in jobs' : j \in jobs \/ j.types = dataset.schema
  PROVE  FitInv'
<1>1. CASE dataset = Null
  BY <1>1 DEF FitInv, Untouched
<1>2. CASE dataset # Null
  BY <1>2 DEF FitInv, Untouched, AllFit, FitsSchema
<1> QED BY <1>1, <1>2

(* createDataset and updateDataset: a safe change keeps every row, and is  *)
(* sound only while nothing is about to be saved or extracted.             *)
LEMMA SchemaFits ==
  ASSUME DatasetsAssumption, FitInv, NEW m, NEW s, CreateDataset(m, s) \/ UpdateDataset(m, s)
  PROVE  FitInv'
<1>1. CASE CreateDataset(m, s)
  <2>1. Untouched /\ UNCHANGED <<row, pend, jobs>> /\ edits' = 1
    BY <1>1 DEF CreateDataset, FitInv
  <2>2. AllFit'
    BY <2>1 DEF AllFit, Untouched
  <2> QED BY <2>1, <2>2 DEF FitInv
<1>2. CASE UpdateDataset(m, s)
  <2>1. /\ dataset # Null /\ UNCHANGED <<row, pend, jobs>> /\ dataset'.schema = s
        /\ edits' \in Nat /\ edits' # 0
    BY <1>2 DEF UpdateDataset, FitInv
  <2>2. ASSUME sound'
        PROVE  AllFit'
    <3>1. sound /\ Safe(s) /\ jobs = {} /\ \A w \in Writers : pend[w] = Null
      BY <1>2, <2>2 DEF UpdateDataset
    <3>2. ASSUME NEW r \in Records, row[r] # Null
          PROVE  FitsSchema(s, row[r].data)
      <4> SUFFICES ASSUME NEW k \in Keys, row[r].data[k] \in Cell
                   PROVE  s[k] # Null /\ (s[k] = "number" => row[r].data[k] \in Numbers)
        BY DEF FitsSchema
      <4>1. dataset.schema[k] # Null /\ (dataset.schema[k] = "number" => row[r].data[k] \in Numbers)
        BY <2>1, <3>1, <3>2 DEF FitInv, AllFit, FitsSchema
      <4>2. s[k] # Null
        BY <3>1, <3>2, <4>1 DEF Safe, RemovedFields, Fields
      <4>3. s[k] = dataset.schema[k]
        BY <3>1, <4>1, <4>2 DEF Safe, TypeChanges, Fields
      <4> QED BY <4>1, <4>2, <4>3
    <3> QED BY <2>1, <3>1, <3>2 DEF AllFit
  <2> QED BY <2>1, <2>2 DEF FitInv
<1> QED BY <1>1, <1>2

(* createRecord and the import check what they save against the schema;    *)
(* createFromCsv against the schema that it has just inserted.             *)
LEMMA CreateFits ==
  ASSUME DatasetsAssumption, EditInv, FitInv, NEW w \in Writers, NEW r \in Records, NEW s,
         NEW d \in [Keys -> Value],
         CreateRecord(w, r, d) \/ ImportRecords(w, r, d) \/ CreateFromCsv(w, s, r, d)
  PROVE  FitInv'
<1> DEFINE new(t) == [data |-> CleanFor(t, d), anchor |-> Nothing, source |-> FALSE]
<1>1. CASE CreateRecord(w, r, d)
  <2>1. FitsSchema(dataset.schema, new(dataset.schema).data)
    BY <1>1, CleanFits DEF CreateRecord, Valid
  <2>2. /\ Plan(w, "insert", r, new(dataset.schema), {}) /\ dataset # Null
        /\ UNCHANGED <<dataset, row, edits, sound, jobs>>
    BY <1>1 DEF CreateRecord, Clean
  <2> HIDE DEF new
  <2> QED BY <2>1, <2>2, PlanFits
<1>2. CASE CreateFromCsv(w, s, r, d)
  <2>1. FitsSchema(s, new(s).data)
    BY <1>2, CleanFits DEF CreateFromCsv
  <2>2. /\ Plan(w, "insert", r, new(s), {}) /\ UNCHANGED <<row, jobs, sound>>
        /\ dataset'.schema = s /\ edits' = 1 /\ Untouched
    BY <1>2 DEF CreateFromCsv, FitInv
  <2> DEFINE p == [kind |-> "insert", row |-> r, new |-> new(s), typed |-> {}, stale |-> FALSE]
  <2>3. p.new = new(s) /\ pend' = [pend EXCEPT ![w] = p]
    BY <2>2 DEF Plan
  <2> HIDE DEF new, p
  <2>4. \A v \in Writers : pend'[v] # Null => pend'[v] = p
    BY <2>2, <2>3 DEF Untouched, EditInv, StoreOK
  <2>5. AllFit'
    BY <2>1, <2>2, <2>3, <2>4 DEF AllFit, Untouched
  <2> QED BY <2>2, <2>5 DEF FitInv
<1> QED BY <1>1, <1>2 DEF ImportRecords

(* updateRecord replaces the whole data column by what it has checked.     *)
LEMMA UpdateFits ==
  ASSUME DatasetsAssumption, EditInv, FitInv, NEW w \in Writers, NEW r \in Records,
         NEW d \in [Keys -> Value], UpdateRecord(w, r, d)
  PROVE  FitInv'
<1> DEFINE old        == row[r]
           Changed(k) == k \in Fields /\ d[k] # "absent" /\ d[k] # old.data[k]
           data       == CleanFor(dataset.schema, d)
           anchor     == [k \in Keys |-> IF Changed(k) /\ old.anchor[k] # Null
                                         THEN "edited" ELSE old.anchor[k]]
           new        == [old EXCEPT !.data = data, !.anchor = anchor]
           typed      == {k \in Keys : Changed(k) /\ old.anchor[k] # Null}
<1>1. /\ Plan(w, "user", r, new, typed) /\ row[r] # Null /\ dataset # Null
      /\ UNCHANGED <<dataset, row, edits, sound, jobs>>
  BY DEF UpdateRecord, Clean
<1>2. old \in Row
  BY <1>1, RowsTyped
<1>3. FitsSchema(dataset.schema, data)
  BY CleanFits DEF UpdateRecord, Valid
<1> HIDE DEF data, anchor, typed, old
<1>4. new.data = data
  BY <1>2 DEF Row
<1> HIDE DEF new
<1> QED BY <1>1, <1>3, <1>4, PlanFits

(* Handlers that save what they read, and the answer of an extraction.     *)
LEMMA ExtractFits ==
  ASSUME DatasetsAssumption, EditInv, FitInv, NEW w \in Writers, NEW r \in Records,
         ExtractAll(w, r) \/ ExtractRow(w, r)
  PROVE  FitInv'
<1>1. /\ dataset # Null /\ UNCHANGED <<dataset, row, edits, sound, jobs>>
      /\ \E kind : Plan(w, kind, r, UpsertRow(r), {})
  BY DEF ExtractAll, ExtractRow, Sources, RowContext, Sourced, UpsertRow
<1>2. sound => FitsSchema(dataset.schema, UpsertRow(r).data)
  <2>1. CASE row[r] # Null
    BY <1>1, <2>1 DEF UpsertRow, FitInv, AllFit
  <2>2. CASE row[r] = Null
    BY <2>2, NotCells DEF UpsertRow, FitsSchema
  <2> QED BY <2>1, <2>2
<1> QED BY <1>1, <1>2, PlanFits

LEMMA ApplyFits ==
  ASSUME DatasetsAssumption, EditInv, JobsOK, FitInv, NEW w \in Writers, NEW j \in jobs,
         ApplyError(w, j) \/ \E res \in Results(j) : Apply(w, j, res)
  PROVE  FitInv'
<1> DEFINE r == j.row
<1>1. /\ r \in Records /\ row[r] # Null /\ jobs' \subseteq jobs
      /\ UNCHANGED <<dataset, row, edits, sound>>
  BY DEF JobsOK, Apply, ApplyError
<1>2. row[r] \in Row
  BY <1>1, RowsTyped
<1>3. CASE dataset = Null
  BY <1>1, <1>3 DEF FitInv, Untouched
<1>4. CASE dataset # Null /\ ApplyError(w, j)
  <2>1. Plan(w, "apply", r, row[r], {})
    BY <1>4 DEF ApplyError
  <2>2. sound => FitsSchema(dataset.schema, row[r].data)
    BY <1>1, <1>4 DEF FitInv, AllFit
  <2> HIDE DEF r
  <2> QED BY <1>1, <1>4, <2>1, <2>2, PlanFits
<1>5. CASE dataset # Null /\ \E res \in Results(j) : Apply(w, j, res)
  <2> PICK res \in Results(j) : Apply(w, j, res)
    BY <1>5
  <2> DEFINE new == Merge(row[r], j, res)
  <2>1. Plan(w, "apply", r, new, {})
    BY DEF Apply
  <2>2. sound => j.types = dataset.schema /\ FitsSchema(dataset.schema, row[r].data)
    BY <1>1, <1>5 DEF FitInv, AllFit
  <2>3. sound => FitsSchema(dataset.schema, new.data)
    BY <1>2, <2>2, MergeFits
  <2> HIDE DEF r, new
  <2> QED BY <1>1, <1>5, <2>1, <2>3, PlanFits
<1> QED BY <1>3, <1>4, <1>5

(* A removal takes rows away and makes plans old.                          *)
LEMMA RemoveFits ==
  ASSUME EditInv, FitInv, NEW rs \in SUBSET Records, RemoveRecords(rs)
  PROVE  FitInv'
<1>1. /\ dataset # Null /\ UNCHANGED <<dataset, jobs, edits, sound>>
      /\ row'  = [r \in Records |-> IF r \in rs THEN Null ELSE row[r]]
      /\ pend' = [w \in Writers |-> IF pend[w] # Null /\ pend[w].row \in rs
                                    THEN [pend[w] EXCEPT !.stale = TRUE] ELSE pend[w]]
  BY DEF RemoveRecords
<1>2. edits \in Nat /\ edits # 0
  BY <1>1 DEF FitInv, Untouched
<1>3. ASSUME NEW w \in Writers, pend'[w] # Null
      PROVE  pend[w] # Null /\ pend'[w].new = pend[w].new
  <2>1. pend[w] # Null
    BY <1>1, <1>3
  <2>2. pend[w] \in Pending
    BY <2>1 DEF EditInv, StoreOK
  <2> QED BY <1>1, <2>1, <2>2 DEF Pending
<1>4. \A r \in Records : row'[r] # Null => row[r] # Null /\ row'[r] = row[r]
  BY <1>1
<1>5. ASSUME sound, AllFit
      PROVE  AllFit'
  <2>1. \A j \in jobs' : j.types = dataset'.schema
    BY <1>1, <1>5 DEF AllFit
  <2>2. \A r \in Records : row'[r] # Null => FitsSchema(dataset'.schema, row'[r].data)
    BY <1>1, <1>4, <1>5 DEF AllFit
  <2>3. \A w \in Writers : pend'[w] # Null => FitsSchema(dataset'.schema, pend'[w].new.data)
    BY <1>1, <1>3, <1>5 DEF AllFit
  <2> QED BY <2>1, <2>2, <2>3 DEF AllFit
<1> QED BY <1>1, <1>2, <1>5 DEF FitInv

(* A save installs a plan that fits, and asks with the types of today.     *)
LEMMA SaveFits ==
  ASSUME EditInv, FitInv, NEW w \in Writers, Save(w)
  PROVE  FitInv'
<1> DEFINE p  == pend[w]
           ok == dataset # Null /\ (row[p.row] # Null \/ p.kind \in {"insert", "upsert", "apply"})
<1>1. /\ p # Null /\ UNCHANGED <<dataset, edits, sound>>
      /\ row' = IF ok THEN [row EXCEPT ![p.row] = p.new] ELSE row
      /\ pend' = [v \in Writers |->
            IF v = w THEN Null
            ELSE IF pend[v] # Null /\ pend[v].row = p.row /\ ok
            THEN [pend[v] EXCEPT !.stale = TRUE] ELSE pend[v]]
      /\ \A j \in jobs' : j \in jobs \/ j.types = dataset.schema
  BY DEF Save, Enqueue
<1>2. edits \in Nat /\ edits # 0 /\ p \in Pending /\ row \in [Records -> Row \cup {Null}]
  BY <1>1 DEF FitInv, Untouched, EditInv, StoreOK
<1>3. ASSUME NEW v \in Writers, pend'[v] # Null
      PROVE  pend[v] # Null /\ pend'[v].new = pend[v].new
  <2>1. pend[v] # Null
    BY <1>1, <1>3
  <2>2. pend[v] \in Pending
    BY <2>1 DEF EditInv, StoreOK
  <2> QED BY <1>1, <1>3, <2>1, <2>2 DEF Pending
<1>4. ASSUME sound, AllFit
      PROVE  AllFit'
  <2>1. \A j \in jobs' : j.types = dataset'.schema
    BY <1>1, <1>4 DEF AllFit
  <2>2. ASSUME NEW r \in Records, row'[r] # Null
        PROVE  FitsSchema(dataset'.schema, row'[r].data)
    <3>1. CASE ok /\ r = p.row
      <4>1. row'[r] = p.new
        BY <1>1, <1>2, <3>1
      <4>2. FitsSchema(dataset.schema, p.new.data)
        BY <1>1, <1>4 DEF AllFit
      <4> QED BY <1>1, <4>1, <4>2
    <3>2. CASE ~(ok /\ r = p.row)
      <4>1. row'[r] = row[r]
        BY <1>1, <1>2, <3>2
      <4> QED BY <1>1, <1>4, <2>2, <4>1 DEF AllFit
    <3> QED BY <3>1, <3>2
  <2>3. \A v \in Writers : pend'[v] # Null => FitsSchema(dataset'.schema, pend'[v].new.data)
    BY <1>1, <1>3, <1>4 DEF AllFit
  <2> QED BY <2>1, <2>2, <2>3 DEF AllFit
<1> QED BY <1>1, <1>2, <1>4 DEF FitInv
-----------------------------------------------------------------------------
LEMMA FitStep ==
  ASSUME DatasetsAssumption, EditInv, JobsOK, FitInv, [Next]_vars
  PROVE  FitInv'
<1>1. CASE UNCHANGED vars
  BY <1>1, FitQuiet DEF vars
<1>2. ASSUME NEW m, NEW s, CreateDataset(m, s) \/ UpdateDataset(m, s)
      PROVE  FitInv'
  BY <1>2, SchemaFits
<1>3. CASE RemoveDataset
  BY <1>3 DEF RemoveDataset, FitInv, Untouched
<1>4. ASSUME NEW rs \in SUBSET Records, RemoveRecords(rs)
      PROVE  FitInv'
  BY <1>4, RemoveFits
<1>5. ASSUME NEW w \in Writers, Save(w)
      PROVE  FitInv'
  BY <1>5, SaveFits
<1>6. ASSUME NEW w \in Writers, NEW r \in Records, ExtractAll(w, r) \/ ExtractRow(w, r)
      PROVE  FitInv'
  BY <1>6, ExtractFits
<1>7. ASSUME NEW w \in Writers, NEW r \in Records, NEW s, NEW d \in [Keys -> Value],
             \/ CreateFromCsv(w, s, r, d) \/ CreateRecord(w, r, d)
             \/ ImportRecords(w, r, d) \/ UpdateRecord(w, r, d)
      PROVE  FitInv'
  BY <1>7, CreateFits, UpdateFits
<1>8. ASSUME NEW r \in Records, NEW k \in Keys, NEW force \in BOOLEAN, ExtractCell(r, k, force)
      PROVE  FitInv'
  <2>1. /\ dataset # Null /\ UNCHANGED <<dataset, row, pend, edits, sound>>
        /\ \A j \in jobs' : j \in jobs \/ j.types = dataset.schema
    BY <1>8 DEF ExtractCell, Enqueue, RowContext
  <2> QED BY <2>1, FitQuiet
<1>9. ASSUME NEW job \in jobs, \/ Drop(job)
                               \/ \E w \in Writers : \/ ApplyError(w, job)
                                                     \/ \E res \in Results(job) : Apply(w, job, res)
      PROVE  FitInv'
  <2>1. CASE Drop(job)
    BY <2>1, FitQuiet DEF Drop
  <2> QED BY <1>9, <2>1, ApplyFits
<1> QED
  BY <1>1, <1>2, <1>3, <1>4, <1>5, <1>6, <1>7, <1>8, <1>9 DEF Next

(* No filter or sort of queryRecords fails on a cast as long as the schema *)
(* changes only where analyzeSchemaChange calls it safe, and while nothing *)
(* is under way: whatever records, imports, edits and extractions overlap. *)
THEOREM QueriesKeepWorking ==
  ASSUME DatasetsAssumption
  PROVE  Spec => []SafeChangesKeepQueries
<1>1. Init => EditInv /\ JobsOK /\ FitInv
  <2>1. Init => EditInv
    BY EditInit
  <2>2. Init => JobsOK /\ FitInv
    BY DEF Init, JobsOK, FitInv, Untouched
  <2> QED BY <2>1, <2>2
<1>2. EditInv /\ JobsOK /\ FitInv /\ [Next]_vars => EditInv' /\ JobsOK' /\ FitInv'
  BY EditStep, JobsKeep, FitStep
<1>3. FitInv => SafeChangesKeepQueries
  BY DEF FitInv, AllFit, FitsSchema, SafeChangesKeepQueries, QueryFails, Fields
<1> QED
  BY <1>1, <1>2, <1>3, PTL DEF Spec

-----------------------------------------------------------------------------
(* A row with all its columns, whose text is that of its bytes.            *)
Whole(item) ==
  item \in [name : {item.name}, sum : {item.sum}, stamp : {item.stamp},
           text : {Null, "", item.sum}, embedded : {item.embedded}]

(* What a request that is under way has read: the id of a row and the row  *)
(* itself, or the rows of a scan.                                          *)
Carries(o) ==
  /\ "at" \in DOMAIN o
  /\ o.at \in {"write", "stat", "save"} => {"id", "stamp"} \subseteq DOMAIN o /\ o.id \in Files!Ids \cup {Null}
  /\ o.at \in {"check", "reread"} => o.id \in Files!Ids /\ Whole(o.row)
  /\ o.at = "scan" =>
       "rows" \in DOMAIN o /\ DOMAIN o.rows \subseteq Files!Ids /\ \A i \in DOMAIN o.rows : Whole(o.rows[i])

FilesOK == DOMAIN rows = Files!Ids /\ \A i \in Files!Ids : rows[i] # Null => Whole(rows[i])
TasksOK == serial \in Nat /\ \A j \in tasks : j.id \in Files!Ids
RequestsOK  == DOMAIN op = Actors /\ \A a \in Actors : Carries(op[a])

(* An answer of the worker is merged into a row of the bytes it was given. *)
RunningOK  ==
  run.at \in {"extract", "ingest"} =>
    run.job.id \in Files!Ids /\ Whole(run.row) /\ run.row.sum = run.job.sum

VersionInv == FilesOK /\ TasksOK /\ RequestsOK /\ RunningOK

-----------------------------------------------------------------------------
(* New rows and rows with another stamp, text or mark are whole.           *)
LEMMA RowsAreWhole ==
  /\ \A n, c, s : Whole(Files!Row(n, c, s))
  /\ \A item, s : Whole(item) => Whole([item EXCEPT !.stamp = s])
  /\ \A item, t : Whole(item) /\ t \in {"", item.sum} =>
       Whole([item EXCEPT !.text = t])
  /\ \A item, e : Whole(item) => Whole([item EXCEPT !.embedded = e])
<1>1. \A n, c, s : Whole(Files!Row(n, c, s))
  BY DEF Whole, Files!Row
<1>2. ASSUME NEW item, Whole(item), NEW s1, NEW t1 \in {"", item.sum}, NEW e1
      PROVE  /\ Whole([item EXCEPT !.stamp = s1]) /\ Whole([item EXCEPT !.text = t1])
             /\ Whole([item EXCEPT !.embedded = e1])
  BY <1>2 DEF Whole
<1> QED
  BY <1>1, <1>2

(* A save, an insert or a removal of whole rows keeps the rows.            *)
LEMMA FileInsertKeeps ==
  ASSUME Files!FilesAssumption, FilesOK, TasksOK, NEW item, Whole(item), Files!Insert(item)
  PROVE  FilesOK' /\ TasksOK'
<1>1. CASE UNCHANGED <<rows, serial, tasks>>
  BY <1>1 DEF FilesOK, TasksOK
<1>2. CASE /\ serial < MaxRows /\ serial' = serial + 1
           /\ rows' = [rows EXCEPT ![serial + 1] = item]
           /\ tasks' = tasks \cup {Files!Job("extract", serial + 1, item.sum)}
  <2>1. serial + 1 \in Files!Ids /\ serial + 1 \in Nat
    BY <1>2 DEF TasksOK, Files!FilesAssumption, Files!Ids
  <2>2. Files!Job("extract", serial + 1, item.sum).id = serial + 1
    BY DEF Files!Job
  <2> QED
    BY <1>2, <2>1, <2>2 DEF FilesOK, TasksOK
<1> QED
  BY <1>1, <1>2 DEF Files!Insert

LEMMA FileSaveKeeps ==
  ASSUME FilesOK, NEW i \in Files!Ids, NEW item, Whole(item), Files!Save(i, item)
  PROVE  FilesOK'
BY DEF FilesOK, Files!Save

LEMMA FileRenewKeeps ==
  ASSUME FilesOK, TasksOK, NEW i \in Files!Ids, NEW item, Whole(item), Files!Renew(i, item)
  PROVE  FilesOK' /\ TasksOK'
<1>1. Files!Job("extract", i, item.sum).id = i
  BY DEF Files!Job
<1> QED
  BY <1>1, FileSaveKeeps DEF Files!Renew, TasksOK

LEMMA FileDropKeeps ==
  ASSUME FilesOK, NEW is, Files!Drop(is)
  PROVE  FilesOK'
BY DEF FilesOK, Files!Drop

LEMMA FileSyncKeeps ==
  ASSUME FilesOK, TasksOK, NEW i \in Files!Ids, NEW item, Whole(item), NEW n, NEW s, Files!Sync(i, item, n, s)
  PROVE  FilesOK' /\ TasksOK'
<1>1. CASE Files!Renew(i, Files!Row(n, disk[n].content, s))
  BY <1>1, FileRenewKeeps, RowsAreWhole
<1>2. CASE Files!Save(i, [item EXCEPT !.stamp = s]) /\ UNCHANGED <<serial, tasks>>
  BY <1>2, FileSaveKeeps, RowsAreWhole DEF TasksOK
<1> QED
  BY <1>1, <1>2 DEF Files!Sync

(* A request goes on with what it may carry; the others stay.              *)
LEMMA RequestGoesOn ==
  ASSUME RequestsOK, NEW a \in Actors, NEW o, Carries(o), Files!Do(a, o)
  PROVE  RequestsOK'
BY DEF RequestsOK, Files!Do

LEMMA IdleCarries == Carries(Files!Idle)
BY DEF Carries, Files!Idle

-----------------------------------------------------------------------------
LEMMA VersionInit == Files!FilesAssumption /\ Files!Init => VersionInv
<1> SUFFICES ASSUME Files!Init
             PROVE  VersionInv
  OBVIOUS
<1>1. FilesOK /\ TasksOK
  BY DEF Files!Init, FilesOK, TasksOK
<1>2. RequestsOK
  BY IdleCarries DEF Files!Init, RequestsOK
<1>3. RunningOK
  BY DEF Files!Init, RunningOK, Files!Idle
<1> QED
  BY <1>1, <1>2, <1>3 DEF VersionInv

LEMMA RequestStarts ==
  ASSUME VersionInv, NEW a \in Actors, Files!Request(a)
  PROVE  VersionInv'
<1> USE DEF VersionInv
<1>1. SUFFICES RequestsOK'
  <2>1. UNCHANGED <<rows, serial, tasks, run>>
    BY DEF Files!Request, Files!Write, Files!Read, Files!ReadByName, Files!Adopt, Files!Delete, Files!Scan
  <2> QED
    BY <1>1, <2>1 DEF FilesOK, TasksOK, RunningOK
<1>2. ASSUME NEW i \in Files!Ids, Files!Read(a, i)
      PROVE  RequestsOK'
  <2>1. Carries([at |-> "check", id |-> i, row |-> rows[i]])
    BY <1>2 DEF Files!Read, Carries, FilesOK
  <2> QED
    BY <1>2, <2>1, RequestGoesOn DEF Files!Read
<1>3. ASSUME NEW n \in Names, NEW c \in Contents, NEW o \in BOOLEAN, Files!Write(a, n, c, o)
      PROVE  RequestsOK'
  <2>1. PICK i \in Files!Ids \cup {Null} :
          Files!Do(a, [at |-> "write", name |-> n, content |-> c, id |-> i, stamp |-> Null])
    BY <1>3 DEF Files!Write, Files!RowsNamed
  <2>2. Carries([at |-> "write", name |-> n, content |-> c, id |-> i, stamp |-> Null])
    BY DEF Carries
  <2> QED
    BY <2>1, <2>2, RequestGoesOn
<1>4. ASSUME NEW n \in Names, Files!Adopt(a, n)
      PROVE  RequestsOK'
  <2>1. Carries([at |-> "stat", name |-> n, content |-> disk[n].content, id |-> Null, stamp |-> Null])
    BY DEF Carries
  <2> QED
    BY <1>4, <2>1, RequestGoesOn DEF Files!Adopt
<1>5. ASSUME NEW n \in Names, Files!ReadByName(a, n)
      PROVE  RequestsOK'
  BY <1>2, <1>4, <1>5 DEF Files!ReadByName, Files!RowsNamed, Files!RowsBased
<1>6. ASSUME NEW i \in Files!Ids, Files!Delete(a, i)
      PROVE  RequestsOK'
  <2>1. Carries([at |-> "drop", id |-> i])
    BY DEF Carries
  <2> QED
    BY <1>6, <2>1, RequestGoesOn DEF Files!Delete
<1>7. CASE Files!Scan(a)
  <2>1. PICK files : Files!Do(a, [at |-> "listed", files |-> files])
    BY <1>7 DEF Files!Scan
  <2>2. Carries([at |-> "listed", files |-> files])
    BY DEF Carries
  <2> QED
    BY <2>1, <2>2, RequestGoesOn
<1> QED
  BY <1>2, <1>3, <1>5, <1>6, <1>7 DEF Files!Request

LEMMA RequestKeeps ==
  ASSUME Files!FilesAssumption, VersionInv, NEW a \in Actors, Files!Step(a)
  PROVE  VersionInv'
<1> USE DEF VersionInv
<1> DEFINE o == op[a]
<1>1. Carries(o) /\ "at" \in DOMAIN o
  BY DEF RequestsOK, Carries
<1>2. ASSUME UNCHANGED run, FilesOK' /\ TasksOK', RequestsOK'
      PROVE  VersionInv'
  BY <1>2 DEF RunningOK
<1>3. ASSUME UNCHANGED <<rows, serial, tasks>>
      PROVE  FilesOK' /\ TasksOK'
  BY <1>3 DEF FilesOK, TasksOK
<1>4. ASSUME Files!Do(a, Files!Idle)
      PROVE  RequestsOK'
  BY <1>4, IdleCarries, RequestGoesOn
<1>5. CASE Files!WriteBytes(a)
  <2>1. o.at = "write"
    BY <1>5 DEF Files!WriteBytes
  <2>2. Carries([o EXCEPT !.at = "stat"])
    BY <1>1, <2>1 DEF Carries
  <2> QED
    BY <1>2, <1>3, <1>5, <2>2, RequestGoesOn DEF Files!WriteBytes
<1>6. CASE Files!Stat(a)
  <2>1. o.at = "stat"
    BY <1>6 DEF Files!Stat
  <2>2. \A s : Carries([o EXCEPT !.at = "save", !.stamp = s])
    BY <1>1, <2>1 DEF Carries
  <2> QED
    BY <1>2, <1>3, <1>4, <1>6, <2>2, RequestGoesOn DEF Files!Stat
<1>7. CASE Files!SaveFile(a)
  <2>1. o.id \in Files!Ids \cup {Null}
    BY <1>1, <1>7 DEF Files!SaveFile, Carries
  <2>2. FilesOK' /\ TasksOK'
    BY <1>7, <2>1, FileInsertKeeps, FileRenewKeeps, RowsAreWhole DEF Files!SaveFile
  <2> QED
    BY <1>2, <1>4, <1>7, <2>2 DEF Files!SaveFile
<1>8. CASE Files!CheckStat(a)
  <2>1. o.id \in Files!Ids /\ Whole(o.row)
    BY <1>1, <1>8 DEF Files!CheckStat, Carries
  <2>2. \A s : Carries([at |-> "reread", id |-> o.id, row |-> o.row, stamp |-> s])
    BY <2>1 DEF Carries
  <2>3. FilesOK' /\ TasksOK'
    BY <1>3, <1>8, FileDropKeeps DEF Files!CheckStat, TasksOK
  <2> QED
    BY <1>2, <1>4, <1>8, <2>2, <2>3, RequestGoesOn DEF Files!CheckStat
<1>9. CASE Files!Reread(a)
  <2>1. o.id \in Files!Ids /\ Whole(o.row)
    BY <1>1, <1>9 DEF Files!Reread, Carries
  <2>2. FilesOK' /\ TasksOK'
    BY <1>3, <1>9, <2>1, FileSyncKeeps DEF Files!Reread
  <2> QED
    BY <1>2, <1>4, <1>9, <2>2 DEF Files!Reread
<1>10. CASE Files!DropRow(a)
  BY <1>2, <1>4, <1>10, FileDropKeeps DEF Files!DropRow, TasksOK
<1>11. CASE Files!ListRows(a)
  <2> DEFINE known == {i \in Files!Ids : rows[i] # Null}
             list  == [i \in known |-> rows[i]]
  <2>1. PICK files, gone : Files!Do(a, [at |-> "scan", files |-> files, rows |-> list, gone |-> gone])
    BY <1>11 DEF Files!ListRows
  <2>2. DOMAIN list \subseteq Files!Ids /\ \A i \in DOMAIN list : Whole(list[i])
    BY DEF FilesOK
  <2> HIDE DEF list
  <2>3. Carries([at |-> "scan", files |-> files, rows |-> list, gone |-> gone])
    BY <2>2 DEF Carries
  <2> QED
    BY <1>2, <1>3, <1>11, <2>1, <2>3, RequestGoesOn DEF Files!ListRows
<1>12. CASE Files!ScanFile(a)
  <2>1. PICK f \in o.files :
          LET n == f.name
              known == {i \in DOMAIN o.rows : o.rows[i].name = n}
          IN  /\ Files!Do(a, IF \E i \in Files!RowsNamed(n) : i \notin known /\ disk[n] # Null
                       THEN Files!Idle ELSE [o EXCEPT !.files = @ \ {f}])
              /\ IF known = {}
                 THEN IF disk[n] = Null THEN UNCHANGED <<rows, serial, tasks>>
                      ELSE Files!Insert(Files!Row(n, disk[n].content, f.stamp))
                 ELSE \E i \in known :
                        IF o.rows[i].stamp = f.stamp \/ disk[n] = Null
                        THEN UNCHANGED <<rows, serial, tasks>>
                        ELSE Files!Sync(i, o.rows[i], n, f.stamp)
    BY <1>12 DEF Files!ScanFile
  <2>2. o.at = "scan"
    BY <1>12 DEF Files!ScanFile
  <2>3. DOMAIN o.rows \subseteq Files!Ids /\ \A i \in DOMAIN o.rows : Whole(o.rows[i])
    BY <1>1, <2>2 DEF Carries
  <2>4. Carries([o EXCEPT !.files = @ \ {f}])
    BY <1>1, <2>2 DEF Carries
  <2>5. RequestsOK'
    BY <2>1, <2>4, IdleCarries, RequestGoesOn
  <2>6. UNCHANGED <<rows, serial, tasks>> \/ (\E item : Whole(item) /\ Files!Insert(item))
        \/ \E i \in Files!Ids : \E item, n, s : Whole(item) /\ Files!Sync(i, item, n, s)
    BY <2>1, <2>3, RowsAreWhole
  <2>7. FilesOK' /\ TasksOK'
    BY <1>3, <2>6, FileInsertKeeps, FileSyncKeeps
  <2> QED
    BY <1>2, <1>12, <2>5, <2>7 DEF Files!ScanFile
<1>13. CASE Files!ScanEnd(a)
  BY <1>2, <1>4, <1>13, FileDropKeeps DEF Files!ScanEnd, TasksOK
<1> QED
  BY <1>5, <1>6, <1>7, <1>8, <1>9, <1>10, <1>11, <1>12, <1>13 DEF Files!Step

LEMMA VersionStep == Files!FilesAssumption /\ VersionInv /\ [Files!Next]_(Files!vars) => VersionInv'
<1> SUFFICES ASSUME Files!FilesAssumption, VersionInv, [Files!Next]_(Files!vars)
             PROVE  VersionInv'
  OBVIOUS
<1> USE DEF VersionInv
<1>1. ASSUME UNCHANGED op
      PROVE  RequestsOK'
  BY <1>1 DEF RequestsOK
<1>2. ASSUME NEW j \in tasks, Files!Process(j)
      PROVE  VersionInv'
  <2>1. j.id \in Files!Ids /\ rows[j.id] # Null /\ rows[j.id].sum = j.sum
    BY <1>2 DEF Files!Process, Files!Accepts, TasksOK
  <2>2. run' = [at |-> j.kind, job |-> j, row |-> rows[j.id]] /\ Whole(rows[j.id])
    BY <1>2, <2>1 DEF Files!Process, FilesOK
  <2>3. RunningOK'
    BY <2>1, <2>2 DEF RunningOK
  <2> QED
    BY <1>1, <1>2, <2>3 DEF Files!Process, FilesOK, TasksOK
<1>3. ASSUME NEW j \in tasks, Files!Discard(j)
      PROVE  VersionInv'
  BY <1>1, <1>3 DEF Files!Discard, FilesOK, TasksOK, RunningOK
<1>4. run' = Files!Idle => RunningOK'
  BY DEF RunningOK, Files!Idle
<1>5. ASSUME NEW t \in Contents \cup {""}, Files!StoreText(t)
      PROVE  VersionInv'
  <2>1. run.job.id \in Files!Ids /\ Whole(run.row) /\ t \in {"", run.row.sum}
    BY <1>5 DEF Files!StoreText, RunningOK
  <2>2. FilesOK'
    BY <1>5, <2>1, FileSaveKeeps, RowsAreWhole DEF Files!StoreText
  <2>3. Files!Job("ingest", run.job.id, run.row.sum).id = run.job.id
    BY DEF Files!Job
  <2>4. tasks' \subseteq tasks \cup {Files!Job("ingest", run.job.id, run.row.sum)} /\ UNCHANGED serial
    BY <1>5 DEF Files!StoreText
  <2>5. TasksOK'
    BY <2>1, <2>3, <2>4 DEF TasksOK
  <2> QED
    BY <1>1, <1>4, <1>5, <2>2, <2>5 DEF Files!StoreText
<1>6. ASSUME NEW some \in BOOLEAN, Files!StoreVectors(some)
      PROVE  VersionInv'
  <2>1. run.job.id \in Files!Ids /\ Whole(run.row)
    BY <1>6 DEF Files!StoreVectors, RunningOK
  <2>2. FilesOK'
    BY <1>6, <2>1, FileSaveKeeps, RowsAreWhole DEF Files!StoreVectors
  <2> QED
    BY <1>1, <1>4, <1>6, <2>2 DEF Files!StoreVectors, TasksOK
<1>7. ASSUME NEW n \in Names, Files!RemoveFile(n) \/ \E c \in Contents : Files!EditFile(n, c)
      PROVE  VersionInv'
  BY <1>1, <1>7 DEF Files!RemoveFile, Files!EditFile, FilesOK, TasksOK, RunningOK
<1>8. CASE Files!ClearAll
  BY <1>1, <1>8, FileDropKeeps DEF Files!ClearAll, TasksOK, RunningOK
<1>9. CASE Files!Crash
  BY <1>4, <1>9, IdleCarries DEF Files!Crash, FilesOK, TasksOK, RequestsOK
<1>10. CASE UNCHANGED Files!vars
  BY <1>1, <1>10 DEF Files!vars, FilesOK, TasksOK, RunningOK
<1> QED
  BY <1>2, <1>3, <1>5, <1>6, <1>7, <1>8, <1>9, <1>10, RequestStarts, RequestKeeps DEF Files!Next

(* However late an extraction answers, and whatever row a read, a scan or  *)
(* a write saves that it had read earlier, the text of a row is that of    *)
(* the bytes whose checksum the row has.                                   *)
THEOREM VersionsNeverMix == Files!Spec => []RowIsOneVersion
<1>1. VersionInv => RowIsOneVersion
  BY DEF VersionInv, FilesOK, Whole, RowIsOneVersion, Files!RowIsOneVersion
<1>2. Files!Init => VersionInv
  BY FilesInstance, VersionInit
<1>3. VersionInv /\ [Files!Next]_(Files!vars) => VersionInv'
  BY FilesInstance, VersionStep
<1> QED
  BY <1>1, <1>2, <1>3, PTL DEF Files!Spec

-----------------------------------------------------------------------------
(* What is known of a file: a name, a stamp that was given, and unless a   *)
(* file changed between its bytes and its stat, the checksum of what the   *)
(* file has if it still has that stamp.                                    *)
Known(item) ==
  /\ item.name \in Names /\ item.stamp \in Nat /\ item.stamp <= stamp
  /\ \/ raced \/ disk[item.name] = Null
     \/ disk[item.name].stamp = item.stamp => disk[item.name].content = item.sum

Given(s) == s \in Nat /\ s <= stamp

(* What a request has seen of the files, and what it is about to save.     *)
Holds(o) ==
  /\ o.at \in {"write", "stat", "save"} => o.name \in Names
  /\ o.at = "save" => Known(Files!Row(o.name, o.content, o.stamp))
  /\ o.at \in {"check", "reread"} => Known(o.row)
  /\ o.at = "reread" => Given(o.stamp)
  /\ o.at \in {"listed", "scan"} => \A f \in o.files : f.name \in Names /\ Given(f.stamp)
  /\ o.at = "scan" => \A i \in DOMAIN o.rows : Known(o.rows[i])

DiskOK ==
  /\ DOMAIN disk = Names /\ stamp \in Nat
  /\ \A n \in Names : disk[n] # Null => Given(disk[n].stamp)
RowsKnown == \A i \in Files!Ids : rows[i] # Null => Known(rows[i])
OpsHold   == \A a \in Actors : Holds(op[a])
RunKnown  == run.at \in {"extract", "ingest"} => Known(run.row)

FreshInv == DiskOK /\ RowsKnown /\ OpsHold /\ RunKnown

(* A change of a file gives it a stamp that nobody has seen.               *)
LEMMA KnowledgeStays ==
  ASSUME DiskOK, raced => raced',
         \/ UNCHANGED <<disk, stamp>>
         \/ \E n \in Names : \E c : Files!Touch(n, c)
         \/ UNCHANGED stamp /\ \E n \in Names : disk' = [disk EXCEPT ![n] = Null]
  PROVE  /\ DiskOK' /\ (\A s : Given(s) => Given(s)')
         /\ \A item : Known(item) => Known(item)'
         /\ \A o : Holds(o) => Holds(o)'
<1>1. DiskOK' /\ (\A s : Given(s) => Given(s)')
  <2>1. CASE UNCHANGED <<disk, stamp>>
    BY <2>1 DEF DiskOK, Given
  <2>2. ASSUME NEW n \in Names, NEW c, Files!Touch(n, c)
        PROVE  DiskOK' /\ (\A s : Given(s) => Given(s)')
    <3>1. Files!File(c, stamp + 1).stamp = stamp + 1
      BY DEF Files!File
    <3> QED
      BY <2>2, <3>1 DEF Files!Touch, DiskOK, Given
  <2>3. ASSUME UNCHANGED stamp, NEW n \in Names, disk' = [disk EXCEPT ![n] = Null]
        PROVE  DiskOK' /\ (\A s : Given(s) => Given(s)')
    BY <2>3 DEF DiskOK, Given
  <2> QED
    BY <2>1, <2>2, <2>3
<1>2. ASSUME NEW item, Known(item)
      PROVE  Known(item)'
  <2>1. CASE UNCHANGED <<disk, stamp>>
    BY <1>2, <2>1 DEF Known
  <2>2. ASSUME NEW n \in Names, NEW c, Files!Touch(n, c)
        PROVE  Known(item)'
    <3>1. Files!File(c, stamp + 1).stamp = stamp + 1
      BY DEF Files!File
    <3> QED
      BY <1>2, <2>2, <3>1 DEF Files!Touch, DiskOK, Known
  <2>3. ASSUME UNCHANGED stamp, NEW n \in Names, disk' = [disk EXCEPT ![n] = Null]
        PROVE  Known(item)'
    BY <1>2, <2>3 DEF DiskOK, Known
  <2> QED
    BY <2>1, <2>2, <2>3
<1>3. ASSUME NEW o, Holds(o)
      PROVE  Holds(o)'
  BY <1>1, <1>2, <1>3 DEF Holds
<1> QED
  BY <1>1, <1>2, <1>3

(* Rows that a save, an insert or a sync writes are known.                 *)
LEMMA RowsAreKnown ==
  /\ \A n \in Names : \A c, s : Given(s) /\ (disk[n] # Null => disk[n].content = c) =>
       Known(Files!Row(n, c, s))
  /\ \A item, s : Whole(item) /\ item.name \in Names /\ Given(s) /\ disk[item.name].content = item.sum =>
       Known([item EXCEPT !.stamp = s])
  /\ \A item, t : Whole(item) /\ Known(item) =>
       Known([item EXCEPT !.text = t]) /\ Known([item EXCEPT !.embedded = t])
<1>1. \A n \in Names : \A c, s : Given(s) /\ (disk[n] # Null => disk[n].content = c) =>
        Known(Files!Row(n, c, s))
  BY DEF Known, Given, Files!Row
<1>2. \A item, s : Whole(item) /\ item.name \in Names /\ Given(s) /\ disk[item.name].content = item.sum =>
        Known([item EXCEPT !.stamp = s])
  BY DEF Known, Given, Whole
<1>3. \A item, t : Whole(item) /\ Known(item) =>
        Known([item EXCEPT !.text = t]) /\ Known([item EXCEPT !.embedded = t])
  BY DEF Known, Whole
<1> QED
  BY <1>1, <1>2, <1>3

(* Saving, inserting and removing known rows keeps the rows known.         *)
LEMMA SavesKnown ==
  ASSUME FilesOK, RowsKnown, UNCHANGED <<disk, stamp, raced>>, NEW item, Known(item),
         Files!Insert(item) \/ \E i \in Files!Ids : Files!Save(i, item) \/ Files!Renew(i, item)
  PROVE  RowsKnown'
<1>1. \A p : Known(p) => Known(p)'
  BY DEF Known
<1>2. \A i \in Files!Ids : rows'[i] \in {rows[i], item}
  BY DEF FilesOK, Files!Insert, Files!Save, Files!Renew
<1> QED
  BY <1>1, <1>2 DEF RowsKnown

LEMMA RowsRemoved ==
  ASSUME RowsKnown, UNCHANGED <<disk, stamp, raced>>, UNCHANGED rows \/ \E is : Files!Drop(is)
  PROVE  RowsKnown'
<1>1. \A p : Known(p) => Known(p)'
  BY DEF Known
<1>2. \A i \in Files!Ids : rows'[i] \in {rows[i], Null}
  BY DEF Files!Drop
<1> QED
  BY <1>1, <1>2 DEF RowsKnown

LEMMA SyncKnown ==
  ASSUME FilesOK, RowsKnown, UNCHANGED <<disk, stamp, raced>>,
         NEW i \in Files!Ids, NEW item, Whole(item), item.name \in Names,
         NEW s, Given(s), Files!Sync(i, item, item.name, s)
  PROVE  RowsKnown'
<1>1. CASE disk[item.name].content # item.sum
  <2>1. Known(Files!Row(item.name, disk[item.name].content, s))
    BY RowsAreKnown
  <2> QED
    BY <1>1, <2>1, SavesKnown DEF Files!Sync
<1>2. CASE disk[item.name].content = item.sum
  <2>1. Known([item EXCEPT !.stamp = s])
    BY <1>2, RowsAreKnown
  <2> QED
    BY <1>2, <2>1, SavesKnown DEF Files!Sync
<1> QED
  BY <1>1, <1>2

(* One request changes what it holds; the others hold what they held.      *)
LEMMA OpsStay ==
  ASSUME VersionInv, OpsHold, \A o : Holds(o) => Holds(o)',
         UNCHANGED op \/ \E a \in Actors : \E o : Files!Do(a, o) /\ Holds(o)'
  PROVE  OpsHold'
<1>1. DOMAIN op = Actors
  BY DEF VersionInv, RequestsOK
<1>2. CASE UNCHANGED op
  BY <1>2 DEF OpsHold
<1>3. ASSUME NEW a \in Actors, NEW o, Files!Do(a, o), Holds(o)'
      PROVE  OpsHold'
  BY <1>1, <1>3 DEF OpsHold, Files!Do
<1> QED
  BY <1>2, <1>3

(* A step that does not touch the disk keeps what is known.                *)
LEMMA DiskStays ==
  ASSUME FreshInv, UNCHANGED <<disk, stamp>>, raced => raced'
  PROVE  /\ DiskOK' /\ (\A o : Holds(o) => Holds(o)')
         /\ (\A item : Known(item) => Known(item)')
BY KnowledgeStays DEF FreshInv

LEMMA FreshInit == Files!FilesAssumption /\ Files!Init => FreshInv
<1> SUFFICES ASSUME Files!Init
             PROVE  FreshInv
  OBVIOUS
<1>1. \A c : Files!File(c, 1).stamp = 1
  BY DEF Files!File
<1>2. DiskOK
  BY <1>1 DEF Files!Init, DiskOK, Given
<1>3. RowsKnown /\ OpsHold /\ RunKnown
  BY DEF Files!Init, RowsKnown, OpsHold, RunKnown, Holds, Files!Idle
<1> QED
  BY <1>2, <1>3 DEF FreshInv

LEMMA RequestIsFresh ==
  ASSUME VersionInv, FreshInv, NEW a \in Actors, Files!Request(a)
  PROVE  FreshInv'
<1> USE DEF FreshInv
<1>0. UNCHANGED <<stamp, rows, run, raced>>
  BY DEF Files!Request, Files!Write, Files!Read, Files!ReadByName, Files!Adopt, Files!Delete, Files!Scan
<1>1. UNCHANGED disk \/ \E n \in Names : disk' = [disk EXCEPT ![n] = Null]
  <2>1. \A i \in Files!Ids : rows[i] # Null => rows[i].name \in Names
    BY DEF RowsKnown, Known
  <2> QED
    BY <2>1 DEF Files!Request, Files!Write, Files!Read, Files!ReadByName, Files!Adopt, Files!Delete, Files!Scan
<1>2. /\ DiskOK' /\ (\A item : Known(item) => Known(item)')
      /\ \A o : Holds(o) => Holds(o)'
  BY <1>0, <1>1, KnowledgeStays
<1>3. RowsKnown' /\ RunKnown'
  BY <1>0, <1>2 DEF RowsKnown, RunKnown
<1>4. SUFFICES OpsHold'
  BY <1>2, <1>3
<1>5. SUFFICES \E o : Files!Do(a, o) /\ Holds(o)'
  BY <1>2, OpsStay
<1>6. ASSUME NEW i \in Files!Ids, Files!Read(a, i)
      PROVE  \E o : Files!Do(a, o) /\ Holds(o)'
  <2>1. Holds([at |-> "check", id |-> i, row |-> rows[i]])
    BY <1>6 DEF Files!Read, Holds, RowsKnown
  <2> QED
    BY <1>2, <1>6, <2>1 DEF Files!Read
<1>7. ASSUME NEW n \in Names, NEW c \in Contents, NEW o \in BOOLEAN, Files!Write(a, n, c, o)
      PROVE  \E p : Files!Do(a, p) /\ Holds(p)'
  <2>1. PICK i : Files!Do(a, [at |-> "write", name |-> n, content |-> c, id |-> i, stamp |-> Null])
    BY <1>7 DEF Files!Write
  <2>2. Holds([at |-> "write", name |-> n, content |-> c, id |-> i, stamp |-> Null])
    BY DEF Holds
  <2> QED
    BY <1>2, <2>1, <2>2
<1>8. ASSUME NEW n \in Names, Files!Adopt(a, n)
      PROVE  \E o : Files!Do(a, o) /\ Holds(o)'
  <2>1. Holds([at |-> "stat", name |-> n, content |-> disk[n].content, id |-> Null, stamp |-> Null])
    BY DEF Holds
  <2> QED
    BY <1>2, <1>8, <2>1 DEF Files!Adopt
<1>9. ASSUME NEW n \in Names, Files!ReadByName(a, n)
      PROVE  \E o : Files!Do(a, o) /\ Holds(o)'
  BY <1>6, <1>8, <1>9 DEF Files!ReadByName, Files!RowsNamed, Files!RowsBased
<1>10. ASSUME NEW i \in Files!Ids, Files!Delete(a, i)
       PROVE  \E o : Files!Do(a, o) /\ Holds(o)'
  <2>1. Holds([at |-> "drop", id |-> i])
    BY DEF Holds
  <2> QED
    BY <1>2, <1>10, <2>1 DEF Files!Delete
<1>11. CASE Files!Scan(a)
  <2> DEFINE files == {[name |-> n, stamp |-> disk[n].stamp] : n \in {m \in Names : disk[m] # Null}}
  <2>1. \A f \in files : f.name \in Names /\ Given(f.stamp)
    BY DEF DiskOK
  <2>2. Files!Do(a, [at |-> "listed", files |-> files])
    BY <1>11 DEF Files!Scan
  <2> HIDE DEF files
  <2>3. Holds([at |-> "listed", files |-> files])
    BY <2>1 DEF Holds
  <2> QED
    BY <1>2, <2>2, <2>3
<1> QED
  BY <1>6, <1>7, <1>9, <1>10, <1>11 DEF Files!Request

LEMMA StepIsFresh ==
  ASSUME VersionInv, FreshInv, NEW a \in Actors, Files!Step(a)
  PROVE  FreshInv'
<1> USE DEF FreshInv
<1> DEFINE o == op[a]
<1>1. Holds(o) /\ Carries(o) /\ FilesOK
  BY DEF OpsHold, VersionInv, RequestsOK
<1>2. \A s : Holds([at |-> "idle"])
  BY DEF Holds
<1>3. ASSUME UNCHANGED <<disk, stamp, run>>, raced => raced', RowsKnown',
             \E p : Files!Do(a, p) /\ Holds(p)
      PROVE  FreshInv'
  <2>1. DiskOK' /\ RunKnown' /\ \A p : Holds(p) => Holds(p)'
    BY <1>3, DiskStays DEF RunKnown
  <2> QED
    BY <1>3, <2>1, OpsStay
<1>4. Holds(Files!Idle)
  BY <1>2 DEF Files!Idle
<1>5. CASE Files!WriteBytes(a)
  <2>1. o.at = "write" /\ o.name \in Names
    BY <1>1, <1>5 DEF Files!WriteBytes, Holds
  <2>2. PICK p : p = [o EXCEPT !.at = "stat"]
    OBVIOUS
  <2>3. p.at = "stat" /\ p.name \in Names /\ Files!Do(a, p)
    BY <1>1, <1>5, <2>1, <2>2 DEF Carries, Files!WriteBytes
  <2>4. UNCHANGED <<rows, run, raced>> /\ Files!Touch(o.name, o.content)
    BY <1>5 DEF Files!WriteBytes
  <2>5. /\ DiskOK' /\ (\A item : Known(item) => Known(item)')
        /\ \A q : Holds(q) => Holds(q)'
    BY <2>1, <2>4, KnowledgeStays DEF Files!Touch
  <2>6. RowsKnown' /\ RunKnown'
    BY <2>4, <2>5 DEF RowsKnown, RunKnown
  <2>7. Holds(p)'
    BY <2>3 DEF Holds
  <2> QED
    BY <2>3, <2>5, <2>6, <2>7, OpsStay
<1>6. CASE Files!Stat(a)
  <2>1. o.at = "stat" /\ o.name \in Names
    BY <1>1, <1>6 DEF Files!Stat, Holds
  <2>2. UNCHANGED <<disk, stamp, rows, run>> /\ (raced => raced')
    BY <1>6 DEF Files!Stat
  <2>3. RowsKnown' /\ DiskOK' /\ RunKnown' /\ \A q : Holds(q) => Holds(q)'
    BY <2>2, DiskStays DEF RowsKnown, RunKnown
  <2>4. CASE disk[o.name] = Null
    BY <1>3, <1>4, <1>6, <2>2, <2>3, <2>4 DEF Files!Stat
  <2>5. CASE disk[o.name] # Null
    <3>1. PICK p : p = [o EXCEPT !.at = "save", !.stamp = disk[o.name].stamp]
      OBVIOUS
    <3>2. Files!Do(a, p) /\ raced' = (raced \/ disk[o.name].content # o.content)
      BY <1>6, <2>5, <3>1 DEF Files!Stat
    <3>3. p.at = "save" /\ p.name = o.name /\ p.content = o.content
      BY <1>1, <2>1, <3>1 DEF Carries
    <3>4. Given(disk[o.name].stamp)
      BY <2>1, <2>5 DEF DiskOK
    <3>5. p.stamp \in Nat /\ p.stamp <= stamp
      BY <1>1, <2>1, <3>1, <3>4 DEF Given
    <3>6. raced' \/ disk'[p.name].content = p.content
      BY <2>2, <3>2, <3>3
    <3>7. Known(Files!Row(p.name, p.content, p.stamp))'
      BY <2>1, <2>2, <3>3, <3>5, <3>6 DEF Known, Files!Row
    <3>8. Holds(p)'
      BY <2>1, <3>3, <3>7 DEF Holds
    <3> QED
      BY <2>3, <3>2, <3>8, OpsStay
  <2> QED
    BY <2>4, <2>5
<1>7. CASE Files!SaveFile(a)
  <2>1. o.at = "save" /\ o.id \in Files!Ids \cup {Null} /\ Known(Files!Row(o.name, o.content, o.stamp))
    BY <1>1, <1>7 DEF Files!SaveFile, Holds, Carries
  <2>2. RowsKnown'
    BY <1>1, <1>7, <2>1, SavesKnown DEF Files!SaveFile
  <2> QED
    BY <1>3, <1>4, <1>7, <2>2 DEF Files!SaveFile
<1>8. CASE Files!CheckStat(a)
  <2>1. Known(o.row)
    BY <1>1, <1>8 DEF Files!CheckStat, Holds
  <2>2. RowsKnown'
    BY <1>8, RowsRemoved DEF Files!CheckStat
  <2>3. \A s : Given(s) => Holds([at |-> "reread", id |-> o.id, row |-> o.row, stamp |-> s])
    BY <2>1 DEF Holds
  <2>4. disk[o.row.name] # Null => Given(disk[o.row.name].stamp)
    BY <2>1 DEF Known, DiskOK
  <2>5. \E p : Files!Do(a, p) /\ Holds(p)
    BY <1>4, <1>8, <2>3, <2>4 DEF Files!CheckStat
  <2> QED
    BY <1>3, <1>8, <2>2, <2>5 DEF Files!CheckStat
<1>9. CASE Files!Reread(a)
  <2>1. o.id \in Files!Ids /\ Whole(o.row) /\ o.row.name \in Names /\ Given(o.stamp)
    BY <1>1, <1>9 DEF Files!Reread, Holds, Carries, Known
  <2>2. RowsKnown'
    BY <1>1, <1>9, <2>1, SyncKnown, RowsRemoved DEF Files!Reread
  <2> QED
    BY <1>3, <1>4, <1>9, <2>2 DEF Files!Reread
<1>10. CASE Files!DropRow(a)
  <2>1. RowsKnown'
    BY <1>10, RowsRemoved DEF Files!DropRow
  <2> QED
    BY <1>3, <1>4, <1>10, <2>1 DEF Files!DropRow
<1>11. CASE Files!ListRows(a)
  <2> DEFINE known == {i \in Files!Ids : rows[i] # Null}
             list  == [i \in known |-> rows[i]]
  <2>1. PICK gone : Files!Do(a, [at |-> "scan", files |-> o.files, rows |-> list, gone |-> gone])
    BY <1>11 DEF Files!ListRows
  <2>2. \A i \in DOMAIN list : Known(list[i])
    BY DEF RowsKnown
  <2>3. \A f \in o.files : f.name \in Names /\ Given(f.stamp)
    BY <1>1, <1>11 DEF Files!ListRows, Holds
  <2> HIDE DEF list
  <2>4. Holds([at |-> "scan", files |-> o.files, rows |-> list, gone |-> gone])
    BY <2>2, <2>3 DEF Holds
  <2>5. RowsKnown'
    BY <1>11, RowsRemoved DEF Files!ListRows
  <2> QED
    BY <1>3, <1>11, <2>1, <2>4, <2>5 DEF Files!ListRows
<1>12. CASE Files!ScanFile(a)
  <2>1. o.at = "scan" /\ UNCHANGED <<disk, stamp, run, raced>>
    BY <1>12 DEF Files!ScanFile
  <2>2. /\ \A f \in o.files : f.name \in Names /\ Given(f.stamp)
        /\ \A i \in DOMAIN o.rows : i \in Files!Ids /\ Whole(o.rows[i]) /\ Known(o.rows[i])
    BY <1>1, <2>1 DEF Holds, Carries
  <2>3. PICK f \in o.files :
          LET n == f.name
              known == {i \in DOMAIN o.rows : o.rows[i].name = n}
          IN  /\ Files!Do(a, IF \E i \in Files!RowsNamed(n) : i \notin known /\ disk[n] # Null
                             THEN Files!Idle ELSE [o EXCEPT !.files = @ \ {f}])
              /\ IF known = {}
                 THEN IF disk[n] = Null THEN UNCHANGED <<rows, serial, tasks>>
                      ELSE Files!Insert(Files!Row(n, disk[n].content, f.stamp))
                 ELSE \E i \in known :
                        IF o.rows[i].stamp = f.stamp \/ disk[n] = Null
                        THEN UNCHANGED <<rows, serial, tasks>>
                        ELSE Files!Sync(i, o.rows[i], n, f.stamp)
    BY <1>12 DEF Files!ScanFile
  <2>4. Holds([o EXCEPT !.files = @ \ {f}])
    BY <1>1, <2>1, <2>2 DEF Holds, Carries
  <2>5. \E p : Files!Do(a, p) /\ Holds(p)
    BY <1>4, <2>3, <2>4
  <2>6. Known(Files!Row(f.name, disk[f.name].content, f.stamp))
    BY <2>2, RowsAreKnown
  <2>7. UNCHANGED rows \/ Files!Insert(Files!Row(f.name, disk[f.name].content, f.stamp))
        \/ \E i \in DOMAIN o.rows : Files!Sync(i, o.rows[i], o.rows[i].name, f.stamp)
    BY <2>3
  <2>8. RowsKnown'
    <3>1. CASE UNCHANGED rows
      BY <2>1, <3>1, RowsRemoved
    <3>2. CASE Files!Insert(Files!Row(f.name, disk[f.name].content, f.stamp))
      BY <1>1, <2>1, <2>6, <3>2, SavesKnown
    <3>3. ASSUME NEW i \in DOMAIN o.rows, Files!Sync(i, o.rows[i], o.rows[i].name, f.stamp)
          PROVE  RowsKnown'
      <4>1. i \in Files!Ids /\ Whole(o.rows[i]) /\ o.rows[i].name \in Names /\ Given(f.stamp)
        BY <2>2 DEF Known
      <4> QED
        BY <1>1, <2>1, <3>3, <4>1, SyncKnown
    <3> QED
      BY <2>7, <3>1, <3>2, <3>3
  <2> QED
    BY <1>3, <2>1, <2>5, <2>8
<1>13. CASE Files!ScanEnd(a)
  <2>1. RowsKnown'
    BY <1>13, RowsRemoved DEF Files!ScanEnd
  <2> QED
    BY <1>3, <1>4, <1>13, <2>1 DEF Files!ScanEnd
<1> QED
  BY <1>5, <1>6, <1>7, <1>8, <1>9, <1>10, <1>11, <1>12, <1>13 DEF Files!Step

LEMMA FreshStep ==
  Files!FilesAssumption /\ VersionInv /\ FreshInv /\ [Files!Next]_(Files!vars) => FreshInv'
<1> SUFFICES ASSUME VersionInv, FreshInv, [Files!Next]_(Files!vars)
             PROVE  FreshInv'
  OBVIOUS
<1> USE DEF FreshInv
<1>1. FilesOK /\ TasksOK
  BY DEF VersionInv
<1>2. ASSUME UNCHANGED <<disk, stamp, raced>>, RowsKnown', RunKnown', UNCHANGED op
      PROVE  FreshInv'
  BY <1>2, DiskStays, OpsStay
<1>3. ASSUME UNCHANGED <<disk, stamp>>
      PROVE  \A item : Known(item) /\ raced' = raced => Known(item)'
  BY <1>3 DEF Known
<1>4. ASSUME NEW j \in tasks, Files!Process(j)
      PROVE  FreshInv'
  <2>1. RowsKnown'
    BY <1>4, RowsRemoved DEF Files!Process
  <2>2. j.id \in Files!Ids /\ rows[j.id] # Null /\ run' = [at |-> j.kind, job |-> j, row |-> rows[j.id]]
    BY <1>1, <1>4 DEF TasksOK, Files!Process, Files!Accepts
  <2>3. Known(rows[j.id]) /\ run'.row = rows[j.id]
    BY <2>2 DEF RowsKnown
  <2>4. RunKnown'
    BY <1>3, <1>4, <2>3 DEF RunKnown, Files!Process
  <2> QED
    BY <1>2, <1>4, <2>1, <2>4 DEF Files!Process
<1>5. ASSUME NEW j \in tasks, Files!Discard(j)
      PROVE  FreshInv'
  <2>1. RowsKnown' /\ RunKnown'
    BY <1>3, <1>5, RowsRemoved DEF Files!Discard, RunKnown
  <2> QED
    BY <1>2, <1>5, <2>1 DEF Files!Discard
<1>6. run' = Files!Idle => RunKnown'
  BY DEF RunKnown, Files!Idle
<1>7. ASSUME NEW t \in Contents \cup {""}, Files!StoreText(t)
      PROVE  FreshInv'
  <2>1. run.job.id \in Files!Ids /\ Known([run.row EXCEPT !.text = t])
    BY <1>7, RowsAreKnown DEF Files!StoreText, RunKnown, VersionInv, RunningOK
  <2>2. RowsKnown'
    BY <1>1, <1>7, <2>1, SavesKnown DEF Files!StoreText
  <2> QED
    BY <1>2, <1>6, <1>7, <2>2 DEF Files!StoreText
<1>8. ASSUME NEW some \in BOOLEAN, Files!StoreVectors(some)
      PROVE  FreshInv'
  <2>1. run.job.id \in Files!Ids /\ Known([run.row EXCEPT !.embedded = some])
    BY <1>8, RowsAreKnown DEF Files!StoreVectors, RunKnown, VersionInv, RunningOK
  <2>2. RowsKnown'
    BY <1>1, <1>8, <2>1, SavesKnown DEF Files!StoreVectors
  <2> QED
    BY <1>2, <1>6, <1>8, <2>2 DEF Files!StoreVectors
<1>9. ASSUME NEW n \in Names, Files!RemoveFile(n) \/ \E c \in Contents : Files!EditFile(n, c)
      PROVE  FreshInv'
  <2>1. UNCHANGED <<rows, run, op, raced>>
    BY <1>9 DEF Files!RemoveFile, Files!EditFile
  <2>2. (UNCHANGED stamp /\ disk' = [disk EXCEPT ![n] = Null]) \/ \E c : Files!Touch(n, c)
    BY <1>9 DEF Files!RemoveFile, Files!EditFile
  <2>3. DiskOK' /\ (\A item : Known(item) => Known(item)') /\ \A o : Holds(o) => Holds(o)'
    BY <2>1, <2>2, KnowledgeStays
  <2> QED
    BY <2>1, <2>3, OpsStay DEF RowsKnown, RunKnown
<1>10. CASE Files!ClearAll
  <2>1. RowsKnown' /\ RunKnown'
    BY <1>3, <1>10, RowsRemoved DEF Files!ClearAll, RunKnown
  <2> QED
    BY <1>2, <1>10, <2>1 DEF Files!ClearAll
<1>11. CASE Files!Crash
  <2>1. UNCHANGED <<disk, stamp, rows, raced>> /\ run' = Files!Idle
        /\ op' = [a \in Actors |-> Files!Idle]
    BY <1>11 DEF Files!Crash
  <2>2. DiskOK' /\ RowsKnown'
    BY <2>1, DiskStays, RowsRemoved
  <2>3. OpsHold'
    BY <2>1 DEF OpsHold, Holds, Files!Idle
  <2> QED
    BY <1>6, <2>1, <2>2, <2>3
<1>12. CASE UNCHANGED Files!vars
  <2>1. RowsKnown' /\ RunKnown'
    BY <1>3, <1>12, RowsRemoved DEF Files!vars, RunKnown
  <2> QED
    BY <1>2, <1>12, <2>1 DEF Files!vars
<1> QED
  BY <1>4, <1>5, <1>7, <1>8, <1>9, <1>10, <1>11, <1>12, RequestIsFresh, StepIsFresh DEF Files!Next

(* Whatever requests, scans and extractions overlap with edits of the      *)
(* folder, a row never has the stamp of a file without its checksum, but   *)
(* for a file that changed between the bytes and the stat of a write: the  *)
(* next read or scan compares no more than the stamp.                      *)
THEOREM EveryChangeIsSeen == Files!Spec => []ChangesAreFound
<1>1. RowsKnown => ChangesAreFound
  BY DEF RowsKnown, Known, ChangesAreFound, Files!ChangesAreFound
<1>2. Files!Init => VersionInv /\ FreshInv
  BY FilesInstance, VersionInit, FreshInit
<1>3. VersionInv /\ FreshInv /\ [Files!Next]_(Files!vars) => VersionInv' /\ FreshInv'
  BY FilesInstance, VersionStep, FreshStep
<1>4. FreshInv => ChangesAreFound
  BY <1>1 DEF FreshInv
<1> QED
  BY <1>2, <1>3, <1>4, PTL DEF Files!Spec

-----------------------------------------------------------------------------
(* DataSync.  A sync has a copy of the source while it runs, and from the  *)
(* records on a dataset to put them in.                                    *)
Stages    == {"start", "fetch", "create", "link", "records", "insert", "update", "new", "finish"}
Syncing   == [at : Stages \cup {"idle"}, copy : Feed!Source \cup {Null}, left : SUBSET Delivers,
              got : Feed!Delivered, old : SUBSET Feed!Rows]
Running(q) == q.at \in Stages =>
                q.copy \in Feed!Source /\ (q.at \in Stages \ {"start", "fetch", "create", "finish"} => q.copy.dataset # 0)

FeedOK ==
  /\ source \in Feed!Source \cup {Null} /\ cron \in BOOLEAN /\ kept \in BOOLEAN
  /\ remote \in Feed!Delivered /\ made \in 0..MaxDatasets
  /\ records \in [Feed!Datasets -> [Feed!Rows -> Nat]]
  /\ sync \in [Syncs -> Syncing] /\ \A s \in Syncs : Running(sync[s])

(* The row is there while a PATCH is about to update the schedule.         *)
CronOK ==
  /\ asked => source # Null
  /\ kept /\ ~asked => cron = (source # Null /\ source.enabled)

(* A step of one sync puts it in another state of its type.                *)
LEMMA SyncKeeps ==
  ASSUME FeedOK, NEW s \in Syncs, NEW q \in Syncing, Running(q), sync' = [sync EXCEPT ![s] = q]
  PROVE  /\ sync' \in [Syncs -> Syncing] /\ \A t \in Syncs : Running(sync'[t])
         /\ sync'[s] = q /\ \A t \in Syncs \ {s} : sync'[t] = sync[t]
BY DEF FeedOK

LEMMA ToKeeps ==
  ASSUME FeedOK, NEW s \in Syncs, NEW at \in Stages, Feed!To(s, at), sync[s].at \in Stages,
         at \in {"start", "fetch", "create", "finish"} \/ sync[s].copy.dataset # 0
  PROVE  /\ sync' \in [Syncs -> Syncing] /\ \A t \in Syncs : Running(sync'[t])
         /\ sync'[s] = [sync[s] EXCEPT !.at = at] /\ \A t \in Syncs \ {s} : sync'[t] = sync[t]
<1>1. PICK q : q = [sync[s] EXCEPT !.at = at]
  OBVIOUS
<1>2. sync[s] \in Syncing /\ Running(sync[s])
  BY DEF FeedOK
<1>3. q \in Syncing /\ Running(q)
  BY <1>1, <1>2 DEF Syncing, Running, Stages
<1>4. sync' = [sync EXCEPT ![s] = q]
  BY <1>1 DEF Feed!To
<1> QED BY <1>1, <1>3, <1>4, SyncKeeps

LEMMA FeedInit == Feed!DataSyncAssumption /\ Feed!Init => FeedOK /\ CronOK
<1> SUFFICES ASSUME Feed!DataSyncAssumption, Feed!Init PROVE FeedOK /\ CronOK
  OBVIOUS
<1>1. Feed!Idle \in Syncing /\ Running(Feed!Idle)
  BY DEF Feed!Idle, Syncing, Running, Stages, Feed!Delivered
<1>2. 0 \in 0..MaxDatasets /\ \A d \in Feed!Datasets : [r \in Feed!Rows |-> 0] \in [Feed!Rows -> Nat]
  BY DEF Feed!DataSyncAssumption
<1>3. FeedOK
  BY <1>1, <1>2 DEF Feed!Init, FeedOK
<1> QED BY <1>3 DEF Feed!Init, CronOK

(* A sync saves its copy: the settings are those of the row, or kept ends. *)
LEMMA SaveKeepsCron ==
  ASSUME FeedOK, CronOK, NEW copy \in Feed!Source, Null \notin Feed!Source, Feed!SaveSource(copy),
         UNCHANGED <<cron, asked>>
  PROVE  CronOK' /\ source' \in Feed!Source /\ kept' \in BOOLEAN
BY DEF FeedOK, CronOK, Feed!SaveSource


(* The steps of one sync; the step of another actor.                       *)
SyncSteps(s) ==
  \/ Feed!Begin(s) \/ Feed!Start(s) \/ Feed!CreateDataset(s) \/ Feed!LinkDataset(s)
  \/ Feed!DeleteAll(s) \/ Feed!InsertAll(s) \/ Feed!ReadExisting(s) \/ Feed!UpdateFound(s)
  \/ Feed!InsertNew(s) \/ Feed!Finish(s) \/ Feed!Fail(s)
  \/ \E page \in SUBSET Delivers : Feed!Fetch(s, page)

(* What a sync adds to a dataset, or takes from it, keeps the type.        *)
LEMMA TargetKeeps ==
  ASSUME FeedOK, NEW d \in Feed!Datasets, NEW bag \in [Feed!Rows -> Nat], records' = [records EXCEPT ![d] = bag]
  PROVE  /\ records' \in [Feed!Datasets -> [Feed!Rows -> Nat]]
         /\ records'[d] = bag /\ \A e \in Feed!Datasets \ {d} : records'[e] = records[e]
BY DEF FeedOK

LEMMA AddHasType ==
  ASSUME NEW bag \in [Feed!Rows -> Nat], NEW more
  PROVE  /\ Feed!Add(bag, more) \in [Feed!Rows -> Nat]
         /\ \A r \in Feed!Rows : Feed!Add(bag, more)[r] = IF r \in more THEN bag[r] + 1 ELSE bag[r]
BY DEF Feed!Add

LEMMA SyncStepKeeps ==
  ASSUME Feed!DataSyncAssumption, FeedOK, CronOK, NEW s \in Syncs, SyncSteps(s)
  PROVE  FeedOK' /\ CronOK'
<1>1. PICK q : q = sync[s]
  OBVIOUS
<1>2. q \in Syncing /\ Running(q) /\ Null \notin Feed!Source
  BY <1>1 DEF FeedOK, Feed!DataSyncAssumption
<1>3. Feed!Idle \in Syncing /\ Running(Feed!Idle) /\ Feed!Idle.at = "idle"
  BY DEF Feed!Idle, Syncing, Running, Stages, Feed!Delivered
<1>4. q.at \in Stages => q.copy \in Feed!Source
  BY <1>2 DEF Running
<1>5. ASSUME UNCHANGED <<source, cron, asked, kept>>
      PROVE  CronOK' /\ source' \in Feed!Source \cup {Null} /\ cron' \in BOOLEAN /\ kept' \in BOOLEAN
  BY <1>5 DEF FeedOK, CronOK
<1>6. CASE Feed!Begin(s)
  <2>1. PICK b : b = [Feed!Idle EXCEPT !.at = "start", !.copy = source]
    OBVIOUS
  <2>2. b \in Syncing /\ Running(b)
    BY <1>3, <1>6, <2>1 DEF Feed!Begin, FeedOK, Syncing, Running, Stages
  <2>3. sync' = [sync EXCEPT ![s] = b]
    BY <1>6, <2>1 DEF Feed!Begin
  <2> QED BY <1>5, <1>6, <2>2, <2>3, SyncKeeps DEF Feed!Begin, FeedOK
<1>7. CASE Feed!Start(s)
  <2>1. q.at = "start" /\ Feed!SaveSource(q.copy) /\ Feed!To(s, "fetch") /\ UNCHANGED <<cron, asked, remote, made, records>>
    BY <1>1, <1>7 DEF Feed!Start
  <2>2. q.at \in Stages /\ "fetch" \in Stages
    BY <2>1 DEF Stages
  <2> QED BY <1>1, <1>2, <1>4, <2>1, <2>2, SaveKeepsCron, ToKeeps DEF FeedOK
<1>8. ASSUME NEW page \in SUBSET Delivers, Feed!Fetch(s, page)
      PROVE  FeedOK' /\ CronOK'
  <2>1. PICK left, got, at :
          /\ left = q.left \ page /\ got = Feed!Paged(s, page)
          /\ at = IF left # {} THEN "fetch"
                  ELSE IF \A k \in Delivers : got[k] = Null THEN "finish"
                  ELSE IF q.copy.dataset = 0 THEN "create" ELSE "records"
    OBVIOUS
  <2>2. PICK f : f = [q EXCEPT !.got = got, !.left = left, !.at = at]
    OBVIOUS
  <2>3. q.at = "fetch" /\ sync' = [sync EXCEPT ![s] = f]
    BY <1>1, <1>8, <2>1, <2>2 DEF Feed!Fetch
  <2>4. got \in Feed!Delivered
    BY <1>1, <1>2, <2>1 DEF Feed!Paged, Feed!Delivered, Syncing, FeedOK
  <2>5. f \in Syncing /\ Running(f)
    BY <1>2, <2>1, <2>2, <2>3, <2>4 DEF Syncing, Running, Stages
  <2> QED BY <1>5, <1>8, <2>3, <2>5, SyncKeeps DEF Feed!Fetch, FeedOK
<1>9. CASE Feed!CreateDataset(s)
  <2>1. PICK c : c = [q EXCEPT !.at = "link", !.copy.dataset = made']
    OBVIOUS
  <2>2. /\ q.at = "create" /\ made < MaxDatasets /\ made' = made + 1 /\ sync' = [sync EXCEPT ![s] = c]
        /\ UNCHANGED <<source, cron, asked, remote, records, kept>>
    BY <1>1, <1>9, <2>1 DEF Feed!CreateDataset
  <2>3. made' \in 0..MaxDatasets /\ made' \in Feed!Datasets /\ made' # 0
    BY <2>2 DEF FeedOK, Feed!DataSyncAssumption, Feed!Datasets
  <2>4. c \in Syncing /\ Running(c)
    <3>1. q.copy \in Feed!Source
      BY <1>4, <2>2 DEF Stages
    <3>2. [q.copy EXCEPT !.dataset = made'] \in Feed!Source
      BY <2>3, <3>1 DEF Feed!Source
    <3> QED BY <1>2, <2>1, <2>3, <3>1, <3>2 DEF Syncing, Running, Stages, Feed!Source
  <2> QED BY <1>5, <2>2, <2>3, <2>4, SyncKeeps DEF FeedOK
<1>10. CASE Feed!LinkDataset(s)
  <2>1. q.at = "link" /\ Feed!SaveSource(q.copy) /\ Feed!To(s, "records") /\ UNCHANGED <<cron, asked, remote, made, records>>
    BY <1>1, <1>10 DEF Feed!LinkDataset
  <2>2. q.at \in Stages /\ "records" \in Stages /\ q.copy.dataset # 0
    BY <1>2, <2>1 DEF Stages, Running
  <2> QED BY <1>1, <1>2, <1>4, <2>1, <2>2, SaveKeepsCron, ToKeeps DEF FeedOK
<1>11. CASE Feed!Finish(s) \/ Feed!Fail(s)
  <2>1. /\ q.at \in Stages /\ Feed!SaveSource(q.copy) /\ sync' = [sync EXCEPT ![s] = Feed!Idle]
        /\ UNCHANGED <<cron, asked, remote, made, records>>
    BY <1>1, <1>2, <1>11 DEF Feed!Finish, Feed!Fail, Syncing, Stages
  <2> QED BY <1>2, <1>3, <1>4, <2>1, SaveKeepsCron, SyncKeeps DEF FeedOK
<1>12. ASSUME q.at \in {"records", "insert", "update", "new"}
       PROVE  q.at \in Stages /\ q.copy.dataset \in Feed!Datasets /\ Feed!Target(s) \in [Feed!Rows -> Nat]
              /\ q.copy.dataset # 0
  BY <1>1, <1>2, <1>12 DEF Running, Stages, Feed!Source, Feed!Target, FeedOK
<1>13. CASE Feed!ReadExisting(s)
  <2>1. PICK old \in SUBSET Feed!Rows : sync' = [sync EXCEPT ![s].at = "update", ![s].old = old]
    BY <1>13 DEF Feed!ReadExisting
  <2>2. PICK e : e = [q EXCEPT !.at = "update", !.old = old]
    OBVIOUS
  <2>3. q.at = "records" /\ sync' = [sync EXCEPT ![s] = e]
    BY <1>1, <1>13, <2>1, <2>2 DEF Feed!ReadExisting, FeedOK
  <2>4. e \in Syncing /\ Running(e)
    BY <1>2, <1>12, <2>2, <2>3 DEF Syncing, Running, Stages
  <2> QED BY <1>5, <1>13, <2>3, <2>4, SyncKeeps DEF Feed!ReadExisting, FeedOK
<1>14. CASE Feed!DeleteAll(s) \/ Feed!InsertAll(s) \/ Feed!UpdateFound(s) \/ Feed!InsertNew(s)
  <2>1. q.at \in {"records", "insert", "update", "new"} /\ UNCHANGED <<source, cron, asked, remote, made, kept>>
    BY <1>1, <1>14 DEF Feed!DeleteAll, Feed!InsertAll, Feed!UpdateFound, Feed!InsertNew
  <2>2. \E at \in {"insert", "finish", "new"} : Feed!To(s, at)
    BY <1>14 DEF Feed!DeleteAll, Feed!InsertAll, Feed!UpdateFound, Feed!InsertNew
  <2>3. sync' \in [Syncs -> Syncing] /\ \A t \in Syncs : Running(sync'[t])
    BY <1>1, <1>12, <2>1, <2>2, ToKeeps DEF Stages
  <2>4. PICK d, bag : d = q.copy.dataset /\ bag = Feed!Target(s)
    OBVIOUS
  <2>5. d \in Feed!Datasets /\ bag \in [Feed!Rows -> Nat] /\ bag = records[d]
    BY <1>1, <1>12, <2>1, <2>4 DEF Feed!Target
  <2>6. CASE Feed!DeleteAll(s)
    BY <1>1, <1>5, <2>1, <2>3, <2>4, <2>5, <2>6, TargetKeeps DEF Feed!DeleteAll, FeedOK
  <2>7. ASSUME NEW more, records' = [records EXCEPT ![d] = Feed!Add(@, more)]
        PROVE  FeedOK' /\ CronOK'
    BY <1>5, <2>1, <2>3, <2>5, <2>7, TargetKeeps, AddHasType DEF FeedOK
  <2>8. CASE Feed!InsertAll(s) \/ Feed!InsertNew(s)
    BY <1>1, <2>4, <2>7, <2>8 DEF Feed!InsertAll, Feed!InsertNew
  <2>9. CASE Feed!UpdateFound(s)
    <3>1. PICK from, to :
            /\ \A r \in from : bag[r] > 0
            /\ records' = [records EXCEPT ![d] = Feed!Add([r \in Feed!Rows |-> @[r] - (IF r \in from THEN 1 ELSE 0)], to)]
      BY <1>1, <2>4, <2>9 DEF Feed!UpdateFound
    <3>2. PICK rest : rest = [r \in Feed!Rows |-> bag[r] - (IF r \in from THEN 1 ELSE 0)]
      OBVIOUS
    <3>3. rest \in [Feed!Rows -> Nat]
      BY <2>5, <3>1, <3>2
    <3>4. records' = [records EXCEPT ![d] = Feed!Add(rest, to)]
      BY <2>5, <3>1, <3>2
    <3> QED BY <1>5, <2>1, <2>3, <2>5, <3>3, <3>4, TargetKeeps, AddHasType DEF FeedOK
  <2> QED BY <1>14, <2>6, <2>8, <2>9
<1> QED
  BY <1>6, <1>7, <1>8, <1>9, <1>10, <1>11, <1>13, <1>14 DEF SyncSteps


LEMMA FeedStep ==
  Feed!DataSyncAssumption /\ FeedOK /\ CronOK /\ [Feed!Next]_(Feed!vars) => FeedOK' /\ CronOK'
<1> SUFFICES ASSUME Feed!DataSyncAssumption, FeedOK, CronOK, [Feed!Next]_(Feed!vars)
             PROVE  FeedOK' /\ CronOK'
  OBVIOUS
<1>1. Null \notin Feed!Source
  BY DEF Feed!DataSyncAssumption
<1>2. ASSUME UNCHANGED <<remote, made, records, sync, kept>>,
             source' \in Feed!Source \cup {Null}, cron' \in BOOLEAN
      PROVE  FeedOK'
  BY <1>2 DEF FeedOK
<1>3. ASSUME NEW b \in BOOLEAN, NEW st \in {"full", "incremental"}, Feed!Create(b, st)
      PROVE  FeedOK' /\ CronOK'
  <2>1. source' \in Feed!Source /\ source'.enabled = b /\ cron' = b
    BY <1>3 DEF Feed!Create, Feed!Source
  <2> QED BY <1>1, <1>2, <1>3, <2>1 DEF Feed!Create, CronOK
<1>4. ASSUME NEW b \in BOOLEAN, NEW st \in {"full", "incremental"}, Feed!Update(b, st)
      PROVE  FeedOK' /\ CronOK'
  <2>1. source' \in Feed!Source
    BY <1>4 DEF Feed!Update, Feed!Source, FeedOK
  <2> QED BY <1>1, <1>2, <1>4, <2>1 DEF Feed!Update, CronOK, FeedOK
<1>5. CASE Feed!UpdateSchedule
  <2>1. source # Null /\ source \in Feed!Source /\ cron' = source.enabled /\ source.enabled \in BOOLEAN
    BY <1>5 DEF Feed!UpdateSchedule, CronOK, FeedOK, Feed!Source
  <2> QED BY <1>2, <1>5, <2>1 DEF Feed!UpdateSchedule, CronOK
<1>6. CASE Feed!Remove
  BY <1>2, <1>6 DEF Feed!Remove, CronOK
<1>7. CASE Feed!Restart
  <2>1. sync' = [s \in Syncs |-> Feed!Idle] /\ Feed!Idle \in Syncing /\ Running(Feed!Idle)
    BY <1>7 DEF Feed!Restart, Feed!Idle, Syncing, Running, Stages, Feed!Delivered
  <2>2. cron' \in BOOLEAN /\ cron' = (source # Null /\ source.enabled)
    BY <1>7 DEF Feed!Restart, Feed!LoadSchedules
  <2> QED BY <1>7, <2>1, <2>2 DEF Feed!Restart, FeedOK, CronOK
<1>8. ASSUME NEW new \in Feed!Delivered, Feed!Publish(new)
      PROVE  FeedOK' /\ CronOK'
  BY <1>8 DEF Feed!Publish, FeedOK, CronOK
<1>9. CASE UNCHANGED Feed!vars
  BY <1>9 DEF Feed!vars, FeedOK, CronOK
<1>10. CASE \E s \in Syncs : SyncSteps(s)
  BY <1>10, SyncStepKeeps
<1> QED
  BY <1>3, <1>4, <1>5, <1>6, <1>7, <1>8, <1>9, <1>10 DEF Feed!Next, SyncSteps

(* The cron job follows the row, for any number of syncs, changes of the   *)
(* settings, failures and restarts, unless a sync has put back what was    *)
(* changed while it ran.                                                   *)
THEOREM CronFollows == Feed!Spec => []CronFollowsTheRow
<1>1. Feed!Init => FeedOK /\ CronOK
  BY FeedInstance, FeedInit
<1>2. FeedOK /\ CronOK /\ [Feed!Next]_(Feed!vars) => FeedOK' /\ CronOK'
  BY FeedInstance, FeedStep
<1>3. CronOK => CronFollowsTheRow
  BY DEF CronOK, CronFollowsTheRow, Feed!CronFollowsTheRow
<1> QED
  BY <1>1, <1>2, <1>3, PTL DEF Feed!Spec

-----------------------------------------------------------------------------
(* While syncs do not overlap, one runs at a time; it leaves at most one   *)
(* record of each key, of which it knows all when it comes to save and to  *)
(* insert them.                                                            *)
OneOfEach(bag) == \A r, q \in Feed!Rows : r[1] = q[1] /\ bag[r] > 0 /\ bag[q] > 0 => r = q /\ bag[r] = 1

OneSync == \A s, t \in Syncs : sync[s].at # "idle" /\ sync[t].at # "idle" => s = t

Knows(s) ==
  LET q == sync[s]
  IN  /\ q.at = "insert" => q.copy.strategy = "full" /\ \A r \in Feed!Rows : Feed!Target(s)[r] = 0
      /\ q.at \in {"update", "new"} => q.copy.strategy = "incremental"
      /\ q.at = "update" => \A r \in Feed!Rows : r \in q.old <=> Feed!Target(s)[r] > 0
      /\ q.at = "new" => \A r \in Feed!Fetched(s) :
           IF r[1] \in Feed!Found(s) THEN Feed!Target(s)[r] > 0
           ELSE \A o \in Feed!Rows : o[1] = r[1] => Feed!Target(s)[o] = 0
      /\ q.at = "finish" /\ Feed!Fetched(s) # {} => \A r \in Feed!Rows :
           IF q.copy.strategy = "full" THEN Feed!Target(s)[r] > 0 <=> r \in Feed!Fetched(s) \ Invalid
           ELSE r \in Feed!Fetched(s) => Feed!Target(s)[r] > 0

RecordsInv ==
  tame => OneSync /\ (\A d \in Feed!Datasets : OneOfEach(records[d])) /\ \A s \in Syncs : Knows(s)

(* Of each key one record is fetched.                                      *)
LEMMA FetchedOnce ==
  /\ \A s : Feed!Fetched(s) \subseteq Feed!Rows
  /\ \A s : \A r, q \in Feed!Fetched(s) : r[1] = q[1] => r = q
BY DEF Feed!Fetched, Feed!Rows

(* Records of keys that were not there are added.                          *)
LEMMA AddKeepsOne ==
  ASSUME NEW bag \in [Feed!Rows -> Nat], OneOfEach(bag), NEW more \in SUBSET Feed!Rows,
         \A r, q \in more : r[1] = q[1] => r = q,
         \A r \in more : \A o \in Feed!Rows : o[1] = r[1] => bag[o] = 0
  PROVE  /\ OneOfEach(Feed!Add(bag, more))
         /\ \A r \in Feed!Rows : Feed!Add(bag, more)[r] > 0 <=> bag[r] > 0 \/ r \in more
<1>1. \A r \in Feed!Rows : bag[r] \in Nat /\ Feed!Add(bag, more)[r] = IF r \in more THEN bag[r] + 1 ELSE bag[r]
  BY AddHasType
<1>2. \A r \in Feed!Rows : r \in more => bag[r] = 0
  OBVIOUS
<1>3. \A r \in Feed!Rows : Feed!Add(bag, more)[r] > 0 <=> bag[r] > 0 \/ r \in more
  BY <1>1
<1>4. ASSUME NEW r \in Feed!Rows, NEW q \in Feed!Rows, r[1] = q[1],
             Feed!Add(bag, more)[r] > 0, Feed!Add(bag, more)[q] > 0
      PROVE  r = q /\ Feed!Add(bag, more)[r] = 1
  <2>1. CASE r \in more \/ q \in more
    BY <1>1, <1>2, <1>3, <1>4, <2>1
  <2>2. CASE r \notin more /\ q \notin more
    BY <1>1, <1>3, <1>4, <2>2 DEF OneOfEach
  <2> QED BY <2>1, <2>2
<1> QED BY <1>3, <1>4 DEF OneOfEach


(* A sync that takes a step is the only one; the others stay idle.         *)
LEMMA OthersIdle ==
  ASSUME RecordsInv, tame, NEW s \in Syncs, sync[s].at # "idle", NEW q,
         sync'[s] = q, \A t \in Syncs \ {s} : sync'[t] = sync[t],
         Knows(s)', \A d \in Feed!Datasets : OneOfEach(records'[d])
  PROVE  RecordsInv'
<1>1. \A t \in Syncs \ {s} : sync'[t].at = "idle"
  BY DEF RecordsInv, OneSync
<1>2. \A t \in Syncs \ {s} : Knows(t)'
  BY <1>1 DEF Knows
<1>3. OneSync'
  BY <1>1 DEF OneSync
<1>4. (\A d \in Feed!Datasets : OneOfEach(records[d]))'
  BY DEF OneOfEach
<1> QED BY <1>2, <1>3, <1>4 DEF RecordsInv

LEMMA RecordsStep ==
  ASSUME Feed!DataSyncAssumption, FeedOK, RecordsInv, NEW s \in Syncs, SyncSteps(s)
  PROVE  RecordsInv'
<1> SUFFICES ASSUME tame' PROVE RecordsInv'
  BY DEF RecordsInv
<1>1. PICK q : q = sync[s]
  OBVIOUS
<1>2. q \in Syncing /\ Running(q) /\ tame
  BY <1>1 DEF FeedOK, SyncSteps, Feed!Begin, Feed!Start, Feed!Fetch, Feed!CreateDataset, Feed!LinkDataset, Feed!DeleteAll,
              Feed!InsertAll, Feed!ReadExisting, Feed!UpdateFound, Feed!InsertNew, Feed!Finish, Feed!Fail
<1>3. /\ \A d \in Feed!Datasets : OneOfEach(records[d]) /\ records[d] \in [Feed!Rows -> Nat]
      /\ Knows(s)
  BY <1>2 DEF RecordsInv, FeedOK
<1>4. ASSUME NEW b, sync' = [sync EXCEPT ![s] = b]
      PROVE  sync'[s] = b /\ \A t \in Syncs \ {s} : sync'[t] = sync[t]
  BY <1>4 DEF FeedOK
<1>5. ASSUME UNCHANGED records, NEW b, sync' = [sync EXCEPT ![s] = b], q.at # "idle",
             b.at \in {"idle", "fetch", "create", "link", "records"}
      PROVE  RecordsInv'
  <2>1. sync'[s] = b /\ \A t \in Syncs \ {s} : sync'[t] = sync[t]
    BY <1>4, <1>5
  <2>2. Knows(s)'
    BY <1>5, <2>1 DEF Knows
  <2> QED BY <1>1, <1>2, <1>3, <1>5, <2>1, <2>2, OthersIdle
<1>6. ASSUME NEW at, Feed!To(s, at)
      PROVE  /\ sync' = [sync EXCEPT ![s] = [q EXCEPT !.at = at]]
             /\ sync'[s] = [q EXCEPT !.at = at] /\ \A t \in Syncs \ {s} : sync'[t] = sync[t]
             /\ sync'[s].at = at /\ sync'[s].copy = q.copy /\ sync'[s].got = q.got /\ sync'[s].old = q.old
  <2>1. sync' = [sync EXCEPT ![s] = [q EXCEPT !.at = at]]
    BY <1>1, <1>6 DEF Feed!To
  <2>2. sync'[s] = [q EXCEPT !.at = at] /\ \A t \in Syncs \ {s} : sync'[t] = sync[t]
    BY <1>4, <2>1
  <2> QED BY <1>2, <2>1, <2>2 DEF Syncing
<1>7. CASE Feed!Begin(s)
  <2>1. /\ q.at = "idle" /\ UNCHANGED records /\ Feed!Busy = {}
        /\ sync' = [sync EXCEPT ![s] = [Feed!Idle EXCEPT !.at = "start", !.copy = source]]
    BY <1>1, <1>7 DEF Feed!Begin
  <2>2. PICK b : b = [Feed!Idle EXCEPT !.at = "start", !.copy = source]
    OBVIOUS
  <2>3. b.at = "start" /\ sync'[s] = b /\ \A t \in Syncs \ {s} : sync'[t] = sync[t]
    BY <1>4, <2>1, <2>2 DEF Feed!Idle
  <2>4. \A t \in Syncs : sync[t].at = "idle"
    BY <2>1 DEF Feed!Busy
  <2>5. \A t \in Syncs : Knows(t)'
    BY <2>3, <2>4 DEF Knows
  <2> QED BY <1>2, <1>3, <2>1, <2>3, <2>4, <2>5 DEF RecordsInv, OneSync
<1>8. CASE Feed!Start(s) \/ Feed!LinkDataset(s)
  <2>1. PICK at \in {"fetch", "records"} : q.at # "idle" /\ Feed!To(s, at) /\ UNCHANGED records
    BY <1>1, <1>8 DEF Feed!Start, Feed!LinkDataset
  <2>2. PICK b : b = [q EXCEPT !.at = at]
    OBVIOUS
  <2>3. sync' = [sync EXCEPT ![s] = b] /\ b.at = at
    BY <1>6, <2>1, <2>2
  <2> QED BY <1>5, <2>1, <2>3
<1>9. CASE Feed!CreateDataset(s)
  <2>1. PICK c : c = [q EXCEPT !.at = "link", !.copy.dataset = made']
    OBVIOUS
  <2>2. q.at = "create" /\ sync' = [sync EXCEPT ![s] = c] /\ UNCHANGED records /\ c.at = "link"
    BY <1>1, <1>2, <1>9, <2>1 DEF Feed!CreateDataset, Syncing
  <2> QED BY <1>5, <2>2
<1>10. CASE Feed!Finish(s) \/ Feed!Fail(s)
  <2>1. q.at # "idle" /\ sync' = [sync EXCEPT ![s] = Feed!Idle] /\ UNCHANGED records /\ Feed!Idle.at = "idle"
    BY <1>1, <1>10 DEF Feed!Finish, Feed!Fail, Feed!Idle
  <2> QED BY <1>5, <2>1
<1>11. ASSUME NEW page \in SUBSET Delivers, Feed!Fetch(s, page)
       PROVE  RecordsInv'
  <2>1. PICK left, got, at :
          /\ left = q.left \ page /\ got = Feed!Paged(s, page)
          /\ at = IF left # {} THEN "fetch"
                  ELSE IF \A k \in Delivers : got[k] = Null THEN "finish"
                  ELSE IF q.copy.dataset = 0 THEN "create" ELSE "records"
    OBVIOUS
  <2>2. PICK f : f = [q EXCEPT !.got = got, !.left = left, !.at = at]
    OBVIOUS
  <2>3. q.at = "fetch" /\ sync' = [sync EXCEPT ![s] = f] /\ UNCHANGED records
    BY <1>1, <1>11, <2>1, <2>2 DEF Feed!Fetch
  <2>4. f.at = at /\ f.got = got
    BY <1>2, <2>2 DEF Syncing
  <2>5. CASE at # "finish"
    BY <1>5, <2>1, <2>3, <2>4, <2>5
  <2>6. CASE at = "finish"
    <3>1. \A k \in Delivers : got[k] = Null
      BY <2>1, <2>6
    <3>2. sync'[s] = f /\ \A t \in Syncs \ {s} : sync'[t] = sync[t]
      BY <1>4, <2>3
    <3>3. Feed!Fetched(s)' = {}
      BY <2>4, <3>1, <3>2 DEF Feed!Fetched, Feed!Rows, Feed!DataSyncAssumption
    <3>4. Knows(s)'
      BY <2>4, <2>6, <3>2, <3>3 DEF Knows
    <3> QED BY <1>1, <1>2, <1>3, <2>3, <3>2, <3>4, OthersIdle
  <2> QED BY <2>5, <2>6
<1>12. PICK d, bag : d = q.copy.dataset /\ bag = Feed!Target(s)
  OBVIOUS
<1>13. q.at \in {"records", "insert", "update", "new"} =>
         d \in Feed!Datasets /\ bag = records[d] /\ OneOfEach(bag) /\ bag \in [Feed!Rows -> Nat]
  BY <1>1, <1>2, <1>3, <1>12 DEF Running, Stages, Feed!Source, Feed!Target
<1>14. CASE Feed!ReadExisting(s)
  <2>1. PICK old \in SUBSET Feed!Rows :
          /\ old \subseteq {r \in Feed!Rows : bag[r] > 0}
          /\ {r[1] : r \in old} = {r[1] : r \in {o \in Feed!Rows : bag[o] > 0}}
          /\ sync' = [sync EXCEPT ![s].at = "update", ![s].old = old]
    BY <1>12, <1>14 DEF Feed!ReadExisting
  <2>2. PICK e : e = [q EXCEPT !.at = "update", !.old = old]
    OBVIOUS
  <2>3. q.at = "records" /\ q.copy.strategy = "incremental" /\ sync' = [sync EXCEPT ![s] = e] /\ UNCHANGED records
    BY <1>1, <1>14, <2>1, <2>2 DEF Feed!ReadExisting, FeedOK
  <2>4. e.at = "update" /\ e.copy = q.copy /\ e.old = old
    BY <1>2, <2>2 DEF Syncing
  <2>5. sync'[s] = e /\ \A t \in Syncs \ {s} : sync'[t] = sync[t]
    BY <1>4, <2>3
  <2>6. \A r \in Feed!Rows : r \in old <=> bag[r] > 0
    <3>1. ASSUME NEW r \in Feed!Rows, bag[r] > 0
          PROVE  r \in old
      <4>1. r[1] \in {o[1] : o \in old}
        BY <2>1, <3>1
      <4>2. PICK o \in old : o[1] = r[1]
        BY <4>1
      <4> QED BY <1>13, <2>1, <2>3, <3>1, <4>2 DEF OneOfEach
    <3> QED BY <2>1, <3>1
  <2>7. Feed!Target(s)' = bag
    BY <1>1, <1>12, <2>3, <2>4, <2>5 DEF Feed!Target
  <2>8. Knows(s)'
    BY <2>3, <2>4, <2>5, <2>6, <2>7 DEF Knows
  <2> QED BY <1>1, <1>2, <1>3, <2>3, <2>5, <2>8, OthersIdle
<1>15. ASSUME q.at \in {"records", "insert", "update", "new"}, NEW at, Feed!To(s, at), NEW new \in [Feed!Rows -> Nat],
              OneOfEach(new), records' = [records EXCEPT ![d] = new],
              Feed!Target(s)' = new /\ Feed!Fetched(s)' = Feed!Fetched(s) /\ Feed!Found(s)' = Feed!Found(s)
              /\ sync'[s].at = at /\ sync'[s].copy = q.copy => Knows(s)'
       PROVE  RecordsInv'
  <2>1. \A e \in Feed!Datasets : records'[e] = IF e = d THEN new ELSE records[e]
    BY <1>13, <1>15 DEF FeedOK
  <2>2. /\ sync'[s].at = at /\ sync'[s].copy = q.copy /\ sync'[s].got = q.got /\ sync'[s].old = q.old
        /\ sync'[s] = [q EXCEPT !.at = at] /\ \A t \in Syncs \ {s} : sync'[t] = sync[t]
    BY <1>6, <1>15
  <2>3. Feed!Target(s)' = new
    BY <1>12, <1>13, <1>15, <2>1, <2>2 DEF Feed!Target
  <2>4. Feed!Fetched(s)' = Feed!Fetched(s) /\ Feed!Found(s)' = Feed!Found(s)
    BY <1>1, <2>2 DEF Feed!Fetched, Feed!Found
  <2>5. \A e \in Feed!Datasets : OneOfEach(records'[e])
    BY <1>3, <1>15, <2>1
  <2> QED BY <1>1, <1>2, <1>15, <2>2, <2>3, <2>4, <2>5, OthersIdle
<1>16. CASE Feed!DeleteAll(s)
  <2>1. PICK none : none = [r \in Feed!Rows |-> 0]
    OBVIOUS
  <2>2. none \in [Feed!Rows -> Nat] /\ OneOfEach(none) /\ \A r \in Feed!Rows : none[r] = 0
    BY <2>1 DEF OneOfEach
  <2>3. /\ q.at = "records" /\ q.copy.strategy = "full" /\ Feed!To(s, "insert")
        /\ records' = [records EXCEPT ![d] = none]
    BY <1>1, <1>12, <1>16, <2>1 DEF Feed!DeleteAll
  <2>4. Feed!Target(s)' = none /\ sync'[s].at = "insert" /\ sync'[s].copy = q.copy => Knows(s)'
    BY <2>2, <2>3 DEF Knows
  <2> QED BY <1>15, <2>2, <2>3, <2>4
<1>17. CASE Feed!InsertAll(s)
  <2>1. PICK more, new : more = Feed!Fetched(s) \ Invalid /\ new = Feed!Add(bag, more)
    OBVIOUS
  <2>2. q.at = "insert" /\ Feed!To(s, "finish") /\ records' = [records EXCEPT ![d] = new]
    BY <1>1, <1>12, <1>13, <1>17, <2>1 DEF Feed!InsertAll, FeedOK
  <2>3. q.copy.strategy = "full" /\ \A r \in Feed!Rows : bag[r] = 0
    BY <1>1, <1>3, <1>12, <2>2 DEF Knows
  <2>4. more \in SUBSET Feed!Rows /\ \A r, o \in more : r[1] = o[1] => r = o
    BY <2>1, FetchedOnce
  <2>5. /\ new \in [Feed!Rows -> Nat] /\ OneOfEach(new)
        /\ \A r \in Feed!Rows : new[r] > 0 <=> bag[r] > 0 \/ r \in more
    BY <1>13, <2>1, <2>2, <2>3, <2>4, AddKeepsOne, AddHasType
  <2>6. Feed!Target(s)' = new /\ Feed!Fetched(s)' = Feed!Fetched(s)
        /\ sync'[s].at = "finish" /\ sync'[s].copy = q.copy => Knows(s)'
    BY <2>1, <2>3, <2>5 DEF Knows
  <2> QED BY <1>15, <2>2, <2>5, <2>6
<1>18. CASE Feed!UpdateFound(s)
  <2>1. PICK from, to :
          from = {r \in q.old : r[1] \in Feed!Found(s)} /\ to = {r \in Feed!Fetched(s) : r[1] \in Feed!Found(s)}
    OBVIOUS
  <2>2. /\ q.at = "update" /\ Feed!To(s, "new") /\ \A r \in from : bag[r] > 0
        /\ records' = [records EXCEPT ![d] = Feed!Add([r \in Feed!Rows |-> @[r] - (IF r \in from THEN 1 ELSE 0)], to)]
    BY <1>1, <1>12, <1>18, <2>1 DEF Feed!UpdateFound
  <2>3. PICK rest, new : rest = [r \in Feed!Rows |-> bag[r] - (IF r \in from THEN 1 ELSE 0)] /\ new = Feed!Add(rest, to)
    OBVIOUS
  <2>4. records' = [records EXCEPT ![d] = new]
    BY <1>13, <2>2, <2>3
  <2>5. q.copy.strategy = "incremental" /\ \A r \in Feed!Rows : r \in q.old <=> bag[r] > 0
    BY <1>1, <1>3, <1>12, <2>2 DEF Knows
  <2>6. \A r \in Feed!Rows : rest[r] \in Nat /\ rest[r] = IF r \in from THEN 0 ELSE bag[r]
    BY <1>13, <2>2, <2>3 DEF OneOfEach
  <2>7. rest \in [Feed!Rows -> Nat] /\ OneOfEach(rest)
    BY <1>13, <2>2, <2>3, <2>6 DEF OneOfEach
  <2>8. to \in SUBSET Feed!Rows /\ \A r, o \in to : r[1] = o[1] => r = o
    BY <2>1, FetchedOnce
  <2>9. \A r \in to : \A o \in Feed!Rows : o[1] = r[1] => rest[o] = 0
    <3> SUFFICES ASSUME NEW r \in to, NEW o \in Feed!Rows, o[1] = r[1], bag[o] # 0
                 PROVE  o \in from
      BY <2>6
    <3> QED BY <1>13, <2>1, <2>2, <2>5
  <2>10. /\ new \in [Feed!Rows -> Nat] /\ OneOfEach(new)
         /\ \A r \in Feed!Rows : new[r] > 0 <=> rest[r] > 0 \/ r \in to
    BY <2>3, <2>7, <2>8, <2>9, AddKeepsOne, AddHasType
  <2>11. \A r \in Feed!Fetched(s) : IF r[1] \in Feed!Found(s) THEN new[r] > 0
                                    ELSE \A o \in Feed!Rows : o[1] = r[1] => new[o] = 0
    <3>1. ASSUME NEW r \in Feed!Fetched(s), r[1] \in Feed!Found(s)
          PROVE  new[r] > 0
      BY <2>1, <2>8, <2>10, <3>1
    <3>2. ASSUME NEW r \in Feed!Fetched(s), r[1] \notin Feed!Found(s), NEW o \in Feed!Rows, o[1] = r[1]
          PROVE  new[o] = 0
      <4>1. r[1] \in Delivers /\ q.got[r[1]] # Null
        BY <1>1, <3>2 DEF Feed!Fetched, Feed!Rows, Feed!DataSyncAssumption
      <4>2. \A e \in q.old : e[1] # r[1]
        BY <1>1, <3>2, <4>1 DEF Feed!Found
      <4>3. bag[o] = 0
        BY <1>13, <2>2, <2>5, <3>2, <4>2
      <4> QED BY <1>13, <2>1, <2>2, <2>6, <2>10, <3>2, <4>3
    <3> QED BY <3>1, <3>2
  <2>12. Feed!Target(s)' = new /\ Feed!Fetched(s)' = Feed!Fetched(s) /\ Feed!Found(s)' = Feed!Found(s)
         /\ sync'[s].at = "new" /\ sync'[s].copy = q.copy => Knows(s)'
    BY <2>5, <2>11 DEF Knows
  <2> QED BY <1>15, <2>2, <2>4, <2>10, <2>12
<1>19. CASE Feed!InsertNew(s)
  <2>1. PICK more, new : more = {r \in Feed!Fetched(s) : r[1] \notin Feed!Found(s)} /\ new = Feed!Add(bag, more)
    OBVIOUS
  <2>2. q.at = "new" /\ Feed!To(s, "finish") /\ records' = [records EXCEPT ![d] = new]
    BY <1>1, <1>12, <1>13, <1>19, <2>1 DEF Feed!InsertNew, FeedOK
  <2>3. /\ q.copy.strategy = "incremental"
        /\ \A r \in Feed!Fetched(s) : IF r[1] \in Feed!Found(s) THEN bag[r] > 0
                                      ELSE \A o \in Feed!Rows : o[1] = r[1] => bag[o] = 0
    BY <1>1, <1>3, <1>12, <2>2 DEF Knows
  <2>4. more \in SUBSET Feed!Rows /\ \A r, o \in more : r[1] = o[1] => r = o
    BY <2>1, FetchedOnce
  <2>5. /\ new \in [Feed!Rows -> Nat] /\ OneOfEach(new)
        /\ \A r \in Feed!Rows : new[r] > 0 <=> bag[r] > 0 \/ r \in more
    BY <1>13, <2>1, <2>2, <2>3, <2>4, AddKeepsOne, AddHasType
  <2>6. Feed!Target(s)' = new /\ Feed!Fetched(s)' = Feed!Fetched(s)
        /\ sync'[s].at = "finish" /\ sync'[s].copy = q.copy => Knows(s)'
    BY <2>1, <2>3, <2>5 DEF Knows
  <2> QED BY <1>15, <2>2, <2>5, <2>6
<1> QED
  BY <1>7, <1>8, <1>9, <1>10, <1>11, <1>14, <1>16, <1>17, <1>18, <1>19 DEF SyncSteps


LEMMA RecordsNext ==
  Feed!DataSyncAssumption /\ FeedOK /\ RecordsInv /\ [Feed!Next]_(Feed!vars) => RecordsInv'
<1> SUFFICES ASSUME Feed!DataSyncAssumption, FeedOK, RecordsInv, [Feed!Next]_(Feed!vars)
             PROVE  RecordsInv'
  OBVIOUS
<1>1. CASE UNCHANGED <<records, sync, tame>>
  BY <1>1 DEF RecordsInv, OneSync, OneOfEach, Knows, Feed!Target, Feed!Fetched, Feed!Found
<1>2. CASE Feed!Restart
  <2>1. sync' = [s \in Syncs |-> Feed!Idle] /\ Feed!Idle.at = "idle" /\ UNCHANGED <<records, tame>>
    BY <1>2 DEF Feed!Restart, Feed!Idle
  <2>2. \A s \in Syncs : sync'[s].at = "idle"
    BY <2>1
  <2>3. OneSync' /\ \A s \in Syncs : Knows(s)'
    BY <2>2 DEF OneSync, Knows
  <2> QED BY <2>1, <2>3 DEF RecordsInv, OneOfEach
<1> QED
  BY <1>1, <1>2, RecordsStep DEF Feed!Next, SyncSteps, Feed!Publish, Feed!Create, Feed!Update, Feed!UpdateSchedule,
                                 Feed!Remove, Feed!vars

(* While syncs do not overlap, no key is stored twice and a sync that gets *)
(* to its end has stored what was delivered, for any keys and versions and *)
(* wherever syncs fail, are cut off or change the strategy.                *)
THEOREM RecordsFollow == Feed!Spec => []RecordsFollowTheSource
<1>1. Feed!Init => FeedOK /\ CronOK /\ RecordsInv
  <2> SUFFICES ASSUME Feed!Init PROVE FeedOK /\ CronOK /\ RecordsInv
    OBVIOUS
  <2>1. \A d \in Feed!Datasets : OneOfEach(records[d])
    BY DEF Feed!Init, OneOfEach
  <2>2. \A s \in Syncs : sync[s].at = "idle"
    BY DEF Feed!Init, Feed!Idle
  <2> QED BY <2>1, <2>2, FeedInstance, FeedInit DEF RecordsInv, OneSync, Knows
<1>2. FeedOK /\ CronOK /\ RecordsInv /\ [Feed!Next]_(Feed!vars) => FeedOK' /\ CronOK' /\ RecordsInv'
  BY FeedInstance, FeedStep, RecordsNext
<1>3. FeedOK /\ RecordsInv => RecordsFollowTheSource
  <2> SUFFICES ASSUME FeedOK, RecordsInv, tame PROVE RecordsFollowTheSource
    BY DEF RecordsFollowTheSource, Feed!RecordsFollowTheSource
  <2>1. ASSUME NEW d \in Feed!Datasets, NEW k \in Delivers,
               NEW r \in {p \in Feed!Rows : p[1] = k /\ records[d][p] > 0},
               NEW q \in {p \in Feed!Rows : p[1] = k /\ records[d][p] > 0}
        PROVE  r = q /\ records[d][r] = 1
    BY <2>1 DEF RecordsInv, OneOfEach
  <2>2. ASSUME NEW s \in Syncs, sync[s].at = "finish", Feed!Fetched(s) # {}
        PROVE  LET stored == {r \in Feed!Rows : Feed!Target(s)[r] > 0}
               IN  IF sync[s].copy.strategy = "full" THEN stored = Feed!Fetched(s) \ Invalid
                   ELSE Feed!Fetched(s) \subseteq stored
    <3>1. Knows(s) /\ Feed!Fetched(s) \subseteq Feed!Rows
      BY FetchedOnce DEF RecordsInv
    <3> QED BY <2>2, <3>1 DEF Knows
  <2> QED BY <2>1, <2>2 DEF RecordsFollowTheSource, Feed!RecordsFollowTheSource
<1> QED
  BY <1>1, <1>2, <1>3, PTL DEF Feed!Spec


-----------------------------------------------------------------------------
(* EntityReview.  A merge of entities runs beside no other merge and no    *)
(* confirmation; what is about to be told is linked, and nothing that was  *)
(* told is linked to an entity that is about to go.                        *)
Merges   == {"save", "move", "drop", "delete"}
Confirms == {"find", "create", "link", "insert", "remove"}

Shaped(o) ==
  /\ "at" \in DOMAIN o
  /\ o.at \in Confirms => {"res", "id"} \subseteq DOMAIN o
  /\ o.at \in Merges => {"source", "id"} \subseteq DOMAIN o
ShapesOK == DOMAIN review = Actors /\ \A a \in Actors : Shaped(review[a])

MergesApart ==
  \A a \in Actors : review[a].at \in Merges =>
    /\ review[a].source # review[a].id
    /\ \A b \in Actors \ {a} : review[b].at \notin Merges \cup Confirms
ToldIsLinked ==
  /\ told \subseteq links
  /\ \A a \in Actors :
       /\ review[a].at = "remove" => <<review[a].res, review[a].id>> \in links
       /\ review[a].at \in {"drop", "delete"} => \A l \in told : l[2] # review[a].source

ReviewInv == ShapesOK /\ (~crossed => MergesApart /\ ToldIsLinked)

(* What one actor does next, while nothing that is linked or told changes. *)
LEMMA DoKeeps ==
  ASSUME ShapesOK, NEW a \in Actors, NEW o, Review!Do(a, o)
  PROVE  review'[a] = o /\ (\A b \in Actors \ {a} : review'[b] = review[b]) /\ (Shaped(o) => ShapesOK')
BY DEF ShapesOK, Review!Do

LEMMA ActorMoves ==
  ASSUME ReviewInv, NEW a \in Actors, NEW o, Review!Do(a, o), Shaped(o), UNCHANGED <<links, told>>,
         ~crossed' => ~crossed,
         o.at \notin {"drop", "delete"},
         ~crossed' => /\ o.at \in Merges => o.source # o.id /\ \A b \in Actors \ {a} : review[b].at \notin Merges \cup Confirms
                      /\ o.at \in Confirms => \A b \in Actors \ {a} : review[b].at \notin Merges
                      /\ o.at = "remove" => <<o.res, o.id>> \in links
  PROVE  ReviewInv'
<1>1. review'[a] = o /\ (\A b \in Actors \ {a} : review'[b] = review[b]) /\ ShapesOK'
  BY DoKeeps DEF ReviewInv
<1> SUFFICES ASSUME ~crossed' PROVE MergesApart' /\ ToldIsLinked'
  BY <1>1 DEF ReviewInv
<1>2. MergesApart /\ ToldIsLinked
  BY DEF ReviewInv
<1>3. MergesApart'
  BY <1>1, <1>2 DEF MergesApart
<1> QED BY <1>1, <1>2, <1>3 DEF ToldIsLinked

LEMMA QuietMoves ==
  ASSUME ReviewInv, NEW a \in Actors, NEW o, Review!Do(a, o), "at" \in DOMAIN o, o.at \notin Merges \cup Confirms,
         UNCHANGED <<links, told, crossed>>
  PROVE  ReviewInv'
BY ActorMoves DEF Shaped, Merges, Confirms

(* A confirmation goes on with the same resource and an entity.            *)
LEMMA ConfirmMoves ==
  ASSUME ReviewInv, NEW a \in Actors, review[a].at \in Confirms, NEW o, Review!Do(a, o),
         {"at", "res", "id"} \subseteq DOMAIN o, o.at \in Confirms, UNCHANGED <<links, told, crossed>>,
         o.at = "remove" => <<o.res, o.id>> \in links
  PROVE  ReviewInv'
<1>1. o.at \notin Merges /\ Shaped(o)
  BY DEF Shaped, Merges, Confirms
<1>2. ~crossed => \A b \in Actors \ {a} : review[b].at \notin Merges
  BY DEF ReviewInv, MergesApart
<1> QED BY <1>1, <1>2, ActorMoves DEF Merges

LEMMA ReviewInit == Review!Init => ReviewInv
<1> SUFFICES ASSUME Review!Init PROVE ReviewInv
  OBVIOUS
<1>1. DOMAIN review = Actors /\ \A a \in Actors : review[a] = Review!Idle
  BY DEF Review!Init
<1>2. Shaped(Review!Idle) /\ Review!Idle.at = "idle"
  BY DEF Shaped, Review!Idle, Merges, Confirms
<1>3. told \subseteq links
  BY DEF Review!Init
<1> QED BY <1>1, <1>2, <1>3 DEF ReviewInv, ShapesOK, MergesApart, ToldIsLinked, Merges

(* Requests begin.                                                         *)
LEMMA RequestsBegin ==
  ASSUME ReviewInv, NEW a \in Actors, Review!Request(a)
  PROVE  ReviewInv'
<1>1. ASSUME NEW r, NEW all, NEW items, Review!Confirm(a, r, all, items)
      PROVE  ReviewInv'
  <2>1. PICK o : o = [at |-> "find", res |-> r, all |-> all, id |-> Null,
                      todo |-> {[row |-> p, was |-> pending[p]] : p \in items}]
    OBVIOUS
  <2>2. Review!Do(a, o) /\ UNCHANGED <<links, told>> /\ crossed' = (crossed \/ Review!MergingEntities)
    BY <1>1, <2>1 DEF Review!Confirm
  <2>3. Shaped(o) /\ o.at = "find"
    BY <2>1 DEF Shaped, Merges
  <2>4. ~crossed' => ~crossed /\ \A b \in Actors \ {a} : review[b].at \notin Merges
    BY <2>2 DEF Review!MergingEntities, Merges
  <2> QED BY <2>2, <2>3, <2>4, ActorMoves DEF Merges
<1>2. ASSUME NEW r, Review!Batch(a, r)
      PROVE  ReviewInv'
  <2>1. PICK o : o = [at |-> "batch", res |-> r, todo |-> DOMAIN Extraction, seen |-> {}]
    OBVIOUS
  <2>2. Review!Do(a, o) /\ "at" \in DOMAIN o /\ o.at \notin Merges \cup Confirms /\ UNCHANGED <<links, told, crossed>>
    BY <1>2, <2>1 DEF Review!Batch, Merges, Confirms
  <2> QED BY <2>2, QuietMoves
<1>3. ASSUME NEW p, NEW kind, NEW t, NEW scope, Review!MergePending(a, p, kind, t, scope)
      PROVE  ReviewInv'
  <2>1. PICK new : Review!Do(a, [at |-> "target", row |-> p, was |-> pending[p], kind |-> kind, id |-> t, new |-> new])
    BY <1>3 DEF Review!MergePending
  <2>2. PICK o : o = [at |-> "target", row |-> p, was |-> pending[p], kind |-> kind, id |-> t, new |-> new]
    OBVIOUS
  <2>3. Review!Do(a, o) /\ "at" \in DOMAIN o /\ o.at \notin Merges \cup Confirms /\ UNCHANGED <<links, told, crossed>>
    BY <1>3, <2>1, <2>2 DEF Review!MergePending, Merges, Confirms
  <2> QED BY <2>3, QuietMoves
<1>4. ASSUME NEW p, Review!CancelMerge(a, p)
      PROVE  ReviewInv'
  <2>1. PICK t, c, d, e :
          /\ t = pending[p].target
          /\ c = [at |-> "source", row |-> p, was |-> pending[p], kind |-> Null, id |-> t, new |-> Null]
          /\ d = [at |-> "unalias", row |-> p, was |-> pending[p], kind |-> Null, id |-> t,
                  new |-> [pending[t] EXCEPT !.aliases = @ \ {<<pending[p].name, pending[p].scope>>}]]
          /\ e = [at |-> "realias", row |-> p, was |-> pending[p], kind |-> Null, id |-> t,
                  new |-> entity[t].aliases \ {pending[p].name}]
    OBVIOUS
  <2>2. (Review!Do(a, c) \/ Review!Do(a, d) \/ Review!Do(a, e)) /\ UNCHANGED <<links, told, crossed>>
    BY <1>4, <2>1 DEF Review!CancelMerge
  <2>3. \A o \in {c, d, e} : "at" \in DOMAIN o /\ o.at \notin Merges \cup Confirms
    BY <2>1 DEF Merges, Confirms
  <2> QED BY <2>2, <2>3, QuietMoves
<1>5. ASSUME NEW e, NEW t, Review!MergeEntities(a, e, t)
      PROVE  ReviewInv'
  <2>1. PICK o : o = [at |-> "save", source |-> e, id |-> t,
                      new |-> [entity[t] EXCEPT !.aliases = @ \cup entity[e].aliases \cup {entity[e].name}]]
    OBVIOUS
  <2>2. /\ Review!Do(a, o) /\ UNCHANGED <<links, told>>
        /\ crossed' = (crossed \/ Review!MergingEntities \/ Review!Confirming \/ e = t)
    BY <1>5, <2>1 DEF Review!MergeEntities
  <2>3. Shaped(o) /\ o.at = "save" /\ o.source = e /\ o.id = t
    BY <2>1 DEF Shaped, Confirms
  <2>4. ~crossed' => ~crossed /\ e # t /\ \A b \in Actors : review[b].at \notin Merges \cup Confirms
    BY <2>2 DEF Review!MergingEntities, Review!Confirming, Merges, Confirms
  <2> QED BY <2>2, <2>3, <2>4, ActorMoves DEF Confirms
<1> QED
  BY <1>1, <1>2, <1>3, <1>4, <1>5 DEF Review!Request, Review!ConfirmEntities, Review!ConfirmEntity

(* The steps of a batch, of a confirmation and of a merge of rows.         *)
LEMMA ReviewGoesOn ==
  ASSUME ReviewInv, NEW a \in Actors,
         \/ Review!ReadRows(a) \/ Review!Upsert(a) \/ Review!BatchDone(a) \/ Review!Confirmed(a)
         \/ Review!FindEntity(a) \/ Review!CreateEntity(a) \/ Review!FindLink(a)
         \/ Review!SaveTarget(a) \/ Review!SaveSource(a)
  PROVE  ReviewInv'
<1>1. PICK q : q = review[a]
  OBVIOUS
<1>2. Shaped(q)
  BY <1>1 DEF ReviewInv, ShapesOK
<1>3. Review!Idle.at = "idle" /\ "at" \in DOMAIN Review!Idle
  BY DEF Review!Idle
<1>4. UNCHANGED <<links, told, crossed>>
  BY DEF Review!ReadRows, Review!Upsert, Review!BatchDone, Review!Confirmed, Review!FindEntity, Review!CreateEntity,
         Review!FindLink, Review!SaveTarget, Review!SaveSource
<1>5. CASE Review!BatchDone(a) \/ Review!Confirmed(a) \/ Review!SaveSource(a)
  <2>1. Review!Do(a, Review!Idle)
    BY <1>5 DEF Review!BatchDone, Review!Confirmed, Review!SaveSource
  <2> QED BY <1>3, <1>4, <2>1, QuietMoves DEF Merges, Confirms
<1>6. CASE Review!ReadRows(a) \/ Review!Upsert(a)
  <2>1. \E todo, seen : Review!Do(a, [q EXCEPT !.todo = todo, !.seen = seen]) \/ Review!Do(a, [q EXCEPT !.seen = seen])
    BY <1>1, <1>6 DEF Review!ReadRows, Review!Upsert
  <2>2. q.at = "batch"
    BY <1>1, <1>6 DEF Review!ReadRows, Review!Upsert
  <2>3. PICK o : Review!Do(a, o) /\ \E todo, seen : o = [q EXCEPT !.todo = todo, !.seen = seen] \/ o = [q EXCEPT !.seen = seen]
    BY <2>1
  <2>4. "at" \in DOMAIN o /\ o.at = "batch"
    BY <1>2, <2>2, <2>3 DEF Shaped
  <2> QED BY <1>4, <2>3, <2>4, QuietMoves DEF Merges, Confirms
<1>7. CASE Review!SaveTarget(a)
  <2>1. PICK o : o = [q EXCEPT !.at = "source"]
    OBVIOUS
  <2>2. Review!Do(a, o) /\ "at" \in DOMAIN o /\ o.at = "source"
    BY <1>1, <1>2, <1>7, <2>1 DEF Review!SaveTarget, Shaped
  <2> QED BY <1>4, <2>2, QuietMoves DEF Merges, Confirms
<1>8. ASSUME q.at \in Confirms, NEW o, Review!Do(a, o), o.at \in Confirms, o.at # "remove",
             \/ o = Review!Skipped(a)
             \/ \E at : o = [q EXCEPT !.at = at]
             \/ \E at, id : o = [q EXCEPT !.at = at, !.id = id]
      PROVE  ReviewInv'
  <2>1. {"at", "res", "id"} \subseteq DOMAIN o
    BY <1>1, <1>2, <1>8 DEF Shaped, Review!Skipped
  <2> QED BY <1>1, <1>4, <1>8, <2>1, ConfirmMoves
<1>9. q.at \in Confirms => Review!Skipped(a).at = "find"
  BY <1>1, <1>2 DEF Shaped, Review!Skipped
<1>10. q.at \in Confirms => \A at, id : [q EXCEPT !.at = at].at = at /\ [q EXCEPT !.at = at, !.id = id].at = at
  BY <1>2 DEF Shaped
<1>11. CASE Review!FindEntity(a) \/ Review!CreateEntity(a)
  <2>1. q.at \in Confirms
    BY <1>1, <1>11 DEF Review!FindEntity, Review!CreateEntity, Confirms
  <2>2. \/ Review!Do(a, Review!Skipped(a))
        \/ Review!Do(a, [q EXCEPT !.at = "create"])
        \/ \E id : Review!Do(a, [q EXCEPT !.at = "link", !.id = id])
    BY <1>1, <1>11 DEF Review!FindEntity, Review!CreateEntity
  <2>3. PICK o :
          /\ Review!Do(a, o)
          /\ \/ o = Review!Skipped(a)
             \/ o = [q EXCEPT !.at = "create"]
             \/ \E id : o = [q EXCEPT !.at = "link", !.id = id]
    BY <2>2
  <2>4. o.at \in {"find", "create", "link"}
    <3>1. CASE o = Review!Skipped(a)
      BY <1>9, <2>1, <3>1
    <3>2. CASE o = [q EXCEPT !.at = "create"]
      BY <1>10, <2>1, <3>2
    <3>3. ASSUME NEW id, o = [q EXCEPT !.at = "link", !.id = id]
          PROVE  o.at = "link"
      BY <1>10, <2>1, <3>3
    <3> QED BY <2>3, <3>1, <3>2, <3>3
  <2>5. \/ o = Review!Skipped(a)
        \/ \E at : o = [q EXCEPT !.at = at]
        \/ \E at, id : o = [q EXCEPT !.at = at, !.id = id]
    BY <2>3
  <2>6. o.at \in Confirms /\ o.at # "remove"
    BY <2>4 DEF Confirms
  <2> QED BY <1>8, <2>1, <2>3, <2>5, <2>6
<1>12. CASE Review!FindLink(a)
  <2>1. q.at = "link" /\ q.at \in Confirms
    BY <1>1, <1>12 DEF Review!FindLink, Confirms
  <2>2. PICK o : o = [q EXCEPT !.at = IF <<q.res, q.id>> \in links THEN "remove" ELSE "insert"]
    OBVIOUS
  <2>3. Review!Do(a, o)
    BY <1>1, <1>12, <2>2 DEF Review!FindLink
  <2>4. {"at", "res", "id"} \subseteq DOMAIN o /\ o.res = q.res /\ o.id = q.id
        /\ o.at = IF <<q.res, q.id>> \in links THEN "remove" ELSE "insert"
    BY <1>2, <2>1, <2>2 DEF Shaped
  <2>5. o.at \in Confirms
    BY <2>4 DEF Confirms
  <2> QED BY <1>1, <1>4, <2>1, <2>3, <2>4, <2>5, ConfirmMoves
<1> QED BY <1>5, <1>6, <1>7, <1>11, <1>12


(* The steps that link, and tell that a row is confirmed.                  *)
LEMMA LinkingKeeps ==
  ASSUME ReviewInv, NEW a \in Actors, Review!InsertLink(a) \/ Review!RemoveRow(a)
  PROVE  ReviewInv'
<1>1. PICK q : q = review[a]
  OBVIOUS
<1>2. Shaped(q) /\ q.at \in {"insert", "remove"} /\ q.at \in Confirms
  BY <1>1 DEF ReviewInv, ShapesOK, Review!InsertLink, Review!RemoveRow, Confirms
<1>3. PICK skipped, o : skipped = Review!Skipped(a) /\ o = [q EXCEPT !.at = "remove"]
  OBVIOUS
<1>4. /\ skipped.at = "find" /\ {"at", "res", "id"} \subseteq DOMAIN skipped
      /\ o.at = "remove" /\ {"at", "res", "id"} \subseteq DOMAIN o /\ o.res = q.res /\ o.id = q.id
  BY <1>1, <1>2, <1>3 DEF Shaped, Review!Skipped
<1>5. Shaped(skipped) /\ Shaped(o)
  BY <1>4 DEF Shaped, Merges
<1>6. CASE Review!InsertLink(a) /\ Review!Do(a, skipped) /\ UNCHANGED links
  <2>1. UNCHANGED <<links, told, crossed>> /\ skipped.at \in Confirms
    BY <1>4, <1>6 DEF Review!InsertLink, Confirms
  <2> QED BY <1>1, <1>2, <1>4, <1>6, <2>1, ConfirmMoves
<1>7. CASE Review!InsertLink(a) /\ Review!Do(a, o) /\ links' = links \cup {<<q.res, q.id>>}
  <2>1. UNCHANGED <<told, crossed>>
    BY <1>7 DEF Review!InsertLink
  <2>2. review'[a] = o /\ (\A b \in Actors \ {a} : review'[b] = review[b]) /\ ShapesOK'
    BY <1>5, <1>7, DoKeeps DEF ReviewInv
  <2>3. ~crossed => MergesApart'
    BY <1>1, <1>2, <1>4, <2>2 DEF ReviewInv, MergesApart, Merges, Confirms
  <2>4. ~crossed => ToldIsLinked'
    BY <1>4, <1>7, <2>1, <2>2 DEF ReviewInv, ToldIsLinked
  <2> QED BY <2>1, <2>2, <2>3, <2>4 DEF ReviewInv
<1>8. CASE Review!RemoveRow(a)
  <2>1. /\ q.at = "remove" /\ Review!Do(a, skipped) /\ UNCHANGED <<links, crossed>>
        /\ told' = told \cup {<<q.res, q.id>>}
    BY <1>1, <1>3, <1>8 DEF Review!RemoveRow
  <2>2. review'[a] = skipped /\ (\A b \in Actors \ {a} : review'[b] = review[b]) /\ ShapesOK'
    BY <1>5, <2>1, DoKeeps DEF ReviewInv
  <2>3. ~crossed => MergesApart'
    BY <1>1, <1>2, <1>4, <2>2 DEF ReviewInv, MergesApart, Merges, Confirms
  <2>4. ~crossed => \A b \in Actors : review'[b].at \notin {"drop", "delete"}
    BY <1>1, <1>2, <1>4, <2>2 DEF ReviewInv, MergesApart, Merges, Confirms
  <2>5. ~crossed => ToldIsLinked'
    BY <1>1, <1>4, <2>1, <2>2, <2>4 DEF ReviewInv, ToldIsLinked
  <2> QED BY <2>1, <2>2, <2>3, <2>5 DEF ReviewInv
<1> QED BY <1>1, <1>3, <1>6, <1>7, <1>8 DEF Review!InsertLink

(* Two entities become one: the links of the source move first.            *)
LEMMA MergeKeeps ==
  ASSUME ReviewInv, NEW a \in Actors,
         Review!SaveMerged(a) \/ Review!MoveLinks(a) \/ Review!DropLinks(a) \/ Review!DeleteSource(a)
  PROVE  ReviewInv'
<1>1. PICK q : q = review[a]
  OBVIOUS
<1>2. Shaped(q) /\ q.at \in Merges /\ UNCHANGED crossed
  BY <1>1 DEF ReviewInv, ShapesOK, Review!SaveMerged, Review!MoveLinks, Review!DropLinks, Review!DeleteSource, Merges
<1>3. Review!Idle.at = "idle" /\ "at" \in DOMAIN Review!Idle
  BY DEF Review!Idle
<1>4. ~crossed => /\ q.source # q.id /\ \A b \in Actors \ {a} : review[b].at \notin Merges \cup Confirms
                  /\ told \subseteq links /\ (q.at \in {"drop", "delete"} => \A l \in told : l[2] # q.source)
  BY <1>1, <1>2 DEF ReviewInv, MergesApart, ToldIsLinked
<1>5. ASSUME NEW at \in {"move", "drop", "delete"}, Review!Do(a, [q EXCEPT !.at = at]),
             ~crossed => told' \subseteq links' /\ (at \in {"drop", "delete"} => \A l \in told' : l[2] # q.source)
      PROVE  ReviewInv'
  <2>1. PICK o : o = [q EXCEPT !.at = at]
    OBVIOUS
  <2>2. o.at = at /\ o.source = q.source /\ o.id = q.id /\ Shaped(o)
    BY <1>2, <2>1 DEF Shaped, Merges, Confirms
  <2>3. review'[a] = o /\ (\A b \in Actors \ {a} : review'[b] = review[b]) /\ ShapesOK'
    BY <1>5, <2>1, <2>2, DoKeeps DEF ReviewInv
  <2>4. ~crossed => MergesApart'
    BY <1>4, <2>2, <2>3 DEF MergesApart
  <2>5. ~crossed => ToldIsLinked'
    BY <1>4, <1>5, <2>2, <2>3 DEF ToldIsLinked, Merges, Confirms
  <2> QED BY <1>2, <2>3, <2>4, <2>5 DEF ReviewInv
<1>6. ASSUME Review!Do(a, Review!Idle), UNCHANGED <<links, told>>
      PROVE  ReviewInv'
  BY <1>2, <1>3, <1>6, QuietMoves DEF Merges, Confirms
<1>7. CASE Review!SaveMerged(a)
  <2>1. UNCHANGED <<links, told>> /\ (Review!Do(a, Review!Idle) \/ Review!Do(a, [q EXCEPT !.at = "move"]))
    BY <1>1, <1>7 DEF Review!SaveMerged
  <2> QED BY <1>4, <1>5, <1>6, <2>1
<1>8. CASE Review!MoveLinks(a)
  <2>1. PICK moved : moved = {l \in Review!LinksOf(q.source) : <<l[1], q.id>> \notin links}
    OBVIOUS
  <2>2. \/ Review!Do(a, Review!Idle) /\ UNCHANGED <<links, told>>
        \/ /\ links' = (links \ moved) \cup Review!To(moved, q.id)
           /\ told' = {l \in told : l[2] # q.source} \cup Review!To({l \in told : l[2] = q.source}, q.id)
           /\ Review!Do(a, [q EXCEPT !.at = "drop"])
    BY <1>1, <1>8, <2>1 DEF Review!MoveLinks
  <2>3. ASSUME links' = (links \ moved) \cup Review!To(moved, q.id),
               told' = {l \in told : l[2] # q.source} \cup Review!To({l \in told : l[2] = q.source}, q.id),
               ~crossed
        PROVE  told' \subseteq links' /\ \A l \in told' : l[2] # q.source
    <3>1. ASSUME NEW l \in told, l[2] # q.source
          PROVE  l \in links'
      BY <1>4, <2>1, <2>3, <3>1 DEF Review!LinksOf
    <3>2. ASSUME NEW l \in told, l[2] = q.source
          PROVE  <<l[1], q.id>> \in links'
      BY <1>4, <2>1, <2>3, <3>2 DEF Review!LinksOf, Review!To
    <3>3. \A l \in told' : (l \in told /\ l[2] # q.source) \/ \E k \in told : k[2] = q.source /\ l = <<k[1], q.id>>
      BY <2>3 DEF Review!To
    <3> QED BY <1>4, <2>3, <3>1, <3>2, <3>3
  <2> QED BY <1>5, <1>6, <2>2, <2>3
<1>9. CASE Review!DropLinks(a)
  <2>1. /\ q.at = "drop" /\ links' = links \ Review!LinksOf(q.source) /\ UNCHANGED told
        /\ Review!Do(a, [q EXCEPT !.at = "delete"])
    BY <1>1, <1>9 DEF Review!DropLinks
  <2>2. ~crossed => told' \subseteq links' /\ \A l \in told' : l[2] # q.source
    BY <1>4, <2>1 DEF Review!LinksOf
  <2> QED BY <1>5, <2>1, <2>2
<1>10. CASE Review!DeleteSource(a)
  <2>1. /\ q.at = "delete" /\ links' = links \ Review!LinksOf(q.source) /\ UNCHANGED told
        /\ Review!Do(a, Review!Idle)
    BY <1>1, <1>10 DEF Review!DeleteSource, Review!Delete
  <2>2. ~crossed => told' \subseteq links'
    BY <1>4, <2>1 DEF Review!LinksOf
  <2>3. Shaped(Review!Idle)
    BY <1>3 DEF Shaped, Merges, Confirms
  <2>4. review'[a] = Review!Idle /\ (\A b \in Actors \ {a} : review'[b] = review[b]) /\ ShapesOK'
    BY <2>1, <2>3, DoKeeps DEF ReviewInv
  <2>5. ~crossed => MergesApart' /\ ToldIsLinked'
    BY <1>3, <1>4, <2>2, <2>4 DEF MergesApart, ToldIsLinked, Merges, Confirms
  <2> QED BY <1>2, <2>4, <2>5 DEF ReviewInv
<1> QED BY <1>7, <1>8, <1>9, <1>10

(* What users take away, no confirmation or merge may be looking at.       *)
LEMMA RemovalsKeep ==
  ASSUME ReviewInv,
         \/ \E e \in Review!Ids : Review!RemoveEntity(e)
         \/ \E r \in Resources, e \in Review!Ids : Review!Unlink(r, e)
  PROVE  ReviewInv'
<1>1. /\ UNCHANGED review /\ (~crossed' => ~crossed /\ ~Review!Confirming)
      /\ told' \subseteq told /\ (told \subseteq links => told' \subseteq links')
  <2>1. ASSUME NEW e \in Review!Ids, Review!RemoveEntity(e)
        PROVE  /\ UNCHANGED review /\ (~crossed' => ~crossed /\ ~Review!Confirming)
               /\ told' \subseteq told /\ (told \subseteq links => told' \subseteq links')
    BY <2>1 DEF Review!RemoveEntity, Review!Delete, Review!LinksOf
  <2>2. ASSUME NEW r \in Resources, NEW e \in Review!Ids, Review!Unlink(r, e)
        PROVE  /\ UNCHANGED review /\ (~crossed' => ~crossed /\ ~Review!Confirming)
               /\ told' \subseteq told /\ (told \subseteq links => told' \subseteq links')
    BY <2>2 DEF Review!Unlink
  <2> QED BY <2>1, <2>2
<1>2. ~Review!Confirming => \A a \in Actors : review[a].at # "remove"
  BY DEF Review!Confirming
<1> QED BY <1>1, <1>2 DEF ReviewInv, ShapesOK, MergesApart, ToldIsLinked

LEMMA ReviewStep == ReviewInv /\ [Review!Next]_(Review!vars) => ReviewInv'
<1> SUFFICES ASSUME ReviewInv, [Review!Next]_(Review!vars) PROVE ReviewInv'
  OBVIOUS
<1>1. CASE UNCHANGED <<review, links, told, crossed>>
  BY <1>1 DEF ReviewInv, ShapesOK, MergesApart, ToldIsLinked
<1>2. CASE Review!Crash
  <2>1. UNCHANGED <<links, told, crossed>> /\ review' = [a \in Actors |-> Review!Idle]
    BY <1>2 DEF Review!Crash
  <2>2. \A a \in Actors : review'[a].at = "idle" /\ Shaped(review'[a])
    BY <2>1 DEF Review!Idle, Shaped, Merges, Confirms
  <2> QED BY <2>1, <2>2 DEF ReviewInv, ShapesOK, MergesApart, ToldIsLinked, Merges
<1>3. CASE \E a \in Actors : Review!Request(a)
  BY <1>3, RequestsBegin
<1>4. CASE \E a \in Actors : Review!Step(a)
  BY <1>4, ReviewGoesOn, LinkingKeeps, MergeKeeps DEF Review!Step
<1> QED
  BY <1>1, <1>2, <1>3, <1>4, RemovalsKeep
     DEF Review!Next, Review!vars, Review!Extract, Review!CreatePending, Review!RemovePending, Review!UpdatePending,
         Review!RenameEntity

(* A resource stays linked to each entity that is confirmed for it, for    *)
(* any rows, entities, requests at a time and crashes, if requests about   *)
(* the same entities do not overlap.                                       *)
THEOREM ConfirmedStays == Review!Spec => []ConfirmedStaysLinked
<1>1. ReviewInv => ConfirmedStaysLinked
  BY DEF ReviewInv, ToldIsLinked, ConfirmedStaysLinked, Review!ConfirmedStaysLinked
<1> QED
  BY <1>1, ReviewInit, ReviewStep, PTL DEF Review!Spec

=============================================================================
