----------------------------- MODULE EntityReview -----------------------------
(***************************************************************************)
(* The review of extracted entities: rows of pending_entities that the     *)
(* translation of an extraction creates (entities-pending-batch strategy), *)
(* that users merge, edit and confirm (src/src/pending-entity), and the    *)
(* entities they become, linked to their resources (src/src/entity).       *)
(*                                                                         *)
(* Each statement of a confirmation, of a merge and of a batch is a step   *)
(* of its own; nothing puts them in one transaction.  TypeORM's save of a  *)
(* row that was read earlier overwrites it, or inserts it again when it is *)
(* gone.  The read and the save of one update() call are one step, and so  *)
(* are reads that follow each other.  Locales, translations and relations  *)
(* between an entity and projects are left out.                            *)
(***************************************************************************)
EXTENDS Naturals, Sequences, FiniteSets

CONSTANTS
  Resources, Words, Scopes,
  Typed,        (* words whose NER label has an entity type                *)
  UnderReview,  (* rows under review at the start: <<resource, word>>      *)
  Extraction,   (* what an extraction finds: index -> word                 *)
  English,      (* word -> its translation, a word                         *)
  Languages,    (* resource -> target languages of its batches, in order   *)
  Actors,       (* requests, and runs of the processors, at the same time  *)
  MaxPending, MaxEntities, MaxEdits, MaxMerges, MaxCrashes,  (* bounds     *)
  Null

ReviewAssumption ==
  /\ Typed \subseteq Words /\ \A i \in DOMAIN UnderReview : UnderReview[i] \in Resources \X Words
  /\ Len(UnderReview) <= MaxPending /\ "document" \in Scopes
  /\ English \in [Words -> Words] /\ \A i \in DOMAIN Extraction : Extraction[i] \in Words
  /\ \A r \in Resources : \A i \in DOMAIN Languages[r] : Languages[r][i] \in {"en", "es"}
  /\ MaxPending \in Nat /\ MaxEntities \in Nat /\ MaxEdits \in Nat
  /\ MaxMerges \in Nat /\ MaxCrashes \in Nat

Rows == 1..MaxPending
Ids  == 1..MaxEntities

VARIABLES
  pending,   (* pending_entities                                           *)
  entity,    (* entities                                                   *)
  links,     (* resource_entities                                          *)
  status,    (* of each resource                                           *)
  batches,   (* per resource: 'translate' executions still to be processed *)
  op,        (* what each actor is doing                                   *)
  serial,    (* the last ids given out                                     *)
  told,      (* links that stand for confirmed rows, history               *)
  crossed,   (* a merge of entities met another merge or a confirmation,   *)
             (* a removal met a confirmation, or an entity merged itself   *)
  used       (* edits, merges and crashes so far                           *)

vars == <<pending, entity, links, status, batches, op, serial, told, crossed, used>>

Row(r, w, typed) == [res |-> r, name |-> w, typed |-> typed, scope |-> "document",
                     aliases |-> {}, merged |-> FALSE, kind |-> Null, target |-> Null]
Entity(w, as, global) == [name |-> w, aliases |-> as, global |-> global]

Idle == [at |-> "idle"]
Do(a, o) == op' = [op EXCEPT ![a] = o]

Init ==
  /\ pending = [p \in Rows |->
                  IF p \in DOMAIN UnderReview
                  THEN Row(UnderReview[p][1], UnderReview[p][2], UnderReview[p][2] \in Typed) ELSE Null]
  /\ entity = [e \in Ids |-> Null]
  /\ links = {} /\ told = {} /\ crossed = FALSE
  /\ status = [r \in Resources |-> IF \E i \in DOMAIN UnderReview : UnderReview[i][1] = r
                                   THEN "entities" ELSE "extracted"]
  /\ batches = [r \in Resources |-> <<>>]
  /\ op = [a \in Actors |-> Idle]
  /\ serial = [row |-> Len(UnderReview), id |-> 0]
  /\ used = [edits |-> 0, merges |-> 0, crashes |-> 0]

RowsOf(r)   == {p \in Rows : pending[p] # Null /\ pending[p].res = r}
Named(w)    == {e \in Ids : entity[e] # Null /\ entity[e].name = w}
Insert(row) == /\ serial.row < MaxPending
               /\ serial' = [serial EXCEPT !.row = @ + 1]
               /\ pending' = [pending EXCEPT ![serial.row + 1] = row]
Save(p, row) == pending' = [pending EXCEPT ![p] = row]
Edit == used.edits < MaxEdits /\ used' = [used EXCEPT !.edits = @ + 1]
Merge == used.merges < MaxMerges /\ used' = [used EXCEPT !.merges = @ + 1]

(* EntityExtractionProcessor: the source or its translation is always      *)
(* another language, so the rows are left to the translation.              *)
Extract(r) ==
  /\ status[r] = "extracted"
  /\ pending' = [p \in Rows |-> IF p \in RowsOf(r) THEN Null ELSE pending[p]]
  /\ batches' = [batches EXCEPT ![r] = Languages[r]]
  /\ status' = [status EXCEPT ![r] = "translating"]
  /\ UNCHANGED <<entity, links, op, serial, told, crossed, used>>

(* execute: the items of a batch are upserted at the same time.            *)
Batch(a, r) ==
  /\ op[a].at = "idle" /\ batches[r] # <<>>
  /\ \A b \in Actors : op[b].at = "batch" => op[b].res # r
  /\ Do(a, [at |-> "batch", res |-> r, todo |-> DOMAIN Extraction, seen |-> {}])
  /\ UNCHANGED <<pending, entity, links, status, batches, serial, told, crossed, used>>

ReadRows(a) ==
  /\ op[a].at = "batch"
  /\ \E i \in op[a].todo :
       Do(a, [op[a] EXCEPT !.todo = @ \ {i},
                           !.seen = @ \cup {[item |-> i, rows |-> {<<p, pending[p].name>> : p \in RowsOf(op[a].res)}]}])
  /\ UNCHANGED <<pending, entity, links, status, batches, serial, told, crossed, used>>

(* upsertPendingEntity, after its read                                     *)
Upsert(a) ==
  /\ op[a].at = "batch"
  /\ \E s \in op[a].seen :
       LET word  == Extraction[s.item]
           toEn  == Head(batches[op[a].res]) = "en"
           name  == IF toEn THEN English[word] ELSE word
           known == {x[1] : x \in {y \in s.rows : y[2] \in {word, name}}}
       IN  /\ Do(a, [op[a] EXCEPT !.seen = @ \ {s}])
           /\ IF known = {}
                THEN Insert(Row(op[a].res, name, word \in Typed))
                ELSE /\ \E p \in known :
                          IF pending[p] = Null \/ ~toEn THEN UNCHANGED pending
                          ELSE Save(p, [pending[p] EXCEPT !.name = name])
                     /\ UNCHANGED serial
  /\ UNCHANGED <<entity, links, status, batches, told, crossed, used>>

BatchDone(a) ==
  /\ op[a].at = "batch" /\ op[a].todo = {} /\ op[a].seen = {}
  /\ batches' = [batches EXCEPT ![op[a].res] = Tail(@)]
  /\ status' = [status EXCEPT ![op[a].res] = "entities"]
  /\ Do(a, Idle)
  /\ UNCHANGED <<pending, entity, links, serial, told, crossed, used>>

(* A confirmation, of one row or of those of a resource that are not       *)
(* merged, as findByResourceId listed them.                                *)
MergingEntities == \E b \in Actors : op[b].at \in {"save", "move", "drop", "delete"}
Confirming      == \E b \in Actors : op[b].at \in {"find", "create", "link", "insert", "remove"}

Confirm(a, r, all, rows) ==
  /\ op[a].at = "idle"
  /\ Do(a, [at |-> "find", res |-> r, all |-> all, id |-> Null,
            todo |-> {[row |-> p, was |-> pending[p]] : p \in rows}])
  /\ crossed' = (crossed \/ MergingEntities)
  /\ UNCHANGED <<pending, entity, links, status, batches, serial, told, used>>

ConfirmEntities(a, r) == Confirm(a, r, TRUE, {p \in RowsOf(r) : ~pending[p].merged})

ConfirmEntity(a, p) ==
  /\ pending[p] # Null /\ ~pending[p].merged /\ pending[p].typed
  /\ Confirm(a, pending[p].res, FALSE, {p})

(* The row that is confirmed next: whichever, the order is of no account.  *)
Current(a) == CHOOSE x \in op[a].todo : TRUE
Skipped(a) == [op[a] EXCEPT !.at = "find", !.id = Null, !.todo = @ \ {Current(a)}]

FindEntity(a) ==
  /\ op[a].at = "find" /\ op[a].todo # {}
  /\ LET was == Current(a).was  known == Named(was.name)
         global == was.scope = "global"
     IN  IF ~was.typed
         THEN Do(a, Skipped(a)) /\ UNCHANGED entity
         ELSE IF known = {}
         THEN Do(a, [op[a] EXCEPT !.at = "create"]) /\ UNCHANGED entity
         ELSE \E e \in known :
                /\ Do(a, [op[a] EXCEPT !.at = "link", !.id = e])
                /\ entity' = [entity EXCEPT ![e].global = @ \/ global]
  /\ UNCHANGED <<pending, links, status, batches, serial, told, crossed, used>>

(* The index on name and type refuses a second one.                        *)
CreateEntity(a) ==
  /\ op[a].at = "create"
  /\ LET was == Current(a).was IN
     IF Named(was.name) # {}
     THEN Do(a, Skipped(a)) /\ UNCHANGED <<entity, serial>>
     ELSE /\ serial.id < MaxEntities
          /\ serial' = [serial EXCEPT !.id = @ + 1]
          /\ entity' = [entity EXCEPT ![serial.id + 1] =
                          Entity(was.name, {x[1] : x \in was.aliases}, was.scope = "global")]
          /\ Do(a, [op[a] EXCEPT !.at = "link", !.id = serial.id + 1])
  /\ UNCHANGED <<pending, links, status, batches, told, crossed, used>>

(* Faulty: any link of the resource will do.                               *)
FindLinkOfAny(a) ==
  /\ op[a].at = "link"
  /\ Do(a, [op[a] EXCEPT !.at = IF \E l \in links : l[1] = op[a].res THEN "remove" ELSE "insert"])
  /\ UNCHANGED <<pending, entity, links, status, batches, serial, told, crossed, used>>

(* addEntityToResource: a query, and an insert that fails when the link is *)
(* there by now or the entity is gone.                                     *)
FindLink(a) ==
  /\ op[a].at = "link"
  /\ Do(a, [op[a] EXCEPT !.at = IF <<op[a].res, op[a].id>> \in links THEN "remove" ELSE "insert"])
  /\ UNCHANGED <<pending, entity, links, status, batches, serial, told, crossed, used>>

InsertLink(a) ==
  /\ op[a].at = "insert"
  /\ LET link == <<op[a].res, op[a].id>> IN
     IF link \in links \/ entity[op[a].id] = Null
     THEN Do(a, Skipped(a)) /\ UNCHANGED links
     ELSE links' = links \cup {link} /\ Do(a, [op[a] EXCEPT !.at = "remove"])
  /\ UNCHANGED <<pending, entity, status, batches, serial, told, crossed, used>>

RemoveRow(a) ==
  /\ op[a].at = "remove"
  /\ Save(Current(a).row, Null)
  /\ told' = told \cup {<<op[a].res, op[a].id>>}
  /\ Do(a, Skipped(a))
  /\ UNCHANGED <<entity, links, status, batches, serial, crossed, used>>

(* The end; the executions that follow are created with the status.        *)
Confirmed(a) ==
  /\ op[a].at = "find" /\ op[a].todo = {}
  /\ IF op[a].all THEN status' = [status EXCEPT ![op[a].res] = "confirmed"] ELSE UNCHANGED status
  /\ Do(a, Idle)
  /\ UNCHANGED <<pending, entity, links, batches, serial, told, crossed, used>>

(* mergeEntity: the target gets the name as an alias, then the source is   *)
(* marked; neither its status nor its resource is looked at.               *)
MergePending(a, p, kind, t, scope) ==
  /\ op[a].at = "idle" /\ Merge /\ pending[p] # Null
  /\ LET alias == <<pending[p].name, scope>> IN
     \/ /\ kind = "pending" /\ pending[t] # Null
        /\ Do(a, [at |-> "target", row |-> p, was |-> pending[p], kind |-> kind, id |-> t,
                  new |-> [pending[t] EXCEPT !.aliases = @ \cup {alias}]])
     \/ /\ kind = "confirmed" /\ entity[t] # Null
        /\ Do(a, [at |-> "target", row |-> p, was |-> pending[p], kind |-> kind, id |-> t,
                  new |-> entity[t].aliases \cup {alias[1]}])
  /\ UNCHANGED <<pending, entity, links, status, batches, serial, told, crossed>>

(* cancelMerge: by name and scope in a row, by name in an entity.          *)
CancelMerge(a, p) ==
  /\ op[a].at = "idle" /\ pending[p] # Null /\ pending[p].merged
  /\ LET was == pending[p]
         t   == was.target
         cancel(at, new) == Do(a, [at |-> at, row |-> p, was |-> was, kind |-> Null, id |-> t, new |-> new])
     IN  IF was.kind = "pending"
         THEN IF pending[t] = Null THEN cancel("source", Null)
              ELSE cancel("unalias", [pending[t] EXCEPT !.aliases = @ \ {<<was.name, was.scope>>}])
         ELSE IF entity[t] = Null THEN cancel("source", Null)
              ELSE cancel("realias", entity[t].aliases \ {was.name})
  /\ UNCHANGED <<pending, entity, links, status, batches, serial, told, crossed, used>>

SaveTarget(a) ==
  /\ op[a].at \in {"target", "unalias", "realias"}
  /\ LET o == op[a] IN
     IF o.kind = "pending" \/ o.at = "unalias"
     THEN Save(o.id, o.new) /\ UNCHANGED entity
     ELSE /\ entity' = [entity EXCEPT ![o.id] = IF @ = Null THEN @ ELSE [@ EXCEPT !.aliases = o.new]]
          /\ UNCHANGED pending
  /\ Do(a, [op[a] EXCEPT !.at = "source"])
  /\ UNCHANGED <<links, status, batches, serial, told, crossed, used>>

SaveSource(a) ==
  /\ op[a].at = "source"
  /\ LET o == op[a] IN
     Save(o.row, [o.was EXCEPT !.merged = o.kind # Null, !.kind = o.kind,
                               !.target = IF o.kind = Null THEN Null ELSE o.id])
  /\ Do(a, Idle)
  /\ UNCHANGED <<entity, links, status, batches, serial, told, crossed, used>>

(* merge: two entities become one.                                         *)
MergeEntities(a, s, t) ==
  /\ op[a].at = "idle" /\ Merge /\ entity[s] # Null /\ entity[t] # Null
  /\ Do(a, [at |-> "save", source |-> s, id |-> t,
            new |-> [entity[t] EXCEPT !.aliases = @ \cup entity[s].aliases \cup {entity[s].name}]])
  /\ crossed' = (crossed \/ MergingEntities \/ Confirming \/ s = t)
  /\ UNCHANGED <<pending, entity, links, status, batches, serial, told>>

SaveMerged(a) ==
  /\ op[a].at = "save"
  /\ LET o == op[a] IN
     IF Named(o.new.name) \ {o.id} # {}
     THEN Do(a, Idle) /\ UNCHANGED entity
     ELSE entity' = [entity EXCEPT ![o.id] = o.new] /\ Do(a, [o EXCEPT !.at = "move"])
  /\ UNCHANGED <<pending, links, status, batches, serial, told, crossed, used>>

LinksOf(e)   == {l \in links : l[2] = e}
To(ls, e)    == {<<l[1], e>> : l \in ls}

(* The foreign key refuses links to a target that is gone.                 *)
MoveLinks(a) ==
  /\ op[a].at = "move"
  /\ LET s == op[a].source  t == op[a].id
         moved == {l \in LinksOf(s) : <<l[1], t>> \notin links}
     IN  IF moved # {} /\ entity[t] = Null
         THEN Do(a, Idle) /\ UNCHANGED <<links, told>>
         ELSE /\ links' = (links \ moved) \cup To(moved, t)
              /\ told' = {l \in told : l[2] # s} \cup To({l \in told : l[2] = s}, t)
              /\ Do(a, [op[a] EXCEPT !.at = "drop"])
  /\ UNCHANGED <<pending, entity, status, batches, serial, crossed, used>>

DropLinks(a) ==
  /\ op[a].at = "drop"
  /\ links' = links \ LinksOf(op[a].source)
  /\ Do(a, [op[a] EXCEPT !.at = "delete"])
  /\ UNCHANGED <<pending, entity, status, batches, serial, told, crossed, used>>

Delete(e) == /\ entity' = [entity EXCEPT ![e] = Null]
             /\ links' = links \ LinksOf(e)

DeleteSource(a) ==
  /\ op[a].at = "delete" /\ Delete(op[a].source) /\ Do(a, Idle)
  /\ UNCHANGED <<pending, status, batches, serial, told, crossed, used>>

(* What users do to single rows.                                           *)
CreatePending(r, w, typed) ==
  /\ Edit /\ Insert(Row(r, w, typed))
  /\ UNCHANGED <<entity, links, status, batches, op, told, crossed>>

UpdatePending(p, w, scope, typed) ==
  /\ pending[p] # Null /\ Edit
  /\ Save(p, [pending[p] EXCEPT !.name = w, !.scope = scope, !.typed = typed])
  /\ UNCHANGED <<entity, links, status, batches, op, serial, told, crossed>>

RemovePending(p) ==
  /\ pending[p] # Null /\ Edit /\ Save(p, Null)
  /\ UNCHANGED <<entity, links, status, batches, op, serial, told, crossed>>

RenameEntity(e, w) ==
  /\ entity[e] # Null /\ Named(w) = {} /\ Edit
  /\ entity' = [entity EXCEPT ![e].name = w]
  /\ UNCHANGED <<pending, links, status, batches, op, serial, told, crossed>>

RemoveEntity(e) ==
  /\ entity[e] # Null /\ Edit /\ Delete(e)
  /\ told' = {l \in told : l[2] # e}
  /\ crossed' = (crossed \/ Confirming)
  /\ UNCHANGED <<pending, status, batches, op, serial>>

Unlink(r, e) ==
  /\ <<r, e>> \in links /\ Edit
  /\ links' = links \ {<<r, e>>} /\ told' = told \ {<<r, e>>}
  /\ crossed' = (crossed \/ Confirming \/ MergingEntities)
  /\ UNCHANGED <<pending, entity, status, batches, op, serial>>

(* The backend stops and starts: requests and runs end where they are.     *)
Crash ==
  /\ used.crashes < MaxCrashes /\ used' = [used EXCEPT !.crashes = @ + 1]
  /\ op' = [a \in Actors |-> Idle]
  /\ UNCHANGED <<pending, entity, links, status, batches, serial, told, crossed>>

Request(a) ==
  \/ \E r \in Resources : Batch(a, r) \/ ConfirmEntities(a, r)
  \/ \E p \in Rows : ConfirmEntity(a, p) \/ CancelMerge(a, p)
  \/ \E p, t \in Rows, x \in Scopes : MergePending(a, p, "pending", t, x)
  \/ \E p \in Rows, t \in Ids, x \in Scopes : MergePending(a, p, "confirmed", t, x)
  \/ \E s, t \in Ids : MergeEntities(a, s, t)

Step(a) ==
  \/ ReadRows(a) \/ Upsert(a) \/ BatchDone(a)
  \/ FindEntity(a) \/ CreateEntity(a) \/ FindLink(a) \/ InsertLink(a) \/ RemoveRow(a) \/ Confirmed(a)
  \/ SaveTarget(a) \/ SaveSource(a)
  \/ SaveMerged(a) \/ MoveLinks(a) \/ DropLinks(a) \/ DeleteSource(a)

Next ==
  \/ \E r \in Resources : Extract(r)
  \/ \E a \in Actors : Request(a) \/ Step(a)
  \/ \E r \in Resources, w \in Words, typed \in BOOLEAN : CreatePending(r, w, typed)
  \/ \E p \in Rows : RemovePending(p) \/ \E w \in Words, x \in Scopes, typed \in BOOLEAN : UpdatePending(p, w, x, typed)
  \/ \E e \in Ids : RemoveEntity(e) \/ \E w \in Words : RenameEntity(e, w)
  \/ \E r \in Resources, e \in Ids : Unlink(r, e)
  \/ Crash

Spec == Init /\ [][Next]_vars

-----------------------------------------------------------------------------
(* Pending rows, entities, links and requests under way keep their types.  *)
TypeOK ==
  /\ \A p \in Rows : pending[p] = Null \/
       /\ pending[p].res \in Resources /\ pending[p].name \in Words /\ pending[p].scope \in Scopes
       /\ pending[p].typed \in BOOLEAN /\ pending[p].aliases \subseteq Words \X Scopes
       /\ pending[p].merged <=> pending[p].target # Null
  /\ \A e \in Ids : entity[e] = Null \/ entity[e] \in [name : Words, aliases : SUBSET Words, global : BOOLEAN]
  /\ links \subseteq Resources \X Ids /\ told \subseteq Resources \X Ids
  /\ status \in [Resources -> {"extracted", "translating", "entities", "confirmed"}]
  /\ batches \in [Resources -> Seq({"en", "es"})]
  /\ \A a \in Actors : op[a].at \in
       {"idle", "batch", "find", "create", "link", "insert", "remove", "target", "unalias",
        "realias", "source", "save", "move", "drop", "delete"}
  /\ serial \in [row : 0..MaxPending, id : 0..MaxEntities] /\ crossed \in BOOLEAN

(* A row that a confirmation consumed has left its resource linked to an   *)
(* entity, whatever failed or stopped on the way, and stays so through     *)
(* merges of that entity (materializePendingEntity, EntityService.merge),  *)
(* as long as requests on the same entities do not overlap.                *)
ConfirmedStaysLinked == ~crossed => told \subseteq links
=============================================================================
