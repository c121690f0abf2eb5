--------------------------- MODULE ResourcePipeline ---------------------------
(***************************************************************************)
(* A resource from its upload to its dates (src/src/resource, -date and    *)
(* src/src/model): each processor stores what an execution answered and    *)
(* creates the next executions, which workers answer in any order.         *)
(*                                                                         *)
(* A save and each creation of an execution after it are steps of their    *)
(* own.  A text is known by whether there is one; the dates found in it by *)
(* the anchor they were resolved with.  Extraction answers name a          *)
(* publication date or null.  The review of entities is EntityReview.      *)
(***************************************************************************)
EXTENDS Naturals, Sequences, FiniteSets

CONSTANTS
  Resources, Days,
  Actors,        (* requests that may run at the same time                 *)
  MaxJobs, MaxPatches, MaxTasks, MaxCrashes,    (* bounds                  *)
  Null

Kinds   == {"document", "media", "image"}
Fields  == {"summary", "keyPoints", "keywords", "translatedContent"}
Anchors == Days \cup {Null}
Row     == [content : BOOLEAN, date : Anchors, language : BOOLEAN, fields : SUBSET Fields,
            status : {"extracting", "transcribing", "extracted", "confirmed_extraction", "ready"}]

ResourceAssumption ==
  /\ Null \notin Days /\ Null \notin Row
  /\ MaxJobs \in Nat /\ MaxPatches \in Nat /\ MaxTasks \in Nat /\ MaxCrashes \in Nat

VARIABLES
  resource,  (* the rows                                                   *)
  dates,     (* resource_dates: the anchor they were resolved with         *)
  jobs,      (* executions not yet processed                               *)
  serial,    (* the last execution number                                  *)
  op,        (* per request: the executions it still has to create         *)
  run,       (* of the processors, one execution at a time                 *)
  crossed,   (* dates were asked for or answered out of order, or not at   *)
             (* all, history                                               *)
  used       (* patches, tasks and crashes so far                          *)

vars == <<resource, dates, jobs, serial, op, run, crossed, used>>

Job(kind, r, anchor) == [kind |-> kind, res |-> r, anchor |-> anchor, before |-> Null]
Saving(kind, r, new) == [kind |-> kind, res |-> r, anchor |-> new,
                         before |-> IF resource[r] = Null THEN Null ELSE resource[r].date]
Rest == [job |-> Null, todo |-> <<>>]

Init ==
  /\ resource = [r \in Resources |-> Null] /\ dates = [r \in Resources |-> "none"]
  /\ jobs = {} /\ serial = 0
  /\ op = [a \in Actors |-> <<>>] /\ run = Rest
  /\ crossed = FALSE
  /\ used = [rows |-> {}, patches |-> 0, tasks |-> 0, crashes |-> 0]

Save(r, new) == resource' = IF resource[r] = Null THEN resource ELSE [resource EXCEPT ![r] = new]
Has(r)       == resource[r] # Null /\ resource[r].content

(* update(): the row is read and the step that saves it comes later; it    *)
(* asks for dates when the day differs from the one that was read.         *)
Saves == {"patch", "extracted", "transcribing", "confirmed", "ready"}
New(s) ==
  LET row == resource[s.res] IN
  CASE s.kind = "patch"     -> [row EXCEPT !.date = s.anchor]
    [] s.kind \in {"extracted", "transcribing"} ->
         [row EXCEPT !.content = TRUE, !.date = s.anchor, !.status = s.kind]
    [] s.kind = "confirmed" -> [row EXCEPT !.status = "confirmed_extraction"]
    [] s.kind = "ready"     -> [row EXCEPT !.status = "ready", !.language = TRUE]

Dating == {"patch", "extracted", "transcribing"}

(* Faulty: a date that is taken away asks for nothing.                     *)
RedateSet(s) == IF s.kind \in Dating /\ resource[s.res] # Null /\ s.anchor \notin {s.before, Null}
                THEN <<Job("date", s.res, s.anchor)>> ELSE <<>>

Redate(s) == IF s.kind \in Dating /\ resource[s.res] # Null /\ s.anchor # s.before
             THEN <<Job("date", s.res, s.anchor)>> ELSE <<>>

(* ExecutionService.create; update() asks for the dates of a text only.    *)
Create(job) ==
  IF job.kind = "date" /\ ~Has(job.res)
  THEN UNCHANGED <<jobs, serial, crossed>>
  ELSE /\ serial < MaxJobs /\ serial' = serial + 1
       /\ jobs' = jobs \cup {[n |-> serial + 1, job |-> job]}
       /\ crossed' = (crossed \/ (job.kind = "date" /\ job.anchor # resource[job.res].date))

(* The next step of a request or a processor                               *)
Perform(s) ==
  IF s.kind \in Saves
  THEN /\ Save(s.res, New(s))
       /\ crossed' = (crossed \/ (s.kind \in Dating /\ resource[s.res] # Null
                                              /\ resource[s.res].date # s.before))
       /\ UNCHANGED <<jobs, serial>>
  ELSE Create(s) /\ UNCHANGED resource
Onward(todo) == Redate(Head(todo)) \o Tail(todo)

(* uploadAndProcess: an image waits for nothing.                           *)
Upload(a, r, kind) ==
  /\ op[a] = <<>> /\ r \notin used.rows
  /\ resource' = [resource EXCEPT ![r] =
       [status |-> "extracting", content |-> FALSE, date |-> Null,
        language |-> FALSE, fields |-> {}]]
  /\ op' = [op EXCEPT ![a] = IF kind = "image" THEN <<>> ELSE <<Job(kind, r, Null)>>]
  /\ used' = [used EXCEPT !.rows = @ \cup {r}]
  /\ UNCHANGED <<dates, jobs, serial, run, crossed>>

(* PATCH with a publication date                                           *)
Patch(a, r, day) ==
  /\ op[a] = <<>> /\ resource[r] # Null
  /\ used.patches < MaxPatches /\ used' = [used EXCEPT !.patches = @ + 1]
  /\ op' = [op EXCEPT ![a] = <<Saving("patch", r, day)>>]
  /\ UNCHANGED <<resource, dates, jobs, serial, run, crossed>>

(* confirmExtraction                                                       *)
Confirm(a, r) ==
  /\ op[a] = <<>> /\ resource[r] # Null /\ resource[r].status = "extracted"
  /\ op' = [op EXCEPT ![a] = <<Saving("confirmed", r, Null), Job("detect", r, Null)>>]
  /\ UNCHANGED <<resource, dates, jobs, serial, run, crossed, used>>

GoOn(a) ==
  /\ op[a] # <<>> /\ Perform(Head(op[a]))
  /\ op' = [op EXCEPT ![a] = Onward(@)]
  /\ UNCHANGED <<dates, run, used>>

(* ModelService: summary, key points, keywords and translation of a text   *)
Ask(r, field) ==
  /\ Has(r) /\ used.tasks < MaxTasks /\ used' = [used EXCEPT !.tasks = @ + 1]
  /\ Create(Job(field, r, Null))
  /\ UNCHANGED <<resource, dates, op, run>>

(* removeWithFile: the row and its dates; its executions stay.             *)
Remove(r) ==
  /\ resource[r] # Null
  /\ resource' = [resource EXCEPT ![r] = Null] /\ dates' = [dates EXCEPT ![r] = "none"]
  /\ UNCHANGED <<jobs, serial, op, run, crossed, used>>

(* What the processors do with an answered execution.                      *)
Begin(j, todo) == run' = [job |-> j, todo |-> todo]
Taken(j, kind) == run = Rest /\ j \in jobs /\ j.job.kind = kind
End(j)         == jobs' = jobs \ {j} /\ run' = Rest

Extracted(j, day) ==
  /\ run = Rest /\ j \in jobs /\ j.job.kind \in {"document", "media"}
  /\ LET r == j.job.res IN
     Begin(j, IF j.job.kind = "media"
              THEN <<Saving("transcribing", r, day), Job("transcribe", r, Null)>>
              ELSE <<Saving("extracted", r, day)>>)
  /\ UNCHANGED <<resource, dates, jobs, serial, op, crossed, used>>

(* A transcript that failed leaves nothing to detect a language in.        *)
Transcribed(j, good) ==
  /\ Taken(j, "transcribe")
  /\ LET r == j.job.res IN
     /\ Save(r, [resource[r] EXCEPT !.status = "confirmed_extraction", !.content = @ \/ good])
     /\ Begin(j, IF good THEN <<Job("detect", r, Null)>> ELSE <<>>)
  /\ UNCHANGED <<dates, jobs, serial, op, crossed, used>>

(* The anchor is that of the row that was read before the save.  Samples   *)
(* that disagree change nothing.                                           *)
Detected(j, agreed) ==
  /\ Taken(j, "detect")
  /\ LET r == j.job.res IN
     Begin(j, IF ~agreed THEN <<>>
              ELSE <<Saving("ready", r, Null)>> \o
                   (IF Has(r) THEN <<Job("ingest", r, Null), Job("date", r, resource[r].date)>>
                              ELSE <<>>))
  /\ UNCHANGED <<resource, dates, jobs, serial, op, crossed, used>>

(* A text that was ingested                                                *)
Ingested(j) ==
  /\ Taken(j, "ingest")
  /\ Save(j.job.res, [resource[j.job.res] EXCEPT !.status = "ready"]) /\ End(j)
  /\ UNCHANGED <<dates, serial, op, crossed, used>>

(* replaceByResourceId                                                     *)
Replace(r, anchor) ==
  dates' = IF resource[r] # Null THEN [dates EXCEPT ![r] = anchor] ELSE dates

(* An answer with an error changes nothing.                                *)
Older(j) == {i \in jobs : i.n < j.n /\ i.job.kind = "date" /\ i.job.res = j.job.res}

Dated(j, good) ==
  /\ Taken(j, "date")
  /\ IF good THEN Replace(j.job.res, j.job.anchor) ELSE UNCHANGED dates
  /\ crossed' = (crossed \/ ~good \/ Older(j) # {})
  /\ End(j)
  /\ UNCHANGED <<resource, serial, op, used>>

(* The processors that fill one column with an answer.                     *)
Described(j, field, good) ==
  /\ Taken(j, field)
  /\ LET r == j.job.res IN
     IF good THEN Save(r, [resource[r] EXCEPT !.fields = @ \cup {field}]) ELSE UNCHANGED resource
  /\ End(j)
  /\ UNCHANGED <<dates, serial, op, crossed, used>>

Summarized(j, good)  == Described(j, "summary", good)
KeyPointed(j, good)  == Described(j, "keyPoints", good)
Keyworded(j, good)   == Described(j, "keywords", good)
Translated(j, good)  == Described(j, "translatedContent", good)

(* A processor goes on; the file of a recording may be gone by then.       *)
Continue ==
  /\ run # Rest
  /\ IF run.todo = <<>>
     THEN End(run.job) /\ UNCHANGED <<resource, serial, crossed>>
     ELSE Perform(Head(run.todo)) /\ run' = [run EXCEPT !.todo = Onward(@)]
  /\ UNCHANGED <<dates, op, used>>

FileGone ==
  /\ run # Rest /\ run.todo # <<>> /\ Head(run.todo).kind = "transcribe" /\ End(run.job)
  /\ UNCHANGED <<resource, dates, serial, op, crossed, used>>

(* The worker fails an execution for good.                                 *)
Fail(j) ==
  /\ run = Rest /\ j \in jobs /\ End(j)
  /\ crossed' = (crossed \/ j.job.kind = "date")
  /\ UNCHANGED <<resource, dates, serial, op, used>>

(* The backend stops: what was not created is not, and an execution whose  *)
(* processing did not end is processed again.                              *)
Dates(todo) == \E i \in DOMAIN todo : todo[i].kind \in Dating \cup {"date"}

Crash ==
  /\ used.crashes < MaxCrashes /\ used' = [used EXCEPT !.crashes = @ + 1]
  /\ op' = [a \in Actors |-> <<>>] /\ run' = Rest
  /\ crossed' = (crossed \/ Dates(run.todo) \/ \E a \in Actors : Dates(op[a]))
  /\ UNCHANGED <<resource, dates, jobs, serial>>

Request(a) ==
  \/ \E r \in Resources, k \in Kinds : Upload(a, r, k)
  \/ \E r \in Resources, d \in Anchors : Patch(a, r, d)
  \/ \E r \in Resources : Confirm(a, r)
  \/ GoOn(a)

Process(j) ==
  \/ \E d \in Anchors : Extracted(j, d)
  \/ \E good \in BOOLEAN :
       \/ Transcribed(j, good) \/ Detected(j, good) \/ Dated(j, good)
       \/ Summarized(j, good) \/ KeyPointed(j, good) \/ Keyworded(j, good) \/ Translated(j, good)
  \/ Ingested(j) \/ Fail(j)

Next ==
  \/ \E a \in Actors : Request(a)
  \/ \E r \in Resources : Remove(r) \/ (\E f \in Fields : Ask(r, f))
  \/ \E j \in jobs : Process(j)
  \/ Continue \/ FileGone \/ Crash

Spec == Init /\ [][Next]_vars

-----------------------------------------------------------------------------
(* Resources, their dates and the executions asked for keep their types.   *)
TypeOK ==
  /\ resource \in [Resources -> Row \cup {Null}]
  /\ dates \in [Resources -> Anchors \cup {"none"}]
  /\ \A j \in jobs : j.n \in 1..serial /\ j.job.res \in Resources /\ j.job.anchor \in Anchors
  /\ serial \in 0..MaxJobs /\ crossed \in BOOLEAN

(* A date extraction is under way, or what may ask for one.                *)
Asked(r) == \/ \E j \in jobs : j.job.kind = "date" /\ j.job.res = r
            \/ run # Rest \/ \E a \in Actors : op[a] # <<>>

(* Once every execution asked for is processed, the dates of a resource    *)
(* are those of its publication date, whoever set it (a user's PATCH, an   *)
(* extraction that ran twice, at any point of the pipeline: the anchor     *)
(* comparison of update() and the anchor that the language detection       *)
(* reads), unless an answer failed or came out of order.                   *)
DatesFollowPublication ==
  \A r \in Resources :
    (~crossed /\ ~Asked(r) /\ dates[r] # "none") => dates[r] = resource[r].date
=============================================================================
