--------------------------- MODULE CalendarTicks ---------------------------
(***************************************************************************)
(* Alarms of calendar events and reminders of tasks (src/src/calendar-     *)
(* event, user-task, app-state).  Every minute a tick announces what fell  *)
(* due since the one before, whose time is a row of app_state.  Ticks may  *)
(* overlap when one takes longer than a minute, may fail half way, and     *)
(* time may leap over them while the backend is down.                      *)
(*                                                                         *)
(* Times are steps of a clock.  An update reads its row (preload) and then *)
(* saves it; what a stale row brings back is one more update here, since   *)
(* any values may be written.  The expansion of a recurrence rule in a     *)
(* time zone is left out: an event has a set of starts.                    *)
(***************************************************************************)
EXTENDS Integers, FiniteSets

CONSTANTS
  Tasks, Events,  (* ids of rows of user_tasks and calendar_events         *)
  Series,         (* sets of starts that an event may have                 *)
  Tickers,        (* calls of tick that may overlap                        *)
  MaxTime,        (* bound: the clock stops here                           *)
  MaxFaults,      (* bound: ticks that fail or are lost in a restart       *)
  Threshold,      (* LOST_THRESHOLD_MS, 5 minutes                          *)
  Window,         (* the 7 days that the expansion looks back and ahead,   *)
                  (* and the longest offset that the DTO admits            *)
  Backlog,        (* the 30 days that task reminders look back             *)
  Null            (* SQL NULL, no row                                      *)

Times == 0..MaxTime
Dates == 0..(MaxTime + Window)

CalendarAssumption ==
  /\ MaxTime \in Nat /\ MaxFaults \in Nat /\ Threshold \in Nat
  /\ Window \in Nat /\ Backlog \in Nat /\ Null \notin Dates
  /\ \A s \in Series : s \subseteq Dates
  /\ Tasks \cap (Events \X Dates) = {}

Task  == [status : {"pending", "completed"}, reminder : Times \cup {Null}, early : BOOLEAN]
Event == [starts : Series, offset : (0..Window) \cup {Null}, track : BOOLEAN, early : SUBSET Dates]
Alarm == [event : Events, start : Dates, due : Dates, track : BOOLEAN]

VARIABLES
  clock,    (* now                                                         *)
  last,     (* app_state 'calendar.last_scheduler_tick_at'                 *)
  task,     (* rows of user_tasks                                          *)
  event,    (* rows of calendar_events, offset NULL without an alarm;      *)
            (* history: early is what was not yet due when it was written  *)
  done,     (* event_occurrence_completions: <<event, start>>              *)
  tick,     (* each tick: control point, now, previousTick and the alarms  *)
            (* it found lost                                               *)
  told,     (* tasks and <<event, start>> announced to the clients since   *)
            (* their row was written                                       *)
  epoch,    (* history: the latest time that was set without a look at     *)
            (* what is due, by ticks that found no row                     *)
  faults    (* failed ticks so far                                         *)

rows == <<task, event, done>>
vars == <<clock, last, rows, tick, told, epoch, faults>>

Idle == [at |-> "idle", now |-> 0, prev |-> 0, lost |-> {}]

Init ==
  /\ clock = 0 /\ last = Null
  /\ task = [t \in Tasks |-> Null] /\ event = [e \in Events |-> Null]
  /\ done = {} /\ told = {} /\ epoch = 0 /\ faults = 0
  /\ tick = [k \in Tickers |-> Idle]

Clock ==
  /\ clock < MaxTime /\ \E t \in (clock + 1)..MaxTime : clock' = t
  /\ UNCHANGED <<last, rows, tick, told, epoch, faults>>
-----------------------------------------------------------------------------
(* UserTaskService.create and update: an update that completes the task    *)
(* clears the reminder.                                                    *)
WriteTask(t, status, reminder) ==
  /\ task' = [task EXCEPT ![t] =
       [status |-> status, early |-> reminder # Null /\ reminder > clock,
        reminder |-> IF status = "completed" /\ task[t] # Null THEN Null ELSE reminder]]
  /\ told' = told \ {t}
  /\ UNCHANGED <<clock, last, event, done, tick, epoch, faults>>

RemoveTask(t) ==
  /\ task[t] # Null /\ task' = [task EXCEPT ![t] = Null]
  /\ UNCHANGED <<clock, last, event, done, tick, told, epoch, faults>>

WriteEvent(e, starts, offset, track) ==
  /\ event' = [event EXCEPT ![e] =
       [starts |-> starts, offset |-> offset, track |-> track,
        early |-> {s \in starts : offset # Null /\ s - offset > clock}]]
  /\ told' = told \ ({e} \X Dates)
  /\ UNCHANGED <<clock, last, task, done, tick, epoch, faults>>

(* The completions go with the event.                                      *)
RemoveEvent(e) ==
  /\ event[e] # Null /\ event' = [event EXCEPT ![e] = Null]
  /\ done' = {d \in done : d[1] # e}
  /\ UNCHANGED <<clock, last, task, tick, told, epoch, faults>>

(* EventOccurrenceCompletionService: mark and unmark an occurrence.        *)
Mark(e, s) ==
  /\ event[e] # Null /\ event[e].track /\ s \in event[e].starts
  /\ \/ done' = done \cup {<<e, s>>}
     \/ done' = done \ {<<e, s>>}
  /\ UNCHANGED <<clock, last, task, event, tick, told, epoch, faults>>
-----------------------------------------------------------------------------
(* tick: the time is taken first ...                                       *)
Begin(k) ==
  /\ tick[k].at = "idle"
  /\ tick' = [tick EXCEPT ![k] = [Idle EXCEPT !.at = "begun", !.now = clock]]
  /\ UNCHANGED <<clock, last, rows, told, epoch, faults>>

(* ... and then the time of the tick before.                               *)
ReadPrevious(k) ==
  /\ tick[k].at = "begun"
  /\ tick' = [tick EXCEPT ![k] =
                IF last = Null THEN [@ EXCEPT !.at = "first"]
                ELSE IF @.now <= last THEN Idle
                ELSE [@ EXCEPT !.at = "alarms", !.prev = last]]
  /\ UNCHANGED <<clock, last, rows, told, epoch, faults>>

(* expand: the occurrences from a week before prev to a week after now,    *)
(* of which the alarms in (prev, now] are due.                             *)
Due(prev, now) ==
  {a \in Alarm :
     /\ event[a.event] # Null /\ event[a.event].offset # Null
     /\ a.start \in event[a.event].starts /\ a.track = event[a.event].track
     /\ prev - Window <= a.start /\ a.start <= now + Window
     /\ a.due = a.start - event[a.event].offset /\ prev < a.due /\ a.due <= now}

Lost(due, now) == now - due > Threshold
Told(a) == <<a.event, a.start>>

(* processCalendarAlarms: what is recent is sent at once, what is lost     *)
(* after the completions are read.                                         *)
SendAlarms(k) ==
  /\ tick[k].at = "alarms"
  /\ LET due == Due(tick[k].prev, tick[k].now)
     IN  /\ told' = told \cup {Told(a) : a \in {b \in due : ~Lost(b.due, tick[k].now)}}
         /\ tick' = [tick EXCEPT ![k].at = "missed",
                                 ![k].lost = {a \in due : Lost(a.due, tick[k].now)}]
  /\ UNCHANGED <<clock, last, rows, epoch, faults>>

SendMissed(k) ==
  /\ tick[k].at = "missed"
  /\ told' = told \cup {Told(a) : a \in {b \in tick[k].lost : b.track => Told(b) \notin done}}
  /\ tick' = [tick EXCEPT ![k].at = "tasks", ![k].lost = {}]
  /\ UNCHANGED <<clock, last, rows, epoch, faults>>

(* processTaskReminders: a reminder of before prev is left to the tick     *)
(* that was in time for it, and sent, in every tick, once it is lost.      *)
SendReminders(k) ==
  /\ tick[k].at = "tasks"
  /\ told' = told \cup
       {t \in Tasks :
          /\ task[t] # Null /\ task[t].status = "pending" /\ task[t].reminder # Null
          /\ task[t].reminder > tick[k].prev - Backlog /\ task[t].reminder <= tick[k].now
          /\ (task[t].reminder <= tick[k].prev => Lost(task[t].reminder, tick[k].now))}
  /\ tick' = [tick EXCEPT ![k].at = "advance"]
  /\ UNCHANGED <<clock, last, rows, epoch, faults>>

(* setTimestamp                                                            *)
Advance(k) ==
  /\ tick[k].at \in {"first", "advance"}
  /\ last' = tick[k].now
  /\ epoch' = IF tick[k].at = "first" /\ tick[k].now > epoch THEN tick[k].now ELSE epoch
  /\ tick' = [tick EXCEPT ![k] = Idle]
  /\ UNCHANGED <<clock, rows, told, faults>>

(* Faulty: a tick that fails is over all the same.                         *)
FailAdvancing(k) ==
  /\ tick[k].at # "idle" /\ faults < MaxFaults /\ faults' = faults + 1
  /\ tick' = [tick EXCEPT ![k] = Idle]
  /\ last' = IF tick[k].at \in {"alarms", "missed", "tasks"} THEN tick[k].now ELSE last
  /\ UNCHANGED <<clock, rows, told, epoch>>

(* The tick fails, or the backend stops: last_scheduler_tick_at stays.     *)
Fail(k) ==
  /\ tick[k].at # "idle" /\ faults < MaxFaults /\ faults' = faults + 1
  /\ tick' = [tick EXCEPT ![k] = Idle]
  /\ UNCHANGED <<clock, last, rows, told, epoch>>

Next ==
  \/ Clock
  \/ \E t \in Tasks : \/ RemoveTask(t)
                      \/ \E s \in {"pending", "completed"}, r \in Times \cup {Null} : WriteTask(t, s, r)
  \/ \E e \in Events : \/ RemoveEvent(e)
                       \/ \E s \in Series, o \in (0..Window) \cup {Null}, b \in BOOLEAN : WriteEvent(e, s, o, b)
                       \/ \E s \in Dates : Mark(e, s)
  \/ \E k \in Tickers : \/ Begin(k) \/ ReadPrevious(k) \/ SendAlarms(k) \/ SendMissed(k)
                        \/ SendReminders(k) \/ Advance(k) \/ Fail(k)

Spec == Init /\ [][Next]_vars
-----------------------------------------------------------------------------
(* Rows, ticks and announcements keep their types.                         *)
TypeOK ==
  /\ clock \in Times /\ last \in Times \cup {Null}
  /\ task \in [Tasks -> Task \cup {Null}]
  /\ event \in [Events -> Event \cup {Null}]
  /\ done \subseteq Events \X Dates
  /\ \A k \in Tickers :
       /\ tick[k].at \in {"idle", "begun", "first", "alarms", "missed", "tasks", "advance"}
       /\ tick[k].now \in Times /\ tick[k].prev \in Times /\ tick[k].lost \subseteq Alarm
  /\ told \subseteq Tasks \cup (Events \X Dates)
  /\ epoch \in Times /\ faults \in 0..MaxFaults

(* Once the scheduler's time has passed a date, what was due then has been *)
(* announced, though ticks overlap, set that time back, fail half way or   *)
(* are skipped for a while: every reminder of a pending task and every     *)
(* alarm that is set before it is due, down to the longest offset.         *)
(* (Occurrences that can be completed are announced unless they are.)      *)
NothingDueIsMissed ==
  last # Null =>
    /\ \A t \in Tasks :
         /\ task[t] # Null /\ task[t].status = "pending" /\ task[t].early
         /\ epoch < task[t].reminder /\ task[t].reminder <= last
         => t \in told
    /\ \A e \in Events, s \in Dates :
         /\ event[e] # Null /\ s \in event[e].early /\ ~event[e].track
         /\ epoch < s - event[e].offset /\ s - event[e].offset <= last
         => <<e, s>> \in told
=============================================================================
