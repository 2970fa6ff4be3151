----------------------------- MODULE BookingEvent -----------------------------
(***************************************************************************)
(* What a booking sets off outside the database: the event on the          *)
(* recruiter's Google calendar, the e-mails with it and the reminder       *)
(* (backend/app/scheduling/event_dispatch.py, sweep_reminders in           *)
(* service.py), and the in-app inbox the engine writes to as it goes       *)
(* (backend/app/notifications).                                            *)
(*                                                                         *)
(* One interview is followed, through every slot it is booked for.  A      *)
(* handler runs the engine, which announces its moves at once, commits,    *)
(* and only then calls Google; each of these is a step.  Handlers do not   *)
(* interleave up to their commits here (SchedulingService is about that)   *)
(* but their calls to Google may, with each other and with the reminder    *)
(* job.  Seats are told apart by who holds them, and the cascade may turn  *)
(* to anyone who is not on the panel and has not just left it.             *)
(***************************************************************************)
EXTENDS Integers, FiniteSets

CONSTANTS
    Interviewers,
    Handlers,     \* request handlers and the offer-expiry job
    Worlds,       \* requests and the conditions they are served under
    MaxBookings,  \* bound on the slots the interview is booked for
    MaxEvents,    \* bound on the calendar events made
    MaxCrashes    \* bound on the deaths of the process

\* "refusals": Google refuses calls, or the recruiter's connection is dead;
\* "aborts":   a commit fails;
\* "crashes":  the process dies;
\* "overlap":  a handler or the reminder job starts before the calls to
\*             Google and the e-mails of an earlier one are done.
\* "dead_offers": a seat of a cancelled interview is answered.
AllConditions == {"refusals", "aborts", "crashes", "overlap", "dead_offers"}

\* panelists is the request's panelists_required, pool the interviewers its
\* search leaves, bookings the number of slots followed.
World == [conditions : SUBSET AllConditions,
          panelists  : Nat \ {0},
          pool       : SUBSET Interviewers,
          bookings   : 0 .. MaxBookings]

ASSUME BookingAssumption ==
    /\ IsFiniteSet(Interviewers)
    /\ Handlers \subseteq Nat
    /\ MaxBookings \in Nat
    /\ Worlds \subseteq World
    /\ MaxEvents \in Nat
    /\ MaxCrashes \in Nat
    /\ {"candidate", "recruiter"} \cap Interviewers = {}

VARIABLES
    world,       \* the request and the conditions of this behaviour
    row,         \* the interviews row
    bookings,    \* number of slots booked so far
    time,        \* where the start of the booked slot lies
    calendar,    \* events on the recruiter's calendar, by id
    made,        \* number of events made so far
    mailed,      \* who has a confirmation, and no later cancellation, by e-mail
    told,        \* what the last entry in each person's inbox says of them
    sent,        \* reminders sent for each booking
    th,          \* what each handler is doing
    job,         \* what the reminder job is doing
    crashes      \* number of times the process died

vars == <<world, row, bookings, time, calendar, made, mailed, told, sent,
          th, job, crashes>>

conditions == world.conditions

outside == <<calendar, made, mailed>>

-----------------------------------------------------------------------------
(* The row                                                                 *)

Statuses == {"collecting_availability", "assigning_panel", "panel_complete",
             "manual_scheduling_required", "cancelled"}

Panels == [Interviewers -> {"out", "offered", "accepted"}]

\* slot is 0 while confirmed_start_utc is NULL, event while calendar_event_id
\* is; reminded says that reminder_sent_at is set.
Row == [status   : Statuses,
        panel    : Panels,
        slot     : 0 .. MaxBookings,
        event    : 0 .. MaxEvents,
        reminded : BOOLEAN]

Nobody == [i \in Interviewers |-> "out"]

With(panel, status) == {i \in Interviewers : panel[i] = status}

HeldIds(panel) == {i \in Interviewers : panel[i] # "out"}

\* _row_to_interview finds an interview in the row.
HasInterview(rw) == rw.slot # 0 /\ rw.status # "collecting_availability"

\* The row holds an interview that is on.
Live(rw) == HasInterview(rw) /\ rw.status # "cancelled"

\* _attendee_emails: the candidate (and the hiring manager, who goes the same
\* way) and the confirmed panel.
Attendees(rw) == {"candidate"} \cup With(rw.panel, "accepted")

People == Interviewers \cup {"candidate", "recruiter"}

\* "far", within the reminder window ("soon", then "swept" once the job has
\* looked), or "past".
Times == {"far", "soon", "swept", "past"}

Soon == {"soon", "swept"}

\* "off" is seat_released, interview_cancelled or an empty inbox.
InboxKinds == {"off", "seat_offer", "seat_filled", "panel_complete", "escalation"}

CalendarEvent == [slot : 1 .. MaxBookings, people : SUBSET People]

Event(e) == calendar[e]

Exists(e) == e \in DOMAIN calendar

\* The inbox after everyone in S has been sent a message of this kind.
Tell(inbox, S, kind) == [p \in People |-> IF p \in S THEN kind ELSE inbox[p]]

-----------------------------------------------------------------------------
(* Handlers                                                                *)

\* Up to its commit: snap is the row as loaded, work the one to write; expired
\* says that reserve() committed in between, so that every column is written.
\* After it: what the calls to Google go by.
Thread == [pc       : {"idle", "commit", "dispatch", "call", "record", "get", "patch", "delete"},
           op       : {"none", "select", "answer", "back_out", "cancel", "reschedule"},
           snap     : Row,
           work     : Row,
           expired  : BOOLEAN,
           leaving  : SUBSET Interviewers,
           people   : SUBSET People,
           event    : 0 .. MaxEvents,
           slot     : 0 .. MaxBookings]

NoRow == [status |-> "collecting_availability", panel |-> Nobody, slot |-> 0,
          event |-> 0, reminded |-> FALSE]

Idle == [pc |-> "idle", op |-> "none", snap |-> NoRow, work |-> NoRow,
         expired |-> FALSE, leaving |-> {}, people |-> {}, event |-> 0,
         slot |-> 0]

AllQuiet == job.pc = "idle" /\ \A h \in Handlers : th[h].pc = "idle"

\* A handler may start: the first that is free takes the call.
MayStart(h) ==
    /\ th[h].pc = "idle"
    /\ \A g \in Handlers : g < h => th[g].pc # "idle"
    /\ \A g \in Handlers : th[g].pc # "commit"
    /\ "overlap" \in conditions \/ AllQuiet

\* It has run the engine on the row it loaded and is about to commit.
Decided(h, op, next, expired, leaving) ==
    th' = [th EXCEPT ![h] = [Idle EXCEPT !.pc = "commit", !.op = op, !.snap = row,
                               !.work = next, !.expired = expired, !.leaving = leaving]]

Becomes(h, state) == th' = [th EXCEPT ![h] = state]

\* _reject_if_past lets the call through.
NotPast == row.slot # 0 => time # "past"

-----------------------------------------------------------------------------
(* The engine, and whom it tells what                                      *)

\* The panels fill_pending_seats can make of so many pending seats, after these
\* people have left them: each goes to someone else or is exhausted for good.
Filled(panel, pending, leaving) ==
    {[i \in Interviewers |-> IF i \in S THEN "offered" ELSE panel[i]] :
        S \in {T \in SUBSET (world.pool \ (HeldIds(panel) \cup leaving)) :
                  Cardinality(T) <= pending}}

\* _resolve
Resolve(status, panel) ==
    IF Cardinality(HeldIds(panel)) < world.panelists THEN "manual_scheduling_required"
    ELSE IF With(panel, "offered") = {} THEN "panel_complete"
    ELSE status

\* What _resolve announces.
Announce(inbox, status, panel) ==
    CASE status = "manual_scheduling_required" -> Tell(inbox, {"recruiter"}, "escalation")
      [] status = "panel_complete" ->
            Tell(inbox, HeldIds(panel) \cup {"candidate"}, "panel_complete")
      [] OTHER -> inbox

\* submit_availability and select_slot: a panel is opened for a slot, or too
\* few people are left for it (or there was no slot, and nothing is booked).
SelectSlot(h) ==
    /\ MayStart(h)
    /\ row.status = "collecting_availability"
    /\ bookings < world.bookings
    /\ bookings' = bookings + 1
    /\ \E panel \in Filled(Nobody, world.panelists, {}) :
         LET status == Resolve("assigning_panel", panel)
         IN  /\ Decided(h, "select",
                        [row EXCEPT !.status = status, !.panel = panel,
                                    !.slot = bookings + 1, !.event = 0],
                        panel # Nobody, {})
             /\ told' = Announce(Tell(told, HeldIds(panel), "seat_offer"), status, panel)
    /\ UNCHANGED <<world, row, time, outside, sent, job, crashes>>

\* respond_to_seat looks at the seat, not at the status of the interview.
MayAnswer(h) ==
    /\ MayStart(h)
    /\ HasInterview(row)
    /\ row.status # "cancelled" \/ "dead_offers" \in conditions

\* respond_to_seat, accepting.
AcceptSeat(h, i) ==
    LET panel  == [row.panel EXCEPT ![i] = "accepted"]
        status == Resolve(row.status, panel)
    IN  /\ MayAnswer(h)
        /\ row.panel[i] = "offered"
        /\ Decided(h, "answer", [row EXCEPT !.status = status, !.panel = panel], FALSE, {})
        /\ told' = Announce(Tell(told, {i}, "seat_filled"), status, panel)
        /\ UNCHANGED <<world, row, bookings, time, outside, sent, job, crashes>>

\* The seats of S are free again and announced so, then offered to others (who
\* may be of S, if a seat other than their own is free).
GiveBack(h, S) ==
    LET rest == [i \in Interviewers |-> IF i \in S THEN "out" ELSE row.panel[i]]
    IN  /\ \E panel \in Filled(rest, Cardinality(S), IF Cardinality(S) = 1 THEN S ELSE {}) :
             LET status == Resolve(row.status, panel)
                 next   == HeldIds(panel) \ HeldIds(rest)
             IN  /\ Decided(h, "answer", [row EXCEPT !.status = status, !.panel = panel],
                            next # {}, {})
                 /\ told' = Announce(Tell(Tell(told, S, "off"), next, "seat_offer"),
                                     status, panel)
        /\ UNCHANGED <<world, row, bookings, time, outside, sent, job, crashes>>

\* respond_to_seat, declining.
DeclineSeat(h, i) ==
    /\ MayAnswer(h)
    /\ row.panel[i] = "offered"
    /\ GiveBack(h, {i})

\* sweep_expired_offers: any number of offers have run out.
SweepExpiredOffers(h) ==
    /\ MayStart(h)
    /\ HasInterview(row)
    /\ row.status = "assigning_panel"
    /\ \E S \in (SUBSET With(row.panel, "offered")) \ {{}} : GiveBack(h, S)

\* interviewer_cancel: the seat is emptied before its release is announced, so
\* that message reaches nobody.
InterviewerCancel(h, i) ==
    /\ MayStart(h)
    /\ row.status \in {"panel_complete", "assigning_panel"}
    /\ NotPast
    /\ row.panel[i] = "accepted"
    /\ \E panel \in Filled([row.panel EXCEPT ![i] = "out"], 1, {i}) :
         LET status == Resolve("assigning_panel", panel)
             next   == HeldIds(panel) \ HeldIds(row.panel)
         IN  /\ Decided(h, "back_out", [row EXCEPT !.status = status, !.panel = panel],
                        next # {}, {i})
             /\ told' = Announce(Tell(told, next, "seat_offer"), status, panel)
    /\ UNCHANGED <<world, row, bookings, time, outside, sent, job, crashes>>

\* A broken cancellation that tells the confirmed panel only.
CancelTellsConfirmed(h) ==
    /\ MayStart(h)
    /\ NotPast
    /\ Decided(h, "cancel", [row EXCEPT !.status = "cancelled", !.event = 0], FALSE, {})
    /\ told' = IF Live(row) THEN Tell(told, Attendees(row), "off") ELSE told
    /\ UNCHANGED <<world, row, bookings, time, outside, sent, job, crashes>>

\* candidate_cancel: the seats are kept in the row, the people are told.
CandidateCancel(h) ==
    /\ MayStart(h)
    /\ NotPast
    /\ Decided(h, "cancel", [row EXCEPT !.status = "cancelled", !.event = 0], FALSE, {})
    /\ told' = IF Live(row)
               THEN Tell(told, HeldIds(row.panel) \cup {"candidate"}, "off")
               ELSE told
    /\ UNCHANGED <<world, row, bookings, time, outside, sent, job, crashes>>

\* A broken reschedule that leaves reminder_sent_at set.
RescheduleStillReminded(h) ==
    /\ MayStart(h)
    /\ NotPast
    /\ Decided(h, "reschedule", [NoRow EXCEPT !.reminded = row.reminded], FALSE, {})
    /\ told' = IF Live(row) THEN Tell(told, HeldIds(row.panel), "off") ELSE told
    /\ UNCHANGED <<world, row, bookings, time, outside, sent, job, crashes>>

\* candidate_reschedule: everything about the old slot goes.
CandidateReschedule(h) ==
    /\ MayStart(h)
    /\ NotPast
    /\ Decided(h, "reschedule", NoRow, FALSE, {})
    /\ told' = IF Live(row) THEN Tell(told, HeldIds(row.panel), "off") ELSE told
    /\ UNCHANGED <<world, row, bookings, time, outside, sent, job, crashes>>

-----------------------------------------------------------------------------
(* The commit                                                              *)

\* SQLAlchemy writes a column whose value is not the one loaded, or every
\* assigned column once the row has expired.
Written(h, loaded, new, current) ==
    IF th[h].expired \/ loaded # new THEN new ELSE current

\* What the handler does once its transaction is durable.
AfterCommit(h) ==
    LET op   == th[h].op
        snap == th[h].snap
    IN  CASE op = "back_out" -> [Idle EXCEPT !.pc = "get", !.leaving = th[h].leaving]
          [] op \in {"cancel", "reschedule"} /\ HasInterview(snap) /\ snap.event # 0 ->
                [Idle EXCEPT !.pc = "delete", !.event = snap.event, !.people = Attendees(snap)]
          [] op = "answer" /\ th[h].work.status = "panel_complete" ->
                [Idle EXCEPT !.pc = "dispatch"]
          [] OTHER -> Idle

\* A new slot is some time ahead; without one there is no time to keep.
Commit(h) ==
    LET snap == th[h].snap
        next == th[h].work
    IN  /\ th[h].pc = "commit"
        /\ row' = [next EXCEPT
                     !.event = Written(h, snap.event, @, row.event),
                     !.reminded = IF th[h].op = "reschedule"
                                  THEN Written(h, snap.reminded, @, row.reminded)
                                  ELSE row.reminded]
        /\ time' \in IF th[h].op = "select" THEN {"far", "soon"}
                     ELSE IF next.slot = 0 THEN {"far"} ELSE {time}
        /\ Becomes(h, AfterCommit(h))
        /\ UNCHANGED <<world, bookings, outside, told, sent, job, crashes>>

\* A commit fails: the handler's own, which rolls it back, or the one after
\* events.insert, which is logged.
Abort(h) ==
    /\ "aborts" \in conditions
    /\ th[h].pc \in {"commit", "record"}
    /\ Becomes(h, Idle)
    /\ UNCHANGED <<world, row, bookings, time, outside, told, sent, job, crashes>>

-----------------------------------------------------------------------------
(* The calendar                                                            *)

\* The call is not made, or fails.
Refused(h) ==
    /\ "refusals" \in conditions
    /\ th[h].pc \in {"call", "get", "patch"}
    /\ Becomes(h, Idle)
    /\ UNCHANGED <<world, row, bookings, time, outside, told, sent, job, crashes>>

\* A broken dispatch that takes the interview to be still there.
DispatchAnyway(h) ==
    /\ th[h].pc = "dispatch"
    /\ Becomes(h, [th[h] EXCEPT !.pc = "call", !.people = Attendees(row),
                                !.event = row.event, !.slot = row.slot])
    /\ UNCHANGED <<world, row, bookings, time, outside, told, sent, job, crashes>>

\* _dispatch_booking_if_complete builds the interview from the row as it is
\* now and lists its attendees; it does not look at the status again.
DispatchBooking(h) ==
    /\ th[h].pc = "dispatch"
    /\ IF HasInterview(row)
       THEN Becomes(h, [th[h] EXCEPT !.pc = "call", !.people = Attendees(row),
                                     !.event = row.event, !.slot = row.slot])
       ELSE Becomes(h, Idle)
    /\ UNCHANGED <<world, row, bookings, time, outside, told, sent, job, crashes>>

\* The event id dispatch_confirmed_booking goes by: the one it read with the
\* attendees, or the current one when a token refresh committed the session.
KnownEvents(h) == {th[h].event, row.event}

\* A broken dispatch that makes an event whether or not there is one.
CreateAnyway(h) ==
    /\ th[h].pc = "call"
    /\ made < MaxEvents
    /\ made' = made + 1
    /\ calendar' = [e \in DOMAIN calendar \cup {made + 1} |->
                      IF e \in DOMAIN calendar THEN calendar[e]
                      ELSE [slot |-> th[h].slot, people |-> th[h].people]]
    /\ Becomes(h, [th[h] EXCEPT !.pc = "record", !.event = made + 1])
    /\ UNCHANGED <<world, row, bookings, time, mailed, told, sent, job, crashes>>

\* _create_event, up to the answer of events.insert.
CreateEvent(h) ==
    /\ th[h].pc = "call"
    /\ 0 \in KnownEvents(h)
    /\ made < MaxEvents
    /\ made' = made + 1
    /\ calendar' = [e \in DOMAIN calendar \cup {made + 1} |->
                      IF e \in DOMAIN calendar THEN calendar[e]
                      ELSE [slot |-> th[h].slot, people |-> th[h].people]]
    /\ Becomes(h, [th[h] EXCEPT !.pc = "record", !.event = made + 1])
    /\ UNCHANGED <<world, row, bookings, time, mailed, told, sent, job, crashes>>

\* ... its commit, and the e-mails.
RecordEvent(h) ==
    /\ th[h].pc = "record"
    /\ row' = [row EXCEPT !.event = th[h].event]
    /\ mailed' = mailed \cup th[h].people
    /\ Becomes(h, Idle)
    /\ UNCHANGED <<world, bookings, time, calendar, made, told, sent, job, crashes>>

\* _sync_event_attendees: the whole list is replaced; the patch of an event
\* that is gone fails, and no e-mail is sent.
SyncEventAttendees(h) ==
    /\ th[h].pc = "call"
    /\ \E e \in KnownEvents(h) \ {0} :
         IF Exists(e)
         THEN /\ calendar' = [calendar EXCEPT ![e].people = th[h].people]
              /\ mailed' = mailed \cup th[h].people
         ELSE UNCHANGED <<calendar, mailed>>
    /\ Becomes(h, Idle)
    /\ UNCHANGED <<world, row, bookings, time, made, told, sent, job, crashes>>

\* remove_attendee_from_event: events.get of the row's event, if it has one.
GetEvent(h) ==
    /\ th[h].pc = "get"
    /\ IF Exists(row.event)
       THEN Becomes(h, [th[h] EXCEPT !.pc = "patch", !.event = row.event,
                                     !.people = Event(row.event).people \ th[h].leaving,
                                     !.leaving = {}])
       ELSE Becomes(h, Idle)
    /\ UNCHANGED <<world, row, bookings, time, outside, told, sent, job, crashes>>

\* A broken removal that patches with the list as it was.
PatchUnchanged(h) ==
    /\ th[h].pc = "patch"
    /\ Becomes(h, Idle)
    /\ UNCHANGED <<world, row, bookings, time, outside, told, sent, job, crashes>>

\* ... and events.patch with what was left of the list when it was read.
PatchEvent(h) ==
    /\ th[h].pc = "patch"
    /\ calendar' = IF Exists(th[h].event)
                   THEN [calendar EXCEPT ![th[h].event].people = th[h].people]
                   ELSE calendar
    /\ Becomes(h, Idle)
    /\ UNCHANGED <<world, row, bookings, time, made, mailed, told, sent, job, crashes>>

\* cancel_event: the event of the interview as it was loaded; the e-mails go
\* out whether or not Google obliges.
DeleteEvent(h) ==
    LET e == th[h].event
    IN  /\ th[h].pc = "delete"
        /\ \/ calendar' = [x \in DOMAIN calendar \ {e} |-> calendar[x]]
           \/ "refusals" \in conditions /\ UNCHANGED calendar
        /\ mailed' = mailed \ th[h].people
        /\ Becomes(h, Idle)
        /\ UNCHANGED <<world, row, bookings, time, made, told, sent, job, crashes>>

-----------------------------------------------------------------------------
(* Reminders                                                               *)

\* slot is that of the row the job has loaded, 0 if it holds no interview.
Job == [pc : {"idle", "send", "mark"}, slot : 0 .. MaxBookings]

Resting == [pc |-> "idle", slot |-> 0]

SlotNow == IF HasInterview(row) THEN row.slot ELSE 0

\* The rows sweep_reminders asks for.
IsDue == row.status = "panel_complete" /\ ~row.reminded /\ row.slot # 0 /\ time \in Soon

\* The job's query; it loads the rows it returns.
SweepReminders ==
    /\ job.pc = "idle"
    /\ "overlap" \in conditions \/ AllQuiet
    /\ time' = IF time = "soon" THEN "swept" ELSE time
    /\ job' = IF IsDue THEN [pc |-> "send", slot |-> row.slot] ELSE Resting
    /\ UNCHANGED <<world, row, bookings, outside, told, sent, th, crashes>>

\* send_reminder: to the attendees of the row as the query loaded it, or as it
\* is now if the commit for an earlier row of the loop has expired it.
SendReminder ==
    /\ job.pc = "send"
    /\ \E slot \in {job.slot, SlotNow} :
         IF slot # 0
         THEN /\ sent' = [sent EXCEPT ![slot] = IF @ < 2 THEN @ + 1 ELSE @]
              /\ job' = [Resting EXCEPT !.pc = "mark"]
         ELSE sent' = sent /\ job' = Resting
    /\ UNCHANGED <<world, row, bookings, time, outside, told, th, crashes>>

\* A broken job that does not write down what it has done.
ForgetReminder ==
    /\ job.pc = "mark"
    /\ job' = Resting
    /\ UNCHANGED <<world, row, bookings, time, outside, told, sent, th, crashes>>

\* reminder_sent_at is set and committed.
MarkReminded ==
    /\ job.pc = "mark"
    /\ row' = [row EXCEPT !.reminded = TRUE]
    /\ job' = Resting
    /\ UNCHANGED <<world, bookings, time, outside, told, sent, th, crashes>>

\* That commit fails.
AbortReminder ==
    /\ "aborts" \in conditions
    /\ job.pc = "mark"
    /\ job' = Resting
    /\ UNCHANGED <<world, row, bookings, time, outside, told, sent, th, crashes>>

-----------------------------------------------------------------------------
(* The environment                                                         *)

\* The process dies and is started again, in time for the reminder job to run
\* again if it was at work: the inbox was its memory.
Crash ==
    /\ "crashes" \in conditions
    /\ crashes < MaxCrashes
    /\ crashes' = crashes + 1
    /\ th' = [h \in Handlers |-> Idle]
    /\ job' = Resting
    /\ told' = [p \in People |-> "off"]
    /\ time' = IF time = "swept" /\ job # Resting THEN "soon" ELSE time
    /\ UNCHANGED <<world, row, bookings, outside, sent>>

ComesNear ==
    /\ row.slot # 0
    /\ time = "far"
    /\ time' = "soon"
    /\ UNCHANGED <<world, row, bookings, outside, told, sent, th, job, crashes>>

\* The window is a day long and the job runs every half hour: it looks at
\* least once, and is through, before the interview starts.
Starts ==
    /\ row.slot # 0
    /\ time = "swept"
    /\ job.pc = "idle"
    /\ time' = "past"
    /\ UNCHANGED <<world, row, bookings, outside, told, sent, th, job, crashes>>

-----------------------------------------------------------------------------
Init ==
    /\ world \in Worlds
    /\ row = NoRow
    /\ bookings = 0
    /\ time = "far"
    /\ calendar = [e \in {} |-> [slot |-> 1, people |-> {}]]
    /\ made = 0
    /\ mailed = {}
    /\ told = [p \in People |-> "off"]
    /\ sent = [b \in 1 .. MaxBookings |-> 0]
    /\ th = [h \in Handlers |-> Idle]
    /\ job = Resting
    /\ crashes = 0

Handle(h) ==
    \/ SelectSlot(h)
    \/ \E i \in Interviewers :
         AcceptSeat(h, i) \/ DeclineSeat(h, i) \/ InterviewerCancel(h, i)
    \/ SweepExpiredOffers(h)
    \/ CandidateCancel(h)
    \/ CandidateReschedule(h)

Continue(h) ==
    \/ Commit(h)
    \/ DispatchBooking(h)
    \/ CreateEvent(h)
    \/ RecordEvent(h)
    \/ SyncEventAttendees(h)
    \/ GetEvent(h)
    \/ PatchEvent(h)
    \/ DeleteEvent(h)
    \/ Refused(h)

Reminding == SendReminder \/ MarkReminded

Next ==
    \/ \E h \in Handlers : Handle(h) \/ Continue(h) \/ Abort(h)
    \/ SweepReminders
    \/ Reminding
    \/ AbortReminder
    \/ Crash
    \/ ComesNear
    \/ Starts

\* Handlers that have started run on, the timer starts the job again and again
\* (in a quiet moment, if it has to wait for one), and time passes.
Fairness ==
    /\ \A h \in Handlers : WF_vars(Continue(h))
    /\ SF_vars(SweepReminders)
    /\ WF_vars(Reminding)
    /\ WF_vars(ComesNear)

Spec == Init /\ [][Next]_vars /\ Fairness

-----------------------------------------------------------------------------
(* Properties                                                              *)

TypeOK ==
    /\ world \in Worlds
    /\ row \in Row
    /\ bookings \in 0 .. MaxBookings
    /\ time \in Times
    /\ DOMAIN calendar \subseteq 1 .. made
    /\ \A e \in DOMAIN calendar : calendar[e] \in CalendarEvent
    /\ made \in 0 .. MaxEvents
    /\ mailed \subseteq People
    /\ told \in [People -> InboxKinds]
    /\ sent \in [1 .. MaxBookings -> 0 .. 2]
    /\ th \in [Handlers -> Thread]
    /\ job \in Job
    /\ crashes \in 0 .. MaxCrashes

\* When nothing goes wrong and nobody interferes, the recruiter's calendar
\* holds the event of the row and no other, between handlers: everyone
\* confirmed is invited to a complete interview, nobody who is not confirmed
\* to any, and whoever is invited has it by e-mail, while a candidate whose
\* interview is off does not hold a confirmation.
CalendarMirrorsRow ==
    conditions = {} /\ AllQuiet =>
        /\ DOMAIN calendar = {row.event} \ {0}
        /\ row.status = "panel_complete" =>
              row.event # 0 /\ Event(row.event).people = Attendees(row)
        /\ row.event # 0 =>
              /\ Live(row) /\ Event(row.event).slot = row.slot
              /\ Event(row.event).people \subseteq Attendees(row)
              /\ Event(row.event).people \subseteq mailed
        /\ row.event = 0 => "candidate" \notin mailed

\* However Google refuses its calls, one booking never has two events: later
\* completions of the panel patch the one there is, or try anew.  A process
\* that dies between events.insert and its commit leaves one more behind.
OneEventPerBooking ==
    conditions \subseteq {"refusals", "crashes"} =>
        \A b \in 1 .. MaxBookings :
            Cardinality({e \in DOMAIN calendar : Event(e).slot = b}) <= 1 + crashes

\* As long as commits succeed and cancelled interviews are left alone, what
\* people last read in their inbox is so: holders of a seat know of it,
\* everyone knows of a complete panel, an interview that is over has nobody
\* still asked to sit, whoever holds a seat of a cancelled one knows that it is
\* off, and a recruiter who has to take over knows.  (Messages are sent before
\* the commit.)
InboxTellsTruth ==
    conditions \cap {"aborts", "crashes", "dead_offers"} = {} /\ AllQuiet =>
        /\ Live(row) =>
              /\ \A i \in With(row.panel, "offered") : told[i] = "seat_offer"
              /\ \A i \in With(row.panel, "accepted") :
                    told[i] \in {"seat_filled", "panel_complete"}
        /\ row.status = "panel_complete" =>
              \A p \in Attendees(row) : told[p] = "panel_complete"
        /\ ~Live(row) => \A i \in Interviewers : told[i] # "seat_offer"
        /\ row.status = "cancelled" /\ row.slot # 0 =>
              \A p \in HeldIds(row.panel) \cup {"candidate"} : told[p] = "off"
        /\ row.status = "manual_scheduling_required" => told["recruiter"] = "escalation"

\* Unless a commit fails, nobody is reminded of the same booking twice, not
\* even when it is cancelled or moved while the job is at it.
RemindedOnce ==
    conditions \cap {"aborts", "crashes"} = {} => \A b \in 1 .. MaxBookings : sent[b] <= 1

\* An interview confirmed before its reminder is due is reminded of, unless it
\* does not stay confirmed: a reminder for the slot before it does not count,
\* and a crash only delays it.
EveryoneReminded ==
    \A b \in 1 .. MaxBookings :
        (/\ conditions \cap {"overlap", "aborts"} = {}
         /\ row.status = "panel_complete" /\ row.slot = b /\ time = "far")
        ~> (sent[b] > 0 \/ row.slot # b \/ row.status # "panel_complete")
=============================================================================
