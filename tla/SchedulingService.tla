-------------------------- MODULE SchedulingService -------------------------
(***************************************************************************)
(* The scheduling service, backend/app/scheduling/service.py, with the     *)
(* engine it drives (assignment.py, state_machine.py), its reservation     *)
(* ledger (providers/db_reservation_ledger.py) and the calendar event it   *)
(* creates and deletes (event_dispatch.py).                                *)
(*                                                                         *)
(* Every HTTP handler and every timer job runs in a thread of its own with *)
(* a database session of its own.  A handler loads the interview row, asks *)
(* Google for free/busy times, runs the engine on the copy it loaded and   *)
(* writes the outcome back.  reserve() commits in the middle of that, so   *)
(* a handler is several steps here: one per commit, per read that a later  *)
(* step relies on, and per call to the calendar that changes it.           *)
(***************************************************************************)
EXTENDS PanelSeats

CONSTANTS
    Threads,      \* request handlers and timer jobs that may run at once
    Requests,     \* ids of interview requests, equal to their interview ids
    Slots,        \* start times, the round's buffers included
    Overlap,      \* pairs of slots whose buffered intervals intersect
    NoRequest,
    NoSlot,
    MaxEvents,    \* bound on the calendar events ever made per interview
    Conditions    \* what the environment does, see AllConditions

\* "races":          two handlers may work on one request at the same time;
\* "dead_offers":    interviewers answer offers of a cancelled interview, which
\*                   GET /interviewer/offers still lists;
\* "failures":       handlers raise and roll back, the process dies, Google
\*                   refuses a call;
\* "token_refresh":  an access token expires, and get_valid_access_token
\*                   commits the handler's session to store the new one;
\* "time":           the start of an interview may go by;
\* "reschedules":    candidates reschedule.
AllConditions == {"races", "dead_offers", "failures", "token_refresh", "time",
                  "reschedules"}

ASSUME ServiceAssumption ==
    /\ NoRequest \notin Requests
    /\ NoSlot \notin Slots
    /\ Overlap \subseteq Slots \X Slots
    /\ \A s \in Slots : <<s, s>> \in Overlap
    /\ \A s, u \in Slots : <<s, u>> \in Overlap => <<u, s>> \in Overlap
    /\ MaxEvents \in Nat
    /\ Conditions \subseteq AllConditions

VARIABLES
    row,        \* interviews: one row per request
    offers,     \* interview_slot_offers with status OFFERED
    roster,     \* interview_participants: confirmed panelists
    calendar,   \* events on the recruiter's Google calendar
    made,       \* number of events created so far, per interview
    elapsed,    \* slots whose start is in the past
    th          \* what each thread is doing

vars == <<row, offers, roster, calendar, made, elapsed, th>>

-----------------------------------------------------------------------------
(* The database                                                            *)

InterviewStatuses == {"assigning_panel", "panel_complete",
                      "manual_scheduling_required", "cancelled"}

Statuses == InterviewStatuses \cup
            {"absent", "collecting_availability", "awaiting_candidate_selection"}

\* feasible is feasibility_json reduced to the slots it offers the candidate;
\* event is calendar_event_id (and meeting_link, written with it), 0 when NULL.
Row == [status   : Statuses,
        seats    : Panels,
        slot     : Slots \cup {NoSlot},
        feasible : SUBSET Slots,
        event    : 0 .. MaxEvents]

NoRow == [status |-> "absent", seats |-> NoSeats, slot |-> NoSlot,
          feasible |-> {}, event |-> 0]

Offer == [iv : Requests, seat : SeatIndex, who : Interviewers, slot : Slots]
Participant == [iv : Requests, seat : SeatIndex, who : Interviewers]
Event == [iv : Requests, id : 1 .. MaxEvents]

\* _row_to_interview returns an Interview rather than None.
HasInterview(rw) ==
    /\ rw.seats # NoSeats
    /\ rw.slot # NoSlot
    /\ rw.status \in InterviewStatuses

OffersOf(r) == {o \in offers : o.iv = r}
RosterOf(r) == {p \in roster : p.iv = r}

-----------------------------------------------------------------------------
(* Threads                                                                 *)

Ops == {"none", "select", "accept", "decline", "interviewer_cancel", "sweep",
        "cancel", "reschedule", "submit"}

Pcs == {"idle", "live", "fill", "persist", "dispatch", "record", "sweep",
        "commit", "delete", "resubmit", "search"}

\* snap is the row as the handler loaded it and work the one it will write;
\* released and cancelled are flushed to the session but not committed;
\* expired says that an earlier commit expired the session's copy of the row,
\* so that the next flush writes every assigned column, changed or not.
Thread == [pc        : Pcs,
           op        : Ops,
           req       : Requests \cup {NoRequest},
           snap      : Row,
           work      : Row,
           targets   : SUBSET SeatIndex,
           feas      : SUBSET Interviewers,
           released  : SUBSET Offer,
           cancelled : SUBSET Participant,
           expired   : BOOLEAN,
           todo      : SUBSET Requests,
           event     : 0 .. MaxEvents]

Idle == [pc |-> "idle", op |-> "none", req |-> NoRequest,
         snap |-> NoRow, work |-> NoRow, targets |-> {}, feas |-> {},
         released |-> {}, cancelled |-> {}, expired |-> FALSE,
         todo |-> {}, event |-> 0]

\* A handler that has just loaded row r.
Loaded(pc, op, r) ==
    [Idle EXCEPT !.pc = pc, !.op = op, !.req = r, !.snap = row[r], !.work = row[r]]

Become(t, state) == th' = [th EXCEPT ![t] = state]

\* The sweep goes on with the rows its query returned; a handler is done.
GoOnWith(todo) ==
    IF todo = {} THEN Idle
    ELSE [Idle EXCEPT !.pc = "sweep", !.op = "sweep", !.todo = todo]

Afterwards(t) == GoOnWith(th[t].todo)

\* A commit expires the row a session has loaded.
Expire(state) == [state EXCEPT !.snap = NoRow, !.expired = TRUE]

\* ... as a token refresh does, if one happened.
ExpireIf(refreshed, state) == IF refreshed THEN Expire(state) ELSE state

WorksOn(t, r) == th[t].req = r \/ r \in th[t].todo

\* Thread t may take up request r.
Free(t, r) ==
    /\ th[t].pc = "idle"
    /\ row[r].status # "absent"
    /\ "races" \in Conditions \/ \A u \in Threads : ~WorksOn(u, r)

\* Whether a token refresh committed the session during a calendar query.
Refreshes == IF "token_refresh" \in Conditions THEN BOOLEAN ELSE {FALSE}

\* _reject_if_past lets the call through.
NotPast(rw) == rw.slot \notin elapsed

-----------------------------------------------------------------------------
(* The reservation ledger                                                  *)

\* A broken ledger that forgets the confirmed seats.
IsFreeOffersOnly(i, s, offered, confirmed) ==
    \A o \in offered : o.who = i => <<o.slot, s>> \notin Overlap

\* DbReservationLedger.is_free, given the rows a session sees.  A confirmed
\* seat blocks the time its interview row holds now.
IsFree(i, s, offered, confirmed) ==
    /\ \A o \in offered : o.who = i => <<o.slot, s>> \notin Overlap
    /\ \A p \in confirmed : p.who = i => <<row[p.iv].slot, s>> \notin Overlap

\* The same, as thread t sees it: its own flushed changes included.
FreeFor(t, i) ==
    IsFree(i, th[t].work.slot, offers \ th[t].released, roster \ th[t].cancelled)

FreeInterviewers(t) == {i \in Interviewers : FreeFor(t, i)}

\* The OFFERED rows of the people who sit on seats K.
HeldOffers(r, seats, K) ==
    {o \in OffersOf(r) : o.seat \in K /\ o.who = seats[o.seat].who}

\* _find_offer: for each of these seats, one such row if there is any.
FoundOffers(r, seats, K) ==
    {D \in SUBSET HeldOffers(r, seats, K) :
        /\ \A o \in HeldOffers(r, seats, K) : \E d \in D : d.seat = o.seat
        /\ \A c, d \in D : c.seat = d.seat => c = d}

-----------------------------------------------------------------------------
(* Writing a row back                                                      *)

\* _persist_interview and the flush that follows: SQLAlchemy writes the
\* columns whose value differs from the one loaded, or all assigned columns
\* once the row is expired.  confirmed_start_utc is always rewritten, an
\* aware datetime never equals the naive one loaded.
Merge(cur, snap, next, expired) ==
    [status   |-> IF expired \/ next.status # snap.status THEN next.status ELSE cur.status,
     seats    |-> IF expired \/ next.seats # snap.seats THEN next.seats ELSE cur.seats,
     slot     |-> next.slot,
     feasible |-> cur.feasible,
     event    |-> IF expired \/ next.event # snap.event THEN next.event ELSE cur.event]

\* A broken sync that enrols every seat of the panel, accepted or not.
EveryoneOnRoster(r, seats) ==
    {[iv |-> r, seat |-> k, who |-> seats[k].who] : k \in SeatIndex}

\* _mark_offer_and_confirm and _sync_accepted_seats: every accepted seat of
\* the outcome gets its confirmed roster row.
AcceptedRoster(r, seats) ==
    {[iv |-> r, seat |-> k, who |-> seats[k].who] : k \in SeatsWith(seats, "accepted")}

-----------------------------------------------------------------------------
(* The handlers: what each does before its first commit                    *)

CreateRequest(r) ==
    /\ row[r].status = "absent"
    /\ row' = [row EXCEPT ![r].status = "collecting_availability"]
    /\ UNCHANGED <<offers, roster, calendar, made, elapsed, th>>

\* submit_availability up to its commit; the guard reads the row once.
SubmitAvailability(t, r) ==
    /\ Free(t, r)
    /\ row[r].status = "collecting_availability"
    /\ Become(t, Loaded("search", "submit", r))
    /\ UNCHANGED <<row, offers, roster, calendar, made, elapsed>>

\* find_feasible_slots never proposes a past slot; no slot means escalation.
FindFeasibleSlots(t) ==
    /\ th[t].pc = "search"
    /\ \E S \in SUBSET (Slots \ elapsed) :
         row' = [row EXCEPT
                   ![th[t].req].status = IF S = {} THEN "manual_scheduling_required"
                                         ELSE "awaiting_candidate_selection",
                   ![th[t].req].feasible = S]
    /\ Become(t, Idle)
    /\ UNCHANGED <<offers, roster, calendar, made, elapsed>>

\* select_slot: the slot comes from the cached feasibility result.
SelectSlot(t, r, s) ==
    /\ Free(t, r)
    /\ row[r].status = "awaiting_candidate_selection"
    /\ s \in row[r].feasible
    /\ Become(t, [Loaded("live", "select", r) EXCEPT
                    !.work = [@ EXCEPT !.status = "assigning_panel",
                                       !.seats = FreshSeats,
                                       !.slot = s,
                                       !.event = 0]])
    /\ UNCHANGED <<row, offers, roster, calendar, made, elapsed>>

\* The live recompute: assign, or escalate with every seat still pending.
AssignPanel(t) ==
    /\ th[t].pc = "live"
    /\ th[t].op = "select"
    /\ \E F \in SUBSET FreeInterviewers(t), refreshed \in Refreshes :
         Become(t, ExpireIf(refreshed,
                     IF Cardinality(F) < PanelistsRequired
                     THEN [th[t] EXCEPT !.pc = "persist",
                                        !.work.status = "manual_scheduling_required"]
                     ELSE [th[t] EXCEPT !.pc = "fill", !.feas = F]))
    /\ UNCHANGED <<row, offers, roster, calendar, made, elapsed>>

\* respond_to_seat: the actor holds the seat in the row just loaded.  An
\* acceptance changes only the copy; a decline goes on to the cascade.
RespondToSeat(t, r, k, accept) ==
    /\ Free(t, r)
    /\ HasInterview(row[r])
    /\ row[r].seats[k].status = "offered"
    /\ row[r].status # "cancelled" \/ "dead_offers" \in Conditions
    /\ \E refreshed \in Refreshes :
         Become(t, IF accept
                   THEN ExpireIf(refreshed, [Loaded("persist", "accept", r) EXCEPT
                                               !.work.seats = Accept(@, k),
                                               !.targets = {k}])
                   ELSE [Loaded("live", "decline", r) EXCEPT !.targets = {k}])
    /\ UNCHANGED <<row, offers, roster, calendar, made, elapsed>>

\* interviewer_cancel: the caller's confirmed roster rows are cancelled and
\* flushed first, before the engine has looked at the interview.  (A caller
\* with neither a seat nor such a row changes nothing and is left out.)
InterviewerCancel(t, r, i) ==
    LET seats == {k \in SeatsWith(row[r].seats, "accepted") : row[r].seats[k].who = i}
        rows  == {p \in RosterOf(r) : p.who = i}
    IN  /\ Free(t, r)
        /\ HasInterview(row[r])
        /\ NotPast(row[r])
        /\ seats # {} \/ rows # {}
        /\ Become(t, [Loaded("live", "interviewer_cancel", r) EXCEPT
                        !.targets = seats, !.cancelled = rows])
        /\ UNCHANGED <<row, offers, roster, calendar, made, elapsed>>

\* A broken sweep whose query does not look at the status.
SweepAnyStatus(t, r, expired, later) ==
    /\ Free(t, r)
    /\ HasInterview(row[r])
    /\ expired # {}
    /\ expired \subseteq SeatsWith(row[r].seats, "offered")
    /\ later = {}
    /\ Become(t, [Loaded("live", "sweep", r) EXCEPT !.targets = expired])
    /\ UNCHANGED <<row, offers, roster, calendar, made, elapsed>>

\* sweep_expired_offers: one query for the rows still assigning; r is the
\* first of them with expired seats, later are the rows the loop reaches next.
SweepExpiredOffers(t, r, expired, later) ==
    /\ Free(t, r)
    /\ row[r].status = "assigning_panel"
    /\ HasInterview(row[r])
    /\ expired # {}
    /\ expired \subseteq SeatsWith(row[r].seats, "offered")
    /\ \A q \in later : q # r /\ Free(t, q) /\ row[q].status = "assigning_panel"
    /\ Become(t, [Loaded("live", "sweep", r) EXCEPT !.targets = expired,
                                                   !.todo = later])
    /\ UNCHANGED <<row, offers, roster, calendar, made, elapsed>>

\* The next row of the same loop: it was loaded by the query, but a commit
\* since then expired it, so its columns, status included, are read anew.
SweepNext(t, r, expired) ==
    /\ th[t].pc = "sweep"
    /\ r \in th[t].todo
    /\ HasInterview(row[r])
    /\ expired # {}
    /\ expired \subseteq SeatsWith(row[r].seats, "offered")
    /\ Become(t, [Loaded("live", "sweep", r) EXCEPT !.targets = expired,
                                                   !.todo = th[t].todo \ {r}])
    /\ UNCHANGED <<row, offers, roster, calendar, made, elapsed>>

\* A row without an interview or without an expired seat is passed over.
SweepSkip(t, r) ==
    /\ th[t].pc = "sweep"
    /\ r \in th[t].todo
    /\ Become(t, GoOnWith(th[t].todo \ {r}))
    /\ UNCHANGED <<row, offers, roster, calendar, made, elapsed>>

-----------------------------------------------------------------------------
(* The cascade: release, offer seat by seat, write back                    *)

\* A broken check that lets whoever sits on the panel back out at any time.
CancelAllowedAnyTime(t) == th[t].targets # {}

\* interviewer_cancel is valid for a confirmed panelist of a live interview.
CancelAllowed(t) ==
    /\ th[t].targets # {}
    /\ th[t].work.status \in {"panel_complete", "assigning_panel"}

\* Free/busy query, then the engine gives the target seats back: release()
\* flushes the offers it finds, the seats become pending.
Reopening(t) ==
    /\ th[t].pc = "live"
    /\ th[t].op \in {"decline", "interviewer_cancel", "sweep"}
    /\ th[t].op = "interviewer_cancel" => CancelAllowed(t)
    /\ \E F \in SUBSET FreeInterviewers(t), refreshed \in Refreshes,
          D \in FoundOffers(th[t].req, th[t].work.seats, th[t].targets) :
         /\ roster' = IF refreshed THEN roster \ th[t].cancelled ELSE roster
         /\ Become(t, ExpireIf(refreshed, [th[t] EXCEPT
                         !.pc = "fill",
                         !.feas = F,
                         !.targets = {},
                         !.released = D,
                         !.cancelled = IF refreshed THEN {} ELSE @,
                         !.work.seats = Reopen(@, th[t].targets),
                         !.work.status = IF th[t].op = "interviewer_cancel"
                                         THEN "assigning_panel" ELSE @]))
    /\ UNCHANGED <<row, offers, calendar, made, elapsed>>

\* The engine refuses: the session rolls back what is not committed yet.
RefuseCancel(t) ==
    /\ th[t].pc = "live"
    /\ th[t].op = "interviewer_cancel"
    /\ ~CancelAllowed(t)
    /\ \E refreshed \in Refreshes :
         roster' = IF refreshed THEN roster \ th[t].cancelled ELSE roster
    /\ Become(t, Idle)
    /\ UNCHANGED <<row, offers, calendar, made, elapsed>>

\* A broken pick that trusts the earlier feasibility query.
CandidatesUnchecked(t, k) == th[t].feas \ Excluded(th[t].work.seats, k)

\* _pick_next: feasible at the last query, not excluded, free in the ledger.
Candidates(t, k) ==
    {i \in th[t].feas \ Excluded(th[t].work.seats, k) : FreeFor(t, i)}

\* The fill loop goes on while seats are pending.
WithSeats(t, seats) ==
    IF SeatsWith(seats, "pending") = {}
    THEN [th[t] EXCEPT !.work.seats = seats, !.pc = "persist", !.feas = {}]
    ELSE [th[t] EXCEPT !.work.seats = seats]

\* _pick_next and reserve(): the offer row is inserted and the session
\* committed, with everything it had flushed.
OfferSeat(t, k, i) ==
    /\ th[t].pc = "fill"
    /\ IsNextPending(th[t].work.seats, k)
    /\ i \in Candidates(t, k)
    /\ offers' = (offers \ th[t].released) \cup
                 {[iv |-> th[t].req, seat |-> k, who |-> i, slot |-> th[t].work.slot]}
    /\ roster' = roster \ th[t].cancelled
    /\ Become(t, Expire([WithSeats(t, OfferTo(th[t].work.seats, k, i)) EXCEPT
                           !.released = {}, !.cancelled = {}]))
    /\ UNCHANGED <<row, calendar, made, elapsed>>

\* Nobody left: the seat is exhausted.
ExhaustSeat(t, k) ==
    /\ th[t].pc = "fill"
    /\ IsNextPending(th[t].work.seats, k)
    /\ Candidates(t, k) = {}
    /\ Become(t, WithSeats(t, Exhaust(th[t].work.seats, k)))
    /\ UNCHANGED <<row, offers, roster, calendar, made, elapsed>>

\* _resolve, _persist_interview, the roster rows, and the handler's commit.
Persist(t) ==
    LET r    == th[t].req
        next == [th[t].work EXCEPT !.status = Resolve(@, th[t].work.seats)]
        kept == IF th[t].op = "accept" THEN th[t].targets ELSE {}
    IN  /\ th[t].pc = "persist"
        /\ row' = [row EXCEPT ![r] = Merge(@, th[t].snap, next, th[t].expired)]
        /\ \E D \in FoundOffers(r, next.seats, kept) :
             offers' = offers \ (th[t].released \cup D)
        /\ roster' = (roster \ th[t].cancelled) \cup AcceptedRoster(r, next.seats)
        /\ Become(t, IF next.status = "panel_complete"
                     THEN [Idle EXCEPT !.pc = "dispatch", !.op = th[t].op,
                                       !.req = r, !.todo = th[t].todo]
                     ELSE Afterwards(t))
        /\ UNCHANGED <<calendar, made, elapsed>>

-----------------------------------------------------------------------------
(* The calendar event                                                      *)

\* dispatch_confirmed_booking reloads the row: no event is made when it has
\* one already (its attendees are patched), or when the recruiter's Google
\* connection is dead or refuses the call.
SkipDispatch(t) ==
    /\ th[t].pc = "dispatch"
    /\ \/ ~HasInterview(row[th[t].req])
       \/ row[th[t].req].event # 0
       \/ "failures" \in Conditions
       \/ made[th[t].req] = MaxEvents
    /\ Become(t, Afterwards(t))
    /\ UNCHANGED <<row, offers, roster, calendar, made, elapsed>>

\* A broken dispatch that makes an event each time the panel completes.
CreateEventAgain(t) ==
    LET r == th[t].req
    IN  /\ th[t].pc = "dispatch"
        /\ HasInterview(row[r])
        /\ made[r] < MaxEvents
        /\ made' = [made EXCEPT ![r] = @ + 1]
        /\ calendar' = calendar \cup {[iv |-> r, id |-> made[r] + 1]}
        /\ Become(t, [th[t] EXCEPT !.pc = "record", !.event = made[r] + 1])
        /\ UNCHANGED <<row, offers, roster, elapsed>>

\* events.insert has succeeded; the row does not know yet.
CreateEvent(t) ==
    LET r == th[t].req
    IN  /\ th[t].pc = "dispatch"
        /\ HasInterview(row[r])
        /\ row[r].event = 0
        /\ made[r] < MaxEvents
        /\ made' = [made EXCEPT ![r] = @ + 1]
        /\ calendar' = calendar \cup {[iv |-> r, id |-> made[r] + 1]}
        /\ Become(t, [th[t] EXCEPT !.pc = "record", !.event = made[r] + 1])
        /\ UNCHANGED <<row, offers, roster, elapsed>>

RecordEvent(t) ==
    /\ th[t].pc = "record"
    /\ row' = [row EXCEPT ![th[t].req].event = th[t].event]
    /\ Become(t, Afterwards(t))
    /\ UNCHANGED <<offers, roster, calendar, made, elapsed>>

-----------------------------------------------------------------------------
(* The candidate's way out                                                 *)

CandidateCancel(t, r) ==
    /\ Free(t, r)
    /\ NotPast(row[r])
    /\ Become(t, Loaded("commit", "cancel", r))
    /\ UNCHANGED <<row, offers, roster, calendar, made, elapsed>>

CandidateReschedule(t, r) ==
    /\ "reschedules" \in Conditions
    /\ Free(t, r)
    /\ NotPast(row[r])
    /\ Become(t, Loaded("commit", "reschedule", r))
    /\ UNCHANGED <<row, offers, roster, calendar, made, elapsed>>

\* A broken release that frees the offers but not the confirmed seats.
ReleaseOffersOnly(t) ==
    LET r    == th[t].req
        live == HasInterview(th[t].snap) /\ th[t].snap.status # "cancelled"
    IN  /\ offers' = IF live THEN offers \ OffersOf(r) ELSE offers
        /\ UNCHANGED roster

\* release_interview, skipped for a row without a live interview.
ReleaseInterview(t) ==
    LET r    == th[t].req
        live == HasInterview(th[t].snap) /\ th[t].snap.status # "cancelled"
    IN  /\ offers' = IF live THEN offers \ OffersOf(r) ELSE offers
        /\ roster' = IF live THEN roster \ RosterOf(r) ELSE roster

\* A column set to a new value: written when it differs from the one loaded.
Written(loaded, new, current) == IF loaded # new THEN new ELSE current

\* The event to delete is the one of the interview as it was loaded.
DeleteOr(t, otherwise) ==
    IF HasInterview(th[t].snap) /\ th[t].snap.event # 0
    THEN [th[t] EXCEPT !.pc = "delete"] ELSE otherwise

CommitCancel(t) ==
    LET r    == th[t].req
        snap == th[t].snap
        live == HasInterview(snap) /\ snap.status # "cancelled"
    IN  /\ th[t].pc = "commit"
        /\ th[t].op = "cancel"
        /\ ReleaseInterview(t)
        /\ row' = [row EXCEPT
                     ![r].status = Written(snap.status, "cancelled", @),
                     ![r].slot   = IF live THEN snap.slot ELSE @,
                     ![r].event  = Written(snap.event, 0, @)]
        /\ Become(t, DeleteOr(t, Idle))
        /\ UNCHANGED <<calendar, made, elapsed>>

CommitReschedule(t) ==
    LET r    == th[t].req
        snap == th[t].snap
    IN  /\ th[t].pc = "commit"
        /\ th[t].op = "reschedule"
        /\ ReleaseInterview(t)
        /\ row' = [row EXCEPT
                     ![r].status   = Written(snap.status, "collecting_availability", @),
                     ![r].seats    = Written(snap.seats, NoSeats, @),
                     ![r].slot     = Written(snap.slot, NoSlot, @),
                     ![r].feasible = Written(snap.feasible, {}, @),
                     ![r].event    = Written(snap.event, 0, @)]
        /\ Become(t, DeleteOr(t, [th[t] EXCEPT !.pc = "resubmit"]))
        /\ UNCHANGED <<calendar, made, elapsed>>

\* cancel_event; a refused call is logged and forgotten.
DeleteEvent(t) ==
    LET r == th[t].req
    IN  /\ th[t].pc = "delete"
        /\ \/ calendar' = calendar \ {[iv |-> r, id |-> th[t].snap.event]}
           \/ "failures" \in Conditions /\ UNCHANGED calendar
        /\ Become(t, IF th[t].op = "reschedule"
                     THEN [th[t] EXCEPT !.pc = "resubmit"] ELSE Idle)
        /\ UNCHANGED <<row, offers, roster, made, elapsed>>

\* candidate_reschedule ends in submit_availability, guard included.
Resubmit(t) ==
    /\ th[t].pc = "resubmit"
    /\ Become(t, IF row[th[t].req].status = "collecting_availability"
                 THEN Loaded("search", "submit", th[t].req) ELSE Idle)
    /\ UNCHANGED <<row, offers, roster, calendar, made, elapsed>>

-----------------------------------------------------------------------------
(* The environment                                                         *)

\* An exception rolls the session back (the sweep goes on with its next
\* row), or the process dies: what was committed stays.
Abort(t) ==
    /\ "failures" \in Conditions
    /\ th[t].pc # "idle"
    /\ \/ Become(t, Afterwards(t))
       \/ Become(t, Idle)
    /\ UNCHANGED <<row, offers, roster, calendar, made, elapsed>>

\* The start of slot s goes by.
Elapse(s) ==
    /\ "time" \in Conditions
    /\ s \notin elapsed
    /\ elapsed' = elapsed \cup {s}
    /\ UNCHANGED <<row, offers, roster, calendar, made, th>>

-----------------------------------------------------------------------------
Init ==
    /\ row = [r \in Requests |-> NoRow]
    /\ offers = {}
    /\ roster = {}
    /\ calendar = {}
    /\ made = [r \in Requests |-> 0]
    /\ elapsed = {}
    /\ th = [t \in Threads |-> Idle]

Handle(t, r) ==
    \/ SubmitAvailability(t, r)
    \/ \E s \in Slots : SelectSlot(t, r, s)
    \/ \E k \in SeatIndex, accept \in BOOLEAN : RespondToSeat(t, r, k, accept)
    \/ \E i \in Interviewers : InterviewerCancel(t, r, i)
    \/ CandidateCancel(t, r)
    \/ CandidateReschedule(t, r)

Sweep(t, r) ==
    \E expired \in SUBSET SeatIndex, later \in SUBSET Requests :
        SweepExpiredOffers(t, r, expired, later)

SweepOn(t) ==
    \/ \E r \in Requests, expired \in SUBSET SeatIndex : SweepNext(t, r, expired)
    \/ \E r \in Requests : SweepSkip(t, r)

\* One step of a handler or job that has started.
Continue(t) ==
    \/ FindFeasibleSlots(t)
    \/ AssignPanel(t)
    \/ Reopening(t)
    \/ RefuseCancel(t)
    \/ \E k \in SeatIndex, i \in Interviewers : OfferSeat(t, k, i)
    \/ \E k \in SeatIndex : ExhaustSeat(t, k)
    \/ Persist(t)
    \/ SkipDispatch(t)
    \/ CreateEvent(t)
    \/ RecordEvent(t)
    \/ CommitCancel(t)
    \/ CommitReschedule(t)
    \/ DeleteEvent(t)
    \/ Resubmit(t)
    \/ SweepOn(t)

Next ==
    \/ \E r \in Requests : CreateRequest(r)
    \/ \E t \in Threads, r \in Requests : Handle(t, r) \/ Sweep(t, r)
    \/ \E t \in Threads : Continue(t) \/ Abort(t)
    \/ \E s \in Slots : Elapse(s)

Spec == Init /\ [][Next]_vars

\* A handler that has started runs on.  The offer-expiry job fires every few
\* minutes in a thread of its own whatever the handlers do; here it may find
\* its request busy, so it is strongly fair: it gets its turn in between.
Fairness ==
    /\ \A t \in Threads : WF_vars(Continue(t))
    /\ \A r \in Requests : SF_vars(\E t \in Threads : Sweep(t, r))

FairSpec == Spec /\ Fairness

-----------------------------------------------------------------------------
(* Properties that hold whatever the environment does                      *)

TypeOK ==
    /\ row \in [Requests -> Row]
    /\ offers \subseteq Offer
    /\ roster \subseteq Participant
    /\ calendar \subseteq Event
    /\ made \in [Requests -> 0 .. MaxEvents]
    /\ elapsed \subseteq Slots
    /\ th \in [Threads -> Thread]

\* Two outstanding offers of one interviewer never overlap in time, whatever
\* handlers race for that person and wherever one of them dies: the check and
\* the insert of reserve() are one critical section (db_reservation_ledger.py).
OfferedNeverOverlap ==
    \A a, b \in offers :
        a.who = b.who /\ <<a.slot, b.slot>> \in Overlap => a = b

\* No panel as stored has the same interviewer on two seats, even when the
\* ledger has lost track of who sits there (fill_pending_seats, _held_ids).
PanelsDistinct == \A r \in Requests : PanelistsDistinct(row[r].seats)

\* No stored panel shows an interviewer on a seat which that same panel says
\* they gave back: a seat once left is not offered to its leaver again.
DeclinersExcluded == \A r \in Requests : DeclinersStayAway(row[r].seats)

\* The inductive invariant behind them.  The panel a handler carries is as
\* sound as a stored one, the seats it is about to reopen are held, and a
\* handler that may still offer or store a seat knows its request and slot.
PanelOK(seats) ==
    /\ PanelistsDistinct(seats)
    /\ DeclinersStayAway(seats)
    /\ \A k \in SeatIndex : Held(seats, k) => seats[k].who # NoOne

ThreadOK(state) ==
    /\ PanelOK(state.work.seats)
    /\ state.pc \notin {"idle", "sweep"} => state.req \in Requests
    /\ state.pc \in {"live", "fill", "persist"} => state.work.slot \in Slots
    /\ state.pc = "live" => \A k \in state.targets : Held(state.work.seats, k)

IInv ==
    /\ TypeOK
    /\ OfferedNeverOverlap
    /\ \A r \in Requests : PanelOK(row[r].seats)
    /\ \A t \in Threads : ThreadOK(th[t])

-----------------------------------------------------------------------------
(* Properties of requests that are worked on by one handler at a time      *)

AtRest(r) == \A t \in Threads : ~WorksOn(t, r)

\* The row has a panel whose people are meant to be reserved.
Reserving(r) == HasInterview(row[r]) /\ row[r].status # "cancelled"

SeatsHeld(r, status) ==
    IF Reserving(r)
    THEN {[iv |-> r, seat |-> k, who |-> row[r].seats[k].who] :
             k \in SeatsWith(row[r].seats, status)}
    ELSE {}

\* Between handlers, the two records of who sits where agree: seats_json on
\* the interview row, and the ledger's offer rows and confirmed roster rows.
\* A cancelled or rescheduled interview holds nobody.
LedgerMatchesSeats ==
    \A r \in Requests : AtRest(r) =>
        /\ {[iv |-> o.iv, seat |-> o.seat, who |-> o.who] : o \in OffersOf(r)}
              = SeatsHeld(r, "offered")
        /\ RosterOf(r) = SeatsHeld(r, "accepted")
        /\ \A o \in OffersOf(r) : o.slot = row[r].slot

\* Everything that takes an interviewer's time: offers and confirmed seats.
Bookings ==
    offers \cup {[iv |-> p.iv, seat |-> p.seat, who |-> p.who, slot |-> row[p.iv].slot] :
                    p \in roster}

\* At no moment is one interviewer held, by offer or confirmation, for two
\* seats at overlapping times: the promise of the reservation ledger.
NoDoubleBooking ==
    \A a, b \in Bookings :
        a.who = b.who /\ <<a.slot, b.slot>> \in Overlap => a = b

\* Between handlers the interview's status tells the truth about its seats:
\* complete panels are complete, an assigning one waits for an answer, and
\* one handed to a human has run out of people or never found enough.
StatusMatchesSeats ==
    \A r \in Requests : AtRest(r) /\ HasInterview(row[r]) =>
        LET seats == row[r].seats
        IN  CASE row[r].status = "panel_complete" ->
                   SeatsWith(seats, "accepted") = SeatIndex
              [] row[r].status = "assigning_panel" ->
                   /\ SeatsWith(seats, "offered") # {}
                   /\ \A k \in SeatIndex : Held(seats, k)
              [] row[r].status = "manual_scheduling_required" ->
                   \/ SeatsWith(seats, "exhausted") # {}
                   \/ seats = FreshSeats
              [] OTHER -> TRUE

\* Between handlers the recruiter's calendar holds exactly the event the row
\* points at, and none for an interview that is off: no second event when a
\* replacement completes the panel, none left after cancel or reschedule.
EventMatchesRow ==
    \A r \in Requests : AtRest(r) =>
        /\ {e.id : e \in {x \in calendar : x.iv = r}} = {row[r].event} \ {0}
        /\ row[r].event # 0 => Reserving(r)

\* A confirmed seat changes only when its holder gives it back, or when the
\* candidate reschedules and the whole panel goes: another seat's decline,
\* timeout, acceptance or cancellation leaves it alone.
AcceptedSeatKept ==
    [][\A r \in Requests, k \in SeatIndex :
          row[r].seats[k].status = "accepted" /\ row'[r].seats[k] # row[r].seats[k]
          => \/ row[r].seats[k].who \in row'[r].seats[k].declined
             \/ row'[r].seats = NoSeats]_row

\* A panel under assignment does not stay so: unanswered offers expire, and
\* the cascade ends with a full panel, a human, or the candidate's way out.
AssigningSettles ==
    \A r \in Requests :
        row[r].status = "assigning_panel" ~> row[r].status # "assigning_panel"

\* A cancelled interview stays cancelled until its candidate starts over.
CancelledIsFinal ==
    [][\A r \in Requests :
          row[r].status = "cancelled" /\ row'[r].status # "cancelled"
          => row'[r].status = "collecting_availability"]_row

-----------------------------------------------------------------------------
(* The story the rows tell                                                 *)

\* The row without the event, which the handlers record afterwards.
Story(rw) == [status |-> rw.status, seats |-> rw.seats, slot |-> rw.slot,
              feasible |-> rw.feasible]

Stories == [r \in Requests |-> Story(row[r])]

Lifecycle == INSTANCE InterviewLifecycle WITH interview <- Stories

\* Handlers commit in their middle, lose what they had loaded, and die; still
\* the rows change as if each call that reaches its last commit happened there
\* all at once, and the others had not been made.
ImplementsLifecycle == Lifecycle!Spec
=============================================================================
