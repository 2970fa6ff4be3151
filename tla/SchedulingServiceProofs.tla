----------------------- MODULE SchedulingServiceProofs ----------------------
(***************************************************************************)
(* Type correctness of the scheduling service and the safety of its panels *)
(* and offers, for any number of threads, requests, interviewers, seats    *)
(* and slots and under every environment.                                  *)
(***************************************************************************)
EXTENDS SchedulingService, TLAPS

USE PanelAssumption, ServiceAssumption

-----------------------------------------------------------------------------
(* The operators on seats keep a sound panel sound.                        *)

\* A panel that holds nobody is sound.
LEMMA EmptyPanels ==
    /\ NoSeats \in Panels /\ PanelOK(NoSeats)
    /\ FreshSeats \in Panels /\ PanelOK(FreshSeats)
BY DEF NoSeats, FreshSeats, Panels, Seat, SeatStatus, PanelOK, Held,
       PanelistsDistinct, DeclinersStayAway

\* fill_pending_seats offers a pending seat to somebody it may not exclude.
LEMMA OfferToSound ==
    ASSUME NEW seats \in Panels, PanelOK(seats),
           NEW k \in SeatIndex, seats[k].status = "pending",
           NEW i \in Interviewers \ Excluded(seats, k)
    PROVE  OfferTo(seats, k, i) \in Panels /\ PanelOK(OfferTo(seats, k, i))
<1> DEFINE after == OfferTo(seats, k, i)
<1>1. after \in Panels
    BY DEF OfferTo, Panels, Seat, SeatStatus
<1>2. /\ after[k] = [status |-> "offered", who |-> i, declined |-> seats[k].declined]
      /\ \A j \in SeatIndex : j # k => after[j] = seats[j]
    BY DEF OfferTo, Panels, Seat
<1>3. \A j \in SeatIndex : j # k /\ Held(seats, j) => seats[j].who # i
    BY DEF Excluded, HeldIds
<1>4. i \notin seats[k].declined
    BY DEF Excluded
<1> HIDE DEF after
<1>5. \A j \in SeatIndex : j # k => (Held(after, j) <=> Held(seats, j))
    BY <1>2 DEF Held
<1>6. PanelistsDistinct(after)
    BY <1>2, <1>3, <1>5 DEF PanelOK, PanelistsDistinct
<1>7. DeclinersStayAway(after)
    BY <1>2, <1>4, <1>5 DEF PanelOK, DeclinersStayAway
<1>8. \A j \in SeatIndex : Held(after, j) => after[j].who # NoOne
    BY <1>2, <1>5 DEF PanelOK
<1>. QED BY <1>1, <1>6, <1>7, <1>8 DEF PanelOK, after

\* A seat left by everybody the engine could ask holds nobody.
LEMMA ExhaustSound ==
    ASSUME NEW seats \in Panels, PanelOK(seats), NEW k \in SeatIndex
    PROVE  Exhaust(seats, k) \in Panels /\ PanelOK(Exhaust(seats, k))
BY DEF Exhaust, Panels, Seat, SeatStatus, PanelOK, Held, PanelistsDistinct,
       DeclinersStayAway

\* An acceptance changes nobody's seat.
LEMMA AcceptSound ==
    ASSUME NEW seats \in Panels, PanelOK(seats),
           NEW k \in SeatIndex, seats[k].status = "offered"
    PROVE  Accept(seats, k) \in Panels /\ PanelOK(Accept(seats, k))
<1> DEFINE after == Accept(seats, k)
<1>1. after \in Panels
    BY DEF Accept, Panels, Seat, SeatStatus
<1>2. \A j \in SeatIndex : /\ after[j].who = seats[j].who
                           /\ after[j].declined = seats[j].declined
                           /\ Held(after, j) <=> Held(seats, j)
    BY DEF Accept, Panels, Seat, Held
<1> HIDE DEF after
<1>. QED BY <1>1, <1>2 DEF PanelOK, PanelistsDistinct, DeclinersStayAway, after

\* Seats given back by the people who held them hold nobody, and the others
\* are as they were.
LEMMA ReopenSound ==
    ASSUME NEW seats \in Panels, PanelOK(seats), NEW K \in SUBSET SeatIndex,
           \A k \in K : Held(seats, k)
    PROVE  Reopen(seats, K) \in Panels /\ PanelOK(Reopen(seats, K))
<1> DEFINE after == Reopen(seats, K)
<1>1. \A k \in K : seats[k].who \in Interviewers
    BY DEF PanelOK, Panels, Seat
<1>2. after \in Panels
    BY <1>1 DEF Reopen, Panels, Seat, SeatStatus
<1>3. \A j \in SeatIndex : /\ Held(after, j) => j \notin K /\ Held(seats, j)
                           /\ j \notin K => after[j] = seats[j]
    BY DEF Reopen, Held
<1> HIDE DEF after
<1>. QED BY <1>2, <1>3 DEF PanelOK, PanelistsDistinct, DeclinersStayAway, after

-----------------------------------------------------------------------------
(* Threads                                                                 *)

GoodThread(state) == state \in Thread /\ ThreadOK(state)

\* A row with nothing in it is a row.
LEMMA NoRowTyped == NoRow \in Row
BY EmptyPanels DEF NoRow, Row, Statuses, InterviewStatuses

\* A thread between two handlers is sound.
LEMMA IdleGood == GoodThread(Idle)
BY EmptyPanels, NoRowTyped
   DEF GoodThread, Idle, Thread, ThreadOK, NoRow, Pcs, Ops

\* So is a thread on its way to the sweep's next row.
LEMMA GoOnGood ==
    ASSUME NEW todo \in SUBSET Requests
    PROVE  GoodThread(GoOnWith(todo))
<1>1. CASE todo = {}
    BY <1>1, IdleGood DEF GoOnWith
<1>2. CASE todo # {}
    <2> DEFINE state == [Idle EXCEPT !.pc = "sweep", !.op = "sweep", !.todo = todo]
    <2>1. state \in Thread
        BY IdleGood DEF GoodThread, Thread, Pcs, Ops
    <2>2. state.pc = "sweep" /\ state.work = NoRow
        BY DEF Idle
    <2>3. ThreadOK(state)
        BY <2>2, EmptyPanels DEF ThreadOK, NoRow
    <2>. QED BY <1>2, <2>1, <2>3 DEF GoOnWith, GoodThread
<1>. QED BY <1>1, <1>2

\* A handler that has just loaded a row, and what it sees.
LEMMA LoadedTyped ==
    ASSUME row \in [Requests -> Row], NEW r \in Requests, NEW pc \in Pcs, NEW op \in Ops
    PROVE  /\ Loaded(pc, op, r) \in Thread
           /\ Loaded(pc, op, r).pc = pc
           /\ Loaded(pc, op, r).req = r
           /\ Loaded(pc, op, r).work = row[r]
           /\ Loaded(pc, op, r).targets = {}
<1>1. Loaded(pc, op, r) \in Thread
    BY IdleGood DEF GoodThread, Loaded, Thread
<1>. QED BY <1>1 DEF Loaded, Idle

\* Forgetting the loaded copy of the row loses nothing that matters.
LEMMA ExpireGood ==
    ASSUME NEW state, GoodThread(state)
    PROVE  /\ GoodThread(Expire(state))
           /\ \A refreshed \in BOOLEAN : GoodThread(ExpireIf(refreshed, state))
<1>1. GoodThread(Expire(state))
    BY NoRowTyped DEF GoodThread, Expire, Thread, ThreadOK
<1>. QED BY <1>1 DEF ExpireIf

\* A step that only moves a thread to a sound state keeps all threads sound.
LEMMA BecomeGood ==
    ASSUME IInv, NEW t \in Threads, NEW state, GoodThread(state), Become(t, state)
    PROVE  /\ th' \in [Threads -> Thread]
           /\ \A u \in Threads : ThreadOK(th'[u])
BY DEF IInv, TypeOK, Become, GoodThread

\* ... and the invariant, when it changes nothing else.
LEMMA QuietStep ==
    ASSUME IInv, NEW t \in Threads, NEW state, GoodThread(state), Become(t, state),
           UNCHANGED <<row, offers, roster, calendar, made, elapsed>>
    PROVE  IInv'
<1>1. /\ th' \in [Threads -> Thread]
      /\ \A u \in Threads : ThreadOK(th'[u])
    BY BecomeGood
<1>. QED BY <1>1 DEF IInv, TypeOK, OfferedNeverOverlap

\* A step that rewrites one row keeps all rows sound if the new one is.
LEMMA RowGood ==
    ASSUME IInv, NEW r \in Requests, NEW rw \in Row, PanelOK(rw.seats),
           row' = [row EXCEPT ![r] = rw]
    PROVE  /\ row' \in [Requests -> Row]
           /\ \A q \in Requests : PanelOK(row'[q].seats)
BY DEF IInv, TypeOK

-----------------------------------------------------------------------------
(* Steps in which a handler starts                                         *)

\* The candidate's handlers that load a row and come back to it later.
LEMMA CandidateStarts ==
    ASSUME IInv, NEW t \in Threads, NEW r \in Requests,
           \/ SubmitAvailability(t, r)
           \/ CandidateCancel(t, r)
           \/ CandidateReschedule(t, r)
    PROVE  IInv'
<1>1. ASSUME NEW pc \in {"search", "commit"}, NEW op \in {"submit", "cancel", "reschedule"}
      PROVE  GoodThread(Loaded(pc, op, r))
    <2> DEFINE state == Loaded(pc, op, r)
    <2>1. pc \in Pcs /\ op \in Ops /\ row \in [Requests -> Row]
        BY <1>1 DEF IInv, TypeOK, Pcs, Ops
    <2>2. state \in Thread /\ state.pc = pc /\ state.req = r /\ state.work = row[r]
        BY <2>1, LoadedTyped
    <2> HIDE DEF state
    <2>. QED BY <1>1, <2>2 DEF IInv, GoodThread, ThreadOK, state
<1>2. \E pc \in {"search", "commit"}, op \in {"submit", "cancel", "reschedule"} :
        Become(t, Loaded(pc, op, r))
    BY DEF SubmitAvailability, CandidateCancel, CandidateReschedule
<1>3. UNCHANGED <<row, offers, roster, calendar, made, elapsed>>
    BY DEF SubmitAvailability, CandidateCancel, CandidateReschedule
<1>. QED BY <1>1, <1>2, <1>3, QuietStep

\* The panel a selection opens holds nobody yet.
LEMMA SelectStarts ==
    ASSUME IInv, NEW t \in Threads, NEW r \in Requests, NEW s \in Slots,
           SelectSlot(t, r, s)
    PROVE  IInv'
<1> DEFINE old == Loaded("live", "select", r)
           new == [row[r] EXCEPT !.status = "assigning_panel", !.seats = FreshSeats,
                                 !.slot = s, !.event = 0]
           state == [old EXCEPT !.work = new]
<1>1. /\ old \in Thread
      /\ old.pc = "live" /\ old.req = r /\ old.work = row[r] /\ old.targets = {}
    BY LoadedTyped DEF IInv, TypeOK, Pcs, Ops
<1>2. /\ new \in Row
      /\ new.seats = FreshSeats /\ new.slot = s
    <2>1. row[r] \in Row
        BY DEF IInv, TypeOK
    <2>2. 0 \in 0 .. MaxEvents
        OBVIOUS
    <2>. QED BY <2>1, <2>2, EmptyPanels DEF Row, Statuses, InterviewStatuses
<1>3. Become(t, [old EXCEPT !.work = [@ EXCEPT !.status = "assigning_panel",
                                               !.seats = FreshSeats,
                                               !.slot = s, !.event = 0]])
    BY DEF SelectSlot
<1> HIDE DEF old, new
<1>4. GoodThread(state)
    BY <1>1, <1>2, EmptyPanels DEF GoodThread, Thread, ThreadOK
<1>5. Become(t, state)
    BY <1>1, <1>3 DEF new, Thread
<1>. QED BY <1>4, <1>5, QuietStep DEF SelectSlot

\* A handler that has loaded an interview whose target seats are held is ready
\* to give them back.
LEMMA TargetsGood ==
    ASSUME IInv, NEW r \in Requests, HasInterview(row[r]), NEW op \in Ops,
           NEW K \in SUBSET SeatIndex, \A k \in K : Held(row[r].seats, k)
    PROVE  LET state == [Loaded("live", op, r) EXCEPT !.targets = K]
           IN  /\ GoodThread(state)
               /\ \A C \in SUBSET Participant : GoodThread([state EXCEPT !.cancelled = C])
               /\ \A todo \in SUBSET Requests : GoodThread([state EXCEPT !.todo = todo])
<1> DEFINE old == Loaded("live", op, r)
           state == [old EXCEPT !.targets = K]
<1>1. /\ old \in Thread
      /\ old.pc = "live" /\ old.req = r /\ old.work = row[r]
    BY LoadedTyped DEF IInv, TypeOK, Pcs
<1>2. row[r].slot \in Slots
    BY DEF IInv, TypeOK, Row, HasInterview
<1>3. PanelOK(row[r].seats)
    BY DEF IInv
<1> HIDE DEF old
<1>4. state \in Thread /\ state.pc = "live" /\ state.req = r /\ state.work = row[r] /\ state.targets = K
    BY <1>1 DEF Thread
<1> HIDE DEF state
<1>5. GoodThread(state)
    BY <1>2, <1>3, <1>4 DEF GoodThread, ThreadOK
<1>6. ASSUME NEW C \in SUBSET Participant
      PROVE  GoodThread([state EXCEPT !.cancelled = C])
    BY <1>4, <1>5 DEF GoodThread, Thread, ThreadOK
<1>7. ASSUME NEW todo \in SUBSET Requests
      PROVE  GoodThread([state EXCEPT !.todo = todo])
    BY <1>4, <1>5 DEF GoodThread, Thread, ThreadOK
<1>. QED BY <1>5, <1>6, <1>7 DEF state, old

\* An answer to an offer, whether it changes the copy or starts the cascade.
LEMMA RespondStarts ==
    ASSUME IInv, NEW t \in Threads, NEW r \in Requests, NEW k \in SeatIndex,
           NEW accept \in BOOLEAN, RespondToSeat(t, r, k, accept)
    PROVE  IInv'
<1>1. HasInterview(row[r]) /\ row[r].seats[k].status = "offered"
    BY DEF RespondToSeat
<1>2. CASE accept
    <2> DEFINE old == Loaded("persist", "accept", r)
               seats == Accept(row[r].seats, k)
               state == [old EXCEPT !.work.seats = seats, !.targets = {k}]
    <2>1. /\ old \in Thread
          /\ old.pc = "persist" /\ old.req = r /\ old.work = row[r]
        BY LoadedTyped DEF IInv, TypeOK, Pcs, Ops
    <2>2. row[r] \in Row /\ row[r].slot \in Slots /\ row[r].seats \in Panels
        BY <1>1 DEF IInv, TypeOK, Row, HasInterview
    <2>3. seats \in Panels /\ PanelOK(seats)
        BY <1>1, <2>2, AcceptSound DEF IInv
    <2>4. \E refreshed \in Refreshes :
            Become(t, ExpireIf(refreshed, [old EXCEPT !.work.seats = Accept(@, k),
                                                      !.targets = {k}]))
        BY <1>2 DEF RespondToSeat
    <2> HIDE DEF old
    <2>5. [old EXCEPT !.work.seats = Accept(@, k), !.targets = {k}] = state
        BY <2>1 DEF Thread
    <2> HIDE DEF seats
    <2>6. /\ state \in Thread
          /\ state.pc = "persist" /\ state.req = r
          /\ state.work.seats = seats /\ state.work.slot = row[r].slot
        BY <2>1, <2>2, <2>3 DEF Thread, Row
    <2> HIDE DEF state
    <2>7. GoodThread(state)
        BY <2>2, <2>3, <2>6 DEF GoodThread, ThreadOK
    <2>8. \E refreshed \in BOOLEAN : Become(t, ExpireIf(refreshed, state))
        BY <2>4, <2>5 DEF Refreshes
    <2>. QED BY <2>7, <2>8, ExpireGood, QuietStep DEF RespondToSeat
<1>3. CASE ~accept
    <2>1. Become(t, [Loaded("live", "decline", r) EXCEPT !.targets = {k}])
        BY <1>3 DEF RespondToSeat
    <2>2. GoodThread([Loaded("live", "decline", r) EXCEPT !.targets = {k}])
        BY <1>1, TargetsGood DEF Held, Ops
    <2>. QED BY <2>1, <2>2, QuietStep DEF RespondToSeat
<1>. QED BY <1>2, <1>3

\* A confirmed panelist backs out.
LEMMA InterviewerCancelStarts ==
    ASSUME IInv, NEW t \in Threads, NEW r \in Requests, NEW i \in Interviewers,
           InterviewerCancel(t, r, i)
    PROVE  IInv'
<1> DEFINE K == {k \in SeatsWith(row[r].seats, "accepted") : row[r].seats[k].who = i}
           C == {p \in RosterOf(r) : p.who = i}
           state == [Loaded("live", "interviewer_cancel", r) EXCEPT !.targets = K]
<1>1. K \in SUBSET SeatIndex /\ \A k \in K : Held(row[r].seats, k)
    BY DEF SeatsWith, Held
<1>2. C \in SUBSET Participant
    BY DEF RosterOf, IInv, TypeOK
<1>3. HasInterview(row[r]) /\ Become(t, [state EXCEPT !.cancelled = C])
    BY DEF InterviewerCancel
<1>4. GoodThread([state EXCEPT !.cancelled = C])
    BY <1>1, <1>2, <1>3, TargetsGood DEF Ops
<1>. QED BY <1>3, <1>4, QuietStep DEF InterviewerCancel

\* The offer-expiry job takes up a row, its first or a later one, or passes
\* over it.
LEMMA SweepStarts ==
    ASSUME IInv, NEW t \in Threads, NEW r \in Requests,
           NEW expired \in SUBSET SeatIndex, NEW later \in SUBSET Requests,
           \/ SweepExpiredOffers(t, r, expired, later)
           \/ SweepNext(t, r, expired)
           \/ SweepSkip(t, r)
    PROVE  IInv'
<1> DEFINE state == [Loaded("live", "sweep", r) EXCEPT !.targets = expired]
<1>1. th[t].todo \ {r} \in SUBSET Requests
    BY DEF IInv, TypeOK, Thread
<1>2. ASSUME HasInterview(row[r]), expired \subseteq SeatsWith(row[r].seats, "offered"),
             NEW todo \in SUBSET Requests
      PROVE  GoodThread([state EXCEPT !.todo = todo])
    <2>1. \A k \in expired : Held(row[r].seats, k)
        BY <1>2 DEF SeatsWith, Held
    <2>. QED BY <1>2, <2>1, TargetsGood DEF Ops
<1>3. CASE SweepExpiredOffers(t, r, expired, later)
    <2>1. Become(t, [state EXCEPT !.todo = later])
        BY <1>3 DEF SweepExpiredOffers
    <2>. QED BY <1>2, <1>3, <2>1, QuietStep DEF SweepExpiredOffers
<1>4. CASE SweepNext(t, r, expired)
    <2>1. Become(t, [state EXCEPT !.todo = th[t].todo \ {r}])
        BY <1>4 DEF SweepNext
    <2>. QED BY <1>1, <1>2, <1>4, <2>1, QuietStep DEF SweepNext
<1>5. CASE SweepSkip(t, r)
    BY <1>1, <1>5, GoOnGood, QuietStep DEF SweepSkip
<1>. QED BY <1>3, <1>4, <1>5

-----------------------------------------------------------------------------
(* The cascade                                                             *)

\* What the invariant says of a thread.
LEMMA ThreadFacts ==
    ASSUME IInv, NEW t \in Threads
    PROVE  /\ GoodThread(th[t])
           /\ th[t] \in Thread
           /\ PanelOK(th[t].work.seats)
           /\ th[t].work \in Row
           /\ th[t].work.seats \in Panels
           /\ th[t].pc \notin {"idle", "sweep"} => th[t].req \in Requests
           /\ th[t].pc \in {"live", "fill", "persist"} => th[t].work.slot \in Slots
           /\ th[t].pc = "live" => \A k \in th[t].targets : Held(th[t].work.seats, k)
BY DEF IInv, TypeOK, GoodThread, ThreadOK, Thread, Row

\* A thread that moves on without touching its panel stays sound.
LEMMA MovesOn ==
    ASSUME IInv, NEW t \in Threads, th[t].pc \notin {"idle", "sweep"},
           NEW pc \in Pcs \ {"live", "fill", "persist"}, NEW event \in 0 .. MaxEvents
    PROVE  /\ GoodThread([th[t] EXCEPT !.pc = pc])
           /\ GoodThread([th[t] EXCEPT !.pc = pc, !.event = event])
<1>1. /\ [th[t] EXCEPT !.pc = pc] \in Thread
      /\ [th[t] EXCEPT !.pc = pc, !.event = event] \in Thread
    BY ThreadFacts DEF Thread
<1>. QED BY <1>1, ThreadFacts DEF GoodThread, ThreadOK, Thread

\* The live recompute opens the fill loop or escalates an empty panel.
LEMMA AssignPanelStep ==
    ASSUME IInv, NEW t \in Threads, AssignPanel(t)
    PROVE  IInv'
<1> DEFINE gaveUp == [th[t] EXCEPT !.pc = "persist",
                                   !.work.status = "manual_scheduling_required"]
           filling(F) == [th[t] EXCEPT !.pc = "fill", !.feas = F]
<1>1. th[t].pc = "live"
    BY DEF AssignPanel
<1>2. GoodThread(gaveUp)
    <2>1. gaveUp \in Thread
        <3> DEFINE work == [th[t].work EXCEPT !.status = "manual_scheduling_required"]
        <3>1. work \in Row
            BY ThreadFacts DEF Row, Statuses, InterviewStatuses
        <3>2. gaveUp = [th[t] EXCEPT !.pc = "persist", !.work = work]
            BY ThreadFacts DEF Thread
        <3> HIDE DEF work, gaveUp
        <3>. QED BY <3>1, <3>2, ThreadFacts DEF Thread, Pcs
    <2>2. /\ gaveUp.pc = "persist" /\ gaveUp.req = th[t].req
          /\ gaveUp.work.seats = th[t].work.seats /\ gaveUp.work.slot = th[t].work.slot
        BY ThreadFacts DEF Thread, Row
    <2> HIDE DEF gaveUp
    <2>. QED BY <1>1, <2>1, <2>2, ThreadFacts DEF GoodThread, ThreadOK
<1>3. ASSUME NEW F \in SUBSET Interviewers
      PROVE  GoodThread(filling(F))
    <2>1. filling(F) \in Thread
        BY ThreadFacts DEF Thread, Pcs
    <2>2. /\ filling(F).pc = "fill" /\ filling(F).req = th[t].req
          /\ filling(F).work = th[t].work
        BY ThreadFacts DEF Thread
    <2> HIDE DEF filling
    <2>. QED BY <1>1, <2>1, <2>2, ThreadFacts DEF GoodThread, ThreadOK
<1>4. PICK F \in SUBSET FreeInterviewers(t), refreshed \in BOOLEAN :
        Become(t, ExpireIf(refreshed, IF Cardinality(F) < PanelistsRequired
                                      THEN gaveUp ELSE filling(F)))
    BY DEF AssignPanel, Refreshes
<1>5. F \in SUBSET Interviewers
    BY DEF FreeInterviewers
<1> HIDE DEF gaveUp, filling
<1>6. GoodThread(IF Cardinality(F) < PanelistsRequired THEN gaveUp ELSE filling(F))
    BY <1>2, <1>3, <1>5
<1>. QED BY <1>4, <1>6, ExpireGood, QuietStep DEF AssignPanel

\* The seats given back were held by interviewers, so the copy stays sound.
LEMMA ReopeningStep ==
    ASSUME IInv, NEW t \in Threads, Reopening(t)
    PROVE  IInv'
<1> DEFINE seats == Reopen(th[t].work.seats, th[t].targets)
           status == IF th[t].op = "interviewer_cancel" THEN "assigning_panel"
                     ELSE th[t].work.status
           after(F, D, C) == [th[t] EXCEPT !.pc = "fill", !.feas = F, !.targets = {},
                                           !.released = D, !.cancelled = C,
                                           !.work.seats = seats, !.work.status = status]
<1>1. th[t].pc = "live"
    BY DEF Reopening
<1>2. seats \in Panels /\ PanelOK(seats)
    BY <1>1, ThreadFacts, ReopenSound DEF Thread
<1>3. status \in Statuses
    BY ThreadFacts DEF Row, Statuses, InterviewStatuses
<1>4. PICK F \in SUBSET FreeInterviewers(t), refreshed \in BOOLEAN,
           D \in FoundOffers(th[t].req, th[t].work.seats, th[t].targets) :
        /\ roster' = IF refreshed THEN roster \ th[t].cancelled ELSE roster
        /\ Become(t, ExpireIf(refreshed, [th[t] EXCEPT
                         !.pc = "fill",
                         !.feas = F,
                         !.targets = {},
                         !.released = D,
                         !.cancelled = IF refreshed THEN {} ELSE @,
                         !.work.seats = Reopen(@, th[t].targets),
                         !.work.status = IF th[t].op = "interviewer_cancel"
                                         THEN "assigning_panel" ELSE @]))
    BY DEF Reopening, Refreshes
<1> DEFINE C == IF refreshed THEN {} ELSE th[t].cancelled
<1>5. F \in SUBSET Interviewers /\ D \in SUBSET Offer /\ C \in SUBSET Participant
    BY ThreadFacts
       DEF FreeInterviewers, FoundOffers, HeldOffers, OffersOf, IInv, TypeOK, Thread
<1>6. Become(t, ExpireIf(refreshed, after(F, D, C)))
    BY <1>4, ThreadFacts DEF Thread
<1> HIDE DEF seats, status, C
<1>7. /\ after(F, D, C) \in Thread
      /\ after(F, D, C).pc = "fill" /\ after(F, D, C).req = th[t].req
      /\ after(F, D, C).work.seats = seats /\ after(F, D, C).work.slot = th[t].work.slot
    <2> DEFINE work == [th[t].work EXCEPT !.seats = seats, !.status = status]
    <2>1. work \in Row /\ work.seats = seats /\ work.slot = th[t].work.slot
        BY <1>2, <1>3, ThreadFacts DEF Row
    <2>2. after(F, D, C) = [th[t] EXCEPT !.pc = "fill", !.feas = F, !.targets = {},
                                         !.released = D, !.cancelled = C, !.work = work]
        BY ThreadFacts DEF Thread
    <2> HIDE DEF work, after
    <2>. QED BY <1>5, <2>1, <2>2, ThreadFacts DEF Thread, Pcs
<1> HIDE DEF after
<1>8. GoodThread(after(F, D, C))
    BY <1>1, <1>2, <1>7, ThreadFacts DEF GoodThread, ThreadOK
<1>9. /\ th' \in [Threads -> Thread]
      /\ \A u \in Threads : ThreadOK(th'[u])
    BY <1>6, <1>8, ExpireGood, BecomeGood
<1>10. roster' \subseteq Participant
    BY <1>4 DEF IInv, TypeOK
<1>11. UNCHANGED <<row, offers, calendar, made, elapsed>>
    BY DEF Reopening
<1>. QED BY <1>9, <1>10, <1>11 DEF IInv, TypeOK, OfferedNeverOverlap

\* A refused cancellation leaves the panel alone.
LEMMA RefuseCancelStep ==
    ASSUME IInv, NEW t \in Threads, RefuseCancel(t)
    PROVE  IInv'
<1>1. /\ th' \in [Threads -> Thread]
      /\ \A u \in Threads : ThreadOK(th'[u])
    BY IdleGood, BecomeGood DEF RefuseCancel
<1>2. roster' \subseteq Participant
    BY DEF RefuseCancel, IInv, TypeOK
<1>3. UNCHANGED <<row, offers, calendar, made, elapsed>>
    BY DEF RefuseCancel
<1>. QED BY <1>1, <1>2, <1>3 DEF IInv, TypeOK, OfferedNeverOverlap

\* A filling thread with the seats of one more decision.
LEMMA WithSeatsGood ==
    ASSUME IInv, NEW t \in Threads, th[t].pc = "fill",
           NEW seats \in Panels, PanelOK(seats)
    PROVE  /\ GoodThread(WithSeats(t, seats))
           /\ GoodThread([WithSeats(t, seats) EXCEPT !.released = {}, !.cancelled = {}])
<1> DEFINE work == [th[t].work EXCEPT !.seats = seats]
           on == [th[t] EXCEPT !.work = work]
           over == [th[t] EXCEPT !.work = work, !.pc = "persist", !.feas = {}]
           flushed(state) == [state EXCEPT !.released = {}, !.cancelled = {}]
<1>1. work \in Row /\ work.seats = seats /\ work.slot = th[t].work.slot
    BY ThreadFacts DEF Row
<1>2. WithSeats(t, seats) \in {on, over}
    BY ThreadFacts DEF WithSeats, Thread
<1> HIDE DEF work
<1> DEFINE Right(state) == /\ state \in Thread
                           /\ state.pc \in {"fill", "persist"}
                           /\ state.req = th[t].req
                           /\ state.work = work
<1>3. Right(on) /\ Right(over)
    BY <1>1, ThreadFacts DEF Thread, Pcs
<1> HIDE DEF on, over
<1>4. ASSUME NEW state \in {on, over}
      PROVE  Right(state) /\ Right(flushed(state))
    BY <1>3, <1>4 DEF Thread
<1>5. ASSUME NEW state, Right(state)
      PROVE  GoodThread(state)
    BY <1>1, <1>5, ThreadFacts DEF GoodThread, ThreadOK
<1> HIDE DEF Right
<1>. QED BY <1>2, <1>4, <1>5

\* reserve(): the person offered is free for the slot in the ledger as it is
\* once this session's own releases are in, and that is what gets committed.
LEMMA OfferSeatStep ==
    ASSUME IInv, NEW t \in Threads, NEW k \in SeatIndex, NEW i \in Interviewers,
           OfferSeat(t, k, i)
    PROVE  IInv'
<1> DEFINE seats == OfferTo(th[t].work.seats, k, i)
           state == [WithSeats(t, seats) EXCEPT !.released = {}, !.cancelled = {}]
           new == [iv |-> th[t].req, seat |-> k, who |-> i, slot |-> th[t].work.slot]
<1>1. th[t].pc = "fill" /\ th[t].work.seats[k].status = "pending"
    BY DEF OfferSeat, IsNextPending, SeatsWith
<1>2. i \in Interviewers \ Excluded(th[t].work.seats, k)
    BY DEF OfferSeat, Candidates
<1>3. GoodThread(state)
    BY <1>1, <1>2, ThreadFacts, OfferToSound, WithSeatsGood
<1>4. /\ th' \in [Threads -> Thread]
      /\ \A u \in Threads : ThreadOK(th'[u])
    BY <1>3, ExpireGood, BecomeGood DEF OfferSeat
<1>5. new \in Offer
    BY <1>1, ThreadFacts DEF Offer
<1>6. offers' = (offers \ th[t].released) \cup {new}
    BY DEF OfferSeat
<1>7. \A o \in offers \ th[t].released : o.who = i => <<o.slot, th[t].work.slot>> \notin Overlap
    BY DEF OfferSeat, Candidates, FreeFor, IsFree
<1>8. OfferedNeverOverlap'
    <2>1. new.who = i /\ new.slot = th[t].work.slot
        OBVIOUS
    <2>2. offers \subseteq Offer
        BY DEF IInv, TypeOK
    <2> HIDE DEF new
    <2>3. ASSUME NEW a \in offers', NEW b \in offers', a.who = b.who, <<a.slot, b.slot>> \in Overlap
          PROVE  a = b
        <3>1. CASE a \in offers /\ b \in offers
            BY <2>3, <3>1 DEF IInv, OfferedNeverOverlap
        <3>2. CASE a = new /\ b \in offers \ th[t].released
            <4>1. a.slot \in Slots /\ b.slot \in Slots
                BY <1>5, <2>2, <3>2 DEF Offer
            <4>2. <<b.slot, a.slot>> \in Overlap
                BY <2>3, <4>1
            <4>. QED BY <1>7, <2>1, <2>3, <3>2, <4>2
        <3>3. CASE b = new /\ a \in offers \ th[t].released
            BY <1>7, <2>1, <2>3, <3>3
        <3>. QED BY <1>6, <3>1, <3>2, <3>3
    <2>. QED BY <2>3 DEF OfferedNeverOverlap
<1>9. offers' \subseteq Offer /\ roster' \subseteq Participant
    BY <1>5, <1>6 DEF OfferSeat, IInv, TypeOK
<1>10. UNCHANGED <<row, calendar, made, elapsed>>
    BY DEF OfferSeat
<1>. QED BY <1>4, <1>8, <1>9, <1>10 DEF IInv, TypeOK

\* Nobody left to ask.
LEMMA ExhaustSeatStep ==
    ASSUME IInv, NEW t \in Threads, NEW k \in SeatIndex, ExhaustSeat(t, k)
    PROVE  IInv'
<1>1. GoodThread(WithSeats(t, Exhaust(th[t].work.seats, k)))
    BY ThreadFacts, ExhaustSound, WithSeatsGood DEF ExhaustSeat
<1>. QED BY <1>1, QuietStep DEF ExhaustSeat

\* The copy written back is sound, and so is every column it leaves alone.
LEMMA PersistStep ==
    ASSUME IInv, NEW t \in Threads, Persist(t)
    PROVE  IInv'
<1> DEFINE r == th[t].req
           next == [th[t].work EXCEPT !.status = Resolve(@, th[t].work.seats)]
           merged == Merge(row[r], th[t].snap, next, th[t].expired)
           sent == [Idle EXCEPT !.pc = "dispatch", !.op = th[t].op,
                                !.req = r, !.todo = th[t].todo]
<1>1. th[t].pc = "persist" /\ r \in Requests /\ row[r] \in Row
    BY ThreadFacts DEF Persist, IInv, TypeOK
<1>2. Resolve(th[t].work.status, th[t].work.seats) \in Statuses
    BY ThreadFacts DEF Resolve, Row, Statuses, InterviewStatuses
<1>3. next \in Row /\ next.seats = th[t].work.seats
    BY <1>2, ThreadFacts DEF Row
<1>4. /\ row' = [row EXCEPT ![r] = merged]
      /\ \E D \in SUBSET Offer : offers' = offers \ (th[t].released \cup D)
      /\ roster' = (roster \ th[t].cancelled) \cup AcceptedRoster(r, next.seats)
      /\ Become(t, IF next.status = "panel_complete" THEN sent ELSE Afterwards(t))
      /\ UNCHANGED <<calendar, made, elapsed>>
    BY DEF Persist, FoundOffers, HeldOffers, OffersOf, IInv, TypeOK
<1> HIDE DEF next
<1>5. merged \in Row /\ merged.seats \in {next.seats, row[r].seats}
    BY <1>1, <1>3 DEF Merge, Row
<1>6. PanelOK(merged.seats)
    BY <1>1, <1>3, <1>5, ThreadFacts DEF IInv
<1> HIDE DEF merged
<1>7. /\ row' \in [Requests -> Row]
      /\ \A q \in Requests : PanelOK(row'[q].seats)
    BY <1>1, <1>4, <1>5, <1>6, RowGood
<1>8. AcceptedRoster(r, next.seats) \subseteq Participant
    BY <1>1, <1>3, ThreadFacts
       DEF AcceptedRoster, SeatsWith, Participant, PanelOK, Held, Panels, Seat
<1>9. GoodThread(sent)
    BY <1>1, IdleGood, ThreadFacts DEF GoodThread, Thread, ThreadOK, Pcs, Idle
<1>10. GoodThread(Afterwards(t))
    BY ThreadFacts, GoOnGood DEF Afterwards, Thread
<1> HIDE DEF sent
<1>11. /\ th' \in [Threads -> Thread]
       /\ \A u \in Threads : ThreadOK(th'[u])
    BY <1>4, <1>9, <1>10, BecomeGood
<1>12. offers' \subseteq offers /\ roster' \subseteq Participant
    BY <1>4, <1>8 DEF IInv, TypeOK
<1>. QED BY <1>4, <1>7, <1>11, <1>12 DEF IInv, TypeOK, OfferedNeverOverlap

-----------------------------------------------------------------------------
(* The calendar event, the candidate's way out, and the environment        *)

\* The event of a completed panel is made, recorded or passed over.
LEMMA DispatchStep ==
    ASSUME IInv, NEW t \in Threads,
           SkipDispatch(t) \/ CreateEvent(t) \/ RecordEvent(t)
    PROVE  IInv'
<1>1. GoodThread(Afterwards(t))
    BY ThreadFacts, GoOnGood DEF Afterwards, Thread
<1>2. CASE SkipDispatch(t)
    BY <1>1, <1>2, QuietStep DEF SkipDispatch
<1>3. CASE CreateEvent(t)
    <2> DEFINE r == th[t].req
               n == made[r] + 1
    <2>1. /\ th[t].pc = "dispatch" /\ r \in Requests /\ made[r] < MaxEvents
          /\ made' = [made EXCEPT ![r] = n]
          /\ calendar' = calendar \cup {[iv |-> r, id |-> n]}
          /\ Become(t, [th[t] EXCEPT !.pc = "record", !.event = n])
          /\ UNCHANGED <<row, offers, roster, elapsed>>
        BY <1>3, ThreadFacts DEF CreateEvent
    <2>2. n \in 1 .. MaxEvents
        BY <2>1 DEF IInv, TypeOK
    <2>3. n \in 0 .. MaxEvents /\ "record" \in Pcs \ {"live", "fill", "persist"}
        BY <2>2 DEF Pcs
    <2> HIDE DEF n
    <2>4. /\ th' \in [Threads -> Thread]
          /\ \A u \in Threads : ThreadOK(th'[u])
        BY <2>1, <2>3, MovesOn, BecomeGood
    <2>5. made' \in [Requests -> 0 .. MaxEvents] /\ calendar' \subseteq Event
        BY <2>1, <2>2, <2>3 DEF IInv, TypeOK, Event
    <2>. QED BY <2>1, <2>4, <2>5 DEF IInv, TypeOK, OfferedNeverOverlap
<1>4. CASE RecordEvent(t)
    <2> DEFINE r == th[t].req
               rw == [row[r] EXCEPT !.event = th[t].event]
    <2>1. r \in Requests /\ row' = [row EXCEPT ![r] = rw]
        BY <1>4, ThreadFacts DEF RecordEvent
    <2>2. rw \in Row /\ rw.seats = row[r].seats
        BY <2>1, ThreadFacts DEF IInv, TypeOK, Row, Thread
    <2> HIDE DEF rw
    <2>3. /\ row' \in [Requests -> Row]
          /\ \A q \in Requests : PanelOK(row'[q].seats)
        BY <2>1, <2>2, RowGood DEF IInv
    <2>4. /\ th' \in [Threads -> Thread]
          /\ \A u \in Threads : ThreadOK(th'[u])
        BY <1>1, <1>4, BecomeGood DEF RecordEvent
    <2>5. UNCHANGED <<offers, roster, calendar, made, elapsed>>
        BY <1>4 DEF RecordEvent
    <2>. QED BY <2>3, <2>4, <2>5 DEF IInv, TypeOK, OfferedNeverOverlap
<1>. QED BY <1>2, <1>3, <1>4

\* release_interview only takes rows away.
LEMMA ReleaseShrinks ==
    ASSUME NEW t \in Threads, ReleaseInterview(t)
    PROVE  offers' \subseteq offers /\ roster' \subseteq roster
BY DEF ReleaseInterview

\* A cancellation keeps the seats; a reschedule clears them.
LEMMA CandidateCommits ==
    ASSUME IInv, NEW t \in Threads, CommitCancel(t) \/ CommitReschedule(t)
    PROVE  IInv'
<1> DEFINE r == th[t].req
           snap == th[t].snap
           live == HasInterview(snap) /\ snap.status # "cancelled"
           off == [row[r] EXCEPT
                     !.status = Written(snap.status, "cancelled", @),
                     !.slot   = IF live THEN snap.slot ELSE @,
                     !.event  = Written(snap.event, 0, @)]
           again == [row[r] EXCEPT
                       !.status   = Written(snap.status, "collecting_availability", @),
                       !.seats    = Written(snap.seats, NoSeats, @),
                       !.slot     = Written(snap.slot, NoSlot, @),
                       !.feasible = Written(snap.feasible, {}, @),
                       !.event    = Written(snap.event, 0, @)]
<1>1. th[t].pc = "commit" /\ r \in Requests /\ row[r] \in Row /\ snap \in Row
    BY ThreadFacts DEF CommitCancel, CommitReschedule, IInv, TypeOK, Thread
<1>2. /\ ReleaseInterview(t)
      /\ \/ CommitCancel(t) /\ row' = [row EXCEPT ![r] = off]
         \/ CommitReschedule(t) /\ row' = [row EXCEPT ![r] = again]
      /\ UNCHANGED <<calendar, made, elapsed>>
    BY <1>1 DEF CommitCancel, CommitReschedule, IInv, TypeOK
<1>3. 0 \in 0 .. MaxEvents
    OBVIOUS
<1>4. off \in Row /\ PanelOK(off.seats)
    <2>1. off \in Row /\ off.seats = row[r].seats
        BY <1>1, <1>3 DEF Row, Written, Statuses, InterviewStatuses
    <2>. QED BY <1>1, <2>1 DEF IInv
<1>5. again \in Row /\ PanelOK(again.seats)
    <2>1. again \in Row /\ again.seats \in {NoSeats, row[r].seats}
        BY <1>1, <1>3, EmptyPanels DEF Row, Written, Statuses, InterviewStatuses
    <2>. QED BY <1>1, <2>1, EmptyPanels DEF IInv
<1> HIDE DEF off, again
<1>6. /\ row' \in [Requests -> Row]
      /\ \A q \in Requests : PanelOK(row'[q].seats)
    BY <1>1, <1>2, <1>4, <1>5, RowGood
<1>7. /\ "delete" \in Pcs \ {"live", "fill", "persist"}
      /\ "resubmit" \in Pcs \ {"live", "fill", "persist"}
      /\ th[t].event \in 0 .. MaxEvents
    BY ThreadFacts DEF Pcs, Thread
<1>8. \E state : GoodThread(state) /\ Become(t, state)
    BY <1>1, <1>2, <1>7, IdleGood, MovesOn DEF CommitCancel, CommitReschedule, DeleteOr
<1>9. /\ th' \in [Threads -> Thread]
      /\ \A u \in Threads : ThreadOK(th'[u])
    BY <1>8, BecomeGood
<1>10. offers' \subseteq offers /\ roster' \subseteq roster
    BY <1>2, ReleaseShrinks
<1>. QED BY <1>2, <1>6, <1>9, <1>10 DEF IInv, TypeOK, OfferedNeverOverlap

\* The old event goes, and a rescheduled request is submitted again.
LEMMA CandidateFinishes ==
    ASSUME IInv, NEW t \in Threads, DeleteEvent(t) \/ Resubmit(t)
    PROVE  IInv'
<1>1. CASE DeleteEvent(t)
    <2>1. "resubmit" \in Pcs \ {"live", "fill", "persist"} /\ th[t].event \in 0 .. MaxEvents
        BY ThreadFacts DEF Pcs, Thread
    <2>2. \E state : GoodThread(state) /\ Become(t, state)
        BY <1>1, <2>1, IdleGood, MovesOn DEF DeleteEvent
    <2>3. /\ th' \in [Threads -> Thread]
          /\ \A u \in Threads : ThreadOK(th'[u])
        BY <2>2, BecomeGood
    <2>4. calendar' \subseteq calendar /\ UNCHANGED <<row, offers, roster, made, elapsed>>
        BY <1>1 DEF DeleteEvent
    <2>. QED BY <2>3, <2>4 DEF IInv, TypeOK, OfferedNeverOverlap
<1>2. CASE Resubmit(t)
    <2> DEFINE state == Loaded("search", "submit", th[t].req)
    <2>1. th[t].req \in Requests /\ "search" \in Pcs /\ "submit" \in Ops
        BY <1>2, ThreadFacts DEF Resubmit, Pcs, Ops
    <2>2. /\ state \in Thread /\ state.pc = "search"
          /\ state.req = th[t].req /\ state.work = row[th[t].req]
        BY <2>1, LoadedTyped DEF IInv, TypeOK
    <2>3. Become(t, state) \/ Become(t, Idle)
        BY <1>2 DEF Resubmit
    <2> HIDE DEF state
    <2>4. GoodThread(state)
        BY <2>1, <2>2 DEF IInv, GoodThread, ThreadOK
    <2>. QED BY <1>2, <2>3, <2>4, IdleGood, QuietStep DEF Resubmit
<1>. QED BY <1>1, <1>2

\* New requests, search results, failures and the passing of time.
LEMMA OtherSteps ==
    ASSUME IInv,
           \/ \E r \in Requests : CreateRequest(r)
           \/ \E t \in Threads : FindFeasibleSlots(t) \/ Abort(t)
           \/ \E s \in Slots : Elapse(s)
    PROVE  IInv'
<1>1. ASSUME NEW r \in Requests, CreateRequest(r)
      PROVE  IInv'
    <2> DEFINE rw == [row[r] EXCEPT !.status = "collecting_availability"]
    <2>1. row' = [row EXCEPT ![r] = rw] /\ UNCHANGED <<offers, roster, calendar, made, elapsed, th>>
        BY <1>1 DEF CreateRequest
    <2>2. rw \in Row /\ rw.seats = row[r].seats
        BY DEF IInv, TypeOK, Row, Statuses
    <2> HIDE DEF rw
    <2>3. /\ row' \in [Requests -> Row]
          /\ \A q \in Requests : PanelOK(row'[q].seats)
        BY <2>1, <2>2, RowGood DEF IInv
    <2>. QED BY <2>1, <2>3 DEF IInv, TypeOK, OfferedNeverOverlap
<1>2. ASSUME NEW t \in Threads, FindFeasibleSlots(t)
      PROVE  IInv'
    <2> DEFINE r == th[t].req
               status(S) == IF S = {} THEN "manual_scheduling_required"
                            ELSE "awaiting_candidate_selection"
    <2>1. PICK S \in SUBSET Slots :
            row' = [row EXCEPT ![r].status = status(S), ![r].feasible = S]
        BY <1>2 DEF FindFeasibleSlots
    <2> DEFINE rw == [row[r] EXCEPT !.status = status(S), !.feasible = S]
    <2>2. /\ r \in Requests /\ row[r] \in Row
          /\ row' = [row EXCEPT ![r] = rw]
        BY <1>2, <2>1, ThreadFacts DEF FindFeasibleSlots, IInv, TypeOK
    <2>3. rw \in Row /\ rw.seats = row[r].seats
        <3>1. status(S) \in Statuses
            BY DEF Statuses, InterviewStatuses
        <3> HIDE DEF status
        <3>. QED BY <2>2, <3>1 DEF Row
    <2> HIDE DEF rw
    <2>4. /\ row' \in [Requests -> Row]
          /\ \A q \in Requests : PanelOK(row'[q].seats)
        BY <2>1, <2>2, <2>3, RowGood DEF IInv
    <2>5. /\ th' \in [Threads -> Thread]
          /\ \A u \in Threads : ThreadOK(th'[u])
        BY <1>2, IdleGood, BecomeGood DEF FindFeasibleSlots
    <2>6. UNCHANGED <<offers, roster, calendar, made, elapsed>>
        BY <1>2 DEF FindFeasibleSlots
    <2>. QED BY <2>4, <2>5, <2>6 DEF IInv, TypeOK, OfferedNeverOverlap
<1>3. ASSUME NEW t \in Threads, Abort(t)
      PROVE  IInv'
    <2>1. GoodThread(Afterwards(t))
        BY ThreadFacts, GoOnGood DEF Afterwards, Thread
    <2>. QED BY <1>3, <2>1, IdleGood, QuietStep DEF Abort
<1>4. ASSUME NEW s \in Slots, Elapse(s)
      PROVE  IInv'
    <2>1. elapsed' \subseteq Slots /\ UNCHANGED <<row, offers, roster, calendar, made, th>>
        BY <1>4 DEF Elapse, IInv, TypeOK
    <2>. QED BY <2>1 DEF IInv, TypeOK, OfferedNeverOverlap
<1>. QED BY <1>1, <1>2, <1>3, <1>4

-----------------------------------------------------------------------------
(* The invariant                                                           *)

\* Nothing has been asked for yet: no panel, no offer, every thread idle.
LEMMA InitSound == Init => IInv
<1>. SUFFICES ASSUME Init PROVE IInv
    OBVIOUS
<1>1. TypeOK
    BY NoRowTyped, IdleGood DEF Init, TypeOK, GoodThread
<1>2. OfferedNeverOverlap
    BY DEF Init, OfferedNeverOverlap
<1>3. \A r \in Requests : PanelOK(row[r].seats)
    BY EmptyPanels DEF Init, NoRow
<1>4. \A t \in Threads : ThreadOK(th[t])
    BY IdleGood DEF Init, GoodThread
<1>. QED BY <1>1, <1>2, <1>3, <1>4 DEF IInv

\* Every step of every handler, job or of the environment keeps the invariant.
LEMMA NextSound == IInv /\ [Next]_vars => IInv'
<1>. SUFFICES ASSUME IInv, [Next]_vars PROVE IInv'
    OBVIOUS
<1>1. CASE UNCHANGED vars
    BY <1>1 DEF vars, IInv, TypeOK, OfferedNeverOverlap
<1>2. CASE \E r \in Requests : CreateRequest(r)
    BY <1>2, OtherSteps
<1>3. ASSUME NEW t \in Threads, NEW r \in Requests, Handle(t, r)
      PROVE  IInv'
    BY <1>3, CandidateStarts, SelectStarts, RespondStarts, InterviewerCancelStarts DEF Handle
<1>4. ASSUME NEW t \in Threads, NEW r \in Requests, Sweep(t, r)
      PROVE  IInv'
    BY <1>4, SweepStarts DEF Sweep
<1>5. ASSUME NEW t \in Threads, Continue(t)
      PROVE  IInv'
    <2>1. CASE \/ FindFeasibleSlots(t) \/ AssignPanel(t) \/ Reopening(t) \/ RefuseCancel(t)
        BY <2>1, OtherSteps, AssignPanelStep, ReopeningStep, RefuseCancelStep
    <2>2. CASE \E k \in SeatIndex, i \in Interviewers : OfferSeat(t, k, i)
        BY <2>2, OfferSeatStep
    <2>3. CASE \E k \in SeatIndex : ExhaustSeat(t, k)
        BY <2>3, ExhaustSeatStep
    <2>4. CASE Persist(t) \/ SkipDispatch(t) \/ CreateEvent(t) \/ RecordEvent(t)
        BY <2>4, PersistStep, DispatchStep
    <2>5. CASE CommitCancel(t) \/ CommitReschedule(t) \/ DeleteEvent(t) \/ Resubmit(t)
        BY <2>5, CandidateCommits, CandidateFinishes
    <2>6. CASE SweepOn(t)
        <3>1. {} \in SUBSET Requests /\ {} \in SUBSET SeatIndex
            OBVIOUS
        <3>. QED BY <2>6, <3>1, SweepStarts DEF SweepOn
    <2>. QED BY <1>5, <2>1, <2>2, <2>3, <2>4, <2>5, <2>6 DEF Continue
<1>6. ASSUME NEW t \in Threads, Abort(t)
      PROVE  IInv'
    BY <1>6, OtherSteps
<1>7. CASE \E s \in Slots : Elapse(s)
    BY <1>7, OtherSteps
<1>. QED BY <1>1, <1>2, <1>3, <1>4, <1>5, <1>6, <1>7 DEF Next

\* IInv is an invariant of the scheduling service.
THEOREM InductiveInvariant == Spec => []IInv
<1>. QED BY InitSound, NextSound, PTL DEF Spec

\* Every variable keeps its type, thread records included.
THEOREM TypeCorrect == Spec => []TypeOK
<1>1. IInv => TypeOK
    BY DEF IInv
<1>. QED BY <1>1, InductiveInvariant, PTL

\* No interviewer ever has two outstanding offers at overlapping times: the
\* check and the insert of the ledger's reserve() are one critical section,
\* and neither races, deaths of handlers, commits in between, nor answers to
\* dead offers can get an offer in another way.
THEOREM OffersNeverOverlap == Spec => []OfferedNeverOverlap
<1>1. IInv => OfferedNeverOverlap
    BY DEF IInv
<1>. QED BY <1>1, InductiveInvariant, PTL

\* No stored panel ever has one interviewer on two of its seats, although the
\* row is written back column by column by handlers that may race.
THEOREM NobodySitsTwice == Spec => []PanelsDistinct
<1>1. IInv => PanelsDistinct
    BY DEF IInv, PanelOK, PanelsDistinct
<1>. QED BY <1>1, InductiveInvariant, PTL

\* No stored panel ever shows somebody on a seat that the same panel records
\* they gave back.
THEOREM NobodyReturns == Spec => []DeclinersExcluded
<1>1. IInv => DeclinersExcluded
    BY DEF IInv, PanelOK, DeclinersExcluded
<1>. QED BY <1>1, InductiveInvariant, PTL
=============================================================================
