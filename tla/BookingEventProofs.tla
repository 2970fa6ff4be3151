------------------------- MODULE BookingEventProofs -------------------------
(***************************************************************************)
(* Proofs about BookingEvent: type correctness, RemindedOnce and           *)
(* OneEventPerBooking, for any interviewers, handlers, requests and bounds.*)
(***************************************************************************)
EXTENDS BookingEvent, FiniteSetTheorems, TLAPS

(***************************************************************************)
(* What a handler has decided when it is about to commit.                  *)
(***************************************************************************)

Inboxes == [People -> InboxKinds]

\* The row it wants, for each kind of request.
Choice(op, next) ==
    \/ /\ op = "select"
       /\ bookings < world.bookings /\ bookings' = bookings + 1
       /\ next.slot = bookings + 1 /\ next.event = 0 /\ next.reminded = row.reminded
    \/ /\ op \in {"answer", "back_out"}
       /\ bookings' = bookings
       /\ next.slot = row.slot /\ next.event = row.event /\ next.reminded = row.reminded
       /\ row.status # "cancelled" \/ "dead_offers" \in conditions
       /\ op = "answer" => HasInterview(row)
    \/ /\ op = "cancel"
       /\ bookings' = bookings
       /\ next.slot = row.slot /\ next.status = "cancelled" /\ next.reminded = row.reminded
    \/ /\ op = "reschedule"
       /\ bookings' = bookings
       /\ next = NoRow

Ops == {"select", "answer", "back_out", "cancel", "reschedule"}

Deciding(h, op, next, expired, leaving) ==
    /\ MayStart(h)
    /\ op \in Ops /\ next \in Row /\ expired \in BOOLEAN /\ leaving \subseteq Interviewers
    /\ Decided(h, op, next, expired, leaving)
    /\ Choice(op, next)
    /\ told' \in Inboxes
    /\ UNCHANGED <<world, row, time, outside, sent, job, crashes>>

LEMMA PanelsFilled ==
    ASSUME NEW panel \in Panels, NEW pending, NEW leaving
    PROVE  Filled(panel, pending, leaving) \subseteq Panels
BY DEF Filled, Panels

LEMMA Resolved ==
    ASSUME NEW status \in Statuses, NEW panel
    PROVE  Resolve(status, panel) \in Statuses
BY DEF Resolve, Statuses

LEMMA Telling ==
    ASSUME NEW inbox \in Inboxes, NEW S, NEW kind \in InboxKinds
    PROVE  Tell(inbox, S, kind) \in Inboxes
BY DEF Tell, Inboxes

LEMMA Announcing ==
    ASSUME NEW inbox \in Inboxes, NEW status, NEW panel
    PROVE  Announce(inbox, status, panel) \in Inboxes
BY Telling DEF Announce, InboxKinds

\* A row with another status, panel, slot or event is a row.
LEMMA RowWith ==
    ASSUME NEW r \in Row, NEW status \in Statuses, NEW panel \in Panels,
           NEW slot \in 0 .. MaxBookings
    PROVE  /\ [r EXCEPT !.status = status, !.panel = panel] \in Row
           /\ [r EXCEPT !.status = status, !.panel = panel, !.slot = slot, !.event = 0] \in Row
           /\ [r EXCEPT !.status = status, !.event = 0] \in Row
<1>1. 0 \in 0 .. MaxEvents
  BY BookingAssumption
<1>2. [r EXCEPT !.status = status, !.panel = panel] \in Row
  BY DEF Row
<1>3. [r EXCEPT !.status = status, !.panel = panel, !.slot = slot, !.event = 0] \in Row
  BY <1>1 DEF Row
<1>4. [r EXCEPT !.status = status, !.event = 0] \in Row
  BY <1>1 DEF Row
<1> QED BY <1>2, <1>3, <1>4

LEMMA NoRowTyped == NoRow \in Row
BY BookingAssumption DEF NoRow, Row, Nobody, Panels, Statuses

\* The typed parts of the state.
LEMMA Typed ==
    ASSUME TypeOK
    PROVE  /\ world \in World /\ world.bookings \in 0 .. MaxBookings
           /\ row \in Row /\ row.panel \in Panels /\ row.status \in Statuses
           /\ row.slot \in 0 .. MaxBookings /\ row.event \in 0 .. MaxEvents
           /\ told \in Inboxes /\ th \in [Handlers -> Thread]
           /\ bookings \in 0 .. MaxBookings /\ bookings \in Nat
           /\ MaxBookings \in Nat /\ MaxEvents \in Nat /\ MaxCrashes \in Nat
BY BookingAssumption DEF TypeOK, World, Row, Inboxes

\* The seat of one who leaves is empty.
LEMMA SeatsEmptied ==
    ASSUME NEW panel \in Panels, NEW S
    PROVE  [i \in Interviewers |-> IF i \in S THEN "out" ELSE panel[i]] \in Panels
BY DEF Panels

LEMMA GivingBack ==
    ASSUME TypeOK, NEW h \in Handlers, NEW S, MayStart(h), GiveBack(h, S), HasInterview(row),
           row.status # "cancelled" \/ "dead_offers" \in conditions
    PROVE  \E next, expired : Deciding(h, "answer", next, expired, {})
<1> DEFINE rest == [i \in Interviewers |-> IF i \in S THEN "out" ELSE row.panel[i]]
           leaving == IF Cardinality(S) = 1 THEN S ELSE {}
<1>1. rest \in Panels
  BY Typed, SeatsEmptied
<1>2. PICK panel \in Filled(rest, Cardinality(S), leaving) :
         LET status == Resolve(row.status, panel)
             later  == HeldIds(panel) \ HeldIds(rest)
         IN  /\ Decided(h, "answer", [row EXCEPT !.status = status, !.panel = panel],
                        later # {}, {})
             /\ told' = Announce(Tell(Tell(told, S, "off"), later, "seat_offer"), status, panel)
  BY DEF GiveBack
<1> DEFINE status == Resolve(row.status, panel)
           later  == HeldIds(panel) \ HeldIds(rest)
           next   == [row EXCEPT !.status = status, !.panel = panel]
<1>3. panel \in Panels /\ status \in Statuses
  BY <1>1, <1>2, PanelsFilled, Resolved, Typed
<1>4. next \in Row
  BY <1>3, RowWith, Typed
<1>5. next.slot = row.slot /\ next.event = row.event /\ next.reminded = row.reminded
  BY Typed DEF Row
<1>6. told' \in Inboxes
  <2>1. Tell(told, S, "off") \in Inboxes
    BY Typed, Telling DEF InboxKinds
  <2>2. Tell(Tell(told, S, "off"), later, "seat_offer") \in Inboxes
    BY <2>1, Telling DEF InboxKinds
  <2> QED BY <1>2, <2>2, Announcing
<1>7. UNCHANGED <<world, row, bookings, time, outside, sent, job, crashes>>
  BY DEF GiveBack
<1>8. Choice("answer", next)
  BY <1>5, <1>7 DEF Choice
<1>9. (later # {}) \in BOOLEAN /\ Decided(h, "answer", next, later # {}, {})
  BY <1>2
<1> HIDE DEF next, later
<1>10. Deciding(h, "answer", next, later # {}, {})
  BY <1>4, <1>6, <1>7, <1>8, <1>9 DEF Deciding, Ops
<1> QED BY <1>10

LEMMA HandleDecides ==
    ASSUME TypeOK, NEW h \in Handlers, Handle(h)
    PROVE  \E op, next, expired, leaving : Deciding(h, op, next, expired, leaving)
<1>t. row \in Row /\ row.panel \in Panels /\ row.status \in Statuses /\ told \in Inboxes
  BY Typed
<1>n. "out" \in {"out", "offered", "accepted"} /\ Nobody \in Panels
  BY DEF Nobody, Panels
<1>1. CASE SelectSlot(h)
  <2>1. PICK panel \in Filled(Nobody, world.panelists, {}) :
          LET status == Resolve("assigning_panel", panel)
          IN  /\ Decided(h, "select",
                        [row EXCEPT !.status = status, !.panel = panel,
                                    !.slot = bookings + 1, !.event = 0],
                        panel # Nobody, {})
              /\ told' = Announce(Tell(told, HeldIds(panel), "seat_offer"), status, panel)
    BY <1>1 DEF SelectSlot
  <2> DEFINE status == Resolve("assigning_panel", panel)
             next   == [row EXCEPT !.status = status, !.panel = panel,
                                   !.slot = bookings + 1, !.event = 0]
  <2>2. panel \in Panels /\ status \in Statuses
    BY <2>1, <1>n, PanelsFilled, Resolved DEF Statuses
  <2>3. bookings < world.bookings /\ bookings + 1 \in 0 .. MaxBookings
    BY <1>1, Typed DEF SelectSlot
  <2>4. next \in Row
    BY <2>2, <2>3, <1>t, RowWith
  <2>5. next.slot = bookings + 1 /\ next.event = 0 /\ next.reminded = row.reminded
    BY <1>t DEF Row
  <2>6. told' \in Inboxes
    BY <2>1, <1>t, Telling, Announcing DEF InboxKinds
  <2>7. Choice("select", next)
    BY <1>1, <2>3, <2>5 DEF SelectSlot, Choice
  <2>8. (panel # Nobody) \in BOOLEAN /\ Decided(h, "select", next, panel # Nobody, {})
    BY <2>1
  <2> HIDE DEF next
  <2>9. Deciding(h, "select", next, panel # Nobody, {})
    BY <1>1, <2>4, <2>6, <2>7, <2>8 DEF Deciding, Ops, SelectSlot
  <2> QED BY <2>9
<1>2. ASSUME NEW i \in Interviewers, AcceptSeat(h, i)
      PROVE  \E op, next, expired, leaving : Deciding(h, op, next, expired, leaving)
  <2> DEFINE panel  == [row.panel EXCEPT ![i] = "accepted"]
             status == Resolve(row.status, panel)
             next   == [row EXCEPT !.status = status, !.panel = panel]
  <2>1. panel \in Panels /\ status \in Statuses
    <3>1. panel \in Panels
      BY <1>t DEF Panels
    <3> QED BY <3>1, <1>t, Resolved
  <2>2. next \in Row
    BY <2>1, <1>t, RowWith, Typed
  <2>3. next.slot = row.slot /\ next.event = row.event /\ next.reminded = row.reminded
    BY <1>t DEF Row
  <2>4. told' = Announce(Tell(told, {i}, "seat_filled"), status, panel)
    BY <1>2 DEF AcceptSeat
  <2>5. told' \in Inboxes
    BY <2>4, <1>t, Telling, Announcing DEF InboxKinds
  <2>6. Choice("answer", next)
    BY <1>2, <2>3 DEF AcceptSeat, MayAnswer, Choice
  <2>7. Decided(h, "answer", next, FALSE, {})
    BY <1>2 DEF AcceptSeat
  <2> HIDE DEF next
  <2>8. Deciding(h, "answer", next, FALSE, {})
    BY <1>2, <2>2, <2>5, <2>6, <2>7 DEF Deciding, Ops, AcceptSeat, MayAnswer
  <2> QED BY <2>8
<1>3. ASSUME NEW i \in Interviewers, DeclineSeat(h, i)
      PROVE  \E op, next, expired, leaving : Deciding(h, op, next, expired, leaving)
  BY <1>3, GivingBack DEF DeclineSeat, MayAnswer
<1>4. ASSUME NEW i \in Interviewers, InterviewerCancel(h, i)
      PROVE  \E op, next, expired, leaving : Deciding(h, op, next, expired, leaving)
  <2> DEFINE rest == [row.panel EXCEPT ![i] = "out"]
  <2>1. rest \in Panels
    BY <1>t DEF Panels
  <2>2. PICK panel \in Filled(rest, 1, {i}) :
           LET status == Resolve("assigning_panel", panel)
               later  == HeldIds(panel) \ HeldIds(row.panel)
           IN  /\ Decided(h, "back_out", [row EXCEPT !.status = status, !.panel = panel],
                          later # {}, {i})
               /\ told' = Announce(Tell(told, later, "seat_offer"), status, panel)
    BY <1>4 DEF InterviewerCancel
  <2> DEFINE status == Resolve("assigning_panel", panel)
             later  == HeldIds(panel) \ HeldIds(row.panel)
             next   == [row EXCEPT !.status = status, !.panel = panel]
  <2>3. panel \in Panels /\ status \in Statuses
    BY <2>1, <2>2, PanelsFilled, Resolved DEF Statuses
  <2>4. next \in Row
    BY <2>3, <1>t, RowWith, Typed
  <2>5. next.slot = row.slot /\ next.event = row.event /\ next.reminded = row.reminded
    BY <1>t DEF Row
  <2>6. told' \in Inboxes
    BY <2>2, <1>t, Telling, Announcing DEF InboxKinds
  <2>7. Choice("back_out", next)
    BY <1>4, <2>5 DEF InterviewerCancel, Choice
  <2>8. (later # {}) \in BOOLEAN /\ Decided(h, "back_out", next, later # {}, {i})
    BY <2>2
  <2> HIDE DEF next, later
  <2>9. Deciding(h, "back_out", next, later # {}, {i})
    BY <1>4, <2>4, <2>6, <2>7, <2>8 DEF Deciding, Ops, InterviewerCancel
  <2> QED BY <2>9
<1>5. CASE SweepExpiredOffers(h)
  BY <1>5, GivingBack DEF SweepExpiredOffers
<1>6. CASE CandidateCancel(h)
  <2> DEFINE next == [row EXCEPT !.status = "cancelled", !.event = 0]
  <2>1. next \in Row
    BY <1>t, RowWith, Typed DEF Statuses
  <2>2. next.slot = row.slot /\ next.status = "cancelled" /\ next.reminded = row.reminded
    BY <1>t DEF Row
  <2>3. told' \in Inboxes
    BY <1>6, <1>t, Telling DEF CandidateCancel, InboxKinds
  <2>4. Choice("cancel", next) /\ Decided(h, "cancel", next, FALSE, {})
    BY <1>6, <2>2 DEF CandidateCancel, Choice
  <2> HIDE DEF next
  <2>5. Deciding(h, "cancel", next, FALSE, {})
    BY <1>6, <2>1, <2>3, <2>4 DEF Deciding, Ops, CandidateCancel
  <2> QED BY <2>5
<1>7. CASE CandidateReschedule(h)
  <2>1. told' \in Inboxes
    BY <1>7, <1>t, Telling DEF CandidateReschedule, InboxKinds
  <2>2. Choice("reschedule", NoRow) /\ Decided(h, "reschedule", NoRow, FALSE, {})
    BY <1>7 DEF CandidateReschedule, Choice
  <2>3. Deciding(h, "reschedule", NoRow, FALSE, {})
    BY <1>7, <2>1, <2>2, NoRowTyped DEF Deciding, Ops, CandidateReschedule
  <2> QED BY <2>3
<1> QED BY <1>1, <1>2, <1>3, <1>4, <1>5, <1>6, <1>7 DEF Handle

(***************************************************************************)
(* Types.                                                                  *)
(***************************************************************************)

\* A call about an event is about a slot.
CallsHaveSlots == \A h \in Handlers : th[h].pc = "call" => th[h].slot # 0

TypeInv == TypeOK /\ CallsHaveSlots

\* The threads stay typed when one of them becomes another typed thread.
LEMMA OneBecomes ==
    ASSUME TypeInv, NEW h \in Handlers, NEW t \in Thread, t.pc = "call" => t.slot # 0,
           th' = [th EXCEPT ![h] = t]
    PROVE  th' \in [Handlers -> Thread] /\ CallsHaveSlots'
BY DEF TypeInv, TypeOK, CallsHaveSlots

LEMMA IdleTyped == Idle \in Thread /\ Idle.pc = "idle"
BY NoRowTyped, BookingAssumption DEF Idle, Thread

\* A thread about to commit.
Pend(op, snap, work, expired, leaving) ==
    [Idle EXCEPT !.pc = "commit", !.op = op, !.snap = snap,
                 !.work = work, !.expired = expired, !.leaving = leaving]

LEMMA Committing ==
    ASSUME NEW op \in Ops, NEW snap \in Row, NEW work \in Row, NEW expired \in BOOLEAN,
           NEW leaving \in SUBSET Interviewers, NEW t, t = Pend(op, snap, work, expired, leaving)
    PROVE  /\ t \in Thread
           /\ t.pc = "commit" /\ t.op = op /\ t.snap = snap /\ t.work = work
           /\ t.expired = expired
<1> DEFINE Fits(x) ==
             LET u == Pend(op, snap, work, x, leaving)
             IN  /\ u \in Thread
                 /\ u.pc = "commit" /\ u.op = op /\ u.snap = snap
                 /\ u.work = work /\ u.expired = x
<1>1. Fits(TRUE)
  BY IdleTyped DEF Pend, Idle, Thread, Ops
<1>2. Fits(FALSE)
  BY IdleTyped DEF Pend, Idle, Thread, Ops
<1>3. Fits(expired)
  BY <1>1, <1>2
<1> QED BY <1>3

\* The thread of a handler that has committed.
LEMMA Committed ==
    ASSUME TypeOK, NEW h \in Handlers
    PROVE  AfterCommit(h) \in Thread /\ AfterCommit(h).pc \in {"idle", "get", "delete", "dispatch"}
<1>1. th[h] \in Thread
  BY DEF TypeOK
<1>2. th[h].leaving \subseteq Interviewers /\ th[h].snap.event \in 0 .. MaxEvents
  BY <1>1 DEF Thread, Row
<1>3. Attendees(th[h].snap) \subseteq People
  BY DEF Attendees, People, With
<1>4. [Idle EXCEPT !.pc = "get", !.leaving = th[h].leaving] \in Thread
  BY <1>2, IdleTyped DEF Thread, Idle
<1>5. [Idle EXCEPT !.pc = "delete", !.event = th[h].snap.event,
                   !.people = Attendees(th[h].snap)] \in Thread
  BY <1>2, <1>3, IdleTyped DEF Thread, Idle
<1>6. [Idle EXCEPT !.pc = "dispatch"] \in Thread
  BY IdleTyped DEF Thread, Idle
<1> QED BY <1>4, <1>5, <1>6, IdleTyped DEF AfterCommit, Idle

\* The row it has written.
LEMMA RowCommitted ==
    ASSUME TypeOK, NEW h \in Handlers, Commit(h)
    PROVE  /\ row' \in Row
           /\ row'.status = th[h].work.status /\ row'.slot = th[h].work.slot
           /\ row'.event = Written(h, th[h].snap.event, th[h].work.event, row.event)
           /\ row'.reminded = IF th[h].op = "reschedule"
                              THEN Written(h, th[h].snap.reminded, th[h].work.reminded, row.reminded)
                              ELSE row.reminded
<1>1. th[h] \in Thread /\ row \in Row
  BY DEF TypeOK
<1>2. th[h].work \in Row /\ th[h].snap \in Row
  BY <1>1 DEF Thread
<1> DEFINE event == Written(h, th[h].snap.event, th[h].work.event, row.event)
           reminded == IF th[h].op = "reschedule"
                       THEN Written(h, th[h].snap.reminded, th[h].work.reminded, row.reminded)
                       ELSE row.reminded
<1>3. event \in 0 .. MaxEvents
  BY <1>1, <1>2 DEF Row, Written
<1>4. reminded \in BOOLEAN
  BY <1>1, <1>2 DEF Row, Written
<1>5. row' = [th[h].work EXCEPT !.event = event, !.reminded = reminded]
  BY DEF Commit
<1> HIDE DEF event, reminded
<1>6. row' \in Row /\ row'.event = event /\ row'.reminded = reminded
      /\ row'.status = th[h].work.status /\ row'.slot = th[h].work.slot
  BY <1>2, <1>3, <1>4, <1>5 DEF Row
<1> QED BY <1>6 DEF event, reminded

LEMMA InitTypeInv == Init => TypeInv
<1> SUFFICES ASSUME Init PROVE TypeInv
  OBVIOUS
<1>1. th \in [Handlers -> Thread] /\ CallsHaveSlots
  BY IdleTyped DEF Init, CallsHaveSlots
<1>2. told \in [People -> InboxKinds] /\ sent \in [1 .. MaxBookings -> 0 .. 2]
  BY DEF Init, InboxKinds
<1>3. job \in Job /\ time \in Times /\ world \in Worlds /\ mailed \subseteq People
  BY BookingAssumption DEF Init, Job, Resting, Times
<1>4. bookings \in 0 .. MaxBookings /\ made \in 0 .. MaxEvents /\ crashes \in 0 .. MaxCrashes
  BY BookingAssumption DEF Init
<1>5. DOMAIN calendar = {}
  BY DEF Init
<1> QED BY <1>1, <1>2, <1>3, <1>4, <1>5, NoRowTyped DEF Init, TypeInv, TypeOK

\* A handler that decides.
LEMMA DecidingTyped ==
    ASSUME TypeInv, NEW h \in Handlers, NEW op, NEW next, NEW expired, NEW leaving,
           Deciding(h, op, next, expired, leaving)
    PROVE  /\ TypeInv'
           /\ th'[h].pc = "commit" /\ th'[h].op = op /\ th'[h].snap = row /\ th'[h].work = next
           /\ th'[h].expired = expired
           /\ \A g \in Handlers : g # h => th'[g] = th[g]
<1>0. TypeOK
  BY DEF TypeInv
<1>1. PICK t : t = Pend(op, row, next, expired, leaving)
  OBVIOUS
<1>2. /\ t \in Thread /\ t.pc = "commit" /\ t.op = op /\ t.snap = row /\ t.work = next
      /\ t.expired = expired
  <2>1. /\ op \in Ops /\ row \in Row /\ next \in Row /\ expired \in BOOLEAN
        /\ leaving \in SUBSET Interviewers
    BY <1>0, Typed DEF Deciding
  <2> QED BY <1>1, <2>1, Committing
<1>a. th' = [th EXCEPT ![h] = t]
  BY <1>1 DEF Deciding, Decided, Pend
<1>3. th' \in [Handlers -> Thread] /\ CallsHaveSlots'
  BY <1>2, <1>a, OneBecomes
<1>4. th'[h] = t /\ \A g \in Handlers : g # h => th'[g] = th[g]
  BY <1>a DEF TypeInv, TypeOK
<1>5. bookings' \in 0 .. MaxBookings
  BY <1>0, Typed DEF Deciding, Choice
<1>6. TypeInv'
  BY <1>3, <1>5 DEF TypeInv, TypeOK, Deciding, Inboxes, outside
<1> QED BY <1>2, <1>4, <1>6

\* A new event.
LEMMA EventMade ==
    ASSUME TypeInv, NEW h \in Handlers, CreateEvent(h)
    PROVE  /\ made' = made + 1 /\ made' \in 0 .. MaxEvents
           /\ DOMAIN calendar' = DOMAIN calendar \cup {made + 1}
           /\ \A e \in DOMAIN calendar : calendar'[e] = calendar[e]
           /\ made + 1 \notin DOMAIN calendar
           /\ calendar'[made + 1].slot = th[h].slot
           /\ calendar'[made + 1] \in CalendarEvent
<1>1. made \in 0 .. MaxEvents /\ DOMAIN calendar \subseteq 1 .. made /\ th[h] \in Thread
  BY DEF TypeInv, TypeOK
<1>2. made + 1 \notin DOMAIN calendar /\ made + 1 \in 0 .. MaxEvents
  BY <1>1, BookingAssumption DEF CreateEvent
<1>3. calendar' = [e \in DOMAIN calendar \cup {made + 1} |->
                      IF e \in DOMAIN calendar THEN calendar[e]
                      ELSE [slot |-> th[h].slot, people |-> th[h].people]]
  BY DEF CreateEvent
<1>4. th[h].slot \in 1 .. MaxBookings /\ th[h].people \subseteq People
  BY <1>1, BookingAssumption DEF CreateEvent, TypeInv, CallsHaveSlots, Thread
<1>5. [slot |-> th[h].slot, people |-> th[h].people] \in CalendarEvent
  BY <1>4 DEF CalendarEvent
<1>6. calendar'[made + 1] = [slot |-> th[h].slot, people |-> th[h].people]
  BY <1>2, <1>3
<1> QED BY <1>2, <1>3, <1>5, <1>6 DEF CreateEvent

\* Another list of people for an event.
LEMMA EventPatched ==
    ASSUME TypeOK, NEW e \in DOMAIN calendar, NEW people \in SUBSET People,
           calendar' = [calendar EXCEPT ![e].people = people]
    PROVE  /\ DOMAIN calendar' = DOMAIN calendar
           /\ \A x \in DOMAIN calendar : /\ calendar'[x] \in CalendarEvent
                                         /\ calendar'[x].slot = calendar[x].slot
<1>1. \A x \in DOMAIN calendar : calendar[x] \in CalendarEvent
  BY DEF TypeOK
<1>2. [calendar[e] EXCEPT !.people = people] \in CalendarEvent
      /\ [calendar[e] EXCEPT !.people = people].slot = calendar[e].slot
  BY <1>1 DEF CalendarEvent
<1>3. /\ DOMAIN calendar' = DOMAIN calendar
      /\ calendar'[e] = [calendar[e] EXCEPT !.people = people]
      /\ \A x \in DOMAIN calendar : x # e => calendar'[x] = calendar[x]
  OBVIOUS
<1> QED BY <1>1, <1>2, <1>3

\* A handler that runs on.
LEMMA ContinueTyped == ASSUME TypeInv, NEW h \in Handlers, Continue(h) PROVE TypeInv'
<1>0. TypeOK /\ th[h] \in Thread
  BY DEF TypeInv, TypeOK
<1>b. ASSUME NEW t \in Thread, t.pc = "call" => t.slot # 0, Becomes(h, t)
      PROVE  th' \in [Handlers -> Thread] /\ CallsHaveSlots'
  BY <1>b, OneBecomes DEF Becomes
<1>i. ASSUME Becomes(h, Idle) PROVE th' \in [Handlers -> Thread] /\ CallsHaveSlots'
  BY <1>b, <1>i, IdleTyped
<1>1. CASE Commit(h)
  <2>1. row' \in Row
    BY <1>0, <1>1, RowCommitted
  <2>2. time' \in Times
    BY <1>0, <1>1 DEF Commit, Times, TypeOK
  <2>3. th' \in [Handlers -> Thread] /\ CallsHaveSlots'
    <3>1. Becomes(h, AfterCommit(h))
      BY <1>1 DEF Commit
    <3>2. AfterCommit(h) \in Thread /\ AfterCommit(h).pc # "call"
      BY <1>0, Committed
    <3> QED BY <3>1, <3>2, <1>b
  <2> QED BY <1>1, <2>1, <2>2, <2>3 DEF TypeInv, TypeOK, Commit, outside
<1>2. CASE DispatchBooking(h)
  <2> DEFINE t == [th[h] EXCEPT !.pc = "call", !.people = Attendees(row),
                                !.event = row.event, !.slot = row.slot]
  <2>1. ASSUME HasInterview(row) PROVE t \in Thread /\ t.slot # 0
    <3>1. Attendees(row) \subseteq People
      BY DEF Attendees, People, With
    <3> QED BY <1>0, <2>1, <3>1, Typed DEF Thread, HasInterview
  <2> HIDE DEF t
  <2>2. th' \in [Handlers -> Thread] /\ CallsHaveSlots'
    <3>1. CASE HasInterview(row)
      BY <1>2, <2>1, <3>1, <1>b DEF DispatchBooking, t
    <3>2. CASE ~HasInterview(row)
      BY <1>2, <3>2, <1>i DEF DispatchBooking
    <3> QED BY <3>1, <3>2
  <2> QED BY <1>2, <2>2 DEF TypeInv, TypeOK, DispatchBooking, outside
<1>3. CASE CreateEvent(h)
  <2>1. made' \in 0 .. MaxEvents /\ DOMAIN calendar' \subseteq 1 .. made'
    BY <1>0, <1>3, EventMade, BookingAssumption DEF TypeOK
  <2>2. \A e \in DOMAIN calendar' : calendar'[e] \in CalendarEvent
    BY <1>0, <1>3, EventMade DEF TypeOK
  <2> DEFINE t == [th[h] EXCEPT !.pc = "record", !.event = made + 1]
  <2>3. t \in Thread /\ t.pc = "record"
    <3>1. made + 1 \in 0 .. MaxEvents
      BY <1>3, EventMade
    <3> QED BY <1>0, <3>1 DEF Thread
  <2>4. Becomes(h, t)
    BY <1>3 DEF CreateEvent
  <2> HIDE DEF t
  <2>5. th' \in [Handlers -> Thread] /\ CallsHaveSlots'
    BY <2>3, <2>4, <1>b
  <2> QED BY <1>0, <1>3, <2>1, <2>2, <2>5 DEF TypeInv, TypeOK, CreateEvent
<1>4. CASE RecordEvent(h)
  <2>1. row' \in Row
    BY <1>0, <1>4 DEF RecordEvent, TypeOK, Row, Thread
  <2>2. mailed' \subseteq People
    BY <1>0, <1>4 DEF RecordEvent, TypeOK, Thread
  <2> QED BY <1>4, <1>i, <2>1, <2>2 DEF TypeInv, TypeOK, RecordEvent
<1>5. CASE SyncEventAttendees(h)
  <2>1. PICK e : IF Exists(e)
                 THEN /\ calendar' = [calendar EXCEPT ![e].people = th[h].people]
                      /\ mailed' = mailed \cup th[h].people
                 ELSE UNCHANGED <<calendar, mailed>>
    BY <1>5 DEF SyncEventAttendees
  <2>2. th[h].people \subseteq People
    BY <1>0 DEF Thread
  <2>3. /\ DOMAIN calendar' \subseteq 1 .. made
        /\ \A x \in DOMAIN calendar' : calendar'[x] \in CalendarEvent
        /\ mailed' \subseteq People
    BY <1>0, <2>1, <2>2, EventPatched DEF Exists, TypeOK
  <2> QED BY <1>5, <1>i, <2>3 DEF TypeInv, TypeOK, SyncEventAttendees
<1>6. CASE GetEvent(h)
  <2> DEFINE t == [th[h] EXCEPT !.pc = "patch", !.event = row.event,
                                     !.people = Event(row.event).people \ th[h].leaving,
                                     !.leaving = {}]
  <2>1. ASSUME Exists(row.event) PROVE t \in Thread /\ t.pc = "patch"
    <3>1. Event(row.event).people \ th[h].leaving \subseteq People
      BY <1>0, <2>1 DEF TypeOK, Exists, Event, CalendarEvent
    <3> QED BY <1>0, <3>1, Typed DEF Thread
  <2> HIDE DEF t
  <2>2. th' \in [Handlers -> Thread] /\ CallsHaveSlots'
    <3>1. CASE Exists(row.event)
      BY <1>6, <2>1, <3>1, <1>b DEF GetEvent, t
    <3>2. CASE ~Exists(row.event)
      BY <1>6, <3>2, <1>i DEF GetEvent
    <3> QED BY <3>1, <3>2
  <2> QED BY <1>6, <2>2 DEF TypeInv, TypeOK, GetEvent, outside
<1>7. CASE PatchEvent(h)
  <2>1. /\ DOMAIN calendar' \subseteq 1 .. made
        /\ \A x \in DOMAIN calendar' : calendar'[x] \in CalendarEvent
    <3>1. th[h].people \in SUBSET People
      BY <1>0 DEF Thread
    <3>2. CASE Exists(th[h].event)
      BY <1>0, <1>7, <3>1, <3>2, EventPatched DEF Exists, TypeOK, PatchEvent
    <3>3. CASE ~Exists(th[h].event)
      BY <1>0, <1>7, <3>3 DEF TypeOK, PatchEvent
    <3> QED BY <3>2, <3>3
  <2> QED BY <1>7, <1>i, <2>1 DEF TypeInv, TypeOK, PatchEvent
<1>8. CASE DeleteEvent(h)
  <2>1. /\ DOMAIN calendar' \subseteq 1 .. made
        /\ \A x \in DOMAIN calendar' : calendar'[x] \in CalendarEvent
    BY <1>0, <1>8 DEF DeleteEvent, TypeOK
  <2>2. mailed' \subseteq People
    BY <1>0, <1>8 DEF DeleteEvent, TypeOK
  <2> QED BY <1>8, <1>i, <2>1, <2>2 DEF TypeInv, TypeOK, DeleteEvent
<1>9. CASE Refused(h)
  BY <1>9, <1>i DEF TypeInv, TypeOK, Refused, outside
<1> QED BY <1>1, <1>2, <1>3, <1>4, <1>5, <1>6, <1>7, <1>8, <1>9 DEF Continue

LEMMA NextTypeInv == TypeInv /\ [Next]_vars => TypeInv'
<1> SUFFICES ASSUME TypeInv, [Next]_vars PROVE TypeInv'
  OBVIOUS
<1>0. TypeOK
  BY DEF TypeInv
<1>t. ASSUME UNCHANGED th PROVE th' \in [Handlers -> Thread] /\ CallsHaveSlots'
  BY <1>0, <1>t DEF TypeInv, TypeOK, CallsHaveSlots
<1>1. ASSUME NEW h \in Handlers, Handle(h) PROVE TypeInv'
  BY <1>0, <1>1, HandleDecides, DecidingTyped
<1>2. ASSUME NEW h \in Handlers, Continue(h) PROVE TypeInv'
  BY <1>2, ContinueTyped
<1>3. ASSUME NEW h \in Handlers, Abort(h) PROVE TypeInv'
  <2>1. th' \in [Handlers -> Thread] /\ CallsHaveSlots'
    BY <1>3, IdleTyped, OneBecomes DEF Abort, Becomes
  <2> QED BY <1>3, <2>1 DEF TypeInv, TypeOK, Abort, outside
<1>4. CASE SweepReminders
  <2>1. job' \in Job /\ time' \in Times
    BY <1>0, <1>4, Typed DEF SweepReminders, Job, Resting, Times, TypeOK
  <2> QED BY <1>4, <1>t, <2>1 DEF TypeInv, TypeOK, SweepReminders, outside
<1>5. CASE SendReminder
  <2>1. job' \in Job /\ sent' \in [1 .. MaxBookings -> 0 .. 2]
    <3>1. PICK slot \in {job.slot, SlotNow} :
         IF slot # 0
         THEN /\ sent' = [sent EXCEPT ![slot] = IF @ < 2 THEN @ + 1 ELSE @]
              /\ job' = [Resting EXCEPT !.pc = "mark"]
         ELSE sent' = sent /\ job' = Resting
      BY <1>5 DEF SendReminder
    <3>2. job' \in Job
      BY <3>1, BookingAssumption DEF Job, Resting
    <3> QED BY <1>0, <3>1, <3>2 DEF TypeOK
  <2> QED BY <1>5, <1>t, <2>1 DEF TypeInv, TypeOK, SendReminder, outside
<1>6. CASE MarkReminded
  <2>1. row' \in Row
    BY <1>0, <1>6, Typed DEF MarkReminded, Row
  <2>2. job' \in Job
    BY <1>6, BookingAssumption DEF MarkReminded, Job, Resting
  <2> QED BY <1>6, <1>t, <2>1, <2>2 DEF TypeInv, TypeOK, MarkReminded, outside
<1>7. CASE AbortReminder
  <2>1. job' \in Job
    BY <1>7, BookingAssumption DEF AbortReminder, Job, Resting
  <2> QED BY <1>7, <1>t, <2>1 DEF TypeInv, TypeOK, AbortReminder, outside
<1>8. CASE Crash
  <2>1. th' \in [Handlers -> Thread] /\ CallsHaveSlots'
    BY <1>8, IdleTyped DEF Crash, CallsHaveSlots
  <2>2. job' \in Job /\ time' \in Times /\ told' \in [People -> InboxKinds]
    BY <1>0, <1>8, BookingAssumption DEF Crash, Job, Resting, Times, InboxKinds, TypeOK
  <2>3. crashes' \in 0 .. MaxCrashes
    BY <1>0, <1>8, BookingAssumption DEF Crash, TypeOK
  <2> QED BY <1>8, <2>1, <2>2, <2>3 DEF TypeInv, TypeOK, Crash, outside
<1>9. CASE ComesNear
  BY <1>9, <1>t DEF TypeInv, TypeOK, ComesNear, outside, Times
<1>10. CASE Starts
  BY <1>10, <1>t DEF TypeInv, TypeOK, Starts, outside, Times
<1>11. CASE UNCHANGED vars
  BY <1>11, <1>t DEF TypeInv, TypeOK, vars, outside
<1> QED BY <1>1, <1>2, <1>3, <1>4, <1>5, <1>6, <1>7, <1>8, <1>9, <1>10, <1>11 DEF Next, Reminding

\* The row, the calendar, the inboxes, the threads and the reminder job keep
\* their types: TypeOK.
THEOREM TypesCorrect == Spec => []TypeOK
<1>1. TypeInv => TypeOK
  BY DEF TypeInv
<1> QED
  BY <1>1, InitTypeInv, NextTypeInv, PTL DEF Spec

\* A request and the conditions it is served under never change.
LEMMA SameWorld == [Next]_vars => world' = world
BY DEF Next, Handle, Continue, Reminding, SelectSlot, AcceptSeat, DeclineSeat, GiveBack,
       InterviewerCancel, SweepExpiredOffers, CandidateCancel, CandidateReschedule, Commit,
       DispatchBooking, CreateEvent, RecordEvent, SyncEventAttendees, GetEvent, PatchEvent,
       DeleteEvent, Refused, Abort, SweepReminders, SendReminder, MarkReminded,
       AbortReminder, Crash, ComesNear, Starts, vars

(***************************************************************************)
(* Reminders.  The job never has a booking in hand that it has reminded    *)
(* of, and a booking it has reminded of is the row's only while the row    *)
(* says so, or is about to.  The latter survives a commit because a handler*)
(* writes reminder_sent_at only to clear it along with the slot, and a new *)
(* slot has never been reminded of.                                        *)
(***************************************************************************)
Undisturbed == conditions \cap {"aborts", "crashes"} = {}

\* One handler at a time is about to commit ...
OnePending == \A g, h \in Handlers : th[g].pc = "commit" /\ th[h].pc = "commit" => g = h

\* ... a fresh slot, no slot, or the slot of the row.
PendingSlots ==
    \A h \in Handlers : th[h].pc = "commit" =>
        LET b == th[h].work.slot
        IN  /\ th[h].op = "select" =>
                  /\ b \in 1 .. bookings /\ sent[b] = 0
                  /\ b # row.slot /\ b # job.slot
            /\ th[h].op = "reschedule" => b = 0 /\ ~th[h].work.reminded
            /\ th[h].op \notin {"select", "reschedule"} => b = row.slot

SlotsBooked ==
    /\ row.slot <= bookings /\ job.slot <= bookings
    /\ \A b \in 1 .. MaxBookings : b > bookings => sent[b] = 0

JobFresh ==
    /\ job.pc # "idle" => ~row.reminded
    /\ job.pc = "send" => job.slot # 0 /\ sent[job.slot] = 0

RowKnows == row.slot # 0 /\ sent[row.slot] > 0 => row.reminded \/ job.pc = "mark"

SentOnce == \A b \in 1 .. MaxBookings : sent[b] <= 1

Reminders == OnePending /\ PendingSlots /\ SlotsBooked /\ JobFresh /\ RowKnows /\ SentOnce

RemindInv == Undisturbed => Reminders

\* A thread that is not about to commit afterwards changes nothing in this.
LEMMA RemindersKept ==
    ASSUME TypeInv, Reminders,
           UNCHANGED <<row, bookings, sent, job>>,
           \A h \in Handlers : th'[h].pc = "commit" => th'[h] = th[h]
    PROVE  Reminders'
<1>1. OnePending'
  BY DEF Reminders, OnePending
<1>2. PendingSlots'
  BY DEF Reminders, PendingSlots
<1> QED BY <1>1, <1>2 DEF Reminders, SlotsBooked, JobFresh, RowKnows, SentOnce

\* A handler that moves to another step.
LEMMA Moves ==
    ASSUME TypeInv, NEW h \in Handlers, NEW t, t.pc # "commit", th' = [th EXCEPT ![h] = t]
    PROVE  \A g \in Handlers : th'[g].pc = "commit" => th'[g] = th[g]
BY DEF TypeInv, TypeOK

LEMMA NextReminders ==
    ASSUME TypeInv, Reminders, Undisturbed, [Next]_vars
    PROVE  Reminders'
<1>0. TypeOK /\ \A h \in Handlers : th[h] \in Thread
  BY DEF TypeInv, TypeOK
<1>t. /\ row.slot \in 0 .. MaxBookings /\ bookings \in 0 .. MaxBookings /\ MaxBookings \in Nat
      /\ job.slot \in 0 .. MaxBookings /\ sent \in [1 .. MaxBookings -> 0 .. 2]
  BY <1>0, Typed DEF TypeOK, Job
<1>1. ASSUME NEW h \in Handlers, Handle(h) PROVE Reminders'
  <2>1. PICK op, next, expired, leaving : Deciding(h, op, next, expired, leaving)
    BY <1>0, <1>1, HandleDecides
  <2>2. /\ th'[h].pc = "commit" /\ th'[h].op = op /\ th'[h].work = next
        /\ \A g \in Handlers : g # h => th'[g] = th[g]
    BY <2>1, DecidingTyped
  <2>3. \A g \in Handlers : th[g].pc # "commit"
    BY <2>1 DEF Deciding, MayStart
  <2>4. UNCHANGED <<row, sent, job>> /\ Choice(op, next)
    BY <2>1 DEF Deciding
  <2>5. OnePending'
    BY <2>2, <2>3 DEF OnePending
  <2>6. CASE op = "select"
    <3>1. next.slot = bookings + 1 /\ bookings' = bookings + 1 /\ bookings' \in 0 .. MaxBookings
      BY <2>4, <2>6, <1>0, Typed DEF Choice
    <3>2. PendingSlots'
      BY <1>t, <2>2, <2>3, <2>4, <2>6, <3>1 DEF PendingSlots, Reminders, SlotsBooked
    <3>3. SlotsBooked'
      BY <1>t, <2>4, <3>1 DEF Reminders, SlotsBooked
    <3> QED BY <2>4, <2>5, <3>2, <3>3 DEF Reminders, JobFresh, RowKnows, SentOnce
  <2>7. CASE op # "select"
    <3>1. bookings' = bookings
      BY <2>4, <2>7 DEF Choice
    <3>2. op = "reschedule" => next.slot = 0 /\ ~next.reminded
      BY <2>4 DEF Choice, NoRow
    <3>3. op # "reschedule" => next.slot = row.slot
      BY <2>4, <2>7 DEF Choice
    <3>4. PendingSlots'
      BY <2>2, <2>3, <2>4, <2>7, <3>2, <3>3 DEF PendingSlots
    <3> QED BY <2>4, <2>5, <3>1, <3>4 DEF Reminders, SlotsBooked, JobFresh, RowKnows, SentOnce
  <2> QED BY <2>6, <2>7
<1>2. ASSUME NEW h \in Handlers, Commit(h) PROVE Reminders'
  <2>1. /\ th[h].pc = "commit"
        /\ th' = [th EXCEPT ![h] = AfterCommit(h)]
        /\ AfterCommit(h).pc # "commit"
        /\ UNCHANGED <<bookings, sent, job>>
    BY <1>0, <1>2, Committed DEF Commit, Becomes
  <2>2. \A g \in Handlers : th'[g].pc # "commit"
    BY <1>0, <2>1, Moves DEF Reminders, OnePending, TypeOK
  <2>3. OnePending' /\ PendingSlots'
    BY <2>2 DEF OnePending, PendingSlots
  <2>4. /\ row'.slot = th[h].work.slot
        /\ th[h].op # "reschedule" => row'.reminded = row.reminded
        /\ th[h].op = "reschedule" /\ ~th[h].work.reminded /\ ~row.reminded => ~row'.reminded
    BY <1>0, <1>2, RowCommitted DEF Written
  <2>5. CASE th[h].op = "select"
    BY <1>t, <2>1, <2>3, <2>4, <2>5
    DEF Reminders, PendingSlots, SlotsBooked, JobFresh, RowKnows, SentOnce
  <2>6. CASE th[h].op = "reschedule"
    BY <1>t, <2>1, <2>3, <2>4, <2>6
    DEF Reminders, PendingSlots, SlotsBooked, JobFresh, RowKnows, SentOnce
  <2>7. CASE th[h].op \notin {"select", "reschedule"}
    BY <1>t, <2>1, <2>3, <2>4, <2>7
    DEF Reminders, PendingSlots, SlotsBooked, JobFresh, RowKnows, SentOnce
  <2> QED BY <2>5, <2>6, <2>7
<1>3. ASSUME NEW h \in Handlers, RecordEvent(h) PROVE Reminders'
  <2>1. row'.slot = row.slot /\ row'.reminded = row.reminded /\ UNCHANGED <<bookings, sent, job>>
    BY <1>0, <1>3, Typed DEF RecordEvent, Row
  <2>2. \A g \in Handlers : th'[g].pc = "commit" => th'[g] = th[g]
    BY <1>3, IdleTyped, Moves DEF RecordEvent, Becomes
  <2>3. OnePending' /\ PendingSlots'
    BY <2>1, <2>2 DEF Reminders, OnePending, PendingSlots
  <2> QED BY <2>1, <2>3 DEF Reminders, SlotsBooked, JobFresh, RowKnows, SentOnce
<1>4. ASSUME NEW h \in Handlers, NEW t, t.pc # "commit", Becomes(h, t),
             UNCHANGED <<row, bookings, sent, job>>
      PROVE  Reminders'
  BY <1>4, Moves, RemindersKept DEF Becomes
<1>5. ASSUME NEW h \in Handlers, Continue(h) PROVE Reminders'
  <2>1. CASE DispatchBooking(h)
    <3>1. [th[h] EXCEPT !.pc = "call", !.people = Attendees(row),
                        !.event = row.event, !.slot = row.slot].pc # "commit"
      BY <1>0 DEF Thread
    <3> QED BY <2>1, <3>1, <1>4, IdleTyped DEF DispatchBooking, outside
  <2>2. CASE CreateEvent(h)
    <3>1. [th[h] EXCEPT !.pc = "record", !.event = made + 1].pc # "commit"
      BY <1>0 DEF Thread
    <3> QED BY <2>2, <3>1, <1>4 DEF CreateEvent
  <2>3. CASE SyncEventAttendees(h)
    BY <2>3, <1>4, IdleTyped DEF SyncEventAttendees
  <2>4. CASE GetEvent(h)
    <3>1. [th[h] EXCEPT !.pc = "patch", !.event = row.event,
                        !.people = Event(row.event).people \ th[h].leaving,
                        !.leaving = {}].pc # "commit"
      BY <1>0 DEF Thread
    <3> QED BY <2>4, <3>1, <1>4, IdleTyped DEF GetEvent, outside
  <2>5. CASE PatchEvent(h)
    BY <2>5, <1>4, IdleTyped DEF PatchEvent
  <2>6. CASE DeleteEvent(h)
    BY <2>6, <1>4, IdleTyped DEF DeleteEvent
  <2>7. CASE Refused(h)
    BY <2>7, <1>4, IdleTyped DEF Refused, outside
  <2> QED BY <1>5, <1>2, <1>3, <2>1, <2>2, <2>3, <2>4, <2>5, <2>6, <2>7 DEF Continue
<1>6. ASSUME NEW h \in Handlers, Abort(h) PROVE FALSE
  BY <1>6 DEF Abort, Undisturbed
<1>7. CASE SweepReminders
  <2>1. job'.slot \in {0, row.slot} /\ (job'.pc = "send" => job'.slot = row.slot /\ IsDue)
        /\ job'.pc \in {"idle", "send"}
    BY <1>7 DEF SweepReminders, Resting
  <2>2. job.pc = "idle" /\ UNCHANGED <<row, bookings, sent, th>>
    BY <1>7 DEF SweepReminders
  <2>3. job'.pc = "send" => ~row.reminded /\ row.slot # 0 /\ sent[row.slot] = 0
    BY <1>t, <2>1, <2>2 DEF IsDue, Reminders, RowKnows
  <2>4. OnePending' /\ PendingSlots'
    BY <1>t, <2>1, <2>2 DEF Reminders, OnePending, PendingSlots
  <2> QED BY <1>t, <2>1, <2>2, <2>3, <2>4 DEF Reminders, SlotsBooked, JobFresh, RowKnows, SentOnce
<1>8. CASE SendReminder
  <2>1. job.pc = "send" /\ UNCHANGED <<row, bookings, th>>
    BY <1>8 DEF SendReminder
  <2>2. PICK slot \in {job.slot, SlotNow} :
         IF slot # 0
         THEN /\ sent' = [sent EXCEPT ![slot] = IF @ < 2 THEN @ + 1 ELSE @]
              /\ job' = [Resting EXCEPT !.pc = "mark"]
         ELSE sent' = sent /\ job' = Resting
    BY <1>8 DEF SendReminder
  <2>3. job'.slot = 0 /\ job'.pc \in {"idle", "mark"} /\ (slot # 0 => job'.pc = "mark")
    BY <2>2 DEF Resting
  <2>4. slot \in {0, job.slot, row.slot} /\ slot \in 0 .. MaxBookings /\ slot <= bookings
    BY <1>t, <2>2 DEF SlotNow, Reminders, SlotsBooked
  <2>5. slot # 0 => sent[slot] = 0
    BY <1>t, <2>1, <2>4 DEF Reminders, JobFresh, RowKnows
  <2>6. \A b \in 1 .. MaxBookings : sent'[b] = IF b = slot THEN 1 ELSE sent[b]
    BY <1>t, <2>2, <2>4, <2>5
  <2>7. OnePending' /\ PendingSlots'
    <3>1. OnePending'
      BY <2>1 DEF Reminders, OnePending
    <3>2. PendingSlots'
      BY <1>t, <2>1, <2>3, <2>4, <2>6 DEF Reminders, PendingSlots
    <3> QED BY <3>1, <3>2
  <2>8. SlotsBooked' /\ SentOnce'
    BY <1>t, <2>1, <2>3, <2>4, <2>6 DEF Reminders, SlotsBooked, SentOnce
  <2>9. JobFresh' /\ RowKnows'
    BY <1>t, <2>1, <2>2, <2>3, <2>4, <2>6 DEF Reminders, JobFresh, RowKnows
  <2> QED BY <2>7, <2>8, <2>9 DEF Reminders
<1>9. CASE MarkReminded
  <2>1. row'.slot = row.slot /\ row'.reminded /\ UNCHANGED <<bookings, sent, th>>
        /\ job'.slot = 0 /\ job'.pc = "idle"
    BY <1>0, <1>9, Typed DEF MarkReminded, Row, Resting
  <2>2. OnePending' /\ PendingSlots'
    BY <1>t, <2>1 DEF Reminders, OnePending, PendingSlots
  <2> QED BY <1>t, <2>1, <2>2 DEF Reminders, SlotsBooked, JobFresh, RowKnows, SentOnce
<1>10. CASE AbortReminder
  BY <1>10 DEF AbortReminder, Undisturbed
<1>11. CASE Crash
  BY <1>11 DEF Crash, Undisturbed
<1>12. CASE UNCHANGED <<row, bookings, sent, job, th>>
  BY <1>12, RemindersKept
<1> QED BY <1>1, <1>5, <1>6, <1>7, <1>8, <1>9, <1>10, <1>11, <1>12
        DEF Next, Reminding, ComesNear, Starts, vars

\* Unless a commit fails or the process dies, no booking is reminded of twice,
\* however handlers and the reminder job overlap: RemindedOnce.
THEOREM NoSecondReminder == Spec => []RemindedOnce
<1>1. Init => RemindInv
  <2> SUFFICES ASSUME Init PROVE Reminders
    BY DEF RemindInv
  <2>1. \A h \in Handlers : th[h].pc = "idle"
    BY DEF Init, Idle
  <2>2. row.slot = 0 /\ job.slot = 0 /\ job.pc = "idle" /\ bookings = 0
    BY DEF Init, NoRow, Resting
  <2>3. \A b \in 1 .. MaxBookings : sent[b] = 0
    BY DEF Init
  <2> QED BY <2>1, <2>2, <2>3, BookingAssumption
          DEF Reminders, OnePending, PendingSlots, SlotsBooked, JobFresh, RowKnows, SentOnce
<1>2. TypeInv /\ RemindInv /\ [Next]_vars => RemindInv'
  <2> SUFFICES ASSUME TypeInv, RemindInv, [Next]_vars, Undisturbed' PROVE Reminders'
    BY DEF RemindInv
  <2>1. world' = world
    BY SameWorld
  <2>2. Undisturbed
    BY <2>1 DEF Undisturbed, conditions
  <2> QED BY <2>2, NextReminders DEF RemindInv
<1>3. RemindInv => RemindedOnce
  BY DEF RemindInv, Undisturbed, Reminders, SentOnce, RemindedOnce
<1> QED
  BY <1>1, <1>2, <1>3, InitTypeInv, NextTypeInv, PTL DEF Spec

(***************************************************************************)
(* Events.  Without overlap one handler at a time is at work, so the row   *)
(* does not move between the moment a dispatch reads it and the moment the *)
(* new event is recorded in it: an event is made only for a booking that   *)
(* has none but those a crash left behind.  A commit clears the row's event*)
(* only with its slot or for good, as nothing is dispatched for a cancelled*)
(* interview and a new slot has no events.                                 *)
(***************************************************************************)
Calm == conditions \subseteq {"refusals", "crashes"}

EventsOf(b) == {e \in DOMAIN calendar : calendar[e].slot = b}

On(rw) == rw.slot # 0 /\ rw.status # "cancelled"

OneAtWork == \A g, h \in Handlers : th[g].pc # "idle" /\ th[h].pc # "idle" => g = h

\* What a handler about to commit will do to the slot and the event.
PendingEvents ==
    \A h \in Handlers : th[h].pc = "commit" =>
        LET work == th[h].work
        IN  /\ th[h].op \in Ops
            /\ th[h].snap.event = row.event
            /\ th[h].op = "select" => work.slot \in 1 .. bookings /\ EventsOf(work.slot) = {}
            /\ th[h].op \in {"answer", "back_out"} =>
                  work.slot = row.slot /\ work.event = row.event /\ row.status # "cancelled"
            /\ th[h].op = "answer" => row.slot # 0
            /\ th[h].op = "cancel" => work.status = "cancelled" /\ work.slot = row.slot
            /\ th[h].op = "reschedule" => work.slot = 0

\* What a handler at work on an event knows about the row.
Dispatching ==
    \A h \in Handlers :
        /\ th[h].pc \in {"dispatch", "call", "record"} => On(row)
        /\ th[h].pc \in {"call", "record"} => th[h].slot = row.slot
        /\ th[h].pc = "call" => th[h].event = row.event
        /\ th[h].pc = "record" => th[h].event # 0

FewEvents ==
    /\ row.slot <= bookings
    /\ \A b \in 1 .. MaxBookings : b > bookings => EventsOf(b) = {}
    /\ \A b \in 1 .. MaxBookings : Cardinality(EventsOf(b)) <= 1 + crashes

NoneToSpare ==
    On(row) /\ row.event = 0 /\ (\A h \in Handlers : th[h].pc # "record") =>
        Cardinality(EventsOf(row.slot)) <= crashes

Events == OneAtWork /\ PendingEvents /\ Dispatching /\ FewEvents /\ NoneToSpare

EventsInv == Calm => Events

\* There are finitely many events, and fewer if some go.
LEMMA CountedEvents ==
    ASSUME TypeOK, NEW b
    PROVE  IsFiniteSet(EventsOf(b)) /\ Cardinality(EventsOf(b)) \in Nat
<1>1. IsFiniteSet(1 .. made)
  BY FS_Interval DEF TypeOK
<1>2. EventsOf(b) \in SUBSET (1 .. made)
  BY DEF EventsOf, TypeOK
<1> QED BY <1>1, <1>2, FS_Subset, FS_CardinalityType

LEMMA FewerEvents ==
    ASSUME TypeOK, NEW b, EventsOf(b)' \subseteq EventsOf(b)
    PROVE  Cardinality(EventsOf(b)') <= Cardinality(EventsOf(b))
BY CountedEvents, FS_Subset

\* A thread that goes idle, or on to remove people or events, while no event
\* is added and the row keeps its slot, status and event.
LEMMA EventsKept ==
    ASSUME TypeInv, TypeInv', Events,
           row'.slot = row.slot, row'.status = row.status, row'.event = row.event,
           UNCHANGED <<bookings, crashes>>,
           \A b \in 1 .. MaxBookings : EventsOf(b)' \subseteq EventsOf(b),
           \A h \in Handlers : \/ th'[h] = th[h]
                               \/ /\ th[h].pc \notin {"idle", "record"}
                                  /\ th'[h].pc \in {"idle", "get", "patch", "delete"}
    PROVE  Events'
<1>0. TypeOK /\ TypeOK'
  BY DEF TypeInv
<1>t. /\ row.slot \in 0 .. MaxBookings /\ bookings \in 0 .. MaxBookings /\ MaxBookings \in Nat
      /\ crashes \in Nat
  BY <1>0, Typed DEF TypeOK
<1>1. OneAtWork'
  BY DEF Events, OneAtWork
<1>2. PendingEvents'
  <2> SUFFICES ASSUME NEW h \in Handlers, th'[h].pc = "commit"
               PROVE  /\ th'[h] = th[h]
                      /\ th[h].op = "select" => EventsOf(th[h].work.slot)' = {}
    BY DEF Events, PendingEvents
  <2>1. th'[h] = th[h]
    OBVIOUS
  <2>2. th[h].op = "select" => /\ th[h].work.slot \in 1 .. MaxBookings
                               /\ EventsOf(th[h].work.slot) = {}
    BY <1>t, <2>1 DEF Events, PendingEvents
  <2> QED BY <2>1, <2>2
<1>3. Dispatching'
  BY DEF Events, Dispatching, On
<1>4. ASSUME NEW b \in 1 .. MaxBookings
      PROVE  /\ Cardinality(EventsOf(b)') <= Cardinality(EventsOf(b))
             /\ Cardinality(EventsOf(b)') \in Nat /\ Cardinality(EventsOf(b)) \in Nat
  <2>1. Cardinality(EventsOf(b)') <= Cardinality(EventsOf(b))
    BY <1>0, FewerEvents
  <2>2. Cardinality(EventsOf(b)) \in Nat
    BY <1>0, CountedEvents
  <2>3. IsFiniteSet(EventsOf(b)) /\ EventsOf(b)' \in SUBSET EventsOf(b)
    BY <1>0, CountedEvents
  <2>4. IsFiniteSet(EventsOf(b)')
    BY <2>3, FS_Subset
  <2> QED BY <2>1, <2>2, <2>4, FS_CardinalityType
<1>5. FewEvents'
  BY <1>t, <1>4 DEF Events, FewEvents
<1>6. NoneToSpare'
  <2> SUFFICES ASSUME On(row)', row'.event = 0, \A h \in Handlers : th'[h].pc # "record"
               PROVE  Cardinality(EventsOf(row.slot)') <= crashes
    BY DEF NoneToSpare
  <2>1. On(row) /\ row.event = 0 /\ row.slot \in 1 .. MaxBookings
    BY <1>t DEF On
  <2>2. \A h \in Handlers : th[h].pc # "record"
    OBVIOUS
  <2>3. Cardinality(EventsOf(row.slot)) <= crashes
    BY <2>1, <2>2 DEF Events, NoneToSpare
  <2> QED BY <1>t, <1>4, <2>1, <2>3
<1> QED BY <1>1, <1>2, <1>3, <1>5, <1>6 DEF Events

LEMMA NextEvents ==
    ASSUME TypeInv, TypeInv', Events, Calm, [Next]_vars
    PROVE  Events'
<1>0. TypeOK /\ TypeOK' /\ \A h \in Handlers : th[h] \in Thread
  BY DEF TypeInv, TypeOK
<1>t. /\ row.slot \in 0 .. MaxBookings /\ bookings \in 0 .. MaxBookings /\ MaxBookings \in Nat
      /\ crashes \in Nat
  BY <1>0, Typed DEF TypeOK
<1>n. \A b : Cardinality(EventsOf(b)) \in Nat
  BY <1>0, CountedEvents
<1>s. ASSUME UNCHANGED calendar PROVE \A b : EventsOf(b)' = EventsOf(b)
  BY <1>s DEF EventsOf
<1>b. ASSUME NEW h \in Handlers, NEW t, Becomes(h, t)
      PROVE  th'[h] = t /\ \A g \in Handlers : g # h => th'[g] = th[g]
  BY <1>0, <1>b DEF Becomes, TypeOK
<1>1. ASSUME NEW h \in Handlers, Handle(h) PROVE Events'
  <2>1. PICK op, next, expired, leaving : Deciding(h, op, next, expired, leaving)
    BY <1>0, <1>1, HandleDecides
  <2>2. /\ th'[h].pc = "commit" /\ th'[h].op = op /\ th'[h].work = next /\ th'[h].snap = row
        /\ \A g \in Handlers : g # h => th'[g] = th[g]
    BY <2>1, DecidingTyped
  <2>3. \A g \in Handlers : th[g].pc = "idle"
    BY <2>1 DEF Deciding, MayStart, AllQuiet, Calm
  <2>4. UNCHANGED <<row, calendar, crashes>> /\ Choice(op, next) /\ op \in Ops
    BY <2>1 DEF Deciding, outside
  <2>5. OneAtWork'
    BY <2>2, <2>3 DEF OneAtWork
  <2>6. Dispatching'
    BY <2>2, <2>3 DEF Dispatching
  <2>7. bookings' \in 0 .. MaxBookings /\ bookings <= bookings'
    BY <1>t, <1>0, <2>4 DEF Choice, TypeOK
  <2>8. PendingEvents'
    <3>1. op = "select" => next.slot = bookings' /\ next.slot = bookings + 1
      BY <2>4 DEF Choice
    <3>2. op = "select" => EventsOf(next.slot)' = {} /\ next.slot \in 1 .. bookings'
      BY <1>t, <1>s, <2>4, <2>7, <3>1 DEF Events, FewEvents
    <3>3. op \in {"answer", "back_out"} =>
             next.slot = row.slot /\ next.event = row.event /\ row.status # "cancelled"
      BY <2>4 DEF Choice, Calm
    <3>4. /\ op = "answer" => row.slot # 0
          /\ op = "cancel" => next.status = "cancelled" /\ next.slot = row.slot
          /\ op = "reschedule" => next.slot = 0
      BY <2>4 DEF Choice, HasInterview, NoRow
    <3> QED BY <2>2, <2>3, <2>4, <3>2, <3>3, <3>4 DEF PendingEvents
  <2>9. FewEvents'
    BY <1>t, <1>s, <2>4, <2>7 DEF Events, FewEvents
  <2>10. NoneToSpare'
    BY <1>s, <2>3, <2>4 DEF Events, NoneToSpare, On
  <2> QED BY <2>5, <2>6, <2>8, <2>9, <2>10 DEF Events
<1>2. ASSUME NEW h \in Handlers, Commit(h) PROVE Events'
  <2>1. /\ th[h].pc = "commit" /\ th'[h] = AfterCommit(h)
        /\ \A g \in Handlers : g # h => th'[g] = th[g]
        /\ UNCHANGED <<bookings, calendar, crashes>>
    BY <1>2, <1>b DEF Commit, outside
  <2>2. \A g \in Handlers : g # h => th[g].pc = "idle"
    BY <2>1 DEF Events, OneAtWork
  <2>3. /\ AfterCommit(h).pc \in {"idle", "get", "delete", "dispatch"}
        /\ AfterCommit(h).pc = "dispatch" => th[h].op = "answer"
    BY <1>0, Committed DEF AfterCommit, Idle
  <2>4. /\ row'.slot = th[h].work.slot /\ row'.status = th[h].work.status
        /\ th[h].op \in {"answer", "back_out"} => row'.event = row.event
    BY <1>0, <1>2, <2>1, RowCommitted DEF Written, Events, PendingEvents
  <2>5. OneAtWork' /\ PendingEvents'
    BY <2>1, <2>2, <2>3 DEF OneAtWork, PendingEvents
  <2>6. Dispatching'
    <3>1. ASSUME th[h].op = "answer", th[h].work.status = "panel_complete" PROVE On(row')
      BY <2>1, <2>4, <3>1 DEF On, Events, PendingEvents
    <3>2. AfterCommit(h).pc = "dispatch" => th[h].work.status = "panel_complete"
      BY DEF AfterCommit, Idle
    <3> QED BY <2>1, <2>2, <2>3, <3>1, <3>2 DEF Dispatching, On
  <2>7. FewEvents'
    <3>1. row'.slot <= bookings
      BY <1>t, <2>1, <2>4 DEF Events, PendingEvents, FewEvents, Ops
    <3> QED BY <1>s, <2>1, <3>1 DEF Events, FewEvents
  <2>8. NoneToSpare'
    <3>1. CASE th[h].op = "select"
      <4>1. PICK b : b = th[h].work.slot
        OBVIOUS
      <4>2. row'.slot = b /\ EventsOf(b) = {}
        BY <2>1, <2>4, <3>1, <4>1 DEF Events, PendingEvents
      <4>3. EventsOf(b)' = {}
        BY <1>s, <2>1, <4>2
      <4>4. Cardinality(EventsOf(b)') = 0
        BY <4>3, FS_EmptySet
      <4> QED BY <1>t, <2>1, <4>2, <4>4 DEF NoneToSpare
    <3>2. CASE th[h].op \in {"answer", "back_out"}
      <4>1. row'.slot = row.slot /\ row'.event = row.event /\ row.status # "cancelled"
        BY <2>1, <2>4, <3>2 DEF Events, PendingEvents
      <4>2. \A g \in Handlers : th[g].pc # "record"
        BY <2>1, <2>2
      <4> QED BY <1>s, <2>1, <4>1, <4>2 DEF Events, NoneToSpare, On
    <3>3. CASE th[h].op \in {"cancel", "reschedule"}
      BY <2>1, <2>4, <3>3 DEF Events, PendingEvents, NoneToSpare, On
    <3> QED BY <2>1, <3>1, <3>2, <3>3 DEF Events, PendingEvents, Ops
  <2> QED BY <2>5, <2>6, <2>7, <2>8 DEF Events
<1>3. ASSUME NEW h \in Handlers, DispatchBooking(h), HasInterview(row) PROVE Events'
  <2> DEFINE t == [th[h] EXCEPT !.pc = "call", !.people = Attendees(row),
                                !.event = row.event, !.slot = row.slot]
  <2>1. t.pc = "call" /\ t.event = row.event /\ t.slot = row.slot
    BY <1>0 DEF Thread
  <2> HIDE DEF t
  <2>2. /\ th[h].pc = "dispatch" /\ th'[h] = t
        /\ \A g \in Handlers : g # h => th'[g] = th[g]
        /\ UNCHANGED <<row, bookings, calendar, crashes>>
    BY <1>3, <1>b DEF DispatchBooking, outside, t
  <2>3. OneAtWork' /\ PendingEvents'
    BY <1>s, <2>1, <2>2 DEF Events, OneAtWork, PendingEvents
  <2>4. Dispatching'
    BY <2>1, <2>2 DEF Events, Dispatching, On
  <2>5. FewEvents' /\ NoneToSpare'
    BY <1>s, <2>1, <2>2 DEF Events, FewEvents, NoneToSpare, On
  <2> QED BY <2>3, <2>4, <2>5 DEF Events
<1>4. ASSUME NEW h \in Handlers, CreateEvent(h) PROVE Events'
  <2> DEFINE t == [th[h] EXCEPT !.pc = "record", !.event = made + 1]
  <2>0. made \in Nat
    BY <1>0, BookingAssumption DEF TypeOK
  <2>1. t.pc = "record" /\ t.event = made + 1 /\ t.slot = th[h].slot
    BY <1>0 DEF Thread
  <2> HIDE DEF t
  <2>2. /\ th[h].pc = "call" /\ th'[h] = t
        /\ \A g \in Handlers : g # h => th'[g] = th[g]
        /\ UNCHANGED <<row, bookings, crashes>>
        /\ 0 \in KnownEvents(h)
    BY <1>4, <1>b DEF CreateEvent, t
  <2>3. \A g \in Handlers : g # h => th[g].pc = "idle"
    BY <2>2 DEF Events, OneAtWork
  <2>4. On(row) /\ th[h].slot = row.slot /\ row.event = 0 /\ row.slot \in 1 .. MaxBookings
    BY <1>t, <2>2 DEF Events, Dispatching, KnownEvents, On
  <2>5. \A b : EventsOf(b)' = IF b = row.slot THEN EventsOf(b) \cup {made + 1} ELSE EventsOf(b)
    BY <1>4, <2>4, EventMade DEF EventsOf
  <2>6. Cardinality(EventsOf(row.slot)) <= crashes
    BY <2>2, <2>3, <2>4 DEF Events, NoneToSpare
  <2>7. Cardinality(EventsOf(row.slot) \cup {made + 1}) <= 1 + crashes
    <3>1. IsFiniteSet(EventsOf(row.slot))
      BY <1>0, CountedEvents
    <3>2. Cardinality(EventsOf(row.slot) \cup {made + 1})
            \in {Cardinality(EventsOf(row.slot)), Cardinality(EventsOf(row.slot)) + 1}
      BY <3>1, FS_AddElement
    <3>3. Cardinality(EventsOf(row.slot)) \in Nat
      BY <1>n
    <3> QED BY <1>t, <2>6, <3>2, <3>3
  <2>8. OneAtWork' /\ PendingEvents' /\ NoneToSpare'
    BY <2>1, <2>2, <2>3 DEF Events, OneAtWork, PendingEvents, NoneToSpare
  <2>9. Dispatching'
    BY <2>0, <2>1, <2>2, <2>3, <2>4 DEF Dispatching, On
  <2>10. FewEvents'
    <3>1. \A b \in 1 .. MaxBookings : b > bookings => b # row.slot
      BY <1>t DEF Events, FewEvents
    <3>2. \A b \in 1 .. MaxBookings : Cardinality(EventsOf(b)') <= 1 + crashes
      BY <2>5, <2>7 DEF Events, FewEvents
    <3> QED BY <2>2, <2>5, <3>1, <3>2 DEF Events, FewEvents
  <2> QED BY <2>8, <2>9, <2>10 DEF Events
<1>5. ASSUME NEW h \in Handlers, RecordEvent(h) PROVE Events'
  <2>1. /\ th[h].pc = "record" /\ th'[h].pc = "idle"
        /\ \A g \in Handlers : g # h => th'[g] = th[g]
        /\ UNCHANGED <<bookings, calendar, crashes>>
    BY <1>5, <1>b, IdleTyped DEF RecordEvent
  <2>2. row'.slot = row.slot /\ row'.status = row.status /\ row'.event = th[h].event
    BY <1>0, <1>5, Typed DEF RecordEvent, Row
  <2>3. \A g \in Handlers : th'[g].pc = "idle"
    BY <2>1 DEF Events, OneAtWork
  <2>4. th[h].event # 0
    BY <2>1 DEF Events, Dispatching
  <2>5. OneAtWork' /\ PendingEvents' /\ Dispatching'
    BY <2>3 DEF OneAtWork, PendingEvents, Dispatching
  <2>6. FewEvents' /\ NoneToSpare'
    BY <1>s, <2>1, <2>2, <2>4 DEF Events, FewEvents, NoneToSpare
  <2> QED BY <2>5, <2>6 DEF Events
<1>6. ASSUME NEW h \in Handlers, NEW t, th[h].pc \notin {"idle", "record"},
             t.pc \in {"idle", "get", "patch", "delete"}, Becomes(h, t),
             UNCHANGED <<row, bookings, crashes>>,
             \A b \in 1 .. MaxBookings : EventsOf(b)' \subseteq EventsOf(b)
      PROVE  Events'
  <2>1. \A g \in Handlers : \/ th'[g] = th[g]
                            \/ /\ th[g].pc \notin {"idle", "record"}
                               /\ th'[g].pc \in {"idle", "get", "patch", "delete"}
    BY <1>6, <1>b
  <2> QED BY <1>6, <2>1, EventsKept
<1>7. ASSUME NEW h \in Handlers, Continue(h) PROVE Events'
  <2>1. CASE DispatchBooking(h)
    <3>1. CASE HasInterview(row)
      BY <2>1, <3>1, <1>3
    <3>2. CASE ~HasInterview(row)
      BY <2>1, <3>2, <1>6, <1>s, IdleTyped DEF DispatchBooking, outside
    <3> QED BY <3>1, <3>2
  <2>2. CASE SyncEventAttendees(h)
    <3>1. PICK e : IF Exists(e)
                   THEN /\ calendar' = [calendar EXCEPT ![e].people = th[h].people]
                        /\ mailed' = mailed \cup th[h].people
                   ELSE UNCHANGED <<calendar, mailed>>
      BY <2>2 DEF SyncEventAttendees
    <3>2. th[h].people \in SUBSET People
      BY <1>0 DEF Thread
    <3>3. \A b \in 1 .. MaxBookings : EventsOf(b)' \subseteq EventsOf(b)
      <4>1. CASE Exists(e)
        BY <1>0, <3>1, <3>2, <4>1, EventPatched DEF Exists, EventsOf
      <4>2. CASE ~Exists(e)
        BY <1>s, <3>1, <4>2
      <4> QED BY <4>1, <4>2
    <3> QED BY <2>2, <3>3, <1>6, IdleTyped DEF SyncEventAttendees
  <2>3. CASE GetEvent(h)
    <3>1. [th[h] EXCEPT !.pc = "patch", !.event = row.event,
                        !.people = Event(row.event).people \ th[h].leaving,
                        !.leaving = {}].pc = "patch"
      BY <1>0 DEF Thread
    <3>2. \A b \in 1 .. MaxBookings : EventsOf(b)' \subseteq EventsOf(b)
      BY <1>s, <2>3 DEF GetEvent, outside
    <3> QED BY <2>3, <3>1, <3>2, <1>6, IdleTyped DEF GetEvent
  <2>4. CASE PatchEvent(h)
    <3>1. th[h].people \in SUBSET People
      BY <1>0 DEF Thread
    <3>2. \A b \in 1 .. MaxBookings : EventsOf(b)' \subseteq EventsOf(b)
      <4>1. CASE Exists(th[h].event)
        BY <1>0, <2>4, <3>1, <4>1, EventPatched DEF Exists, EventsOf, PatchEvent
      <4>2. CASE ~Exists(th[h].event)
        BY <1>s, <2>4, <4>2 DEF PatchEvent
      <4> QED BY <4>1, <4>2
    <3> QED BY <2>4, <3>2, <1>6, IdleTyped DEF PatchEvent
  <2>5. CASE DeleteEvent(h)
    <3>1. \A b \in 1 .. MaxBookings : EventsOf(b)' \subseteq EventsOf(b)
      BY <2>5 DEF DeleteEvent, EventsOf
    <3> QED BY <2>5, <3>1, <1>6, IdleTyped DEF DeleteEvent
  <2>6. CASE Refused(h)
    BY <2>6, <1>6, <1>s, IdleTyped DEF Refused, outside
  <2> QED BY <1>7, <1>2, <1>4, <1>5, <2>1, <2>2, <2>3, <2>4, <2>5, <2>6 DEF Continue
<1>8. ASSUME NEW h \in Handlers, Abort(h) PROVE FALSE
  BY <1>8 DEF Abort, Calm
<1>9. CASE Crash
  <2>1. /\ crashes' = crashes + 1 /\ UNCHANGED <<row, bookings, calendar>>
        /\ \A h \in Handlers : th'[h].pc = "idle"
    BY <1>9, IdleTyped DEF Crash, outside
  <2>2. OneAtWork' /\ PendingEvents' /\ Dispatching'
    BY <2>1 DEF OneAtWork, PendingEvents, Dispatching
  <2>3. FewEvents'
    BY <1>n, <1>s, <1>t, <2>1 DEF Events, FewEvents
  <2>4. NoneToSpare'
    <3>1. On(row) => row.slot \in 1 .. MaxBookings
      BY <1>t DEF On
    <3> QED BY <1>n, <1>s, <1>t, <2>1, <3>1 DEF Events, FewEvents, NoneToSpare, On
  <2> QED BY <2>2, <2>3, <2>4 DEF Events
<1>10. ASSUME row'.slot = row.slot, row'.status = row.status, row'.event = row.event,
              UNCHANGED <<bookings, crashes, calendar, th>>
       PROVE  Events'
  BY <1>10, <1>s, EventsKept
<1>11. CASE MarkReminded
  <2>1. row'.slot = row.slot /\ row'.status = row.status /\ row'.event = row.event
    BY <1>0, <1>11, Typed DEF MarkReminded, Row
  <2> QED BY <1>11, <2>1, <1>10 DEF MarkReminded, outside
<1>12. CASE UNCHANGED <<row, bookings, crashes, calendar, th>>
  BY <1>10, <1>12
<1> QED BY <1>1, <1>7, <1>8, <1>9, <1>11, <1>12
        DEF Next, Reminding, SweepReminders, SendReminder, AbortReminder, ComesNear, Starts,
            vars, outside

\* EventsInv holds throughout.
LEMMA EventsHold == Spec => []EventsInv
<1>1. TypeInv /\ Init => EventsInv
  <2> SUFFICES ASSUME TypeInv, Init PROVE Events
    BY DEF EventsInv
  <2>1. \A h \in Handlers : th[h].pc = "idle"
    BY DEF Init, Idle
  <2>2. row.slot = 0 /\ bookings = 0 /\ crashes = 0
    BY DEF Init, NoRow
  <2>3. \A b : EventsOf(b) = {}
    BY DEF Init, EventsOf
  <2>4. \A b : Cardinality(EventsOf(b)) = 0
    BY <2>3, FS_EmptySet
  <2> QED BY <2>1, <2>2, <2>3, <2>4
          DEF Events, OneAtWork, PendingEvents, Dispatching, FewEvents, NoneToSpare, On
<1>2. TypeInv /\ TypeInv' /\ EventsInv /\ [Next]_vars => EventsInv'
  <2> SUFFICES ASSUME TypeInv, TypeInv', EventsInv, [Next]_vars, Calm' PROVE Events'
    BY DEF EventsInv
  <2>1. Calm
    BY SameWorld DEF Calm, conditions
  <2> QED BY <2>1, NextEvents DEF EventsInv
<1> QED
  BY <1>1, <1>2, InitTypeInv, NextTypeInv, PTL DEF Spec

\* However Google refuses its calls, a booking has at most one event and one
\* more for each death of the process: OneEventPerBooking.
THEOREM NoDuplicateEvents == Spec => []OneEventPerBooking
<1>1. EventsInv => OneEventPerBooking
  <2> SUFFICES ASSUME EventsInv, Calm, NEW b \in 1 .. MaxBookings
               PROVE  Cardinality({e \in DOMAIN calendar : Event(e).slot = b}) <= 1 + crashes
    BY DEF OneEventPerBooking, Calm
  <2> QED BY DEF EventsInv, Events, FewEvents, EventsOf, Event
<1> QED
  BY <1>1, EventsHold, PTL
=============================================================================
