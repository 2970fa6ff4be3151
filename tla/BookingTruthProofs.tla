-------------------------- MODULE BookingTruthProofs --------------------------
(***************************************************************************)
(* Proofs about BookingEvent: what the calendar, the mailboxes and the     *)
(* inboxes say of an interview agrees with its row (CalendarMirrorsRow,    *)
(* InboxTellsTruth), for any interviewers, handlers, requests and bounds.  *)
(***************************************************************************)
EXTENDS BookingEventProofs

(***************************************************************************)
(* What a decision of the engine is.                                       *)
(***************************************************************************)

Accepted(panel) == With(panel, "accepted")
Offered(panel) == With(panel, "offered")

FewHeld == Cardinality(HeldIds(row.panel)) <= world.panelists

\* The row a handler wants, next to the one it loaded: confirmed seats stay,
\* but for the one backed out of, and a panel that has lost one is not complete.
Outcome(op, next, leaving) ==
    /\ op \in Ops
    /\ Cardinality(HeldIds(next.panel)) <= world.panelists
    /\ op = "select" =>
          /\ row.status = "collecting_availability"
          /\ next.event = 0 /\ next.status # "panel_complete"
    /\ op = "answer" =>
          /\ Live(row) /\ next.slot = row.slot /\ next.event = row.event
          /\ next.status \notin {"collecting_availability", "cancelled"}
          /\ Accepted(row.panel) \subseteq Accepted(next.panel)
    /\ op = "back_out" =>
          /\ next.slot = row.slot /\ next.event = row.event
          /\ next.status \in {"assigning_panel", "manual_scheduling_required"}
          /\ Accepted(row.panel) \subseteq Accepted(next.panel) \cup leaving
    /\ op = "cancel" => next.event = 0 /\ next.status = "cancelled"
    /\ op = "reschedule" => next.event = 0 /\ next.status = "collecting_availability"

\* The shape of a row.
Sound(rw) ==
    /\ rw.status = "collecting_availability" => rw.slot = 0
    /\ rw.status \in {"assigning_panel", "panel_complete"} => rw.slot # 0
    /\ rw.status = "panel_complete" => Offered(rw.panel) = {}

\* What the inboxes say is so in this row, and only people with an open offer
\* believe to have one.
Truth(rw, inbox) ==
    /\ Live(rw) =>
          /\ \A i \in Offered(rw.panel) : inbox[i] = "seat_offer"
          /\ \A i \in Accepted(rw.panel) : inbox[i] \in {"seat_filled", "panel_complete"}
    /\ rw.status = "panel_complete" => \A p \in Attendees(rw) : inbox[p] = "panel_complete"
    /\ \A i \in Interviewers : inbox[i] = "seat_offer" => Live(rw) /\ rw.panel[i] = "offered"
    /\ rw.status = "cancelled" /\ rw.slot # 0 =>
          \A p \in HeldIds(rw.panel) \cup {"candidate"} : inbox[p] = "off"
    /\ rw.status = "manual_scheduling_required" => inbox["recruiter"] = "escalation"

Told(rw, inbox) == Sound(rw) /\ Truth(rw, inbox)

\* Both, of a handler that decides.
DecidesWell(h) ==
    /\ th'[h].pc = "commit" /\ th'[h].snap = row
    /\ \A g \in Handlers : g # h => th'[g] = th[g]
    /\ FewHeld => Outcome(th'[h].op, th'[h].work, th'[h].leaving)
    /\ Told(row, told) => Told(th'[h].work, told')

LEMMA DecisionTaken ==
    ASSUME TypeOK, NEW h \in Handlers, NEW op, NEW next, NEW expired, NEW leaving,
           Decided(h, op, next, expired, leaving),
           FewHeld => Outcome(op, next, leaving),
           Told(row, told) => Told(next, told')
    PROVE  DecidesWell(h)
<1>1. PICK t : t = Pend(op, row, next, expired, leaving)
  OBVIOUS
<1>2. /\ t.pc = "commit" /\ t.op = op /\ t.snap = row /\ t.work = next
      /\ t.leaving = leaving
  BY <1>1 DEF Pend, Idle
<1>3. th' = [th EXCEPT ![h] = t]
  BY <1>1 DEF Decided, Pend
<1>4. th'[h] = t /\ \A g \in Handlers : g # h => th'[g] = th[g]
  BY <1>3 DEF TypeOK
<1> QED BY <1>2, <1>4 DEF DecidesWell

(***************************************************************************)
(* Panels.                                                                 *)
(***************************************************************************)

\* Filling a panel offers seats to a set of people who hold none and have not
\* just left, and changes nothing else.
LEMMA FillingOffers ==
    ASSUME TypeOK, NEW panel \in Panels, NEW pending, NEW leaving,
           NEW filled \in Filled(panel, pending, leaving)
    PROVE  \E S \in SUBSET Interviewers :
              /\ S \cap (HeldIds(panel) \cup leaving) = {} /\ Cardinality(S) <= pending
              /\ filled = [i \in Interviewers |-> IF i \in S THEN "offered" ELSE panel[i]]
              /\ filled \in Panels
              /\ HeldIds(filled) = HeldIds(panel) \cup S
              /\ Accepted(filled) = Accepted(panel)
              /\ Offered(filled) = Offered(panel) \cup S
<1>1. PICK S \in SUBSET (world.pool \ (HeldIds(panel) \cup leaving)) :
         /\ Cardinality(S) <= pending
         /\ filled = [i \in Interviewers |-> IF i \in S THEN "offered" ELSE panel[i]]
  BY DEF Filled
<1>2. S \in SUBSET Interviewers
  BY Typed DEF World
<1>3. S \cap HeldIds(panel) = {} /\ S \cap (HeldIds(panel) \cup leaving) = {}
  OBVIOUS
<1>4. HeldIds(filled) = HeldIds(panel) \cup S
  BY <1>1, <1>2 DEF HeldIds
<1>5. Accepted(filled) = Accepted(panel) /\ Offered(filled) = Offered(panel) \cup S
  BY <1>1, <1>2, <1>3 DEF Accepted, Offered, With, HeldIds
<1> QED BY <1>1, <1>2, <1>3, <1>4, <1>5, PanelsFilled

\* Sets of interviewers are finite.
LEMMA FewPeople ==
    ASSUME NEW S \in SUBSET Interviewers
    PROVE  IsFiniteSet(S) /\ Cardinality(S) \in Nat
BY BookingAssumption, FS_Subset, FS_CardinalityType

\* Those who join are no more than those who left.
LEMMA SeatsExchanged ==
    ASSUME NEW Held \in SUBSET Interviewers, NEW S \in SUBSET Held,
           NEW T \in SUBSET Interviewers, Cardinality(T) <= Cardinality(S)
    PROVE  Cardinality((Held \ S) \cup T) <= Cardinality(Held)
<1>1. /\ IsFiniteSet(Held) /\ Cardinality(Held) \in Nat
      /\ IsFiniteSet(S) /\ Cardinality(S) \in Nat
      /\ IsFiniteSet(T) /\ Cardinality(T) \in Nat
      /\ IsFiniteSet(Held \ S) /\ Cardinality(Held \ S) \in Nat
      /\ Cardinality((Held \ S) \cap T) \in Nat
  BY FewPeople
<1>2. Cardinality(Held \ S) = Cardinality(Held) - Cardinality(S)
  <2>1. Held \cap S = S
    OBVIOUS
  <2> QED BY <1>1, <2>1, FS_Difference
<1>3. Cardinality((Held \ S) \cup T) =
        Cardinality(Held \ S) + Cardinality(T) - Cardinality((Held \ S) \cap T)
  BY <1>1, FS_Union
<1> QED BY <1>1, <1>2, <1>3

\* The three outcomes of _resolve.
LEMMA ThreeOutcomes ==
    ASSUME NEW status, NEW panel
    PROVE  LET r == Resolve(status, panel)
           IN  \/ r = "manual_scheduling_required"
               \/ r = "panel_complete" /\ Offered(panel) = {}
               \/ r = status /\ Offered(panel) # {}
BY DEF Resolve, Offered

(***************************************************************************)
(* Inboxes.                                                                *)
(***************************************************************************)

\* What _resolve announces makes the inboxes true of a panel whose people have
\* been told of their seats.
LEMMA AnnouncedTruth ==
    ASSUME NEW inbox \in Inboxes, NEW rw \in Row, Live(rw), rw.panel \in Panels,
           \A i \in Offered(rw.panel) : inbox[i] = "seat_offer",
           \A i \in Accepted(rw.panel) : inbox[i] \in {"seat_filled", "panel_complete"},
           \A i \in Interviewers : inbox[i] = "seat_offer" => rw.panel[i] = "offered",
           rw.status = "panel_complete" => Offered(rw.panel) = {}
    PROVE  Told(rw, Announce(inbox, rw.status, rw.panel))
<1> DEFINE new == Announce(inbox, rw.status, rw.panel)
<1>1. Sound(rw)
  BY DEF Sound, Live, HasInterview
<1>2. "recruiter" \notin Interviewers /\ "candidate" \notin Interviewers
  BY BookingAssumption
<1>3. CASE rw.status = "manual_scheduling_required"
  <2>1. new["recruiter"] = "escalation" /\ \A i \in Interviewers : new[i] = inbox[i]
    BY <1>2, <1>3 DEF Announce, Tell, People
  <2> QED BY <1>1, <1>3, <2>1 DEF Told, Truth, Offered, Accepted, With
<1>4. CASE rw.status = "panel_complete"
  <2>1. \A p \in People : new[p] = IF p \in HeldIds(rw.panel) \cup {"candidate"}
                                   THEN "panel_complete" ELSE inbox[p]
    BY <1>4 DEF Announce, Tell
  <2>2. Attendees(rw) \subseteq HeldIds(rw.panel) \cup {"candidate"}
    BY DEF Attendees, With, HeldIds
  <2>3. Attendees(rw) \subseteq People /\ Interviewers \subseteq People
    BY DEF Attendees, With, People
  <2>4. \A p \in Attendees(rw) : new[p] = "panel_complete"
    BY <2>1, <2>2, <2>3
  <2>5. Accepted(rw.panel) \subseteq Attendees(rw)
    BY DEF Attendees, Accepted
  <2>6. \A i \in Interviewers : new[i] # "seat_offer"
    BY <1>4, <2>1, <2>3 DEF Offered, With
  <2> QED BY <1>1, <1>4, <2>4, <2>5, <2>6 DEF Told, Truth
<1>5. CASE rw.status \notin {"manual_scheduling_required", "panel_complete"}
  <2>1. new = inbox
    BY <1>5 DEF Announce
  <2> QED BY <1>1, <1>5, <2>1 DEF Told, Truth, Live, Offered, Accepted, With
<1> QED BY <1>3, <1>4, <1>5

(***************************************************************************)
(* Handlers decide well.                                                   *)
(***************************************************************************)

LEMMA SelectSlotWell ==
    ASSUME TypeOK, NEW h \in Handlers, SelectSlot(h)
    PROVE  DecidesWell(h)
<1>0. /\ row \in Row /\ told \in Inboxes /\ bookings \in Nat
      /\ world.panelists \in Nat \ {0} /\ Nobody \in Panels
  BY Typed DEF World, Nobody, Panels
<1>1. PICK panel \in Filled(Nobody, world.panelists, {}) :
        LET status == Resolve("assigning_panel", panel)
        IN  /\ Decided(h, "select",
                      [row EXCEPT !.status = status, !.panel = panel,
                                  !.slot = bookings + 1, !.event = 0],
                      panel # Nobody, {})
            /\ told' = Announce(Tell(told, HeldIds(panel), "seat_offer"), status, panel)
  BY DEF SelectSlot
<1> DEFINE status == Resolve("assigning_panel", panel)
           next   == [row EXCEPT !.status = status, !.panel = panel,
                                 !.slot = bookings + 1, !.event = 0]
           inbox  == Tell(told, HeldIds(panel), "seat_offer")
<1>2. PICK S \in SUBSET Interviewers :
        /\ Cardinality(S) <= world.panelists /\ panel \in Panels
        /\ HeldIds(panel) = S /\ Accepted(panel) = {} /\ Offered(panel) = S
  <2>1. HeldIds(Nobody) = {} /\ Accepted(Nobody) = {} /\ Offered(Nobody) = {}
    BY DEF HeldIds, Accepted, Offered, With, Nobody
  <2>2. PICK S \in SUBSET Interviewers :
          /\ Cardinality(S) <= world.panelists /\ panel \in Panels
          /\ HeldIds(panel) = HeldIds(Nobody) \cup S
          /\ Accepted(panel) = Accepted(Nobody)
          /\ Offered(panel) = Offered(Nobody) \cup S
    BY <1>0, <1>1, FillingOffers
  <2> QED BY <2>1, <2>2
<1>3. status \in Statuses
  BY Resolved DEF Statuses
<1>4. /\ next \in Row /\ next.status = status /\ next.panel = panel
      /\ next.slot = bookings + 1 /\ next.event = 0 /\ next.slot # 0
  <2>1. bookings + 1 \in 0 .. MaxBookings
    BY Typed DEF SelectSlot
  <2>2. next \in Row
    BY <1>0, <1>2, <1>3, <2>1, RowWith
  <2> QED BY <1>0, <2>2 DEF Row
<1>5. status \in {"assigning_panel", "manual_scheduling_required"}
  <2>1. CASE S = {}
    BY <1>0, <1>2, <2>1, FS_EmptySet DEF Resolve
  <2>2. CASE S # {}
    BY <1>2, <2>2, ThreeOutcomes
  <2> QED BY <2>1, <2>2
<1> HIDE DEF next
<1>6. Outcome("select", next, {})
  BY <1>2, <1>4, <1>5 DEF Outcome, Ops, SelectSlot
<1>7. ASSUME Told(row, told) PROVE Told(next, told')
  <2>1. Live(next)
    BY <1>4, <1>5 DEF Live, HasInterview
  <2>2. inbox \in Inboxes
    BY <1>0, Telling DEF InboxKinds
  <2>3. \A i \in Interviewers : inbox[i] = IF i \in S THEN "seat_offer" ELSE told[i]
    BY <1>2 DEF Tell, People
  <2>4. \A i \in Interviewers : told[i] # "seat_offer"
    BY <1>7 DEF Told, Truth, Live, HasInterview, SelectSlot
  <2>5. \A i \in Offered(panel) : inbox[i] = "seat_offer"
    BY <1>2, <2>3
  <2>6. \A i \in Interviewers : inbox[i] = "seat_offer" => panel[i] = "offered"
    BY <1>2, <2>3, <2>4 DEF Offered, With
  <2>7. Told(next, Announce(inbox, next.status, next.panel))
    <3> HIDE DEF inbox, status
    <3> QED BY <1>2, <1>4, <1>5, <2>1, <2>2, <2>5, <2>6, AnnouncedTruth
  <2> QED BY <1>1, <1>4, <2>7
<1>8. Decided(h, "select", next, panel # Nobody, {})
  BY <1>1 DEF next
<1> QED BY <1>6, <1>7, <1>8, DecisionTaken

LEMMA AcceptSeatWell ==
    ASSUME TypeOK, "dead_offers" \notin conditions, NEW h \in Handlers,
           NEW i \in Interviewers, AcceptSeat(h, i)
    PROVE  DecidesWell(h)
<1>0. row \in Row /\ row.panel \in Panels /\ row.status \in Statuses /\ told \in Inboxes
  BY Typed
<1> DEFINE panel  == [row.panel EXCEPT ![i] = "accepted"]
           status == Resolve(row.status, panel)
           next   == [row EXCEPT !.status = status, !.panel = panel]
           inbox  == Tell(told, {i}, "seat_filled")
<1>1. panel \in Panels /\ status \in Statuses
  <2>1. panel \in Panels
    BY <1>0 DEF Panels
  <2> QED BY <1>0, <2>1, Resolved
<1>2. /\ HeldIds(panel) = HeldIds(row.panel)
      /\ Accepted(panel) = Accepted(row.panel) \cup {i}
      /\ Offered(panel) = Offered(row.panel) \ {i}
      /\ i \in Offered(row.panel)
  BY <1>0 DEF AcceptSeat, Panels, HeldIds, Accepted, Offered, With
<1>3. /\ next \in Row /\ next.status = status /\ next.panel = panel
      /\ next.slot = row.slot /\ next.event = row.event
  <2> HIDE DEF panel, status
  <2> QED BY <1>0, <1>1 DEF Row
<1>4. Live(row)
  BY DEF AcceptSeat, MayAnswer, Live
<1>5. status \in {"manual_scheduling_required", "panel_complete", row.status}
  BY ThreeOutcomes
<1>6. Decided(h, "answer", next, FALSE, {})
  BY DEF AcceptSeat
<1>7. told' = Announce(inbox, status, panel)
  BY DEF AcceptSeat
<1> HIDE DEF next
<1>8. Live(next)
  BY <1>3, <1>4, <1>5 DEF Live, HasInterview
<1>9. FewHeld => Outcome("answer", next, {})
  BY <1>2, <1>3, <1>4, <1>8 DEF FewHeld, Outcome, Ops, Live, HasInterview
<1>10. ASSUME Told(row, told) PROVE Told(next, told')
  <2>1. inbox \in Inboxes
    BY <1>0, Telling DEF InboxKinds
  <2>2. \A j \in Interviewers : inbox[j] = IF j = i THEN "seat_filled" ELSE told[j]
    BY DEF Tell, People
  <2>3. \A j \in Offered(panel) : inbox[j] = "seat_offer"
    BY <1>2, <1>4, <1>10, <2>2 DEF Told, Truth, Offered, With
  <2>4. \A j \in Accepted(panel) : inbox[j] \in {"seat_filled", "panel_complete"}
    BY <1>2, <1>4, <1>10, <2>2 DEF Told, Truth, Accepted, With
  <2>5. \A j \in Interviewers : inbox[j] = "seat_offer" => panel[j] = "offered"
    BY <1>0, <1>10, <2>2 DEF Told, Truth, Panels
  <2>6. status = "panel_complete" => Offered(panel) = {}
    <3>1. row.status # "panel_complete"
      BY <1>2, <1>10 DEF Told, Sound
    <3> QED BY <3>1, ThreeOutcomes
  <2>7. Told(next, Announce(inbox, next.status, next.panel))
    <3> HIDE DEF inbox, status, panel
    <3> QED BY <1>1, <1>3, <1>8, <2>1, <2>3, <2>4, <2>5, <2>6, AnnouncedTruth
  <2> QED BY <1>3, <1>7, <2>7
<1> QED BY <1>6, <1>9, <1>10, DecisionTaken

LEMMA GiveBackWell ==
    ASSUME TypeOK, NEW h \in Handlers, NEW S \in SUBSET Offered(row.panel), S # {},
           Live(row), GiveBack(h, S)
    PROVE  DecidesWell(h)
<1> DEFINE rest == [i \in Interviewers |-> IF i \in S THEN "out" ELSE row.panel[i]]
           left == IF Cardinality(S) = 1 THEN S ELSE {}
<1>0. /\ row \in Row /\ row.panel \in Panels /\ row.status \in Statuses /\ told \in Inboxes
      /\ rest \in Panels
  BY Typed, SeatsEmptied
<1>1. PICK panel \in Filled(rest, Cardinality(S), left) :
         LET status == Resolve(row.status, panel)
             later  == HeldIds(panel) \ HeldIds(rest)
         IN  /\ Decided(h, "answer", [row EXCEPT !.status = status, !.panel = panel],
                        later # {}, {})
             /\ told' = Announce(Tell(Tell(told, S, "off"), later, "seat_offer"), status, panel)
  BY DEF GiveBack
<1> DEFINE status == Resolve(row.status, panel)
           next   == [row EXCEPT !.status = status, !.panel = panel]
           later  == HeldIds(panel) \ HeldIds(rest)
           inbox  == Tell(Tell(told, S, "off"), later, "seat_offer")
<1>2. PICK T \in SUBSET Interviewers :
        /\ T \cap (HeldIds(rest) \cup left) = {} /\ Cardinality(T) <= Cardinality(S)
        /\ panel \in Panels
        /\ HeldIds(panel) = HeldIds(rest) \cup T
        /\ Accepted(panel) = Accepted(rest)
        /\ Offered(panel) = Offered(rest) \cup T
  <2> HIDE DEF rest, left
  <2> QED BY <1>0, <1>1, FillingOffers
<1>3. /\ HeldIds(rest) = HeldIds(row.panel) \ S
      /\ Accepted(rest) = Accepted(row.panel)
      /\ Offered(rest) = Offered(row.panel) \ S
      /\ S \subseteq HeldIds(row.panel) /\ S \subseteq Interviewers
      /\ HeldIds(row.panel) \subseteq Interviewers
  BY DEF HeldIds, Accepted, Offered, With
<1>4. status \in Statuses
  BY <1>0, Resolved
<1>5. later = T
  BY <1>2
<1> HIDE DEF rest, left, later
<1>6. /\ next \in Row /\ next.status = status /\ next.panel = panel
      /\ next.slot = row.slot /\ next.event = row.event
  <2> HIDE DEF status
  <2> QED BY <1>0, <1>2, <1>4 DEF Row
<1>7. status \in {"manual_scheduling_required", "panel_complete", row.status}
  BY ThreeOutcomes
<1>8. Decided(h, "answer", next, later # {}, {}) /\ told' = Announce(inbox, status, panel)
  BY <1>1 DEF rest, later
<1> HIDE DEF next
<1>9. Live(next)
  BY <1>6, <1>7 DEF Live, HasInterview
<1>10. FewHeld => Outcome("answer", next, {})
  <2>1. Cardinality(HeldIds(panel)) <= Cardinality(HeldIds(row.panel))
    BY <1>2, <1>3, SeatsExchanged
  <2>2. /\ Cardinality(HeldIds(panel)) \in Nat /\ Cardinality(HeldIds(row.panel)) \in Nat
        /\ world.panelists \in Nat
    <3>1. HeldIds(panel) \in SUBSET Interviewers /\ HeldIds(row.panel) \in SUBSET Interviewers
      BY DEF HeldIds
    <3> QED BY <3>1, FewPeople, Typed DEF World
  <2>3. FewHeld => Cardinality(HeldIds(next.panel)) <= world.panelists
    BY <1>6, <2>1, <2>2 DEF FewHeld
  <2> QED BY <1>2, <1>3, <1>6, <1>9, <2>3 DEF Outcome, Ops, Live, HasInterview
<1>11. ASSUME Told(row, told) PROVE Told(next, told')
  <2>1. inbox \in Inboxes
    BY <1>0, Telling DEF InboxKinds
  <2>2. \A j \in Interviewers :
           inbox[j] = IF j \in T THEN "seat_offer" ELSE IF j \in S THEN "off" ELSE told[j]
    BY <1>5 DEF Tell, People
  <2>3. \A j \in Offered(panel) : inbox[j] = "seat_offer"
    BY <1>2, <1>3, <1>11, <2>2 DEF Told, Truth, Offered, With
  <2>4. \A j \in Accepted(panel) : inbox[j] \in {"seat_filled", "panel_complete"}
    <3>1. ASSUME NEW j \in Accepted(panel) PROVE inbox[j] = told[j]
      <4>1. j \in Accepted(row.panel) /\ j \in Interviewers
        BY <1>2, <1>3, <3>1 DEF Accepted, With
      <4>2. j \notin S
        BY <4>1 DEF Accepted, Offered, With
      <4>3. j \in HeldIds(rest)
        BY <1>3, <4>1, <4>2 DEF Accepted, With, HeldIds
      <4> QED BY <1>2, <2>2, <4>1, <4>2, <4>3
    <3> QED BY <1>2, <1>3, <1>11, <3>1 DEF Told, Truth
  <2>5. \A j \in Interviewers : inbox[j] = "seat_offer" => j \in Offered(panel)
    BY <1>2, <1>3, <1>11, <2>2 DEF Told, Truth, Offered, With
  <2>6. status = "panel_complete" => Offered(panel) = {}
    <3>1. row.status # "panel_complete"
      BY <1>11 DEF Told, Sound
    <3> QED BY <3>1, ThreeOutcomes
  <2>7. Told(next, Announce(inbox, next.status, next.panel))
    <3>1. \A j \in Interviewers : inbox[j] = "seat_offer" => panel[j] = "offered"
      BY <2>5 DEF Offered, With
    <3> HIDE DEF inbox, status
    <3> QED BY <1>2, <1>6, <1>9, <2>1, <2>3, <2>4, <2>6, <3>1, AnnouncedTruth
  <2> QED BY <1>6, <1>8, <2>7
<1> QED BY <1>8, <1>10, <1>11, DecisionTaken

LEMMA InterviewerCancelWell ==
    ASSUME TypeOK, NEW h \in Handlers, NEW i \in Interviewers, InterviewerCancel(h, i)
    PROVE  DecidesWell(h)
<1> DEFINE rest == [row.panel EXCEPT ![i] = "out"]
<1>0. /\ row \in Row /\ row.panel \in Panels /\ row.status \in Statuses /\ told \in Inboxes
      /\ world.panelists \in Nat \ {0}
  BY Typed DEF World
<1>a. rest \in Panels
  BY <1>0 DEF Panels
<1>1. PICK panel \in Filled(rest, 1, {i}) :
         LET status == Resolve("assigning_panel", panel)
             later  == HeldIds(panel) \ HeldIds(row.panel)
         IN  /\ Decided(h, "back_out", [row EXCEPT !.status = status, !.panel = panel],
                        later # {}, {i})
             /\ told' = Announce(Tell(told, later, "seat_offer"), status, panel)
  BY DEF InterviewerCancel
<1> DEFINE status == Resolve("assigning_panel", panel)
           next   == [row EXCEPT !.status = status, !.panel = panel]
           later  == HeldIds(panel) \ HeldIds(row.panel)
           inbox  == Tell(told, later, "seat_offer")
<1>2. PICK T \in SUBSET Interviewers :
        /\ T \cap (HeldIds(rest) \cup {i}) = {} /\ Cardinality(T) <= 1
        /\ panel \in Panels
        /\ HeldIds(panel) = HeldIds(rest) \cup T
        /\ Accepted(panel) = Accepted(rest)
        /\ Offered(panel) = Offered(rest) \cup T
  <2> HIDE DEF rest
  <2> QED BY <1>a, <1>1, FillingOffers
<1>3. /\ HeldIds(rest) = HeldIds(row.panel) \ {i}
      /\ Accepted(rest) = Accepted(row.panel) \ {i}
      /\ Offered(rest) = Offered(row.panel)
      /\ i \in Accepted(row.panel) /\ i \in HeldIds(row.panel)
      /\ HeldIds(row.panel) \subseteq Interviewers
  BY <1>0 DEF HeldIds, Accepted, Offered, With, Panels, InterviewerCancel
<1>4. status \in Statuses
  BY Resolved DEF Statuses
<1>5. later = T
  BY <1>2, <1>3
<1> HIDE DEF rest, later
<1>6. /\ next \in Row /\ next.status = status /\ next.panel = panel
      /\ next.slot = row.slot /\ next.event = row.event
  <2> HIDE DEF status
  <2> QED BY <1>0, <1>2, <1>4 DEF Row
<1>7. /\ status \in {"manual_scheduling_required", "panel_complete", "assigning_panel"}
      /\ status = "panel_complete" => Offered(panel) = {}
  BY ThreeOutcomes
<1>8. Decided(h, "back_out", next, later # {}, {i}) /\ told' = Announce(inbox, status, panel)
  BY <1>1 DEF later
<1> HIDE DEF next
<1>9. ASSUME FewHeld PROVE Outcome("back_out", next, {i})
  <2>1. /\ Cardinality(HeldIds(row.panel)) \in Nat /\ Cardinality(HeldIds(panel)) \in Nat
        /\ IsFiniteSet(HeldIds(row.panel)) /\ IsFiniteSet(T)
    <3>1. HeldIds(panel) \in SUBSET Interviewers /\ HeldIds(row.panel) \in SUBSET Interviewers
      BY DEF HeldIds
    <3> QED BY <3>1, FewPeople
  <2>2. Cardinality(HeldIds(row.panel) \ {i}) = Cardinality(HeldIds(row.panel)) - 1
    BY <1>3, <2>1, FS_RemoveElement
  <2>3. Cardinality(HeldIds(panel)) <= Cardinality(HeldIds(row.panel))
    <3>1. Cardinality({i}) = 1
      BY FS_Singleton
    <3>2. {i} \in SUBSET HeldIds(row.panel) /\ HeldIds(row.panel) \in SUBSET Interviewers
      BY <1>3
    <3>3. HeldIds(panel) = (HeldIds(row.panel) \ {i}) \cup T
      BY <1>2, <1>3
    <3> QED BY <1>2, <3>1, <3>2, <3>3, SeatsExchanged
  <2>4. status # "panel_complete"
    <3>1. CASE T = {}
      <4>1. HeldIds(panel) = HeldIds(row.panel) \ {i}
        BY <1>2, <1>3, <3>1
      <4>2. Cardinality(HeldIds(panel)) < world.panelists
        BY <1>0, <1>9, <2>1, <2>2, <4>1 DEF FewHeld
      <4> QED BY <4>2 DEF Resolve
    <3>2. CASE T # {}
      BY <1>2, <1>7, <3>2
    <3> QED BY <3>1, <3>2
  <2>5. Cardinality(HeldIds(next.panel)) <= world.panelists
    BY <1>0, <1>6, <1>9, <2>1, <2>3 DEF FewHeld
  <2>6. next.status \in {"assigning_panel", "manual_scheduling_required"}
    BY <1>6, <1>7, <2>4
  <2>7. Accepted(row.panel) \subseteq Accepted(next.panel) \cup {i}
    BY <1>2, <1>3, <1>6
  <2> QED BY <1>6, <2>5, <2>6, <2>7 DEF Outcome, Ops
<1>10. ASSUME Told(row, told) PROVE Told(next, told')
  <2>1. inbox \in Inboxes
    BY <1>0, Telling DEF InboxKinds
  <2>2. \A j \in Interviewers : inbox[j] = IF j \in T THEN "seat_offer" ELSE told[j]
    BY <1>5 DEF Tell, People
  <2>3. Live(row)
    BY <1>10 DEF Told, Sound, Live, HasInterview, InterviewerCancel
  <2>4. Live(next)
    BY <1>6, <1>7, <2>3 DEF Live, HasInterview
  <2>5. \A j \in Offered(panel) : inbox[j] = "seat_offer"
    BY <1>2, <1>3, <1>10, <2>2, <2>3 DEF Told, Truth, Offered, With
  <2>6. \A j \in Accepted(panel) : inbox[j] \in {"seat_filled", "panel_complete"}
    <3>1. ASSUME NEW j \in Accepted(panel) PROVE inbox[j] = told[j] /\ j \in Accepted(row.panel)
      <4>1. j \in Accepted(row.panel) /\ j # i /\ j \in Interviewers
        BY <1>2, <1>3, <3>1 DEF Accepted, With
      <4>2. j \in HeldIds(rest)
        BY <1>3, <4>1 DEF Accepted, With, HeldIds
      <4> QED BY <1>2, <2>2, <4>1, <4>2
    <3> QED BY <1>10, <2>3, <3>1 DEF Told, Truth
  <2>7. \A j \in Interviewers : inbox[j] = "seat_offer" => panel[j] = "offered"
    <3>1. \A j \in Interviewers : inbox[j] = "seat_offer" => j \in Offered(panel)
      BY <1>2, <1>3, <1>10, <2>2 DEF Told, Truth, Offered, With
    <3> QED BY <3>1 DEF Offered, With
  <2>8. Told(next, Announce(inbox, next.status, next.panel))
    <3> HIDE DEF inbox, status
    <3> QED BY <1>2, <1>6, <1>7, <2>1, <2>4, <2>5, <2>6, <2>7, AnnouncedTruth
  <2> QED BY <1>6, <1>8, <2>8
<1> QED BY <1>8, <1>9, <1>10, DecisionTaken

LEMMA CandidateCancelWell ==
    ASSUME TypeOK, NEW h \in Handlers, CandidateCancel(h)
    PROVE  DecidesWell(h)
<1> DEFINE next == [row EXCEPT !.status = "cancelled", !.event = 0]
<1>0. row \in Row /\ told \in Inboxes /\ row.panel \in Panels
  BY Typed
<1>1. /\ next.status = "cancelled" /\ next.event = 0
      /\ next.panel = row.panel /\ next.slot = row.slot
  BY <1>0 DEF Row
<1>2. Decided(h, "cancel", next, FALSE, {})
  BY DEF CandidateCancel
<1> HIDE DEF next
<1>3. FewHeld => Outcome("cancel", next, {})
  BY <1>1 DEF FewHeld, Outcome, Ops
<1>4. ASSUME Told(row, told) PROVE Told(next, told')
  <2>1. Sound(next) /\ ~Live(next)
    BY <1>1 DEF Sound, Live
  <2>2. CASE Live(row)
    <3>1. told' = Tell(told, HeldIds(row.panel) \cup {"candidate"}, "off")
      BY <2>2 DEF CandidateCancel
    <3>2. \A p \in HeldIds(row.panel) \cup {"candidate"} : told'[p] = "off"
      BY <3>1 DEF Tell, HeldIds, People
    <3>3. \A j \in Interviewers : told'[j] # "seat_offer"
      <4>1. \A j \in Interviewers : told'[j] = IF j \in HeldIds(row.panel) THEN "off" ELSE told[j]
        BY <3>1, BookingAssumption DEF Tell, People
      <4> QED BY <1>4, <4>1 DEF Told, Truth, HeldIds
    <3> QED BY <1>1, <2>1, <3>2, <3>3 DEF Told, Truth
  <2>3. CASE ~Live(row)
    <3>1. told' = told
      BY <2>3 DEF CandidateCancel
    <3>2. row.slot # 0 => row.status = "cancelled"
      BY <1>4, <2>3 DEF Told, Sound, Live, HasInterview
    <3>3. \A j \in Interviewers : told[j] # "seat_offer"
      BY <1>4, <2>3 DEF Told, Truth
    <3>4. row.slot # 0 => \A p \in HeldIds(row.panel) \cup {"candidate"} : told[p] = "off"
      BY <1>4, <3>2 DEF Told, Truth
    <3> QED BY <1>1, <2>1, <3>1, <3>3, <3>4 DEF Told, Truth
  <2> QED BY <2>2, <2>3
<1> QED BY <1>2, <1>3, <1>4, DecisionTaken

LEMMA CandidateRescheduleWell ==
    ASSUME TypeOK, NEW h \in Handlers, CandidateReschedule(h)
    PROVE  DecidesWell(h)
<1>0. told \in Inboxes /\ world.panelists \in Nat
  BY Typed DEF World
<1>1. /\ NoRow.status = "collecting_availability" /\ NoRow.event = 0
      /\ NoRow.panel = Nobody /\ NoRow.slot = 0 /\ HeldIds(Nobody) = {}
  BY DEF NoRow, HeldIds, Nobody
<1>2. Decided(h, "reschedule", NoRow, FALSE, {})
  BY DEF CandidateReschedule
<1>3. Outcome("reschedule", NoRow, {})
  <2>1. Cardinality(HeldIds(NoRow.panel)) = 0
    BY <1>1, FS_EmptySet
  <2> QED BY <1>0, <1>1, <2>1 DEF Outcome, Ops
<1>4. ASSUME Told(row, told) PROVE Told(NoRow, told')
  <2>1. Sound(NoRow) /\ ~Live(NoRow)
    BY <1>1 DEF Sound, Live, HasInterview
  <2>2. \A j \in Interviewers : told'[j] # "seat_offer"
    <3>1. CASE Live(row)
      <4>1. told' = Tell(told, HeldIds(row.panel), "off")
        BY <3>1 DEF CandidateReschedule
      <4>2. \A j \in Interviewers : told'[j] = IF j \in HeldIds(row.panel) THEN "off" ELSE told[j]
        BY <4>1 DEF Tell, People
      <4> QED BY <1>4, <4>2 DEF Told, Truth, HeldIds
    <3>2. CASE ~Live(row)
      <4>1. told' = told
        BY <3>2 DEF CandidateReschedule
      <4> QED BY <1>4, <3>2, <4>1 DEF Told, Truth
    <3> QED BY <3>1, <3>2
  <2> QED BY <1>1, <2>1, <2>2 DEF Told, Truth
<1> QED BY <1>2, <1>3, <1>4, DecisionTaken

\* Every handler decides well, as long as cancelled interviews are left alone.
LEMMA HandlesWell ==
    ASSUME TypeOK, "dead_offers" \notin conditions, NEW h \in Handlers, Handle(h)
    PROVE  DecidesWell(h)
<1>1. CASE SelectSlot(h)
  BY <1>1, SelectSlotWell
<1>2. ASSUME NEW i \in Interviewers, AcceptSeat(h, i) PROVE DecidesWell(h)
  BY <1>2, AcceptSeatWell
<1>3. ASSUME NEW i \in Interviewers, DeclineSeat(h, i) PROVE DecidesWell(h)
  <2>1. {i} \in SUBSET Offered(row.panel) /\ {i} # {} /\ Live(row) /\ GiveBack(h, {i})
    BY <1>3 DEF DeclineSeat, MayAnswer, Live, Offered, With
  <2> QED BY <2>1, GiveBackWell
<1>4. ASSUME NEW i \in Interviewers, InterviewerCancel(h, i) PROVE DecidesWell(h)
  BY <1>4, InterviewerCancelWell
<1>5. CASE SweepExpiredOffers(h)
  <2>1. PICK S \in (SUBSET With(row.panel, "offered")) \ {{}} : GiveBack(h, S)
    BY <1>5 DEF SweepExpiredOffers
  <2>2. S \in SUBSET Offered(row.panel) /\ S # {} /\ Live(row)
    BY <1>5, <2>1 DEF SweepExpiredOffers, Offered, Live
  <2> QED BY <2>1, <2>2, GiveBackWell
<1>6. CASE CandidateCancel(h)
  BY <1>6, CandidateCancelWell
<1>7. CASE CandidateReschedule(h)
  BY <1>7, CandidateRescheduleWell
<1> QED BY <1>1, <1>2, <1>3, <1>4, <1>5, <1>6, <1>7 DEF Handle

(***************************************************************************)
(* Inboxes.  They are ahead of the row while a handler is about to commit, *)
(* as its messages are out: then they are true of the row it will write.   *)
(* One handler at a time is there, and what others write to the row        *)
(* meanwhile, an event or the mark of the reminder, is not about people.   *)
(***************************************************************************)
Truthful == conditions \cap {"aborts", "crashes", "dead_offers"} = {}

InboxesAhead ==
    /\ OnePending
    /\ (\A h \in Handlers : th[h].pc # "commit") => Told(row, told)
    /\ \A h \in Handlers : th[h].pc = "commit" => Told(th[h].work, told)

InboxInv == Truthful => InboxesAhead

\* Truth is about status, slot and panel.
LEMMA SameTruth ==
    ASSUME NEW a, NEW b, NEW inbox, Told(a, inbox),
           b.status = a.status, b.slot = a.slot, b.panel = a.panel
    PROVE  Told(b, inbox)
BY DEF Told, Sound, Truth, Live, HasInterview, Attendees

\* The panel a commit writes.
LEMMA PanelCommitted ==
    ASSUME TypeOK, NEW h \in Handlers, Commit(h)
    PROVE  row'.panel = th[h].work.panel
<1>1. th[h].work \in Row
  BY DEF TypeOK, Thread
<1>2. \E event, reminded : row' = [th[h].work EXCEPT !.event = event, !.reminded = reminded]
  BY DEF Commit
<1> QED BY <1>1, <1>2 DEF Row

\* A step after which the same handlers are about to commit the same, and
\* which changes no inbox and, in the row, only the event and the mark.
LEMMA InboxesKept ==
    ASSUME InboxesAhead, told' = told,
           row'.status = row.status, row'.slot = row.slot, row'.panel = row.panel,
           \A h \in Handlers : th[h].pc = "commit" \/ th'[h].pc = "commit" => th'[h] = th[h]
    PROVE  InboxesAhead'
<1>1. OnePending'
  BY DEF InboxesAhead, OnePending
<1>2. ASSUME \A h \in Handlers : th'[h].pc # "commit" PROVE Told(row', told')
  <2>1. Told(row, told)
    BY <1>2 DEF InboxesAhead
  <2> QED BY <2>1, SameTruth
<1>3. \A h \in Handlers : th'[h].pc = "commit" => Told(th'[h].work, told')
  BY DEF InboxesAhead
<1>4. Told(row', told') => Told(row, told)'
  BY DEF Told, Sound, Truth, Live, HasInterview, Attendees
<1> QED BY <1>1, <1>2, <1>3, <1>4 DEF InboxesAhead

LEMMA NextInboxes ==
    ASSUME TypeInv, InboxesAhead, Truthful, [Next]_vars
    PROVE  InboxesAhead'
<1>0. TypeOK /\ \A h \in Handlers : th[h] \in Thread
  BY DEF TypeInv, TypeOK
<1>1. ASSUME NEW h \in Handlers, Handle(h) PROVE InboxesAhead'
  <2>1. \A g \in Handlers : th[g].pc # "commit"
    BY <1>0, <1>1, HandleDecides DEF Deciding, MayStart
  <2>2. DecidesWell(h)
    BY <1>0, <1>1, HandlesWell DEF Truthful
  <2>3. Told(row, told)
    BY <2>1 DEF InboxesAhead
  <2>4. Told(th'[h].work, told') /\ th'[h].pc = "commit"
    BY <2>2, <2>3 DEF DecidesWell
  <2>5. \A g \in Handlers : th'[g].pc = "commit" => g = h
    BY <2>1, <2>2 DEF DecidesWell
  <2>6. OnePending' /\ ~(\A g \in Handlers : th'[g].pc # "commit")
    BY <2>4, <2>5 DEF OnePending
  <2>7. \A g \in Handlers : th'[g].pc = "commit" => Told(th'[g].work, told')
    BY <2>4, <2>5
  <2>8. \A g \in Handlers : Told(th'[g].work, told') => Told(th[g].work, told)'
    BY DEF Told, Sound, Truth, Live, HasInterview, Attendees
  <2> QED BY <2>6, <2>7, <2>8 DEF InboxesAhead
<1>b. ASSUME NEW h \in Handlers, NEW t, t.pc # "commit", Becomes(h, t)
      PROVE  /\ th'[h].pc # "commit" /\ \A g \in Handlers : g # h => th'[g] = th[g]
  BY <1>0, <1>b DEF Becomes, TypeOK
<1>2. ASSUME NEW h \in Handlers, Commit(h) PROVE InboxesAhead'
  <2>1. th[h].pc = "commit" /\ told' = told /\ Becomes(h, AfterCommit(h))
    BY <1>2 DEF Commit
  <2>2. AfterCommit(h).pc # "commit"
    BY <1>0, Committed
  <2>3. \A g \in Handlers : th'[g].pc # "commit"
    BY <1>b, <2>1, <2>2 DEF InboxesAhead, OnePending
  <2>4. Told(th[h].work, told)
    BY <2>1 DEF InboxesAhead
  <2>5. /\ row'.status = th[h].work.status /\ row'.slot = th[h].work.slot
        /\ row'.panel = th[h].work.panel
    BY <1>0, <1>2, RowCommitted, PanelCommitted
  <2>6. Told(row', told')
    BY <2>1, <2>4, <2>5, SameTruth
  <2>7. Told(row', told') => Told(row, told)'
    BY DEF Told, Sound, Truth, Live, HasInterview, Attendees
  <2> QED BY <2>3, <2>6, <2>7 DEF InboxesAhead, OnePending
<1>3. ASSUME NEW h \in Handlers, NEW t, t.pc # "commit", th[h].pc # "commit", Becomes(h, t),
             told' = told,
             row'.status = row.status, row'.slot = row.slot, row'.panel = row.panel
      PROVE  InboxesAhead'
  BY <1>3, <1>b, InboxesKept
<1>4. ASSUME NEW h \in Handlers, Continue(h) PROVE InboxesAhead'
  <2>1. CASE DispatchBooking(h)
    <3>1. [th[h] EXCEPT !.pc = "call", !.people = Attendees(row),
                        !.event = row.event, !.slot = row.slot].pc # "commit"
      BY <1>0 DEF Thread
    <3> QED BY <2>1, <3>1, <1>3, IdleTyped DEF DispatchBooking
  <2>2. CASE CreateEvent(h)
    <3>1. [th[h] EXCEPT !.pc = "record", !.event = made + 1].pc # "commit"
      BY <1>0 DEF Thread
    <3> QED BY <2>2, <3>1, <1>3 DEF CreateEvent
  <2>3. CASE RecordEvent(h)
    <3>1. row'.status = row.status /\ row'.slot = row.slot /\ row'.panel = row.panel
      BY <1>0, <2>3, Typed DEF RecordEvent, Row
    <3> QED BY <2>3, <3>1, <1>3, IdleTyped DEF RecordEvent
  <2>4. CASE SyncEventAttendees(h)
    BY <2>4, <1>3, IdleTyped DEF SyncEventAttendees
  <2>5. CASE GetEvent(h)
    <3>1. [th[h] EXCEPT !.pc = "patch", !.event = row.event,
                        !.people = Event(row.event).people \ th[h].leaving,
                        !.leaving = {}].pc # "commit"
      BY <1>0 DEF Thread
    <3> QED BY <2>5, <3>1, <1>3, IdleTyped DEF GetEvent
  <2>6. CASE PatchEvent(h)
    BY <2>6, <1>3, IdleTyped DEF PatchEvent
  <2>7. CASE DeleteEvent(h)
    BY <2>7, <1>3, IdleTyped DEF DeleteEvent
  <2>8. CASE Refused(h)
    BY <2>8, <1>3, IdleTyped DEF Refused
  <2> QED BY <1>4, <1>2, <2>1, <2>2, <2>3, <2>4, <2>5, <2>6, <2>7, <2>8 DEF Continue
<1>5. ASSUME NEW h \in Handlers, Abort(h) PROVE FALSE
  BY <1>5 DEF Abort, Truthful
<1>6. CASE Crash
  BY <1>6 DEF Crash, Truthful
<1>7. CASE MarkReminded
  <2>1. row'.status = row.status /\ row'.slot = row.slot /\ row'.panel = row.panel
    BY <1>0, <1>7, Typed DEF MarkReminded, Row
  <2> QED BY <1>7, <2>1, InboxesKept DEF MarkReminded
<1>8. CASE UNCHANGED <<row, told, th>>
  BY <1>8, InboxesKept
<1> QED BY <1>1, <1>4, <1>5, <1>6, <1>7, <1>8
        DEF Next, Reminding, SweepReminders, SendReminder, AbortReminder, ComesNear, Starts, vars

\* As long as commits succeed, the process lives and cancelled interviews are
\* left alone, whoever looks at their inbox between two handlers reads what the
\* row says of them: InboxTellsTruth.
THEOREM InboxesAreTrue == Spec => []InboxTellsTruth
<1>1. Init => InboxInv
  <2> SUFFICES ASSUME Init PROVE InboxesAhead
    BY DEF InboxInv
  <2>1. \A h \in Handlers : th[h].pc = "idle"
    BY DEF Init, Idle
  <2>2. /\ row.status = "collecting_availability" /\ row.slot = 0
        /\ \A p \in People : told[p] = "off"
    BY DEF Init, NoRow
  <2>3. Told(row, told)
    BY <2>2 DEF Told, Sound, Truth, Live, HasInterview, People
  <2> QED BY <2>1, <2>3 DEF InboxesAhead, OnePending
<1>2. TypeInv /\ InboxInv /\ [Next]_vars => InboxInv'
  <2> SUFFICES ASSUME TypeInv, InboxInv, [Next]_vars, Truthful' PROVE InboxesAhead'
    BY DEF InboxInv
  <2>1. Truthful
    BY SameWorld DEF Truthful, conditions
  <2> QED BY <2>1, NextInboxes DEF InboxInv
<1>3. TypeInv /\ InboxInv => InboxTellsTruth
  <2> SUFFICES ASSUME TypeInv, InboxInv, Truthful, AllQuiet
               PROVE  /\ Live(row) =>
                           /\ \A i \in With(row.panel, "offered") : told[i] = "seat_offer"
                           /\ \A i \in With(row.panel, "accepted") :
                                 told[i] \in {"seat_filled", "panel_complete"}
                      /\ row.status = "panel_complete" =>
                           \A p \in Attendees(row) : told[p] = "panel_complete"
                      /\ ~Live(row) => \A i \in Interviewers : told[i] # "seat_offer"
                      /\ row.status = "cancelled" /\ row.slot # 0 =>
                           \A p \in HeldIds(row.panel) \cup {"candidate"} : told[p] = "off"
                      /\ row.status = "manual_scheduling_required" =>
                           told["recruiter"] = "escalation"
    BY DEF InboxTellsTruth, Truthful
  <2>1. Told(row, told)
    BY DEF InboxInv, InboxesAhead, AllQuiet
  <2> QED BY <2>1 DEF Told, Truth, Offered, Accepted
<1> QED
  BY <1>1, <1>2, <1>3, InitTypeInv, NextTypeInv, PTL DEF Spec

(***************************************************************************)
(* The calendar.  With nothing going wrong one handler is at work at a     *)
(* time: AtWork says, for each of its steps, how far the calendar and the  *)
(* mailboxes are behind the row.                                           *)
(***************************************************************************)
\* The row's event is the only one, and nobody has an e-mail without one.
OwnEvent ==
    /\ DOMAIN calendar = {row.event} \ {0}
    /\ row.event # 0 =>
          /\ Live(row) /\ calendar[row.event].slot = row.slot
          /\ calendar[row.event].people \subseteq mailed
    /\ row.event = 0 => "candidate" \notin mailed

Invited(S) == row.event # 0 => calendar[row.event].people \subseteq S

AllInvited ==
    row.status = "panel_complete" =>
        row.event # 0 /\ calendar[row.event].people = Attendees(row)

Agreed == OwnEvent /\ Invited(Attendees(row)) /\ AllInvited

AtWork(t) ==
    /\ t.pc = "idle" => Agreed
    /\ t.pc = "commit" =>
          /\ Agreed /\ Outcome(t.op, t.work, t.leaving)
          /\ t.snap.event = row.event /\ HasInterview(t.snap) = HasInterview(row)
    /\ t.pc = "dispatch" => OwnEvent /\ Invited(Attendees(row)) /\ Live(row)
    /\ t.pc = "call" =>
          /\ OwnEvent /\ Live(row)
          /\ t.people = Attendees(row) /\ t.slot = row.slot /\ t.event = row.event
    /\ t.pc = "record" =>
          /\ Live(row) /\ row.event = 0 /\ t.event # 0 /\ DOMAIN calendar = {t.event}
          /\ calendar[t.event].slot = row.slot
          /\ calendar[t.event].people = Attendees(row) /\ t.people = Attendees(row)
    /\ t.pc = "get" =>
          OwnEvent /\ Invited(Attendees(row) \cup t.leaving) /\ row.status # "panel_complete"
    /\ t.pc = "patch" =>
          /\ OwnEvent /\ row.status # "panel_complete" /\ row.event # 0 /\ t.event = row.event
          /\ t.people \subseteq Attendees(row) /\ t.people \subseteq mailed
    /\ t.pc = "delete" =>
          /\ row.event = 0 /\ row.status # "panel_complete"
          /\ DOMAIN calendar = {t.event} /\ "candidate" \in t.people

\* A handler that is idle says nothing while another is at work.
Mirror ==
    /\ FewHeld
    /\ (\A h \in Handlers : th[h].pc = "idle") => Agreed
    /\ \A h \in Handlers : th[h].pc # "idle" => AtWork(th[h])

NothingWrong == conditions = {}

MirrorInv == NothingWrong => Mirror

\* It is enough to look at the handler that moves.
LEMMA OneMoves ==
    ASSUME NEW h \in Handlers, \A g \in Handlers : g # h => th[g].pc = "idle",
           \A g \in Handlers : g # h => th'[g] = th[g],
           FewHeld', AtWork(th[h])'
    PROVE  Mirror'
<1>1. (\A g \in Handlers : th'[g].pc = "idle") => Agreed'
  BY DEF AtWork
<1>2. \A g \in Handlers : th'[g].pc # "idle" => AtWork(th[g])'
  <2>1. \A g \in Handlers : th'[g].pc # "idle" => g = h
    OBVIOUS
  <2> QED BY <2>1
<1> QED BY <1>1, <1>2 DEF Mirror

\* The thread of a handler that has committed, for each kind of request.
LEMMA AfterEach ==
    ASSUME NEW h \in Handlers, th[h].op \in Ops
    PROVE  LET op   == th[h].op
               snap == th[h].snap
               t    == AfterCommit(h)
           IN  /\ op = "select" => t.pc = "idle"
               /\ op = "back_out" => t.pc = "get" /\ t.leaving = th[h].leaving
               /\ op = "answer" =>
                     t.pc = IF th[h].work.status = "panel_complete" THEN "dispatch" ELSE "idle"
               /\ op \in {"cancel", "reschedule"} =>
                     IF HasInterview(snap) /\ snap.event # 0
                     THEN t.pc = "delete" /\ t.event = snap.event /\ t.people = Attendees(snap)
                     ELSE t.pc = "idle"
<1> DEFINE op   == th[h].op
           snap == th[h].snap
           t    == AfterCommit(h)
<1>1. CASE op = "select"
  <2>1. t = Idle
    BY <1>1 DEF AfterCommit
  <2> QED BY <1>1, <2>1 DEF Idle
<1>2. CASE op = "back_out"
  <2>1. t = [Idle EXCEPT !.pc = "get", !.leaving = th[h].leaving]
    BY <1>2 DEF AfterCommit
  <2> QED BY <1>2, <2>1 DEF Idle
<1>3. CASE op = "answer"
  <2>1. t = IF th[h].work.status = "panel_complete" THEN [Idle EXCEPT !.pc = "dispatch"] ELSE Idle
    BY <1>3 DEF AfterCommit
  <2> QED BY <1>3, <2>1 DEF Idle
<1>4. CASE op \in {"cancel", "reschedule"}
  <2>1. t = IF HasInterview(snap) /\ snap.event # 0
            THEN [Idle EXCEPT !.pc = "delete", !.event = snap.event, !.people = Attendees(snap)]
            ELSE Idle
    BY <1>4 DEF AfterCommit
  <2> QED BY <1>4, <2>1 DEF Idle
<1> QED BY <1>1, <1>2, <1>3, <1>4 DEF Ops

\* After a commit the calendar lags behind as the next step expects.
LEMMA CommitMirrors ==
    ASSUME TypeOK, NEW h \in Handlers, th[h].pc = "commit", AtWork(th[h]), Commit(h),
           th'[h] = AfterCommit(h)
    PROVE  FewHeld' /\ AtWork(th[h])'
<1> DEFINE t    == th[h]
           work == th[h].work
           next == AfterCommit(h)
<1>1. /\ Agreed /\ Outcome(t.op, work, t.leaving)
      /\ t.snap.event = row.event /\ HasInterview(t.snap) = HasInterview(row)
  BY DEF AtWork
<1>2. /\ row'.status = work.status /\ row'.slot = work.slot /\ row'.panel = work.panel
      /\ row'.event = IF t.expired \/ row.event # work.event THEN work.event ELSE row.event
      /\ UNCHANGED <<world, calendar, mailed>>
  BY <1>1, RowCommitted, PanelCommitted DEF Written, Commit, outside
<1>3. FewHeld'
  BY <1>1, <1>2 DEF FewHeld, Outcome
<1>4. t.op \in Ops
  BY <1>1 DEF Outcome
<1>5. CASE t.op = "select"
  <2>1. row.event = 0 /\ row'.event = 0 /\ row'.status # "panel_complete"
    BY <1>1, <1>2, <1>5 DEF Outcome, Agreed, OwnEvent, Live, HasInterview
  <2>2. Agreed'
    BY <1>1, <1>2, <2>1 DEF Agreed, OwnEvent, Invited, AllInvited
  <2>3. th'[h].pc = "idle"
    BY <1>4, <1>5, AfterEach
  <2> QED BY <1>3, <2>2, <2>3 DEF AtWork
<1>6. CASE t.op = "answer"
  <2>1. row'.event = row.event /\ row'.slot = row.slot /\ Live(row')
    BY <1>1, <1>2, <1>6 DEF Outcome, Live, HasInterview
  <2>2. Attendees(row) \subseteq Attendees(row')
    BY <1>1, <1>2, <1>6 DEF Outcome, Attendees, Accepted
  <2>3. OwnEvent' /\ Invited(Attendees(row))'
    <3>1. OwnEvent'
      BY <1>1, <1>2, <2>1 DEF Agreed, OwnEvent, Live, HasInterview
    <3>2. row'.event # 0 => calendar'[row'.event].people \subseteq Attendees(row')
      BY <1>1, <1>2, <2>1, <2>2 DEF Agreed, Invited
    <3> QED BY <3>1, <3>2 DEF Invited, Attendees
  <2>4. th'[h].pc = IF row'.status = "panel_complete" THEN "dispatch" ELSE "idle"
    BY <1>2, <1>4, <1>6, AfterEach
  <2>5. th'[h].pc = "idle" => Agreed'
    BY <2>3, <2>4 DEF Agreed, AllInvited
  <2>6. Live(row)'
    BY <2>1 DEF Live, HasInterview
  <2> QED BY <1>3, <2>3, <2>4, <2>5, <2>6 DEF AtWork
<1>7. CASE t.op = "back_out"
  <2>1. /\ row'.event = row.event /\ row'.slot = row.slot
        /\ row'.status \in {"assigning_panel", "manual_scheduling_required"}
    BY <1>1, <1>2, <1>7 DEF Outcome
  <2>2. Attendees(row) \subseteq Attendees(row') \cup t.leaving
    BY <1>1, <1>2, <1>7 DEF Outcome, Attendees, Accepted
  <2>3. OwnEvent'
    BY <1>1, <1>2, <2>1 DEF Agreed, OwnEvent, Live, HasInterview
  <2>4. th'[h].pc = "get" /\ th'[h].leaving = t.leaving
    BY <1>4, <1>7, AfterEach
  <2>5. Invited(Attendees(row) \cup th[h].leaving)'
    <3>1. row'.event # 0 => calendar'[row'.event].people \subseteq Attendees(row') \cup t.leaving
      BY <1>1, <1>2, <2>1, <2>2 DEF Agreed, Invited
    <3> QED BY <3>1, <2>4 DEF Invited, Attendees
  <2> QED BY <1>3, <2>1, <2>3, <2>4, <2>5 DEF AtWork
<1>8. CASE t.op \in {"cancel", "reschedule"}
  <2>1. work.event = 0 /\ row'.event = 0 /\ row'.status # "panel_complete"
    BY <1>1, <1>2, <1>8 DEF Outcome
  <2>2. CASE row.event = 0
    <3>1. Agreed'
      BY <1>1, <1>2, <2>1, <2>2 DEF Agreed, OwnEvent, Invited, AllInvited
    <3>2. th'[h].pc = "idle"
      BY <1>1, <1>4, <1>8, <2>2, AfterEach
    <3> QED BY <1>3, <3>1, <3>2 DEF AtWork
  <2>3. CASE row.event # 0
    <3>1. HasInterview(t.snap) /\ DOMAIN calendar = {row.event}
      BY <1>1, <2>3 DEF Agreed, OwnEvent, Live
    <3>2. th'[h].pc = "delete" /\ th'[h].event = row.event /\ th'[h].people = Attendees(t.snap)
      BY <1>1, <1>4, <1>8, <2>3, <3>1, AfterEach
    <3>3. "candidate" \in th'[h].people
      BY <3>2 DEF Attendees
    <3> QED BY <1>2, <1>3, <2>1, <3>1, <3>2, <3>3 DEF AtWork
  <2> QED BY <2>2, <2>3
<1> QED BY <1>4, <1>5, <1>6, <1>7, <1>8 DEF Ops

\* A call to Google, or the commit that follows one, catches up.
LEMMA CallMirrors ==
    ASSUME TypeOK, NothingWrong, FewHeld, NEW h \in Handlers, AtWork(th[h]),
           Continue(h), ~Commit(h)
    PROVE  FewHeld' /\ AtWork(th[h])' /\ \A g \in Handlers : g # h => th'[g] = th[g]
<1>0. th[h] \in Thread /\ row \in Row /\ th \in [Handlers -> Thread]
  BY DEF TypeOK
<1>b. ASSUME NEW t, Becomes(h, t)
      PROVE  th'[h] = t /\ \A g \in Handlers : g # h => th'[g] = th[g]
  BY <1>0, <1>b DEF Becomes
<1>i. Idle.pc = "idle"
  BY DEF Idle
<1>f. ASSUME row'.panel = row.panel, world' = world PROVE FewHeld'
  BY <1>f DEF FewHeld
<1>1. CASE DispatchBooking(h)
  <2> DEFINE t == [th[h] EXCEPT !.pc = "call", !.people = Attendees(row),
                                !.event = row.event, !.slot = row.slot]
  <2>1. OwnEvent /\ Live(row)
    BY <1>1 DEF DispatchBooking, AtWork
  <2>2. /\ t.pc = "call" /\ t.people = Attendees(row) /\ t.event = row.event
        /\ t.slot = row.slot
    BY <1>0 DEF Thread
  <2> HIDE DEF t
  <2>3. Becomes(h, t) /\ UNCHANGED <<world, row, calendar, mailed>>
    BY <1>1, <2>1 DEF DispatchBooking, Live, outside, t
  <2>4. OwnEvent' /\ Live(row)' /\ Attendees(row)' = Attendees(row)
    BY <2>1, <2>3 DEF OwnEvent, Live, HasInterview, Attendees
  <2> QED BY <1>b, <1>f, <2>2, <2>3, <2>4 DEF AtWork
<1>2. CASE CreateEvent(h)
  <2> DEFINE t == [th[h] EXCEPT !.pc = "record", !.event = made + 1]
  <2>1. OwnEvent /\ Live(row) /\ th[h].people = Attendees(row) /\ th[h].slot = row.slot
        /\ th[h].event = row.event
    BY <1>2 DEF CreateEvent, AtWork
  <2>2. /\ t.pc = "record" /\ t.people = Attendees(row) /\ t.event = made + 1
    BY <1>0, <2>1 DEF Thread
  <2> HIDE DEF t
  <2>3. Becomes(h, t) /\ UNCHANGED <<world, row, mailed>>
    BY <1>2 DEF CreateEvent, t
  <2>4. row.event = 0 /\ DOMAIN calendar = {}
    BY <1>2, <2>1 DEF CreateEvent, KnownEvents, OwnEvent
  <2>5. made + 1 # 0
    BY BookingAssumption DEF TypeOK
  <2>6. calendar' = [e \in {made + 1} |-> [slot |-> th[h].slot, people |-> th[h].people]]
    BY <1>2, <2>4 DEF CreateEvent
  <2>7. /\ DOMAIN calendar' = {made + 1} /\ calendar'[made + 1].slot = row.slot
        /\ calendar'[made + 1].people = Attendees(row)
    BY <2>1, <2>6
  <2>8. Live(row)' /\ Attendees(row)' = Attendees(row)
    BY <2>1, <2>3 DEF Live, HasInterview, Attendees
  <2> QED BY <1>b, <1>f, <2>2, <2>3, <2>4, <2>5, <2>7, <2>8 DEF AtWork
<1>3. CASE RecordEvent(h)
  <2> DEFINE e == th[h].event
  <2>1. /\ Live(row) /\ row.event = 0 /\ e # 0 /\ DOMAIN calendar = {e}
        /\ calendar[e].slot = row.slot
        /\ calendar[e].people = Attendees(row) /\ th[h].people = Attendees(row)
    BY <1>3 DEF RecordEvent, AtWork
  <2>2. /\ row'.event = e /\ row'.slot = row.slot /\ row'.status = row.status
        /\ row'.panel = row.panel
    BY <1>0, <1>3 DEF RecordEvent, Row
  <2>3. /\ UNCHANGED <<world, calendar>> /\ mailed' = mailed \cup Attendees(row)
        /\ Becomes(h, Idle)
    BY <1>3, <2>1 DEF RecordEvent
  <2>4. Attendees(row)' = Attendees(row)
    BY <2>2 DEF Attendees
  <2>5. OwnEvent'
    BY <2>1, <2>2, <2>3 DEF OwnEvent, Live, HasInterview
  <2>6. Agreed'
    BY <2>1, <2>2, <2>3, <2>4, <2>5 DEF Agreed, Invited, AllInvited
  <2> QED BY <1>b, <1>f, <1>i, <2>2, <2>3, <2>6 DEF AtWork
<1>4. CASE SyncEventAttendees(h)
  <2> DEFINE e == row.event
  <2>1. OwnEvent /\ Live(row) /\ th[h].people = Attendees(row) /\ th[h].event = row.event
    BY <1>4 DEF SyncEventAttendees, AtWork
  <2>2. UNCHANGED <<world, row>> /\ Becomes(h, Idle)
    BY <1>4 DEF SyncEventAttendees
  <2>3. e # 0 /\ DOMAIN calendar = {e}
    BY <1>4, <2>1 DEF SyncEventAttendees, KnownEvents, OwnEvent
  <2>4. /\ calendar' = [calendar EXCEPT ![e].people = Attendees(row)]
        /\ mailed' = mailed \cup Attendees(row)
    BY <1>4, <2>1, <2>3 DEF SyncEventAttendees, KnownEvents, Exists
  <2>5. calendar[e] \in CalendarEvent
    BY <2>3 DEF TypeOK
  <2>6. /\ DOMAIN calendar' = {e} /\ calendar'[e].people = Attendees(row)
        /\ calendar'[e].slot = row.slot
    <3>1. calendar[e].slot = row.slot
      BY <2>1, <2>3 DEF OwnEvent
    <3>2. calendar'[e] = [calendar[e] EXCEPT !.people = Attendees(row)]
      BY <2>3, <2>4
    <3>3. [calendar[e] EXCEPT !.people = Attendees(row)].slot = calendar[e].slot
          /\ [calendar[e] EXCEPT !.people = Attendees(row)].people = Attendees(row)
      BY <2>5 DEF CalendarEvent
    <3> QED BY <2>3, <2>4, <3>1, <3>2, <3>3
  <2>7. Attendees(row)' = Attendees(row) /\ Live(row)'
    BY <2>1, <2>2 DEF Attendees, Live, HasInterview
  <2>8. Agreed'
    BY <2>2, <2>3, <2>4, <2>6, <2>7 DEF Agreed, OwnEvent, Invited, AllInvited
  <2> QED BY <1>b, <1>f, <1>i, <2>2, <2>8 DEF AtWork
<1>5. CASE GetEvent(h)
  <2> DEFINE t == [th[h] EXCEPT !.pc = "patch", !.event = row.event,
                                !.people = Event(row.event).people \ th[h].leaving,
                                !.leaving = {}]
  <2>1. OwnEvent /\ Invited(Attendees(row) \cup th[h].leaving) /\ row.status # "panel_complete"
    BY <1>5 DEF GetEvent, AtWork
  <2>2. UNCHANGED <<world, row, calendar, mailed>>
    BY <1>5 DEF GetEvent, outside
  <2>3. OwnEvent' /\ Attendees(row)' = Attendees(row)
    BY <2>1, <2>2 DEF OwnEvent, Live, HasInterview, Attendees
  <2>4. CASE row.event # 0
    <3>1. Exists(row.event)
      BY <2>1, <2>4 DEF Exists, OwnEvent
    <3>2. /\ t.pc = "patch" /\ t.event = row.event
          /\ t.people = calendar[row.event].people \ th[h].leaving
      BY <1>0 DEF Thread, Event
    <3>3. t.people \subseteq Attendees(row) /\ t.people \subseteq mailed
      BY <2>1, <2>4, <3>2 DEF OwnEvent, Invited
    <3> HIDE DEF t
    <3>4. Becomes(h, t)
      BY <1>5, <3>1 DEF GetEvent, t
    <3> QED BY <1>b, <1>f, <2>1, <2>2, <2>3, <2>4, <3>2, <3>3, <3>4 DEF AtWork
  <2>5. CASE row.event = 0
    <3>1. ~Exists(row.event)
      BY <2>1, <2>5 DEF Exists, OwnEvent
    <3>2. Becomes(h, Idle)
      BY <1>5, <3>1 DEF GetEvent
    <3>3. Agreed'
      BY <2>1, <2>2, <2>3, <2>5 DEF Agreed, Invited, AllInvited
    <3> QED BY <1>b, <1>f, <1>i, <2>2, <3>2, <3>3 DEF AtWork
  <2> QED BY <2>4, <2>5
<1>6. CASE PatchEvent(h)
  <2> DEFINE e == row.event
  <2>1. /\ OwnEvent /\ row.status # "panel_complete" /\ e # 0 /\ th[h].event = e
        /\ th[h].people \subseteq Attendees(row) /\ th[h].people \subseteq mailed
    BY <1>6 DEF PatchEvent, AtWork
  <2>2. UNCHANGED <<world, row, mailed>> /\ Becomes(h, Idle)
    BY <1>6 DEF PatchEvent
  <2>3. DOMAIN calendar = {e} /\ calendar[e].slot = row.slot /\ Live(row)
    BY <2>1 DEF OwnEvent
  <2>4. calendar' = [calendar EXCEPT ![e].people = th[h].people]
    BY <1>6, <2>1, <2>3 DEF PatchEvent, Exists
  <2>5. calendar[e] \in CalendarEvent
    BY <2>3 DEF TypeOK
  <2>6. /\ DOMAIN calendar' = {e} /\ calendar'[e].people = th[h].people
        /\ calendar'[e].slot = row.slot
    <3>1. calendar'[e] = [calendar[e] EXCEPT !.people = th[h].people]
      BY <2>3, <2>4
    <3>2. [calendar[e] EXCEPT !.people = th[h].people].slot = calendar[e].slot
          /\ [calendar[e] EXCEPT !.people = th[h].people].people = th[h].people
      BY <2>5 DEF CalendarEvent
    <3> QED BY <2>3, <2>4, <3>1, <3>2
  <2>7. Attendees(row)' = Attendees(row) /\ Live(row)'
    BY <2>2, <2>3 DEF Attendees, Live, HasInterview
  <2>8. Agreed'
    BY <2>1, <2>2, <2>6, <2>7 DEF Agreed, OwnEvent, Invited, AllInvited
  <2> QED BY <1>b, <1>f, <1>i, <2>2, <2>8 DEF AtWork
<1>7. CASE DeleteEvent(h)
  <2>1. /\ row.event = 0 /\ row.status # "panel_complete"
        /\ DOMAIN calendar = {th[h].event} /\ "candidate" \in th[h].people
    BY <1>7 DEF DeleteEvent, AtWork
  <2>2. /\ UNCHANGED <<world, row>> /\ Becomes(h, Idle) /\ mailed' = mailed \ th[h].people
        /\ calendar' = [x \in DOMAIN calendar \ {th[h].event} |-> calendar[x]]
    BY <1>7 DEF DeleteEvent, NothingWrong
  <2>3. DOMAIN calendar' = {} /\ "candidate" \notin mailed'
    BY <2>1, <2>2
  <2>4. Agreed'
    BY <2>1, <2>2, <2>3 DEF Agreed, OwnEvent, Invited, AllInvited
  <2> QED BY <1>b, <1>f, <1>i, <2>2, <2>4 DEF AtWork
<1>8. CASE Refused(h)
  BY <1>8 DEF Refused, NothingWrong
<1> QED BY <1>1, <1>2, <1>3, <1>4, <1>5, <1>6, <1>7, <1>8 DEF Continue

\* A step that changes no thread, nor anything outside, nor more of the row
\* than the mark of the reminder.
LEMMA MirrorKept ==
    ASSUME Mirror, UNCHANGED <<world, calendar, mailed, th>>,
           row'.status = row.status, row'.slot = row.slot, row'.panel = row.panel,
           row'.event = row.event
    PROVE  Mirror'
<1>1. FewHeld' = FewHeld
  BY DEF FewHeld
<1>2. Attendees(row)' = Attendees(row) /\ Live(row)' = Live(row)
      /\ HasInterview(row)' = HasInterview(row)
  BY DEF Attendees, Live, HasInterview
<1>3. OwnEvent' = OwnEvent /\ AllInvited' = AllInvited
  BY <1>2 DEF OwnEvent, AllInvited
<1>4. ASSUME NEW S PROVE (row'.event # 0 => calendar'[row'.event].people \subseteq S) = Invited(S)
  BY DEF Invited
<1>5. Agreed' = Agreed
  BY <1>2, <1>3, <1>4 DEF Agreed, Invited
<1>6. ASSUME NEW h \in Handlers, AtWork(th[h]) PROVE AtWork(th[h])'
  <2>1. Outcome(th[h].op, th[h].work, th[h].leaving)
          => Outcome(th[h].op, th[h].work, th[h].leaving)'
    BY DEF Outcome, Live, HasInterview
  <2>2. HasInterview(th[h].snap)' = HasInterview(th[h].snap)
    BY DEF HasInterview
  <2>3. Invited(Attendees(row) \cup th[h].leaving) => Invited(Attendees(row) \cup th[h].leaving)'
    BY <1>2 DEF Invited
  <2>4. Invited(Attendees(row)) => Invited(Attendees(row))'
    BY <1>2 DEF Invited
  <2> QED BY <1>2, <1>3, <1>5, <1>6, <2>1, <2>2, <2>3, <2>4 DEF AtWork
<1> QED BY <1>1, <1>5, <1>6 DEF Mirror

LEMMA NextMirror ==
    ASSUME TypeInv, Events, Mirror, NothingWrong, [Next]_vars
    PROVE  Mirror'
<1>0. TypeOK /\ FewHeld
  BY DEF TypeInv, Mirror
<1>1. ASSUME NEW h \in Handlers, Handle(h) PROVE Mirror'
  <2>1. PICK op, next, expired, leaving : Deciding(h, op, next, expired, leaving)
    BY <1>0, <1>1, HandleDecides
  <2>2. \A g \in Handlers : th[g].pc = "idle"
    BY <2>1 DEF Deciding, MayStart, AllQuiet, NothingWrong
  <2>3. Agreed
    BY <2>2 DEF Mirror
  <2>4. UNCHANGED <<world, row, calendar, mailed>>
    BY <2>1 DEF Deciding, outside
  <2>5. DecidesWell(h)
    BY <1>0, <1>1, HandlesWell DEF NothingWrong
  <2>6. /\ th'[h].pc = "commit" /\ th'[h].snap = row
        /\ \A g \in Handlers : g # h => th'[g] = th[g]
        /\ Outcome(th'[h].op, th'[h].work, th'[h].leaving)
    BY <1>0, <2>5 DEF DecidesWell
  <2>7. Agreed' /\ FewHeld'
    BY <1>0, <2>3, <2>4 DEF Agreed, OwnEvent, Invited, AllInvited, Attendees, Live, HasInterview,
                            FewHeld
  <2>8. Outcome(th[h].op, th[h].work, th[h].leaving)'
    BY <2>4, <2>6 DEF Outcome, Live, HasInterview
  <2>9. th'[h].snap.event = row'.event /\ HasInterview(th[h].snap)' = HasInterview(row)'
    BY <2>4, <2>6 DEF HasInterview
  <2>10. AtWork(th[h])'
    BY <2>6, <2>7, <2>8, <2>9 DEF AtWork
  <2> QED BY <2>2, <2>6, <2>7, <2>10, OneMoves
<1>2. ASSUME NEW h \in Handlers, Continue(h) PROVE Mirror'
  <2>1. th[h].pc # "idle"
    BY <1>2 DEF Continue, Commit, DispatchBooking, CreateEvent, RecordEvent,
                SyncEventAttendees, GetEvent, PatchEvent, DeleteEvent, Refused
  <2>2. (\A g \in Handlers : g # h => th[g].pc = "idle") /\ AtWork(th[h])
    BY <2>1 DEF Events, OneAtWork, Mirror
  <2>3. CASE Commit(h)
    <3>1. th[h].pc = "commit" /\ th'[h] = AfterCommit(h)
          /\ \A g \in Handlers : g # h => th'[g] = th[g]
      BY <1>0, <2>3 DEF Commit, Becomes, TypeOK
    <3>2. FewHeld' /\ AtWork(th[h])'
      BY <1>0, <2>2, <2>3, <3>1, CommitMirrors
    <3> QED BY <2>2, <3>1, <3>2, OneMoves
  <2>4. CASE ~Commit(h)
    BY <1>0, <1>2, <2>2, <2>4, CallMirrors, OneMoves
  <2> QED BY <2>3, <2>4
<1>3. CASE MarkReminded
  <2>1. /\ row'.status = row.status /\ row'.slot = row.slot /\ row'.panel = row.panel
        /\ row'.event = row.event
    BY <1>0, <1>3, Typed DEF MarkReminded, Row
  <2> QED BY <1>3, <2>1, MirrorKept DEF MarkReminded, outside
<1>4. CASE UNCHANGED <<world, row, calendar, mailed, th>>
  BY <1>4, MirrorKept
<1>5. ASSUME NEW h \in Handlers, Abort(h) PROVE FALSE
  BY <1>5 DEF Abort, NothingWrong
<1>6. CASE Crash
  BY <1>6 DEF Crash, NothingWrong
<1> QED BY <1>1, <1>2, <1>3, <1>4, <1>5, <1>6
        DEF Next, Reminding, SweepReminders, SendReminder, AbortReminder, ComesNear, Starts,
            vars, outside

\* When nothing goes wrong, the recruiter's calendar and the mailboxes agree
\* with the row whenever no handler is at work: CalendarMirrorsRow.
THEOREM CalendarIsMirror == Spec => []CalendarMirrorsRow
<1>1. Init => MirrorInv
  <2> SUFFICES ASSUME Init PROVE Mirror
    BY DEF MirrorInv
  <2>1. \A h \in Handlers : th[h].pc = "idle"
    BY DEF Init, Idle
  <2>2. /\ row.status = "collecting_availability" /\ row.event = 0 /\ HeldIds(row.panel) = {}
        /\ DOMAIN calendar = {} /\ mailed = {}
    BY DEF Init, NoRow, HeldIds, Nobody
  <2>3. FewHeld
    <3>1. Cardinality(HeldIds(row.panel)) = 0
      BY <2>2, FS_EmptySet
    <3>2. world.panelists \in Nat
      BY BookingAssumption DEF Init, World
    <3> QED BY <3>1, <3>2 DEF FewHeld
  <2>4. Agreed
    BY <2>2 DEF Agreed, OwnEvent, Invited, AllInvited
  <2> QED BY <2>1, <2>3, <2>4 DEF Mirror
<1>2. TypeInv /\ EventsInv /\ MirrorInv /\ [Next]_vars => MirrorInv'
  <2> SUFFICES ASSUME TypeInv, EventsInv, MirrorInv, [Next]_vars, NothingWrong' PROVE Mirror'
    BY DEF MirrorInv
  <2>1. NothingWrong
    BY SameWorld DEF NothingWrong, conditions
  <2>2. Events
    BY <2>1 DEF EventsInv, Calm, NothingWrong
  <2> QED BY <2>1, <2>2, NextMirror DEF MirrorInv
<1>3. MirrorInv => CalendarMirrorsRow
  <2> SUFFICES ASSUME MirrorInv, NothingWrong, AllQuiet
               PROVE  /\ DOMAIN calendar = {row.event} \ {0}
                      /\ row.status = "panel_complete" =>
                           row.event # 0 /\ Event(row.event).people = Attendees(row)
                      /\ row.event # 0 =>
                           /\ Live(row) /\ Event(row.event).slot = row.slot
                           /\ Event(row.event).people \subseteq Attendees(row)
                           /\ Event(row.event).people \subseteq mailed
                      /\ row.event = 0 => "candidate" \notin mailed
    BY DEF CalendarMirrorsRow, NothingWrong
  <2>1. Agreed
    BY DEF MirrorInv, Mirror, AllQuiet
  <2> QED BY <2>1 DEF Agreed, OwnEvent, Invited, AllInvited, Event
<1> QED
  BY <1>1, <1>2, <1>3, EventsHold, InitTypeInv, NextTypeInv, PTL DEF Spec

=============================================================================
