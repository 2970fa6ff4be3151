------------------------- MODULE InterviewLifecycle -------------------------
(***************************************************************************)
(* The life of an interview as its row tells it, with every call of the    *)
(* scheduling service (backend/app/scheduling/service.py) a single step:   *)
(* what a call makes of the row when nothing comes between its first read  *)
(* and its last commit.                                                    *)
(*                                                                         *)
(* Who is picked for a seat is left open but for what the engine promises  *)
(* of any panel; the ledger and the calendar are not part of this story.   *)
(***************************************************************************)
EXTENDS PanelSeats

CONSTANTS Requests, Slots, NoSlot

VARIABLE interview   \* the row of each request: status, panel and times

NotRequested == [status |-> "absent", seats |-> NoSeats, slot |-> NoSlot, feasible |-> {}]

\* Its panel can still change.
Underway(r) ==
    interview[r].status \in {"assigning_panel", "panel_complete", "manual_scheduling_required"}

\* fill_pending_seats, when pick says whom it found for a seat, if anyone.
Seated(seats, pick) ==
    [k \in SeatIndex |->
       IF seats[k].status # "pending" THEN seats[k]
       ELSE IF pick[k] = NoOne THEN [seats[k] EXCEPT !.status = "exhausted"]
       ELSE [seats[k] EXCEPT !.status = "offered", !.who = pick[k]]]

\* Whomever it found: nobody who sits on the panel or gave this seat back.
Fillings(seats) ==
    {after \in {Seated(seats, pick) :
                    pick \in [SeatsWith(seats, "pending") -> Interviewers \cup {NoOne}]} :
        PanelistsDistinct(after) /\ DeclinersStayAway(after)}

\* The panel becomes seats, and the status what the engine makes of it.
Becomes(r, status, seats) ==
    interview' = [interview EXCEPT ![r].status = Resolve(status, seats), ![r].seats = seats]

-----------------------------------------------------------------------------
(* The calls                                                               *)

Create(r) ==
    /\ interview[r].status = "absent"
    /\ interview' = [interview EXCEPT ![r].status = "collecting_availability"]

\* submit_availability: the slots a search finds, or a human if it finds none.
Submit(r, found) ==
    /\ interview[r].status = "collecting_availability"
    /\ interview' = [interview EXCEPT
                       ![r].status = IF found = {} THEN "manual_scheduling_required"
                                     ELSE "awaiting_candidate_selection",
                       ![r].feasible = found]

\* select_slot: a panel is assigned to one of these slots, or, if too few are
\* still free, its empty seats are left to a human.
Select(r, slot) ==
    /\ interview[r].status = "awaiting_candidate_selection"
    /\ slot \in interview[r].feasible
    /\ \/ \E seats \in Fillings(FreshSeats) :
            interview' = [interview EXCEPT ![r].status = Resolve("assigning_panel", seats),
                                           ![r].seats = seats, ![r].slot = slot]
       \/ interview' = [interview EXCEPT ![r].status = "manual_scheduling_required",
                                         ![r].seats = FreshSeats, ![r].slot = slot]

\* respond_to_seat, accepted.
AcceptSeat(r, k) ==
    /\ Underway(r)
    /\ k \in SeatsWith(interview[r].seats, "offered")
    /\ Becomes(r, interview[r].status, Accept(interview[r].seats, k))

\* respond_to_seat, declined, or the sweep that finds offers expired: these
\* seats, and no others, go to the next in turn.
GiveBack(r, K) ==
    /\ Underway(r)
    /\ K # {} /\ K \subseteq SeatsWith(interview[r].seats, "offered")
    /\ \E seats \in Fillings(Reopen(interview[r].seats, K)) :
         Becomes(r, interview[r].status, seats)

\* interviewer_cancel: a confirmed interviewer backs out and is replaced.
BackOut(r, i) ==
    LET K == {k \in SeatsWith(interview[r].seats, "accepted") : interview[r].seats[k].who = i}
    IN  /\ interview[r].status \in {"assigning_panel", "panel_complete"}
        /\ K # {}
        /\ \E seats \in Fillings(Reopen(interview[r].seats, K)) :
             Becomes(r, "assigning_panel", seats)

\* candidate_cancel: the panel stays on the row, for the record.
Cancel(r) ==
    /\ interview[r].status # "absent"
    /\ interview' = [interview EXCEPT ![r].status = "cancelled"]

\* candidate_reschedule: everything starts over.
Reschedule(r) ==
    /\ interview[r].status # "absent"
    /\ interview' = [interview EXCEPT
                       ![r] = [NotRequested EXCEPT !.status = "collecting_availability"]]

Init == interview = [r \in Requests |-> NotRequested]

Call(r) ==
    \/ Create(r)
    \/ \E found \in SUBSET Slots : Submit(r, found)
    \/ \E slot \in Slots : Select(r, slot)
    \/ \E k \in SeatIndex : AcceptSeat(r, k)
    \/ \E K \in SUBSET SeatIndex : GiveBack(r, K)
    \/ \E i \in Interviewers : BackOut(r, i)
    \/ Cancel(r)
    \/ Reschedule(r)

Next == \E r \in Requests : Call(r)

Spec == Init /\ [][Next]_interview
=============================================================================
