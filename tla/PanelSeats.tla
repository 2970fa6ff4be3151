----------------------------- MODULE PanelSeats -----------------------------
(***************************************************************************)
(* The seats of one interview's panel, and what the assignment engine does *)
(* to them: backend/app/scheduling/assignment.py (PanelAssignmentAgent),   *)
(* the seat part of state_machine.py and InterviewSeat in models.py.       *)
(*                                                                         *)
(* The engine works on a copy of the seats and returns a new copy, so each *)
(* operation is an operator from seats to seats.  Timestamps, notification *)
(* calls and messages are left out; a seat's declined_interviewer_ids is a *)
(* set (the code only tests membership).                                   *)
(***************************************************************************)
EXTENDS Integers, FiniteSets

CONSTANTS
    Interviewers,        \* InterviewerProfile ids
    PanelistsRequired,   \* InterviewRequest.panelists_required
    NoOne                \* a seat's interviewer_id when it is None

ASSUME PanelAssumption ==
    /\ PanelistsRequired \in Nat \ {0}
    /\ NoOne \notin Interviewers

SeatIndex == 0 .. PanelistsRequired - 1

\* "none" stands for a seat of a row whose seats_json is NULL.
SeatStatus == {"none", "pending", "offered", "accepted", "exhausted"}

Seat == [status   : SeatStatus,
         who      : Interviewers \cup {NoOne},
         declined : SUBSET Interviewers]

Panels == [SeatIndex -> Seat]

\* seats_json IS NULL: no panel has been opened for this request.
NoSeats == [k \in SeatIndex |->
              [status |-> "none", who |-> NoOne, declined |-> {}]]

\* create_interview: N empty seats, all still to be offered.
FreshSeats == [k \in SeatIndex |->
                 [status |-> "pending", who |-> NoOne, declined |-> {}]]

SeatsWith(seats, status) == {k \in SeatIndex : seats[k].status = status}

\* Someone sits on seat k, provisionally (offered) or for good (accepted).
Held(seats, k) == seats[k].status \in {"offered", "accepted"}

HeldIds(seats) == {seats[k].who : k \in {j \in SeatIndex : Held(seats, j)}}

\* Broken exclusions: one forgets who declined, the other who sits elsewhere.
ExcludedHeldOnly(seats, k) == HeldIds(seats)
ExcludedDeclinedOnly(seats, k) == seats[k].declined

\* fill_pending_seats skips whoever sits elsewhere on this panel and whoever
\* already gave this very seat back.
Excluded(seats, k) == HeldIds(seats) \cup seats[k].declined

\* The seat the fill loop is working on: seats are visited in index order.
IsNextPending(seats, k) ==
    /\ k \in SeatsWith(seats, "pending")
    /\ \A j \in SeatsWith(seats, "pending") : k <= j

OfferTo(seats, k, i) ==
    [seats EXCEPT ![k] = [status |-> "offered", who |-> i, declined |-> @.declined]]

Exhaust(seats, k) ==
    [seats EXCEPT ![k] = [status |-> "exhausted", who |-> @.who, declined |-> @.declined]]

Accept(seats, k) ==
    [seats EXCEPT ![k] = [status |-> "accepted", who |-> @.who, declined |-> @.declined]]

\* Broken reopenings: one forgets who left, the other empties the whole panel.
ReopenForgetful(seats, K) ==
    [k \in SeatIndex |->
       IF k \in K THEN [status |-> "pending", who |-> NoOne, declined |-> seats[k].declined]
       ELSE seats[k]]
ReopenAll(seats, K) ==
    [k \in SeatIndex |->
       [status   |-> "pending",
        who      |-> NoOne,
        declined |-> IF k \in K THEN seats[k].declined \cup {seats[k].who}
                     ELSE seats[k].declined]]

\* A decline, an expired offer or a confirmed interviewer backing out: the
\* seat is pending again and remembers who left it.
Reopen(seats, K) ==
    [k \in SeatIndex |->
       IF k \in K
       THEN [status   |-> "pending",
             who      |-> NoOne,
             declined |-> seats[k].declined \cup {seats[k].who}]
       ELSE seats[k]]

\* A broken resolution that is content with one acceptance.
ResolveEarly(status, seats) ==
    IF SeatsWith(seats, "exhausted") # {} THEN "manual_scheduling_required"
    ELSE IF SeatsWith(seats, "accepted") # {} THEN "panel_complete"
    ELSE status

\* _resolve: an exhausted seat wins over a complete panel, and an undecided
\* panel leaves the interview's own status as it was.
Resolve(status, seats) ==
    IF SeatsWith(seats, "exhausted") # {} THEN "manual_scheduling_required"
    ELSE IF SeatsWith(seats, "accepted") = SeatIndex THEN "panel_complete"
    ELSE status

-----------------------------------------------------------------------------
(* What a panel may never look like, whoever edited it and when.           *)

\* No interviewer sits twice on one panel.
PanelistsDistinct(seats) ==
    \A j, k \in SeatIndex :
        Held(seats, j) /\ Held(seats, k) /\ seats[j].who = seats[k].who => j = k

\* Nobody sits on a seat they already gave back.
DeclinersStayAway(seats) ==
    \A k \in SeatIndex : Held(seats, k) => seats[k].who \notin seats[k].declined
=============================================================================
