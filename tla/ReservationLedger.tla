-------------------------- MODULE ReservationLedger --------------------------
(***************************************************************************)
(* What a reservation ledger promises, as the in-memory ledger of          *)
(* backend/app/scheduling/reservations.py keeps it: a set of reservations, *)
(* each of one interviewer for one seat, changed by one call at a time.    *)
(*                                                                         *)
(* An interview keeps its time here, so two reservations overlap when the  *)
(* buffered intervals of their interviews do: Clash has these pairs.       *)
(***************************************************************************)
CONSTANTS Interviewers, Interviews, SeatIndex, Clash

VARIABLE reservations

Reservation == [iv : Interviews, seat : SeatIndex, who : Interviewers]

OfInterview(v, held) == {h \in held : h.iv = v}

\* is_free: no reservation of interviewer i overlaps interview v's time.
IsFree(i, v, held) == \A h \in held : h.who = i => <<h.iv, v>> \notin Clash

\* reserve.  gone are seats of the same interview released just before it: a
\* caller that releases and reserves in one transaction does both at once.
Reserve(i, v, k, gone) ==
    /\ IsFree(i, v, reservations \ gone)
    /\ reservations' = (reservations \ gone) \cup {[iv |-> v, seat |-> k, who |-> i]}

Release(gone) == reservations' = reservations \ gone

\* release_interview: every hold of interview v on anyone.
ReleaseInterview(v) == Release(OfInterview(v, reservations))

Init == reservations = {}

Next ==
    \E v \in Interviews, gone \in SUBSET Reservation :
        /\ OfInterview(v, gone) = gone
        /\ \/ \E i \in Interviewers, k \in SeatIndex : Reserve(i, v, k, gone)
           \/ Release(gone)

Spec == Init /\ [][Next]_reservations

\* Nobody is ever held for two seats whose times overlap.
NeverDoubleHeld(held) ==
    \A a, b \in held : a.who = b.who /\ <<a.iv, b.iv>> \in Clash => a = b
=============================================================================
