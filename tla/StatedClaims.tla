---------------------------- MODULE StatedClaims ----------------------------
(***************************************************************************)
(* What the repository's documents and comments say of the scheduling      *)
(* service in situations where the code does something else.  Each claim   *)
(* is checked in the environment in which it fails; README.md explains the *)
(* counterexamples.                                                        *)
(***************************************************************************)
EXTENDS SchedulingService

\* Documentation/IMPLEMENTATION_PLAN.md:631: "an unanswered offer past its
\* timeout cascades to the next candidate with zero manual intervention".
OfferEventuallySettled ==
    \A r \in Requests, k \in SeatIndex, i \in Interviewers :
        LET standing == /\ Reserving(r)
                        /\ row[r].seats[k].status = "offered"
                        /\ row[r].seats[k].who = i
        IN  standing ~> ~standing
=============================================================================
