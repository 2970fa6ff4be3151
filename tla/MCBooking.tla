------------------------------ MODULE MCBooking ------------------------------
(* Values of BookingEvent's constants for TLC: a panel of two out of three  *)
(* interviewers while all goes well, and smaller panels under each of the   *)
(* conditions that go wrong.                                                *)
EXTENDS BookingEvent

Served(cs, n, pool, bs) == [conditions |-> cs, panelists |-> n, pool |-> pool, bookings |-> bs]

SomeWorlds == {Served({}, 2, {"a", "b", "c"}, 1),
               Served({}, 2, {"a", "b"}, 2),
               Served({}, 1, {"a", "b"}, 2),
               Served({"refusals"}, 1, {"a", "b"}, 1),
               Served({"refusals"}, 2, {"a", "b"}, 2),
               Served({"crashes"}, 1, {"a", "b"}, 2),
               Served({"aborts"}, 1, {"a"}, 2),
               Served({"dead_offers"}, 2, {"a", "b"}, 1),
               Served({"overlap"}, 1, {"a"}, 2)}
=============================================================================
