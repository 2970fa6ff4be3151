---------------------------- MODULE TimeIntervals ----------------------------
(***************************************************************************)
(* Interval and working-hours arithmetic: backend/app/scheduling/          *)
(* timeutils.py.  An instant is a number of time units since some midnight *)
(* UTC (ensure_utc has normalised it); an interval runs from its start up  *)
(* to and not including its end.  An owner's time zone is a fixed distance *)
(* from UTC: the days on which a zone changes its clocks are left out.     *)
(***************************************************************************)
EXTENDS Integers

CONSTANT DayLength      \* time units in a day

ASSUME DayAssumption == DayLength \in Nat \ {0}

\* A time of day that parse_hhmm refuses to read ("24:00", "nine").
Unreadable == -1

Interval == [start : Int, end : Int]

\* The instants of an interval.
Instants(iv) == iv.start .. iv.end - 1

\* A broken test that lets an interval end where the other starts.
OverlapsOrTouches(a, b) == a.start <= b.end /\ b.start <= a.end

\* intervals_overlap: the half-open overlap test.
Overlaps(a, b) == a.start < b.end /\ b.start < a.end

\* buffered_interval: the slot with the round's buffers around it.
Buffered(slot, before, after) ==
    [start |-> slot.start - before, end |-> slot.end + after]

\* has_busy_conflict: a block that touches the padding is a conflict.
HasBusyConflict(busy, slot, before, after) ==
    \E b \in busy : Overlaps(b, Buffered(slot, before, after))

LocalDay(t, zone) == (t + zone) \div DayLength

\* working_window_on_date: [start, end) of the working hours on a local day.
WorkingWindow(day, hours, zone) ==
    [start |-> day * DayLength + hours.start - zone,
     end   |-> day * DayLength + hours.end - zone]

\* The owner's date is taken from the start of the slot, so a slot that runs
\* past the end of that working day is refused.
IsWithinWorkingHours(slot, hours, zone) ==
    LET window == WorkingWindow(LocalDay(slot.start, zone), hours, zone)
    IN  window.start <= slot.start /\ slot.end <= window.end

\* A broken grid whose last interview may run past the window.
SlotStartsInside(window, duration, granularity) ==
    {t \in window.start .. window.end - 1 : (t - window.start) % granularity = 0}

\* iter_slot_starts: every granularity steps from the start of the window, as
\* long as the whole interview ends inside it.
SlotStarts(window, duration, granularity) ==
    {window.start + k * granularity :
        k \in 0 .. ((window.end - duration - window.start) \div granularity)}
=============================================================================
