------------------------- MODULE FeasibleSlotsProofs -------------------------
(***************************************************************************)
(* What the feasibility search and the live recompute promise, proved for  *)
(* every calendar, directory, round and set of windows.                    *)
(***************************************************************************)
EXTENDS FeasibleSlots, FiniteSetTheorems, WellFoundedInduction, TLAPS

-----------------------------------------------------------------------------
(* Intervals                                                               *)

\* Multiples of the day: an instant within one day of q * D has its time of
\* day counted from there.
LEMMA Multiples ==
    ASSUME NEW a \in Int, NEW b \in Int, NEW d \in Nat \ {0}, a < b
    PROVE  a * d + d <= b * d
<1>1. PICK n \in Nat : b = a + 1 + n
  <2>1. b - a - 1 \in Nat /\ b = a + 1 + (b - a - 1)
    BY SMT
  <2>2. QED
    BY <2>1
<1>2. b * d = a * d + d + n * d
  BY <1>1, SMT
<1>3. n * d >= 0
  BY SMT
<1>4. QED
  BY <1>2, <1>3, SMT

\* intervals_overlap decides whether two intervals have an instant in common
\* (timeutils.py: "do [a_start, a_end) and [b_start, b_end) intersect?").
THEOREM OverlapIsIntersection ==
    ASSUME NEW a \in Interval, NEW b \in Interval, a.start < a.end, b.start < b.end
    PROVE  Overlaps(a, b) <=> Instants(a) \cap Instants(b) # {}
<1>1. ASSUME Overlaps(a, b) PROVE Instants(a) \cap Instants(b) # {}
  <2>1. CASE a.start <= b.start
    <3>1. b.start \in Instants(a) /\ b.start \in Instants(b)
      BY <1>1, <2>1, SMT DEF Overlaps, Instants, Interval
    <3>2. QED
      BY <3>1
  <2>2. CASE b.start <= a.start
    <3>1. a.start \in Instants(a) /\ a.start \in Instants(b)
      BY <1>1, <2>2, SMT DEF Overlaps, Instants, Interval
    <3>2. QED
      BY <3>1
  <2>3. QED
    BY <2>1, <2>2, SMT DEF Interval
<1>2. ASSUME NEW t \in Instants(a) \cap Instants(b) PROVE Overlaps(a, b)
  BY SMT DEF Overlaps, Instants, Interval
<1>3. QED
  BY <1>1, <1>2

\* A block without conflict leaves every instant of the padded slot alone.
LEMMA NoConflictNoInstant ==
    ASSUME NEW m \in Interval, NEW s \in Int, NEW e \in Int,
           ~Overlaps(m, [start |-> s, end |-> e])
    PROVE  Instants(m) \cap (s .. e - 1) = {}
BY SMT DEF Overlaps, Instants, Interval

\* Asking for an hour around the slot is as good as asking for the whole
\* calendar, as long as the buffers are at most that hour
\* (feasible_interviewers_at_fixed_time).
THEOREM LiveQuerySuffices ==
    ASSUME NEW slot \in Interval, NEW times \in SUBSET Interval,
           NEW before \in Nat, NEW after \in Nat, before <= Margin, after <= Margin
    PROVE  HasBusyConflict({m \in times : Overlaps(m, Around(slot))}, slot, before, after)
             <=> HasBusyConflict(times, slot, before, after)
<1>1. Margin \in Nat
  BY SlotsAssumption
<1>2. ASSUME NEW m \in times, Overlaps(m, Buffered(slot, before, after))
      PROVE  Overlaps(m, Around(slot))
  BY <1>1, <1>2, SMT DEF Overlaps, Buffered, Around, Interval
<1>3. QED
  BY <1>2 DEF HasBusyConflict

\* Whoever's working hours hold the slot is at work at each of its instants.
LEMMA TimeOfDay ==
    ASSUME NEW x \in Int, NEW q \in Int, NEW d \in Nat \ {0},
           q * d <= x, x < q * d + d
    PROVE  x % d = x - q * d
<1> DEFINE p == x \div d
<1>1. p \in Int /\ x % d \in Int /\ x = p * d + (x % d) /\ 0 <= x % d /\ x % d < d
  BY SMT
<1>2. ~(p < q)
  <2>1. SUFFICES ASSUME p < q PROVE FALSE
    OBVIOUS
  <2>2. p * d + d <= q * d
    BY <1>1, <2>1, Multiples
  <2>3. QED
    BY <1>1, <2>2, SMT
<1>3. ~(q < p)
  <2>1. SUFFICES ASSUME q < p PROVE FALSE
    OBVIOUS
  <2>2. q * d + d <= p * d
    BY <1>1, <2>1, Multiples
  <2>3. QED
    BY <1>1, <2>2, SMT
<1>4. p = q
  BY <1>1, <1>2, <1>3, SMT
<1>5. x = q * d + (x % d)
  BY <1>1, <1>4, Zenon
<1>6. \A a, b, c \in Int : a = b + c => c = a - b
  BY SMT
<1>7. q * d \in Int /\ x % d \in Int
  BY <1>1, SMT
<1>8. QED
  BY <1>5, <1>6, <1>7, Zenon

\* iter_slot_starts: the whole interview ends inside the window.
LEMMA StartsFit ==
    ASSUME NEW w \in Interval, NEW duration \in Nat, NEW g \in Nat \ {0},
           NEW t \in SlotStarts(w, duration, g)
    PROVE  t \in Int /\ w.start <= t /\ t + duration <= w.end
<1> DEFINE room == w.end - duration - w.start
<1>1. room \in Int
  BY SMT DEF Interval
<1>2. PICK k \in 0 .. (room \div g) : t = w.start + k * g
  BY DEF SlotStarts
<1> HIDE DEF room
<1>3. (room \div g) \in Int /\ room % g \in Int /\ room = (room \div g) * g + (room % g) /\ 0 <= room % g
  BY <1>1, SMT
<1>4. k \in Nat /\ k \in Int /\ k <= room \div g
  BY <1>2, <1>3, SMT
<1>5. k * g <= (room \div g) * g
  <2>1. CASE k = room \div g
    BY <2>1, <1>3, <1>4, SMT
  <2>2. CASE k < room \div g
    <3>1. k * g + g <= (room \div g) * g
      BY <1>3, <1>4, <2>2, Multiples, Zenon
    <3>2. QED
      BY <1>3, <1>4, <3>1, SMT
  <2>3. QED
    BY <1>3, <1>4, <2>1, <2>2, SMT
<1>6. k * g \in Nat /\ k * g <= room
  BY <1>3, <1>4, <1>5, SMT
<1>7. QED
  BY <1>2, <1>6, SMT DEF room, Interval

-----------------------------------------------------------------------------
(* Working hours                                                           *)

LEMMA DayBounds ==
    ASSUME NEW s \in Int, NEW zone \in Int
    PROVE  /\ LocalDay(s, zone) \in Int
           /\ LocalDay(s, zone) * DayLength \in Int
           /\ LocalDay(s, zone) * DayLength <= s + zone
           /\ s + zone < LocalDay(s, zone) * DayLength + DayLength
<1> DEFINE x == s + zone
           q == x \div DayLength
<1>1. x \in Int /\ DayLength \in Nat \ {0}
  BY DayAssumption, SMT
<1> HIDE DEF x
<1>2. q \in Int /\ x % DayLength \in Int /\ 0 <= x % DayLength /\ x % DayLength < DayLength
      /\ x = q * DayLength + (x % DayLength)
  BY <1>1, SMT
<1>3. q * DayLength \in Int
  BY <1>1, <1>2, SMT
<1>4. q * DayLength <= x /\ x < q * DayLength + DayLength
  BY <1>1, <1>2, <1>3, SMT
<1>5. QED
  BY <1>2, <1>3, <1>4 DEF LocalDay, x

\* The interval test of is_within_working_hours says what it means: the owner
\* is at work at every instant of the slot.
LEMMA WorkingHoursByInstant ==
    ASSUME NEW zone \in Int, NEW s \in Int, NEW d \in Nat \ {0},
           NEW from \in -1 .. DayLength - 1, NEW until \in -1 .. DayLength - 1
    PROVE  IsWithinWorkingHours([start |-> s, end |-> s + d],
                                [start |-> from, end |-> until], zone)
             <=> \A u \in s .. s + d - 1 : /\ from <= (u + zone) % DayLength
                                           /\ (u + zone) % DayLength < until
<1> DEFINE b == LocalDay(s, zone) * DayLength
<1>1. DayLength \in Nat \ {0}
  BY DayAssumption
<1>2. b \in Int /\ b <= s + zone /\ s + zone < b + DayLength
  BY DayBounds
<1>3. \A u \in Int : b <= u + zone /\ u + zone < b + DayLength
        => (u + zone) % DayLength = (u + zone) - b
  <2>1. \A u \in Int : u + zone \in Int
    BY SMT
  <2>2. LocalDay(s, zone) \in Int
    BY DayBounds
  <2>3. QED
    BY <1>1, <2>1, <2>2, TimeOfDay, Zenon
<1>4. IsWithinWorkingHours([start |-> s, end |-> s + d], [start |-> from, end |-> until], zone)
        <=> b + from - zone <= s /\ s + d <= b + until - zone
  BY DEF IsWithinWorkingHours, WorkingWindow
<1> HIDE DEF b
<1>5. ASSUME b + from - zone <= s, s + d <= b + until - zone, NEW u \in s .. s + d - 1
      PROVE  from <= (u + zone) % DayLength /\ (u + zone) % DayLength < until
  <2>1. u \in Int /\ b <= u + zone /\ u + zone < b + until /\ b + from <= u + zone
    BY <1>1, <1>2, <1>5, SMT
  <2>2. (u + zone) % DayLength = (u + zone) - b
    <3>1. u \in Int /\ b <= u + zone /\ u + zone < b + DayLength
      BY <1>1, <1>2, <2>1, SMT
    <3>2. QED
      BY <1>3, <3>1
  <2>3. QED
    BY <1>2, <2>1, <2>2, SMT
<1>6. ASSUME \A u \in s .. s + d - 1 : from <= (u + zone) % DayLength
                                        /\ (u + zone) % DayLength < until
      PROVE  b + from - zone <= s /\ s + d <= b + until - zone
  <2>1. b + from - zone <= s
    <3>1. s \in s .. s + d - 1 /\ (s + zone) % DayLength = (s + zone) - b
      BY <1>1, <1>2, <1>3, SMT
    <3>2. from <= (s + zone) - b
      BY <1>6, <3>1
    <3>3. QED
      BY <1>1, <1>2, <3>2, SMT
  <2>2. SUFFICES ASSUME b + until - zone < s + d PROVE FALSE
    BY <1>1, <1>2, <2>1, SMT
  <2>3. CASE s + d - 1 + zone < b + DayLength
    <3>1. s + d - 1 \in s .. s + d - 1
      BY SMT
    <3>2. (s + d - 1 + zone) % DayLength = (s + d - 1 + zone) - b
      <4>1. s + d - 1 \in Int /\ b <= s + d - 1 + zone
        BY <1>2, SMT
      <4>2. QED
        BY <1>3, <2>3, <4>1, Zenon
    <3>3. (s + d - 1 + zone) - b < until
      BY <1>6, <3>1, <3>2
    <3>4. QED
      BY <1>1, <1>2, <2>2, <3>3, SMT
  <2>4. CASE b + DayLength <= s + d - 1 + zone
    <3> DEFINE v == b + DayLength - 1 - zone
    <3>1. v \in s .. s + d - 1
      BY <1>1, <1>2, <2>4, SMT
    <3>2. (v + zone) % DayLength = (v + zone) - b
      <4>1. v \in Int /\ b <= v + zone /\ v + zone < b + DayLength
        BY <1>1, <1>2, SMT
      <4> HIDE DEF v
      <4>2. QED
        BY <1>3, <4>1, Zenon
    <3>3. (v + zone) - b < until
      BY <1>6, <3>1, <3>2
    <3>4. QED
      BY <1>1, <1>2, <3>3, SMT
  <2>5. QED
    BY <1>1, <1>2, <2>3, <2>4, SMT
<1>7. QED
  BY <1>4, <1>5, <1>6

-----------------------------------------------------------------------------
(* Who may sit                                                             *)

\* The rows the module keeps are typed, so the round's numbers are numbers.
LEMMA AskTyped ==
    ASSUME TypeOK
    PROVE  /\ ask.duration \in Nat \ {0}
           /\ ask.before \in Nat
           /\ ask.after \in Nat
           /\ ask.panelists \in Nat
           /\ ask.panelists >= 1
           /\ now \in Nat
  BY SlotsAssumption, SMT DEF TypeOK, Ask

LEMMA ProfileTyped ==
    ASSUME TypeOK, NEW i \in DOMAIN profiles
    PROVE  /\ i \in Interviewers
           /\ profiles[i].zone \in Int
           /\ profiles[i].from.at \in -1 .. DayLength - 1
           /\ profiles[i].until.at \in -1 .. DayLength - 1
<1>1. profiles[i] \in Profile /\ i \in Interviewers
  BY DEF TypeOK
<1>2. profiles[i].from \in Clock /\ profiles[i].until \in Clock /\ profiles[i].zone \in Int
  BY <1>1 DEF Profile
<1>3. profiles[i].from.at \in (0 .. DayLength - 1) \cup {Unreadable}
      /\ profiles[i].until.at \in (0 .. DayLength - 1) \cup {Unreadable}
  BY <1>2 DEF Clock
<1>4. QED
  BY <1>1, <1>2, <1>3, DayAssumption, SMT DEF Unreadable

\* resolve_interviewer_pool under the policy the service runs with.
LEMMA PoolIsQualified ==
    ASSUME Policy = DefaultPolicy
    PROVE  \A i : i \in ThePool <=> Qualified(i)
<1>1. /\ Policy.skillMatch = "all" /\ Policy.skillMatch \notin {"any", "ratio"}
      /\ Policy.seniority # "exact"
      /\ Policy.activeOnly = TRUE
  BY DEF DefaultPolicy
<1>2. ASSUME NEW i PROVE SkillOk(ask.skills, profiles[i].skills, Policy)
        <=> \A s \in ask.skills : Skill[s] # Blank
               => \E h \in profiles[i].skills : Skill[h] = Skill[s]
  <2> DEFINE wanted == Skills(ask.skills) \ {Blank}
             have == Skills(profiles[i].skills)
  <2>1. SkillOk(ask.skills, profiles[i].skills, Policy) <=> wanted \subseteq have
    BY <1>1 DEF SkillOk
  <2>2. wanted \subseteq have
          <=> \A s \in ask.skills : Skill[s] # Blank => Skill[s] \in have
    BY DEF Skills
  <2>3. \A s \in ask.skills : Skill[s] \in have <=> \E h \in profiles[i].skills : Skill[h] = Skill[s]
    BY DEF Skills
  <2>4. QED
    BY <2>1, <2>2, <2>3
<1>3. ASSUME NEW i PROVE i \in ThePool <=> Qualified(i)
  <2>1. i \in ThePool <=> i \in DOMAIN profiles /\ Eligible(ask, profiles[i], Policy)
    BY DEF ThePool, Pool
  <2>2. QED
    BY <1>1, <1>2, <2>1, Zenon DEF Eligible, TypeOk, SeniorityOk, Qualified
<1>4. QED
  BY <1>3

\* Working hours, of somebody in the directory and for a slot of the round.
LEMMA AtWorkThroughout ==
    ASSUME TypeOK, NEW i \in DOMAIN profiles, NEW t \in Int
    PROVE  IsWithinWorkingHours(SlotAt(t), Hours(profiles[i]), profiles[i].zone)
             <=> \A u \in t .. t + ask.duration - 1 : AtWork(i, u)
BY AskTyped, ProfileTyped, WorkingHoursByInstant, Zenon DEF SlotAt, Hours, AtWork

\* A set of meetings that conflicts with no interval leaves its instants alone.
LEMMA FreeByInstant ==
    ASSUME NEW times \in SUBSET Meetings, NEW s \in Int, NEW e \in Int, s < e
    PROVE  (\A m \in times : ~Overlaps(m, [start |-> s, end |-> e]))
             <=> Untouched(times, s .. e - 1)
<1> DEFINE iv == [start |-> s, end |-> e]
<1>1. iv \in Interval /\ iv.start < iv.end /\ Instants(iv) = s .. e - 1
  BY DEF Interval, Instants
<1>2. \A m \in times : m \in Interval /\ m.start < m.end
  BY SlotsAssumption
<1> HIDE DEF iv
<1>3. \A m \in times : Overlaps(m, iv) <=> Instants(m) \cap Instants(iv) # {}
  BY <1>1, <1>2, OverlapIsIntersection
<1>4. QED
  BY <1>1, <1>3 DEF Untouched, iv

LEMMA PaddedSlot ==
    ASSUME TypeOK, NEW t \in Int
    PROVE  /\ Buffered(SlotAt(t), ask.before, ask.after)
                = [start |-> t - ask.before, end |-> t + ask.duration + ask.after]
           /\ t - ask.before \in Int
           /\ t + ask.duration + ask.after \in Int
           /\ t - ask.before < t + ask.duration + ask.after
<1>1. Buffered(SlotAt(t), ask.before, ask.after)
        = [start |-> t - ask.before, end |-> t + ask.duration + ask.after]
  BY Zenon DEF Buffered, SlotAt
<1>2. QED
  BY <1>1, AskTyped, SMT

\* The ledger's answer in terms of instants.
LEMMA HeldByInstant ==
    ASSUME TypeOK, NEW i \in Interviewers, NEW t \in Int
    PROVE  i \in NotHeld(SlotAt(t)) <=> NotPromised(i, t)
<1>1. held[i] \in SUBSET Meetings
  BY DEF TypeOK
<1>2. (\A h \in held[i] : ~Overlaps(h, [start |-> t - ask.before,
                                        end |-> t + ask.duration + ask.after]))
        <=> Untouched(held[i], t - ask.before .. (t + ask.duration + ask.after) - 1)
  BY <1>1, PaddedSlot, FreeByInstant
<1>3. QED
  BY <1>2, PaddedSlot DEF NotHeld, NotPromised

\* The live recompute finds exactly the people who could take the slot.
LEMMA LiveIsExact ==
    ASSUME TypeOK, Policy = DefaultPolicy, NEW t \in Int,
           ask.before <= Margin, ask.after <= Margin, Sufficient(ask, ActivePool)
    PROVE  StillFeasible(SlotAt(t))
             = {i \in Panelists(t, ask.before, ask.after) : NotPromised(i, t)}
<1> DEFINE slot == SlotAt(t)
           padded == [start |-> t - ask.before, end |-> t + ask.duration + ask.after]
<1>1. slot \in Interval
  BY AskTyped, SMT DEF SlotAt, Interval
<1>2. ASSUME NEW i \in Interviewers, Qualified(i), connection[i]
      PROVE  ~HasBusyConflict(FreeBusy(i, Around(slot)), slot, ask.before, ask.after)
               <=> Untouched(calendars[i], t - ask.before .. (t + ask.duration + ask.after) - 1)
  <2>1. calendars[i] \in SUBSET Meetings /\ calendars[i] \in SUBSET Interval
    BY SlotsAssumption DEF TypeOK
  <2>2. FreeBusy(i, Around(slot)) = {m \in calendars[i] : Overlaps(m, Around(slot))}
    BY <1>2 DEF FreeBusy
  <2>3. HasBusyConflict(FreeBusy(i, Around(slot)), slot, ask.before, ask.after)
          <=> HasBusyConflict(calendars[i], slot, ask.before, ask.after)
    <3> HIDE DEF slot
    <3>1. QED
      BY <1>1, <2>1, <2>2, AskTyped, LiveQuerySuffices
  <2>4. HasBusyConflict(calendars[i], slot, ask.before, ask.after)
          <=> \E m \in calendars[i] : Overlaps(m, padded)
    BY PaddedSlot DEF HasBusyConflict
  <2>5. (\A m \in calendars[i] : ~Overlaps(m, padded))
          <=> Untouched(calendars[i], t - ask.before .. (t + ask.duration + ask.after) - 1)
    BY <2>1, PaddedSlot, FreeByInstant
  <2>6. QED
    BY <2>3, <2>4, <2>5
<1>3. ASSUME NEW i
      PROVE  i \in ActivePool <=> Qualified(i)
  BY PoolIsQualified DEF ActivePool, Qualified
<1>4. ASSUME NEW i, Qualified(i)
      PROVE  i \in DOMAIN profiles /\ i \in Interviewers
  BY <1>4 DEF Qualified, TypeOK
<1>5. ASSUME NEW i
      PROVE  i \in StillFeasible(slot)
               <=> /\ Qualified(i) /\ connection[i]
                   /\ IsWithinWorkingHours(slot, Hours(profiles[i]), profiles[i].zone)
                   /\ ~HasBusyConflict(FreeBusy(i, Around(slot)), slot, ask.before, ask.after)
                   /\ i \in NotHeld(slot)
  <2> HIDE DEF slot
  <2>1. i \in StillFeasible(slot)
          <=> /\ i \in VerifiedPool(ActivePool)
              /\ IsWithinWorkingHours(slot, Hours(profiles[i]), profiles[i].zone)
              /\ ~HasBusyConflict(BusyForPool(ActivePool, Around(slot))[i], slot, ask.before, ask.after)
              /\ i \in NotHeld(slot)
    BY DEF StillFeasible, FeasibleAt
  <2>2. i \in VerifiedPool(ActivePool) <=> i \in ActivePool /\ connection[i]
    BY DEF VerifiedPool
  <2>3. i \in ActivePool => BusyForPool(ActivePool, Around(slot))[i] = FreeBusy(i, Around(slot))
    BY DEF BusyForPool
  <2>4. QED
    BY <1>3, <2>1, <2>2, <2>3
<1>6. ASSUME NEW i
      PROVE  i \in Panelists(t, ask.before, ask.after)
               <=> /\ Qualified(i) /\ connection[i]
                   /\ \A u \in t .. t + ask.duration - 1 : AtWork(i, u)
                   /\ Untouched(calendars[i], t - ask.before .. (t + ask.duration + ask.after) - 1)
  BY <1>4, Zenon DEF Panelists, CouldSit
<1>7. ASSUME NEW i, Qualified(i), connection[i]
      PROVE  i \in StillFeasible(slot)
               <=> i \in Panelists(t, ask.before, ask.after) /\ NotPromised(i, t)
  <2>1. i \in DOMAIN profiles /\ i \in Interviewers
    BY <1>4, <1>7
  <2>2. IsWithinWorkingHours(slot, Hours(profiles[i]), profiles[i].zone)
          <=> \A u \in t .. t + ask.duration - 1 : AtWork(i, u)
    BY <2>1, AtWorkThroughout
  <2>3. i \in NotHeld(slot) <=> NotPromised(i, t)
    BY <2>1, HeldByInstant
  <2> HIDE DEF slot
  <2>4. QED
    BY <1>2, <1>5, <1>6, <1>7, <2>1, <2>2, <2>3, Zenon
<1>8. ASSUME NEW i
      PROVE  i \in StillFeasible(slot)
               <=> i \in Panelists(t, ask.before, ask.after) /\ NotPromised(i, t)
  BY <1>5, <1>6, <1>7, Zenon
<1> HIDE DEF slot
<1>9. QED
  BY <1>8 DEF slot

\* Whoever could really take the slot is found by the live recompute: the
\* calendar it reads is part of the whole.
LEMMA LiveCovers ==
    ASSUME TypeOK, Policy = DefaultPolicy, NEW t \in Int, Sufficient(ask, ActivePool)
    PROVE  {i \in Panelists(t, ask.before, ask.after) : NotPromised(i, t)}
             \subseteq StillFeasible(SlotAt(t))
<1> DEFINE slot == SlotAt(t)
           padded == [start |-> t - ask.before, end |-> t + ask.duration + ask.after]
<1>1. SUFFICES ASSUME NEW i \in Panelists(t, ask.before, ask.after), NotPromised(i, t)
               PROVE  i \in StillFeasible(slot)
  BY DEF slot
<1>2. /\ i \in Interviewers /\ Qualified(i) /\ connection[i]
      /\ \A u \in t .. t + ask.duration - 1 : AtWork(i, u)
      /\ Untouched(calendars[i], t - ask.before .. (t + ask.duration + ask.after) - 1)
  BY <1>1 DEF Panelists, CouldSit
<1>3. i \in DOMAIN profiles /\ i \in VerifiedPool(ActivePool) /\ i \in ActivePool
  BY <1>2, PoolIsQualified DEF VerifiedPool, ActivePool, Qualified
<1>4. IsWithinWorkingHours(slot, Hours(profiles[i]), profiles[i].zone)
  BY <1>2, <1>3, AtWorkThroughout
<1>5. \A m \in calendars[i] : ~Overlaps(m, padded)
  <2>1. calendars[i] \in SUBSET Meetings
    BY <1>2 DEF TypeOK
  <2>2. QED
    BY <1>2, <2>1, PaddedSlot, FreeByInstant
<1>6. ~HasBusyConflict(BusyForPool(ActivePool, Around(slot))[i], slot, ask.before, ask.after)
  <2>1. BusyForPool(ActivePool, Around(slot))[i] \subseteq calendars[i]
    BY <1>3 DEF BusyForPool, FreeBusy
  <2>2. QED
    BY <1>5, <2>1, PaddedSlot DEF HasBusyConflict
<1>7. i \in NotHeld(slot)
  BY <1>1, <1>2, HeldByInstant
<1> HIDE DEF slot
<1>8. QED
  BY <1>3, <1>4, <1>6, <1>7 DEF StillFeasible, FeasibleAt

-----------------------------------------------------------------------------
(* What the search finds                                                   *)

LEMMA StartTyped ==
    ASSUME TypeOK, NEW ws \in WindowSets, NEW t \in StartsIn(ws)
    PROVE  /\ t \in Int
           /\ now <= t
           /\ \E w \in ws : w.start <= t /\ t + ask.duration <= w.end
<1>1. PICK w \in ws : t \in SlotStarts(Remaining(w), ask.duration, Granularity)
  BY DEF StartsIn
<1>2. w \in Interval /\ now \in Nat
  BY SlotsAssumption, AskTyped
<1>3. /\ Remaining(w) \in Interval
      /\ Remaining(w).start >= now /\ Remaining(w).start >= w.start
      /\ Remaining(w).end = w.end
  BY <1>2, SMT DEF Remaining, Interval
<1>4. t \in Int /\ Remaining(w).start <= t /\ t + ask.duration <= w.end
  BY <1>1, <1>3, AskTyped, SlotsAssumption, StartsFit
<1>5. QED
  BY <1>2, <1>3, <1>4, AskTyped, SMT DEF Interval

LEMMA FoundTyped ==
    ASSUME TypeOK, NEW ws, NEW t
    PROVE  FoundAt(t, ws) \subseteq Interviewers
BY DEF FoundAt, FeasibleAt, VerifiedPool, ThePool, Pool, TypeOK

\* What a search writes down, slot by slot.
LEMMA SlotsFound ==
    ASSUME TypeOK, NEW ws \in WindowSets, NEW s \in FeasibleSlots(ws)
    PROVE  /\ s \in Slot
           /\ now <= s.start
           /\ s.end = s.start + ask.duration
           /\ \E w \in ws : w.start <= s.start /\ s.end <= w.end
           /\ Cardinality(s.ids) >= ask.panelists
           /\ s.ids = FoundAt(s.start, ws)
<1>1. PICK t \in StartsIn(ws) :
         /\ Cardinality(FoundAt(t, ws)) >= ask.panelists
         /\ s = [start |-> t, end |-> t + ask.duration, ids |-> FoundAt(t, ws)]
  BY DEF FeasibleSlots
<1>2. t \in Int /\ now <= t /\ \E w \in ws : w.start <= t /\ t + ask.duration <= w.end
  BY StartTyped
<1>3. t + ask.duration \in Int /\ FoundAt(t, ws) \subseteq Interviewers
  BY <1>2, AskTyped, FoundTyped, SMT
<1>4. s \in Slot
  BY <1>1, <1>2, <1>3 DEF Slot
<1>5. QED
  BY <1>1, <1>2, <1>4

\* A finite set of times has an earliest one.
LEMMA HasEarliest ==
    ASSUME NEW S \in SUBSET Int, IsFiniteSet(S), S # {}
    PROVE  \E x \in S : \A y \in S : x <= y
<1> DEFINE Lacks(T) == T # {} /\ ~\E x \in T : \A y \in T : x <= y
           K == {n \in Nat : \E T \in SUBSET S : Lacks(T) /\ Cardinality(T) = n}
<1>1. SUFFICES ASSUME Lacks(S) PROVE FALSE
  OBVIOUS
<1>2. Cardinality(S) \in K
  BY <1>1, FS_CardinalityType
<1>3. K \in SUBSET Nat /\ K # {}
  BY <1>2
<1> HIDE DEF K
<1>4. PICK n \in K : \A m \in K : ~(m < n)
  <2>1. \E x \in K : \A y \in K : ~(<<y, x>> \in OpToRel(<, Nat))
    BY <1>3, NatLessThanWellFounded, WFMin, Zenon
  <2>2. \A y, x \in Nat : y < x => <<y, x>> \in {ss \in Nat \X Nat : ss[1] < ss[2]}
    BY SMT
  <2>3. \A y, x \in Nat : y < x => <<y, x>> \in OpToRel(<, Nat)
    BY <2>2 DEF OpToRel
  <2>4. QED
    BY <1>3, <2>1, <2>3, Zenon
<1>5. PICK T \in SUBSET S : Lacks(T) /\ Cardinality(T) = n
  BY <1>4 DEF K
<1>6. PICK z \in T : TRUE
  BY <1>5
<1> DEFINE R == T \ {z}
<1>7. IsFiniteSet(T) /\ IsFiniteSet(R) /\ Cardinality(R) = n - 1 /\ Cardinality(R) \in Nat
  BY <1>5, <1>6, FS_Subset, FS_RemoveElement, FS_CardinalityType
<1>8. Cardinality(R) \notin K
  BY <1>3, <1>4, <1>7, SMT
<1>9. ~Lacks(R)
  BY <1>7, <1>8 DEF K
<1>10. CASE R = {}
  BY <1>5, <1>6, <1>10, SMT
<1>11. CASE R # {}
  <2>1. PICK x \in R : \A y \in R : x <= y
    BY <1>9, <1>11
  <2>2. CASE x <= z
    <3>1. \A y \in T : x <= y
      BY <2>1, <2>2
    <3>2. QED
      BY <1>5, <2>1, <3>1
  <2>3. CASE z <= x
    <3>1. \A y \in T : z <= y
      BY <1>5, <1>6, <2>1, <2>3, SMT
    <3>2. QED
      BY <1>5, <1>6, <3>1
  <2>4. QED
    BY <1>5, <1>6, <2>1, <2>2, <2>3, SMT
<1>12. QED
  BY <1>10, <1>11

\* ... and a latest one.
LEMMA HasLatest ==
    ASSUME NEW S \in SUBSET Int, IsFiniteSet(S), S # {}
    PROVE  \E x \in S : \A y \in S : x >= y
<1> DEFINE N == {0 - y : y \in S}
<1>1. N \in SUBSET Int /\ N # {} /\ IsFiniteSet(N)
  <2>1. IsFiniteSet(N)
    <3> DEFINE f == [y \in S |-> 0 - y]
    <3>1. f \in Surjection(S, N)
      BY DEF Surjection
    <3>2. QED
      BY <3>1, FS_Surjection, Zenon
  <2>2. \A y \in S : 0 - y \in Int
    BY SMT
  <2>3. QED
    BY <2>1, <2>2
<1>2. PICK m \in N : \A k \in N : m <= k
  <2> HIDE DEF N
  <2>1. QED
    BY <1>1, HasEarliest
<1>3. PICK x \in S : m = 0 - x
  BY <1>2
<1>4. \A y \in S : 0 - x <= 0 - y
  BY <1>2, <1>3
<1>5. \A y \in S : x >= y
  BY <1>4, SMT
<1>6. QED
  BY <1>5

\* The windows' hull holds every slot of the search, so the calendar is known
\* for the whole of it.
LEMMA SpanHolds ==
    ASSUME NEW ws \in WindowSets, NEW w \in ws
    PROVE  /\ Span(ws).start \in Int /\ Span(ws).end \in Int
           /\ Span(ws).start <= w.start /\ w.end <= Span(ws).end
<1> DEFINE S == {v.start : v \in ws}
           E == {v.end : v \in ws}
<1>1. \A v \in ws : v.start \in Int /\ v.end \in Int
  BY SlotsAssumption DEF Interval
<1> IsFiniteSet(ws)
  BY SlotsAssumption
<1>2. S \in SUBSET Int /\ E \in SUBSET Int /\ w.start \in S /\ w.end \in E
  BY <1>1
<1>3. IsFiniteSet(S) /\ IsFiniteSet(E)
  <2>1. [v \in ws |-> v.start] \in Surjection(ws, S)
    BY DEF Surjection
  <2>2. [v \in ws |-> v.end] \in Surjection(ws, E)
    BY DEF Surjection
  <2>3. QED
    BY <2>1, <2>2, FS_Surjection, Zenon
<1>4. /\ Span(ws).start \in S /\ \A x \in S : Span(ws).start <= x
      /\ Span(ws).end \in E /\ \A x \in E : Span(ws).end >= x
  <2>1. \E x \in S : \A y \in S : x <= y
    <3> HIDE DEF S
    <3>1. QED
      BY <1>2, <1>3, HasEarliest
  <2>2. \E x \in E : \A y \in E : x >= y
    <3> HIDE DEF E
    <3>1. QED
      BY <1>2, <1>3, HasLatest
  <2>3. Span(ws).start = Min(S) /\ Span(ws).end = Max(E)
    BY DEF Span
  <2> HIDE DEF S, E
  <2>4. QED
    BY <2>1, <2>2, <2>3 DEF Min, Max
<1>5. QED
  BY <1>2, <1>4

\* Whoever a search names for a slot could do that interview.
LEMMA FoundIsSound ==
    ASSUME TypeOK, Policy = DefaultPolicy, NEW ws \in WindowSets, NEW t \in StartsIn(ws)
    PROVE  FoundAt(t, ws) \subseteq Panelists(t, 0, 0)
<1>1. SUFFICES ASSUME NEW i \in FoundAt(t, ws) PROVE i \in Panelists(t, 0, 0)
  OBVIOUS
<1> DEFINE slot == SlotAt(t)
<1>2. /\ i \in ThePool /\ connection[i]
      /\ IsWithinWorkingHours(slot, Hours(profiles[i]), profiles[i].zone)
      /\ ~HasBusyConflict(BusyForPool(ThePool, Span(ws))[i], slot, ask.before, ask.after)
  BY <1>1 DEF FoundAt, FeasibleAt, VerifiedPool
<1>3. Qualified(i) /\ i \in DOMAIN profiles /\ i \in Interviewers
  BY <1>2, PoolIsQualified DEF ThePool, Pool, TypeOK
<1>4. PICK w \in ws : t \in Int /\ w.start <= t /\ t + ask.duration <= w.end
  BY StartTyped
<1>5. w.start \in Int /\ w.end \in Int
  BY <1>4, SlotsAssumption DEF Interval
<1>6. \A u \in t .. t + ask.duration - 1 : AtWork(i, u)
  BY <1>2, <1>3, <1>4, AtWorkThroughout
<1>7. \A m \in calendars[i] :
        Overlaps(m, Span(ws)) => ~Overlaps(m, Buffered(slot, ask.before, ask.after))
  <2>1. BusyForPool(ThePool, Span(ws))[i] = {m \in calendars[i] : Overlaps(m, Span(ws))}
    BY <1>2 DEF BusyForPool, FreeBusy
  <2>2. QED
    BY <1>2, <2>1 DEF HasBusyConflict
<1>8. Span(ws).start \in Int /\ Span(ws).end \in Int
      /\ Span(ws).start <= t /\ t + ask.duration <= Span(ws).end
  <2>1. /\ Span(ws).start \in Int /\ Span(ws).end \in Int
        /\ Span(ws).start <= w.start /\ w.end <= Span(ws).end
    BY <1>4, SpanHolds
  <2>2. QED
    BY <1>4, <1>5, <2>1, AskTyped, SMT
<1>9. Untouched(calendars[i], t - 0 .. (t + ask.duration + 0) - 1)
  <2>1. SUFFICES ASSUME NEW m \in calendars[i], NEW u \in Instants(m),
                        u \in t - 0 .. (t + ask.duration + 0) - 1
                 PROVE  FALSE
    BY DEF Untouched
  <2>2. m.start \in Int /\ m.end \in Int
    BY <1>3, SlotsAssumption DEF TypeOK, Interval
  <2>3. m.start <= u /\ u < m.end /\ u \in Int /\ t <= u /\ u < t + ask.duration
    BY <1>4, <2>1, <2>2, AskTyped, SMT DEF Instants
  <2>4. Overlaps(m, Span(ws))
    BY <1>4, <1>8, <2>2, <2>3, AskTyped, SMT DEF Overlaps
  <2>5. Overlaps(m, [start |-> t - ask.before, end |-> t + ask.duration + ask.after])
    <3>1. m.start < t + ask.duration + ask.after /\ t - ask.before < m.end
      BY <1>4, <2>2, <2>3, AskTyped, SMT
    <3>2. QED
      BY <3>1 DEF Overlaps
  <2>6. QED
    BY <1>4, <1>7, <2>4, <2>5, PaddedSlot
<1>10. QED
  BY <1>2, <1>3, <1>6, <1>9 DEF Panelists, CouldSit

\* Whoever could do it, buffers included, is named.
LEMMA FoundIsComplete ==
    ASSUME TypeOK, Policy = DefaultPolicy, NEW ws, NEW t \in Int
    PROVE  Panelists(t, ask.before, ask.after) \subseteq FoundAt(t, ws)
<1>1. SUFFICES ASSUME NEW i \in Panelists(t, ask.before, ask.after)
               PROVE  i \in FoundAt(t, ws)
  OBVIOUS
<1> DEFINE slot == SlotAt(t)
           padded == [start |-> t - ask.before, end |-> t + ask.duration + ask.after]
<1>2. /\ i \in Interviewers /\ Qualified(i) /\ connection[i]
      /\ \A u \in t .. t + ask.duration - 1 : AtWork(i, u)
      /\ Untouched(calendars[i], t - ask.before .. (t + ask.duration + ask.after) - 1)
  BY <1>1 DEF Panelists, CouldSit
<1>3. i \in DOMAIN profiles /\ i \in VerifiedPool(ThePool) /\ i \in ThePool
  BY <1>2, PoolIsQualified DEF VerifiedPool, Qualified
<1>4. IsWithinWorkingHours(slot, Hours(profiles[i]), profiles[i].zone)
  BY <1>2, <1>3, AtWorkThroughout
<1>5. \A m \in calendars[i] : ~Overlaps(m, padded)
  <2>1. calendars[i] \in SUBSET Meetings
    BY <1>2 DEF TypeOK
  <2>2. QED
    BY <1>2, <2>1, PaddedSlot, FreeByInstant
<1>6. ~HasBusyConflict(BusyForPool(ThePool, Span(ws))[i], slot, ask.before, ask.after)
  <2>1. BusyForPool(ThePool, Span(ws))[i] \subseteq calendars[i]
    BY <1>3 DEF BusyForPool, FreeBusy
  <2>2. QED
    BY <1>5, <2>1, PaddedSlot DEF HasBusyConflict
<1> HIDE DEF slot
<1>7. QED
  BY <1>3, <1>4, <1>6 DEF FoundAt, FeasibleAt, slot

\* iter_slot_starts visits every point of the grid that leaves room enough.
LEMMA GridVisited ==
    ASSUME NEW first \in Int, NEW end \in Int, NEW duration \in Nat,
           NEW g \in Nat \ {0}, NEW t \in Int,
           first <= t, t <= end - duration, (t - first) % g = 0
    PROVE  t \in SlotStarts([start |-> first, end |-> end], duration, g)
<1> DEFINE x == t - first
           room == end - duration - first
           k == x \div g
           r == room \div g
<1>1. x \in Int /\ room \in Int /\ 0 <= x /\ x <= room /\ x % g = 0 /\ t = first + x
  BY SMT
<1> HIDE DEF x, room
<1>2. k \in Int /\ r \in Int /\ x = k * g + (x % g)
      /\ room = r * g + (room % g) /\ room % g \in Int /\ room % g < g
  BY <1>1, SMT
<1> HIDE DEF k, r
<1>3. k * g \in Int /\ r * g \in Int
  BY <1>2, SMT
<1>4. x = k * g
  BY <1>1, <1>2, <1>3, SMT
<1>5. k <= r
  <2>1. SUFFICES ASSUME r < k PROVE FALSE
    BY <1>2, SMT
  <2>2. r * g + g <= k * g
    BY <1>2, <2>1, Multiples, Zenon
  <2>3. QED
    BY <1>1, <1>2, <1>3, <1>4, <2>2, SMT
<1>6. 0 <= k
  <2>1. SUFFICES ASSUME k < 0 PROVE FALSE
    BY <1>2, SMT
  <2>2. k * g + g <= 0 * g
    <3>1. 0 \in Int
      BY SMT
    <3>2. QED
      BY <1>2, <2>1, <3>1, Multiples, Zenon
  <2>3. QED
    BY <1>1, <1>3, <1>4, <2>2, SMT
<1>7. k \in 0 .. r /\ t = first + k * g
  BY <1>1, <1>2, <1>4, <1>5, <1>6, SMT
<1>8. QED
  BY <1>7, Zenon DEF SlotStarts, room, r

-----------------------------------------------------------------------------
(* Steps                                                                   *)

LEMMA SearchTyped ==
    ASSUME TypeOK, NEW ws \in WindowSets
    PROVE  /\ ws \subseteq Interval
           /\ FeasibleSlots(ws) \subseteq Slot
BY SlotsFound, SlotsAssumption

\* The slot picked, and the people asked, if any.
LEMMA Picked ==
    ASSUME TypeOK, NEW s \in feasible, SelectSlot(s)
    PROVE  /\ s.start \in Int /\ s.end \in Int
           /\ picked'.start = s.start /\ picked'.end = s.end
           /\ \/ /\ status' = "assigning_panel"
                 /\ Cardinality(StillFeasible(SlotAt(s.start))) >= ask.panelists
                 /\ picked'.order \in Rankings(StillFeasible(SlotAt(s.start)))
              \/ /\ status' = "manual_scheduling_required"
                 /\ ~(Cardinality(StillFeasible(SlotAt(s.start))) >= ask.panelists)
                 /\ picked'.order = <<>>
<1>1. s.start \in Int /\ s.end \in Int
  BY DEF TypeOK, Slot
<1>2. CASE Cardinality(StillFeasible(SlotAt(s.start))) >= ask.panelists
  <2>1. PICK order \in Rankings(StillFeasible(SlotAt(s.start))) :
           picked' = [start |-> s.start, end |-> s.end, order |-> order]
    BY <1>2 DEF SelectSlot
  <2>2. status' = "assigning_panel"
    BY <1>2 DEF SelectSlot
  <2>3. QED
    BY <1>1, <1>2, <2>1, <2>2
<1>3. CASE ~(Cardinality(StillFeasible(SlotAt(s.start))) >= ask.panelists)
  <2>1. /\ status' = "manual_scheduling_required"
        /\ picked' = [start |-> s.start, end |-> s.end, order |-> <<>>]
    BY <1>3 DEF SelectSlot
  <2>2. QED
    BY <1>1, <1>3, <2>1
<1>4. QED
  BY <1>2, <1>3

LEMMA StillFeasibleFinite ==
    ASSUME TypeOK, NEW slot
    PROVE  /\ StillFeasible(slot) \subseteq Interviewers
           /\ IsFiniteSet(StillFeasible(slot))
           /\ Cardinality(StillFeasible(slot)) \in Nat
<1>1. StillFeasible(slot) \subseteq Interviewers
  BY DEF StillFeasible, NotHeld
<1>2. QED
  BY <1>1, SlotsAssumption, FS_Subset, FS_CardinalityType

\* A ranking is a sequence of interviewers.
LEMMA RankingTyped ==
    ASSUME NEW ids \in SUBSET Interviewers, Cardinality(ids) \in Nat,
           NEW order \in Rankings(ids)
    PROVE  /\ order \in Seq(Interviewers)
           /\ DOMAIN order = 1 .. Cardinality(ids)
           /\ \A k \in DOMAIN order : order[k] \in ids
           /\ \A j, k \in DOMAIN order : j < k => Before(order[j], order[k])
<1>1. order \in [1 .. Cardinality(ids) -> ids]
  BY DEF Rankings
<1>2. order \in [1 .. Cardinality(ids) -> Interviewers]
  BY <1>1
<1>3. order \in Seq(Interviewers)
  BY <1>2, SMT
<1>4. QED
  BY <1>1, <1>3 DEF Rankings

LEMMA TypeInit == Init => TypeOK
<1>1. SUFFICES ASSUME Init PROVE TypeOK
  OBVIOUS
<1>2. 0 \in 0 .. Horizon /\ 0 \in 0 .. MaxChanges
  BY SlotsAssumption, SMT
<1>3. NoPick \in [start : Int, end : Int, order : Seq(Interviewers)]
  BY SMT DEF NoPick
<1>4. DOMAIN profiles \subseteq Interviewers /\ \A i \in DOMAIN profiles : profiles[i] \in Profile
  BY <1>1, SlotsAssumption DEF Init
<1>5. QED
  BY <1>1, <1>2, <1>3, <1>4, SlotsAssumption DEF Init, TypeOK, Statuses

LEMMA TypeStep == TypeOK /\ [Next]_vars => TypeOK'
<1> SUFFICES ASSUME TypeOK, [Next]_vars PROVE TypeOK'
  OBVIOUS
<1>1. ASSUME NEW ws \in WindowSets, SubmitAvailability(ws) PROVE TypeOK'
  BY <1>1, SearchTyped DEF TypeOK, SubmitAvailability, Searched, directory, Statuses
<1>2. ASSUME NEW ws \in WindowSets, CandidateReschedule(ws) PROVE TypeOK'
  <2>1. NoPick \in [start : Int, end : Int, order : Seq(Interviewers)]
    BY SMT DEF NoPick
  <2>2. /\ status' \in Statuses /\ feasible' \subseteq Slot
        /\ windows' \subseteq Interval /\ picked' = NoPick
    BY <1>2, SearchTyped DEF TypeOK, CandidateReschedule, Searched, Statuses
  <2>3. QED
    BY <1>2, <2>1, <2>2 DEF TypeOK, CandidateReschedule, directory
<1>3. ASSUME NEW s \in feasible, SelectSlot(s) PROVE TypeOK'
  <2>1. picked' \in [start : Int, end : Int, order : Seq(Interviewers)]
    <3>1. picked'.order \in Seq(Interviewers)
      <4>1. <<>> \in Seq(Interviewers)
        BY SMT
      <4>2. QED
        BY <1>3, <4>1, Picked, RankingTyped, StillFeasibleFinite
    <3>2. \E o : picked' = [start |-> s.start, end |-> s.end, order |-> o]
      BY <1>3 DEF SelectSlot
    <3>3. QED
      BY <1>3, <3>1, <3>2, Picked
  <2>2. status' \in Statuses
    BY <1>3 DEF SelectSlot, Statuses
  <2>3. QED
    BY <1>3, <2>1, <2>2 DEF TypeOK, SelectSlot, directory
<1>4. changes + 1 \in 0 .. MaxChanges \/ ~Changing
  BY SlotsAssumption, SMT DEF TypeOK, Changing
<1>5. ASSUME NEW i \in Interviewers, NEW p \in Profiles, UpsertProfile(i, p) PROVE TypeOK'
  BY <1>4, <1>5, SlotsAssumption DEF TypeOK, UpsertProfile, Changing, request
<1>6. ASSUME NEW i \in Interviewers, ConnectionChanges(i) PROVE TypeOK'
  BY <1>4, <1>6 DEF TypeOK, ConnectionChanges, Changing, request
<1>7. ASSUME NEW i \in Interviewers, LoadChanges(i) PROVE TypeOK'
  <2>1. now \in Nat
    BY AskTyped
  <2>2. stamps' \in [Interviewers -> SUBSET Nat]
    BY <1>7, <2>1 DEF TypeOK, LoadChanges, Toggle
  <2>3. QED
    BY <1>4, <1>7, <2>2 DEF TypeOK, LoadChanges, Changing, request
<1>8. ASSUME NEW i \in Interviewers, NEW m \in Meetings, CalendarChanges(i, m) PROVE TypeOK'
  BY <1>4, <1>8 DEF TypeOK, CalendarChanges, Changing, Toggle, request
<1>9. ASSUME NEW i \in Interviewers, NEW m \in Meetings, HeldElsewhere(i, m) PROVE TypeOK'
  BY <1>4, <1>9 DEF TypeOK, HeldElsewhere, Changing, Toggle, request
<1>10. ASSUME Tick PROVE TypeOK'
  <2>1. now + 1 \in 0 .. Horizon
    BY <1>10, SlotsAssumption, SMT DEF TypeOK, Tick
  <2>2. QED
    BY <1>10, <2>1 DEF TypeOK, Tick, request, directory
<1>11. CASE UNCHANGED vars
  BY <1>11 DEF TypeOK, vars
<1>12. QED
  BY <1>1, <1>2, <1>3, <1>5, <1>6, <1>7, <1>8, <1>9, <1>10, <1>11
     DEF Next, SearchStep, SelectStep, Environment

\* The request, its stored answer and the directory are always well formed.
THEOREM TypeCorrect == Spec => []TypeOK
<1>1. QED
  BY TypeInit, TypeStep, PTL DEF Spec

-----------------------------------------------------------------------------
(* The promises                                                            *)

LEMMA StoredSlotsFitStep == TypeOK /\ StoredSlotsFit /\ [Next]_vars => StoredSlotsFit'
<1> SUFFICES ASSUME TypeOK, StoredSlotsFit, [Next]_vars PROVE StoredSlotsFit'
  OBVIOUS
<1>1. ASSUME NEW ws \in WindowSets, Searched(ws), ask' = ask PROVE StoredSlotsFit'
  BY <1>1, SlotsFound DEF Searched, StoredSlotsFit
<1>2. ASSUME NEW ws \in WindowSets, SubmitAvailability(ws) PROVE StoredSlotsFit'
  BY <1>1, <1>2 DEF SubmitAvailability
<1>3. ASSUME NEW ws \in WindowSets, CandidateReschedule(ws) PROVE StoredSlotsFit'
  <2>1. CASE feasible' = {}
    BY <2>1 DEF StoredSlotsFit
  <2>2. CASE Searched(ws)
    BY <1>1, <1>3, <2>2 DEF CandidateReschedule
  <2>3. QED
    BY <1>3, <2>1, <2>2 DEF CandidateReschedule
<1>4. ASSUME UNCHANGED <<ask, windows, feasible>> PROVE StoredSlotsFit'
  BY <1>4 DEF StoredSlotsFit
<1>5. ASSUME SelectStep \/ Environment \/ UNCHANGED vars PROVE StoredSlotsFit'
  BY <1>4, <1>5 DEF SelectStep, SelectSlot, Environment, UpsertProfile, ConnectionChanges,
     LoadChanges, CalendarChanges, HeldElsewhere, Tick, request, vars
<1>6. QED
  BY <1>2, <1>3, <1>5 DEF Next, SearchStep

\* The answer kept for the candidate belongs to the windows kept with it and
\* names enough people for every slot, through every resubmission, reschedule
\* and rollback.
THEOREM StoredSlotsAlwaysFit == Spec => []StoredSlotsFit
<1>1. Init => StoredSlotsFit
  BY DEF Init, StoredSlotsFit
<1>2. QED
  BY <1>1, TypeCorrect, StoredSlotsFitStep, PTL DEF Spec

\* A search names only people who could do the interview, at times to come.
THEOREM SearchSound == ASSUME Policy = DefaultPolicy PROVE Spec => SearchIsSound
<1> DEFINE Sound == SearchStep =>
               \A s \in feasible' :
                  /\ now <= s.start
                  /\ s.ids \subseteq Panelists(s.start, 0, 0)
<1>1. ASSUME TypeOK, SearchStep PROVE Sound
  <2>1. PICK ws \in WindowSets : SubmitAvailability(ws) \/ CandidateReschedule(ws)
    BY <1>1 DEF SearchStep
  <2>2. feasible' \subseteq FeasibleSlots(ws)
    BY <2>1 DEF SubmitAvailability, CandidateReschedule, Searched
  <2>3. ASSUME NEW s \in FeasibleSlots(ws)
        PROVE  now <= s.start /\ s.ids \subseteq Panelists(s.start, 0, 0)
    <3>1. s.start \in StartsIn(ws)
      BY DEF FeasibleSlots
    <3>2. QED
      BY <1>1, <3>1, SlotsFound, FoundIsSound
  <2>4. QED
    BY <2>2, <2>3
<1>2. TypeOK /\ [Next]_vars => [Sound]_vars
  BY <1>1
<1>3. QED
  BY <1>2, TypeCorrect, PTL DEF Spec, SearchIsSound

\* Every start on the grid at which enough people could sit is offered, so a
\* request is handed to a human only when there is none.
THEOREM SearchComplete == ASSUME Policy = DefaultPolicy PROVE Spec => NoSlotOverlooked
<1> DEFINE Wanted(w, t) ==
               LET first == IF now > w.start THEN now ELSE w.start
                   could == Panelists(t, ask.before, ask.after)
               IN  t >= first /\ (t - first) % Granularity = 0
                     /\ Cardinality(could) >= ask.panelists
                   => \E s \in feasible' : s.start = t /\ could \subseteq s.ids
           Complete == SearchStep /\ status' # "collecting_availability" =>
               \A w \in windows' : \A t \in w.start .. w.end - ask.duration : Wanted(w, t)
<1>1. ASSUME TypeOK, SearchStep, status' # "collecting_availability" PROVE Complete
  <2>1. PICK ws \in WindowSets : SubmitAvailability(ws) \/ CandidateReschedule(ws)
    BY <1>1 DEF SearchStep
  <2>2. windows' = ws /\ feasible' = FeasibleSlots(ws)
    BY <1>1, <2>1 DEF SubmitAvailability, CandidateReschedule, Searched
  <2>3. ASSUME NEW w \in ws, NEW t \in w.start .. w.end - ask.duration,
               NEW first, first = IF now > w.start THEN now ELSE w.start,
               t >= first, (t - first) % Granularity = 0,
               Cardinality(Panelists(t, ask.before, ask.after)) >= ask.panelists
        PROVE  \E s \in FeasibleSlots(ws) :
                  s.start = t /\ Panelists(t, ask.before, ask.after) \subseteq s.ids
    <3>1. /\ w.start \in Int /\ w.end \in Int
          /\ ask.duration \in Nat \ {0} /\ ask.panelists \in Nat
          /\ now \in Nat /\ Granularity \in Nat \ {0}
      BY <1>1, SlotsAssumption, AskTyped DEF Interval
    <3>2. /\ t \in Int /\ first \in Int /\ first <= t /\ t <= w.end - ask.duration
          /\ first = IF w.start >= now THEN w.start ELSE now
      BY <2>3, <3>1, SMT
    <3>3. t \in StartsIn(ws)
      <4>1. t \in SlotStarts([start |-> first, end |-> w.end], ask.duration, Granularity)
        BY <2>3, <3>1, <3>2, GridVisited
      <4>2. Remaining(w) = [start |-> first, end |-> w.end]
        BY <3>2 DEF Remaining
      <4>3. QED
        BY <4>1, <4>2 DEF StartsIn
    <3> DEFINE could == Panelists(t, ask.before, ask.after)
               found == FoundAt(t, ws)
    <3>4. could \subseteq found /\ found \subseteq ThePool /\ ThePool \subseteq Interviewers
      BY <1>1, <3>2, FoundIsComplete
         DEF FoundAt, FeasibleAt, VerifiedPool, ThePool, Pool, TypeOK
    <3>5. /\ Cardinality(could) \in Nat /\ Cardinality(found) \in Nat
          /\ Cardinality(ThePool) \in Nat
          /\ Cardinality(could) <= Cardinality(found)
          /\ Cardinality(found) <= Cardinality(ThePool)
      <4>1. IsFiniteSet(ThePool) /\ IsFiniteSet(found) /\ IsFiniteSet(could)
        BY <3>4, SlotsAssumption, FS_Subset
      <4>2. QED
        BY <3>4, <4>1, FS_Subset, FS_CardinalityType
    <3> HIDE DEF could, found
    <3>6. Cardinality(found) >= ask.panelists /\ Cardinality(ThePool) >= ask.panelists
      BY <2>3, <3>1, <3>5, SMT DEF could
    <3>7. [start |-> t, end |-> t + ask.duration, ids |-> found] \in FeasibleSlots(ws)
      BY <3>3, <3>6 DEF FeasibleSlots, Sufficient, found
    <3>8. QED
      BY <3>4, <3>7 DEF could
  <2>4. QED
    BY <2>2, <2>3
<1>2. TypeOK /\ [Next]_vars => [Complete]_vars
  BY <1>1
<1>3. QED
  BY <1>2, TypeCorrect, PTL DEF Spec, NoSlotOverlooked

\* Whoever is asked to sit is qualified, reachable, at work, free from the
\* buffer before to the buffer after, and not promised to another request: the
\* query around the slot loses nothing as long as it is wider than the buffers.
THEOREM PanelAvailable == ASSUME Policy = DefaultPolicy PROVE Spec => PanelIsAvailable
<1> DEFINE Available ==
               SelectStep /\ ask.before <= Margin /\ ask.after <= Margin =>
                 \A k \in DOMAIN picked'.order :
                    /\ CouldSit(picked'.order[k], picked'.start, ask.before, ask.after)
                    /\ NotPromised(picked'.order[k], picked'.start)
<1>1. ASSUME TypeOK, SelectStep, ask.before <= Margin, ask.after <= Margin
      PROVE  \A k \in DOMAIN picked'.order :
                /\ CouldSit(picked'.order[k], picked'.start, ask.before, ask.after)
                /\ NotPromised(picked'.order[k], picked'.start)
  <2>1. PICK s \in feasible : SelectSlot(s)
    BY <1>1 DEF SelectStep
  <2> DEFINE still == StillFeasible(SlotAt(s.start))
  <2>2. s.start \in Int /\ picked'.start = s.start
    BY <1>1, <2>1, Picked
  <2>3. still \subseteq Interviewers /\ Cardinality(still) \in Nat
    BY <1>1, StillFeasibleFinite
  <2>4. CASE picked'.order = <<>>
    <3>1. DOMAIN <<>> = {}
      BY SMT
    <3>2. QED
      BY <2>4, <3>1
  <2>5. CASE /\ Cardinality(still) >= ask.panelists
             /\ picked'.order \in Rankings(still)
    <3>1. \A k \in DOMAIN picked'.order : picked'.order[k] \in still
      <4> HIDE DEF still
      <4>1. QED
        BY <2>3, <2>5, RankingTyped
    <3>2. Sufficient(ask, ActivePool)
      <4>1. SUFFICES ASSUME ~Sufficient(ask, ActivePool) PROVE FALSE
        OBVIOUS
      <4>2. still = {}
        BY <4>1 DEF StillFeasible
      <4>3. Cardinality(still) = 0
        BY <4>2, FS_EmptySet
      <4>4. QED
        BY <1>1, <2>5, <4>3, AskTyped, SMT
    <3>3. still = {i \in Panelists(s.start, ask.before, ask.after) : NotPromised(i, s.start)}
      BY <1>1, <2>2, <3>2, LiveIsExact
    <3>4. QED
      BY <2>2, <3>1, <3>3 DEF Panelists
  <2>6. QED
    BY <1>1, <2>1, <2>4, <2>5, Picked
<1>2. TypeOK /\ [Next]_vars => [Available]_vars
  BY <1>1
<1>3. QED
  BY <1>2, TypeCorrect, PTL DEF Spec, PanelIsAvailable

\* A chosen slot is given up only when fewer people than the round needs could
\* really take it.
THEOREM EscalationHonest == ASSUME Policy = DefaultPolicy PROVE Spec => EscalationIsHonest
<1> DEFINE Honest ==
               SelectStep /\ status' = "manual_scheduling_required" =>
                 Cardinality({i \in Panelists(picked'.start, ask.before, ask.after) :
                                 NotPromised(i, picked'.start)}) < ask.panelists
<1>1. ASSUME TypeOK, SelectStep, status' = "manual_scheduling_required" PROVE Honest
  <2>1. PICK s \in feasible : SelectSlot(s)
    BY <1>1 DEF SelectStep
  <2> DEFINE still == StillFeasible(SlotAt(s.start))
             exact == {i \in Panelists(s.start, ask.before, ask.after) : NotPromised(i, s.start)}
  <2>2. /\ s.start \in Int /\ picked'.start = s.start
        /\ ~(Cardinality(still) >= ask.panelists)
    BY <1>1, <2>1, Picked
  <2>3. exact \subseteq ActivePool /\ ActivePool \subseteq Interviewers
    BY <1>1, PoolIsQualified DEF Panelists, CouldSit, ActivePool, Qualified, ThePool, Pool, TypeOK
  <2>4. IsFiniteSet(exact) /\ IsFiniteSet(ActivePool) /\ IsFiniteSet(still)
    BY <1>1, <2>3, SlotsAssumption, StillFeasibleFinite, FS_Subset
  <2>5. /\ Cardinality(exact) \in Nat /\ Cardinality(ActivePool) \in Nat
        /\ Cardinality(still) \in Nat
        /\ Cardinality(exact) <= Cardinality(ActivePool)
        /\ exact \subseteq still => Cardinality(exact) <= Cardinality(still)
    BY <2>3, <2>4, FS_Subset, FS_CardinalityType
  <2>6. Sufficient(ask, ActivePool) => exact \subseteq still
    BY <1>1, <2>2, LiveCovers
  <2> HIDE DEF exact, still
  <2>7. Cardinality(exact) < ask.panelists
    BY <1>1, <2>2, <2>5, <2>6, AskTyped, SMT DEF Sufficient
  <2>8. QED
    BY <2>2, <2>7 DEF exact
<1>2. TypeOK /\ [Next]_vars => [Honest]_vars
  BY <1>1
<1>3. QED
  BY <1>2, TypeCorrect, PTL DEF Spec, EscalationIsHonest

-----------------------------------------------------------------------------
(* The order in which people are asked                                     *)

LEMMA LoadTyped ==
    ASSUME TypeOK, NEW i \in Interviewers
    PROVE  /\ LoadOf(i).count \in Nat
           /\ LoadOf(i).last \in Int
           /\ LoadOf(i).count
                = Cardinality({s \in stamps[i] : s <= now /\ now - s <= LoadWindow})
<1> DEFINE recent == {s \in stamps[i] : now - LoadWindow <= s /\ s <= now}
           past == {s \in stamps[i] : s <= now}
<1>1. stamps[i] \in SUBSET Nat /\ now \in Nat /\ LoadWindow \in Nat
  BY SlotsAssumption, AskTyped DEF TypeOK
<1>2. recent = {s \in stamps[i] : s <= now /\ now - s <= LoadWindow}
  BY <1>1, SMT
<1>3. IsFiniteSet(past) /\ recent \subseteq past /\ past \subseteq Int
  <2>1. IsFiniteSet(0 .. now)
    BY <1>1, FS_Interval, SMT
  <2>2. past \subseteq 0 .. now
    BY <1>1, SMT
  <2>3. QED
    BY <1>1, <2>1, <2>2, FS_Subset, SMT
<1>4. Cardinality(recent) \in Nat
  BY <1>3, FS_Subset, FS_CardinalityType
<1>5. past # {} => Max(past) \in Int
  <2> HIDE DEF past
  <2>1. past # {} => \E x \in past : \A y \in past : x >= y
    BY <1>3, HasLatest
  <2>2. QED
    BY <1>3, <2>1 DEF Max
<1>6. /\ LoadOf(i).count = Cardinality(recent)
      /\ LoadOf(i).last = IF past = {} THEN -1 ELSE Max(past)
  BY DEF LoadOf
<1> HIDE DEF recent, past
<1>7. LoadOf(i).last \in Int
  BY <1>5, <1>6, SMT
<1>8. QED
  BY <1>2, <1>4, <1>6, <1>7

\* Seats are offered first to those who took the fewest of late, and to nobody
\* twice.
THEOREM LightestAskedFirst == Spec => LightestFirst
<1> DEFINE taken(i) == Cardinality({s \in stamps[i] : s <= now /\ now - s <= LoadWindow})
           Fair(order) == \A j, k \in DOMAIN order :
                j < k => order[j] # order[k] /\ taken(order[j]) <= taken(order[k])
<1>1. ASSUME TypeOK, SelectStep PROVE Fair(picked'.order)
  <2>1. PICK s \in feasible : SelectSlot(s)
    BY <1>1 DEF SelectStep
  <2> DEFINE still == StillFeasible(SlotAt(s.start))
             order == picked'.order
  <2>2. still \subseteq Interviewers /\ Cardinality(still) \in Nat
    BY <1>1, StillFeasibleFinite
  <2>3. CASE order = <<>>
    <3>1. DOMAIN <<>> = {}
      BY SMT
    <3>2. QED
      BY <2>3, <3>1
  <2>4. CASE order \in Rankings(still)
    <3> HIDE DEF still, order
    <3>1. SUFFICES ASSUME NEW j \in DOMAIN order, NEW k \in DOMAIN order, j < k
                   PROVE  order[j] # order[k] /\ taken(order[j]) <= taken(order[k])
      BY DEF order
    <3>2. Before(order[j], order[k]) /\ order[j] \in Interviewers /\ order[k] \in Interviewers
      BY <2>2, <2>4, <3>1, RankingTyped
    <3>3. /\ LoadOf(order[j]).count \in Nat /\ LoadOf(order[k]).count \in Nat
          /\ LoadOf(order[j]).last \in Int /\ LoadOf(order[k]).last \in Int
          /\ LoadOf(order[j]).count = taken(order[j])
          /\ LoadOf(order[k]).count = taken(order[k])
          /\ order[j] \in Nat /\ order[k] \in Nat
      BY <1>1, <3>2, LoadTyped, SlotsAssumption
    <3> HIDE DEF taken
    <3>4. QED
      BY <3>2, <3>3, SMT DEF Before
  <2>5. QED
    BY <1>1, <2>1, <2>3, <2>4, Picked
<1>2. TypeOK /\ [Next]_vars => [SelectStep => Fair(picked'.order)]_vars
  BY <1>1
<1>3. QED
  BY <1>2, TypeCorrect, PTL DEF Spec, LightestFirst
=============================================================================
