---------------------------- MODULE FeasibleSlots ----------------------------
(***************************************************************************)
(* How a candidate's free windows become an interview slot and a ranked    *)
(* panel: backend/app/scheduling/feasibility.py and pipeline.py, driven by *)
(* submit_availability, candidate_reschedule and select_slot of service.py,*)
(* over the interviewer directory, the free/busy provider of Google        *)
(* Calendar and the load provider.                                         *)
(*                                                                         *)
(* One request is followed.  The search answers with the slots at which    *)
(* enough people could sit; its answer is stored, the world moves on, and  *)
(* the slot the candidate picks is checked again against live calendars.   *)
(* Everything else in the directory, the calendars and the other requests  *)
(* is the environment.  How handlers interleave is SchedulingService's     *)
(* matter; here each handler is one step.                                  *)
(***************************************************************************)
EXTENDS TimeIntervals, InterviewerPool, Sequences, FiniteSetsExt

CONSTANTS
    Interviewers,   \* ids, numbered: the ranking's last tie-break is the id
    Profiles,       \* what interviewers may send as their profile
    Directories,    \* the profiles there may be to begin with
    Asks,           \* requests with their rounds
    WindowSets,     \* what a candidate may submit
    Meetings,       \* intervals the environment may put on calendars
    Granularity,    \* slot_granularity_minutes
    Margin,         \* the hour by which the live query widens the slot
    LoadWindow,     \* rolling_window_days
    Policy,         \* PoolPolicy
    Horizon,        \* bound on time
    MaxChanges      \* bound on the environment's changes

VARIABLES
    ask,         \* interviews: the request's and the round's columns
    status,      \* interviews.status
    windows,     \* candidate_availability_windows
    feasible,    \* feasibility_json: the slots found, with who could sit
    picked,      \* the slot of the interview and the order in which people
                 \* are asked to sit, if a panel is being assigned
    profiles,    \* interviewer_profiles: one row per registered person
    connection,  \* whether a Google account still answers
    calendars,   \* what is on the interviewers' Google calendars
    held,        \* times for which the ledger holds people for other requests
    stamps,      \* created_at of their confirmed roster rows
    now,
    changes      \* number of changes the environment has made

vars == <<ask, status, windows, feasible, picked, profiles, connection,
          calendars, held, stamps, now, changes>>

directory == <<profiles, connection, calendars, held, stamps>>
request == <<ask, status, windows, feasible, picked>>

-----------------------------------------------------------------------------
(* Types                                                                   *)

Clock == [at : 0 .. DayLength - 1 \cup {Unreadable}, text : Nat]

Profile == [active    : BOOLEAN,
            types     : SUBSET {"SCREENING", "TECHNICAL", "MANAGERIAL", "HR"},
            skills    : SUBSET Spellings,
            seniority : SeniorityLevels,
            zone      : Int,
            from      : Clock,
            until     : Clock]

Ask == [type      : TechnicalRoundTypes \cup {"SCREENING", "MANAGERIAL", "HR"},
        skills    : SUBSET Spellings,
        seniority : SeniorityLevels,
        panelists : 1 .. 10,
        duration  : Nat \ {0},
        before    : Nat,
        after     : Nat]

Statuses == {"collecting_availability", "awaiting_candidate_selection",
             "assigning_panel", "manual_scheduling_required"}

Slot == [start : Int, end : Int, ids : SUBSET Interviewers]

NoPick == [start |-> 0, end |-> 0, order |-> <<>>]

\* InterviewerProfileBody compares the two working hours as the strings they
\* are sent as, so "9:00" comes after "18:00"; text is a string's place in
\* that order and at the time parse_hhmm reads from it.
HoursAccepted(profile) == profile.from.text < profile.until.text

ASSUME SlotsAssumption ==
    /\ Interviewers \subseteq Nat /\ IsFiniteSet(Interviewers)
    /\ Granularity \in Nat \ {0}
    /\ Margin \in Nat
    /\ LoadWindow \in Nat
    /\ Horizon \in Nat
    /\ MaxChanges \in Nat
    /\ Policy \in PoolPolicy
    /\ Meetings \subseteq Interval /\ \A m \in Meetings : m.start < m.end
    /\ Asks \subseteq Ask
    /\ Profiles \subseteq Profile
    /\ \A ws \in WindowSets : ws \subseteq Interval /\ IsFiniteSet(ws)
    /\ \A d \in Directories :
          /\ DOMAIN d \subseteq Interviewers
          /\ \A i \in DOMAIN d : d[i] \in Profile /\ HoursAccepted(d[i])

Hours(profile) == [start |-> profile.from.at, end |-> profile.until.at]

Readable(profile) == Unreadable \notin {profile.from.at, profile.until.at}

-----------------------------------------------------------------------------
(* Feasibility                                                             *)

\* get_free_busy: the provider answers with what lies on the calendar in the
\* range it was asked for; an account that does not answer says nothing.
FreeBusy(i, range) ==
    IF connection[i] THEN {m \in calendars[i] : Overlaps(m, range)} ELSE {}

\* A broken pool that takes a silent calendar for a free one.
UnverifiedPool(pool) == pool

\* The pool, less those whose calendar could not be read (reauth_required).
VerifiedPool(pool) == {i \in pool : connection[i]}

\* feasible_interviewers_at, given what is known of everybody's busy times.
FeasibleAt(slot, pool, busy) ==
    {i \in pool :
        /\ IsWithinWorkingHours(slot, Hours(profiles[i]), profiles[i].zone)
        /\ ~HasBusyConflict(busy[i], slot, ask.before, ask.after)}

\* The ledger's part of it, which only the live recompute asks for.
NotHeld(slot) ==
    {i \in Interviewers :
        \A h \in held[i] : ~Overlaps(h, Buffered(slot, ask.before, ask.after))}

ThePool == Pool(ask, profiles, Policy)

\* _busy_for_pool
BusyForPool(pool, range) == [i \in pool |-> FreeBusy(i, range)]

\* A window less the part of it that is past.
Remaining(window) ==
    [start |-> IF window.start >= now THEN window.start ELSE now, end |-> window.end]

\* compute_feasible_slots visits these; slots found twice share their id.
StartsIn(ws) ==
    UNION {SlotStarts(Remaining(w), ask.duration, Granularity) : w \in ws}

SlotAt(t) == [start |-> t, end |-> t + ask.duration]

\* run_feasibility asks for free/busy once, from the first window's start to
\* the last one's end.
Span(ws) == [start |-> Min({w.start : w \in ws}), end |-> Max({w.end : w \in ws})]

FoundAt(t, ws) ==
    FeasibleAt(SlotAt(t), VerifiedPool(ThePool), BusyForPool(ThePool, Span(ws)))

FeasibleSlots(ws) ==
    IF ~Sufficient(ask, ThePool) THEN {}
    ELSE {[start |-> t, end |-> t + ask.duration, ids |-> FoundAt(t, ws)] :
             t \in {u \in StartsIn(ws) : Cardinality(FoundAt(u, ws)) >= ask.panelists}}

\* A broken query that asks for the bare slot only.
AroundBare(slot) == slot

\* feasible_interviewers_at_fixed_time: the live recompute.
Around(slot) == [start |-> slot.start - Margin, end |-> slot.end + Margin]

\* select_slot lists active interviewers only, whatever the policy.
ActivePool == {i \in ThePool : profiles[i].active}

StillFeasible(slot) ==
    IF ~Sufficient(ask, ActivePool) THEN {}
    ELSE FeasibleAt(slot, VerifiedPool(ActivePool), BusyForPool(ActivePool, Around(slot)))
           \cap NotHeld(slot)

\* Reading somebody's working hours raises when they are not a time of day.
HoursReadable(pool) == \A i \in VerifiedPool(pool) : Readable(profiles[i])

-----------------------------------------------------------------------------
(* Ranking                                                                 *)

\* A broken snapshot that compares with the cutoff the wrong way round.
LoadBeforeWindow(i) ==
    [count |-> Cardinality({s \in stamps[i] : s < now - LoadWindow}),
     last  |-> IF stamps[i] = {} THEN -1 ELSE Max(stamps[i])]

\* get_load_snapshot: confirmations in the trailing window, and the latest
\* one at all; -1 stands for never.
LoadOf(i) ==
    LET recent == {s \in stamps[i] : now - LoadWindow <= s /\ s <= now}
        past   == {s \in stamps[i] : s <= now}
    IN  [count |-> Cardinality(recent), last |-> IF past = {} THEN -1 ELSE Max(past)]

\* rank_interviewers: the least loaded first, then the one who has waited
\* longest, then by id.
Before(i, j) ==
    LET a == LoadOf(i)
        b == LoadOf(j)
    IN  \/ a.count < b.count
        \/ a.count = b.count /\ a.last < b.last
        \/ a = b /\ i < j

\* sorted() by that key: there is exactly one such sequence.
Rankings(ids) ==
    {order \in [1 .. Cardinality(ids) -> ids] :
        \A j, k \in 1 .. Cardinality(ids) : j < k => Before(order[j], order[k])}

-----------------------------------------------------------------------------
(* The handlers                                                            *)

Raises(pool, starts) == Sufficient(ask, pool) /\ starts # {} /\ ~HoursReadable(pool)

\* What find_feasible_slots and the commit after it leave behind.
Searched(ws) ==
    /\ windows' = ws
    /\ feasible' = FeasibleSlots(ws)
    /\ status' = IF FeasibleSlots(ws) = {} THEN "manual_scheduling_required"
                 ELSE "awaiting_candidate_selection"

\* submit_availability: the windows replace earlier ones.  When somebody's
\* hours cannot be read the search raises and all of it is rolled back.
SubmitAvailability(ws) ==
    /\ status = "collecting_availability"
    /\ ~Raises(ThePool, StartsIn(ws))
    /\ Searched(ws)
    /\ UNCHANGED <<ask, picked, directory, now, changes>>

\* A broken reschedule that keeps the status of the interview it cancelled.
RescheduleCancelled(ws) ==
    /\ picked # NoPick => now <= picked.start
    /\ picked' = NoPick
    /\ IF Raises(ThePool, StartsIn(ws)) \/ picked # NoPick
       THEN /\ status' = IF picked # NoPick THEN "cancelled" ELSE "collecting_availability"
            /\ feasible' = {}
            /\ UNCHANGED windows
       ELSE Searched(ws)
    /\ UNCHANGED <<ask, directory, now, changes>>

\* candidate_reschedule: the interview goes first, in a commit of its own, so
\* a search that raises leaves the request collecting, its old windows kept.
CandidateReschedule(ws) ==
    /\ picked # NoPick => now <= picked.start
    /\ picked' = NoPick
    /\ IF Raises(ThePool, StartsIn(ws))
       THEN /\ status' = "collecting_availability"
            /\ feasible' = {}
            /\ UNCHANGED windows
       ELSE Searched(ws)
    /\ UNCHANGED <<ask, directory, now, changes>>

\* select_slot: any slot of the stored answer, even one that has begun.
SelectSlot(s) ==
    /\ status = "awaiting_candidate_selection"
    /\ s \in feasible
    /\ ~Raises(ActivePool, {s.start})
    /\ IF Cardinality(StillFeasible(SlotAt(s.start))) >= ask.panelists
       THEN /\ status' = "assigning_panel"
            /\ \E order \in Rankings(StillFeasible(SlotAt(s.start))) :
                 picked' = [start |-> s.start, end |-> s.end, order |-> order]
       ELSE /\ status' = "manual_scheduling_required"
            /\ picked' = [start |-> s.start, end |-> s.end, order |-> <<>>]
    /\ UNCHANGED <<ask, windows, feasible, directory, now, changes>>

-----------------------------------------------------------------------------
(* The environment                                                         *)

Changing == changes < MaxChanges /\ changes' = changes + 1

\* upsert_interviewer_profile, behind the checks of its payload.
UpsertProfile(i, profile) ==
    /\ Changing
    /\ HoursAccepted(profile)
    /\ profiles' = [j \in DOMAIN profiles \cup {i} |-> IF j = i THEN profile ELSE profiles[j]]
    /\ UNCHANGED <<request, connection, calendars, held, stamps, now>>

\* Somebody's connection to Google ends, or they connect again.
ConnectionChanges(i) ==
    /\ Changing
    /\ connection' = [connection EXCEPT ![i] = ~@]
    /\ UNCHANGED <<request, profiles, calendars, held, stamps, now>>

Toggle(S, x) == IF x \in S THEN S \ {x} ELSE S \cup {x}

\* A meeting appears on a calendar or goes.
CalendarChanges(i, m) ==
    /\ Changing
    /\ calendars' = [calendars EXCEPT ![i] = Toggle(@, m)]
    /\ UNCHANGED <<request, profiles, connection, held, stamps, now>>

\* Another request offers somebody a seat, or gives them back.
HeldElsewhere(i, m) ==
    /\ Changing
    /\ held' = [held EXCEPT ![i] = Toggle(@, m)]
    /\ UNCHANGED <<request, profiles, connection, calendars, stamps, now>>

\* Somebody accepts another seat, or an accepted one is cancelled.
LoadChanges(i) ==
    /\ Changing
    /\ \E s \in stamps[i] \cup {now} : stamps' = [stamps EXCEPT ![i] = Toggle(@, s)]
    /\ UNCHANGED <<request, profiles, connection, calendars, held, now>>

Tick ==
    /\ now < Horizon
    /\ now' = now + 1
    /\ UNCHANGED <<request, directory, changes>>

-----------------------------------------------------------------------------
Init ==
    /\ ask \in Asks
    /\ status = "collecting_availability"
    /\ windows = {}
    /\ feasible = {}
    /\ picked = NoPick
    /\ profiles \in Directories
    /\ connection = [i \in Interviewers |-> TRUE]
    /\ calendars = [i \in Interviewers |-> {}]
    /\ held = [i \in Interviewers |-> {}]
    /\ stamps = [i \in Interviewers |-> {}]
    /\ now = 0
    /\ changes = 0

SearchStep ==
    \E ws \in WindowSets : SubmitAvailability(ws) \/ CandidateReschedule(ws)

SelectStep == \E s \in feasible : SelectSlot(s)

Environment ==
    \/ \E i \in Interviewers, p \in Profiles : UpsertProfile(i, p)
    \/ \E i \in Interviewers : ConnectionChanges(i) \/ LoadChanges(i)
    \/ \E i \in Interviewers, m \in Meetings : CalendarChanges(i, m) \/ HeldElsewhere(i, m)
    \/ Tick

Next == SearchStep \/ SelectStep \/ Environment

Spec == Init /\ [][Next]_vars

-----------------------------------------------------------------------------
(* Reference definitions: the same questions asked instant by instant of   *)
(* the whole calendar, without intervals, queries or buffers' arithmetic.  *)

Qualified(i) ==
    /\ i \in DOMAIN profiles
    /\ profiles[i].active
    /\ \A s \in ask.skills : Skill[s] # Blank => \E h \in profiles[i].skills : Skill[h] = Skill[s]
    /\ SeniorityOrder[profiles[i].seniority] >= SeniorityOrder[ask.seniority]
    /\ \/ ask.type \in profiles[i].types
       \/ ask.type \in TechnicalRoundTypes /\ "TECHNICAL" \in profiles[i].types

AtWork(i, t) ==
    LET clock == (t + profiles[i].zone) % DayLength
    IN  profiles[i].from.at <= clock /\ clock < profiles[i].until.at

Untouched(times, T) == \A m \in times : Instants(m) \cap T = {}

\* Could really do the interview at t, with nothing on their calendar from
\* before to after.
CouldSit(i, t, before, after) ==
    /\ Qualified(i)
    /\ connection[i]
    /\ \A u \in t .. t + ask.duration - 1 : AtWork(i, u)
    /\ Untouched(calendars[i], t - before .. (t + ask.duration + after) - 1)

Panelists(t, before, after) == {i \in Interviewers : CouldSit(i, t, before, after)}

NotPromised(i, t) ==
    Untouched(held[i], t - ask.before .. (t + ask.duration + ask.after) - 1)

-----------------------------------------------------------------------------
(* Properties                                                              *)

TypeOK ==
    /\ ask \in Ask
    /\ status \in Statuses
    /\ windows \subseteq Interval
    /\ feasible \subseteq Slot
    /\ picked \in [start : Int, end : Int, order : Seq(Interviewers)]
    /\ DOMAIN profiles \subseteq Interviewers
    /\ \A i \in DOMAIN profiles : profiles[i] \in Profile
    /\ connection \in [Interviewers -> BOOLEAN]
    /\ calendars \in [Interviewers -> SUBSET Meetings]
    /\ held \in [Interviewers -> SUBSET Meetings]
    /\ stamps \in [Interviewers -> SUBSET Nat]
    /\ now \in 0 .. Horizon
    /\ changes \in 0 .. MaxChanges

\* The stored answer belongs to the stored windows, whatever was resubmitted,
\* rescheduled or rolled back: each slot lies inside one of them and names
\* enough people (save_availability, feasibility_json).
StoredSlotsFit ==
    \A s \in feasible :
        /\ \E w \in windows : w.start <= s.start /\ s.end <= w.end
        /\ Cardinality(s.ids) >= ask.panelists

\* A search proposes no slot that has begun, and none at which too few people
\* are qualified, reachable, at work and free for the interview itself: a
\* calendar that did not answer never counts as free (run_feasibility).
SearchIsSound ==
    [][SearchStep =>
          \A s \in feasible' :
             /\ now <= s.start
             /\ s.ids \subseteq Panelists(s.start, 0, 0)]_vars

\* No time that would do is overlooked: a start on a window's grid at which
\* enough people could sit, buffers included, is among the slots, so handing
\* the request to a human means that there was none (compute_feasible_slots).
NoSlotOverlooked ==
    [][SearchStep /\ status' # "collecting_availability" =>
          \A w \in windows' : \A t \in w.start .. w.end - ask.duration :
             LET first == IF now > w.start THEN now ELSE w.start
                 could == Panelists(t, ask.before, ask.after)
             IN  t >= first /\ (t - first) % Granularity = 0
                   /\ Cardinality(could) >= ask.panelists
                 => \E s \in feasible' : s.start = t /\ could \subseteq s.ids]_vars

\* Whoever is asked to sit could really do it, buffers included and with
\* their whole calendar considered, though the query asked for an hour around
\* the slot only: true of rounds whose buffers are at most that hour.
PanelIsAvailable ==
    [][SelectStep /\ ask.before <= Margin /\ ask.after <= Margin =>
          \A k \in DOMAIN picked'.order :
             /\ CouldSit(picked'.order[k], picked'.start, ask.before, ask.after)
             /\ NotPromised(picked'.order[k], picked'.start)]_vars

\* A chosen slot is given up only if too few people can really take it now.
EscalationIsHonest ==
    [][SelectStep /\ status' = "manual_scheduling_required" =>
          Cardinality({i \in Panelists(picked'.start, ask.before, ask.after) :
                          NotPromised(i, picked'.start)}) < ask.panelists]_vars

\* People are asked in the order of how many seats they took within the last
\* days, each of them once (rank_interviewers, get_load_snapshot).
LightestFirst ==
    [][SelectStep =>
          LET taken(i) == Cardinality({s \in stamps[i] : s <= now /\ now - s <= LoadWindow})
              order == picked'.order
          IN  \A j, k \in DOMAIN order :
                 j < k => order[j] # order[k] /\ taken(order[j]) <= taken(order[k])]_vars
=============================================================================
