\* One handler at a time on one panel of two: the engine's own logic,
\* and the end of every assignment under the offer-expiry job.
CONSTANTS
    Threads = {t1}
    Requests = {r1}
    Interviewers = {a, b, c}
    PanelistsRequired = 2
    Slots = {s1, s2}
    Overlap <- NoneOverlap
    MaxEvents = 2
    Conditions = {"time", "reschedules"}
    NoOne = NoOne
    NoRequest = NoRequest
    NoSlot = NoSlot
SPECIFICATION FairSpec
INVARIANTS
    LedgerMatchesSeats
    EventMatchesRow
PROPERTIES
    AssigningSettles
CHECK_DEADLOCK FALSE
