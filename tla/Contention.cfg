\* Two interviews compete for the same people, one handler at a time on each.
CONSTANTS
    Threads = {t1, t2}
    Requests = {r1, r2}
    Interviewers = {a, b, c}
    PanelistsRequired = 1
    Slots = {s1}
    Overlap <- AllOverlap
    MaxEvents = 1
    Conditions = {"reschedules"}
    NoOne = NoOne
    NoRequest = NoRequest
    NoSlot = NoSlot
SYMMETRY Symmetric
SPECIFICATION Spec
INVARIANTS
    NoDoubleBooking
    LedgerMatchesSeats
PROPERTIES
    ImplementsLifecycle
CHECK_DEADLOCK FALSE
