\* Handlers of two interviews that share their people die half-way, and tokens
\* are refreshed mid-transaction.
CONSTANTS
    Threads = {t1, t2}
    Requests = {r1, r2}
    Interviewers = {a, b}
    PanelistsRequired = 2
    Slots = {s1}
    Overlap <- AllOverlap
    MaxEvents = 0
    Conditions = {"failures", "token_refresh", "reschedules"}
    NoOne = NoOne
    NoRequest = NoRequest
    NoSlot = NoSlot
SYMMETRY Symmetric
SPECIFICATION Spec
INVARIANTS
    TypeOK
    IInv
    OfferedNeverOverlap
    StatusMatchesSeats
PROPERTIES
    ImplementsLifecycle
    AcceptedSeatKept
    CancelledIsFinal
CHECK_DEADLOCK FALSE
