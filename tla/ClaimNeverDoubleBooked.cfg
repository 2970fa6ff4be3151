\* A confirmation that bypasses the ledger double-books.
CONSTANTS
    Threads = {t1}
    Requests = {r1, r2}
    Interviewers = {a}
    PanelistsRequired = 1
    Slots = {s1}
    Overlap <- AllOverlap
    MaxEvents = 1
    Conditions = {"dead_offers"}
    NoOne = NoOne
    NoRequest = NoRequest
    NoSlot = NoSlot
SPECIFICATION Spec
INVARIANTS
    NoDoubleBooking
CHECK_DEADLOCK FALSE
