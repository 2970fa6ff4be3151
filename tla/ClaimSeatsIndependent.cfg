\* Concurrent answers for two seats overwrite one another.
CONSTANTS
    Threads = {t1, t2}
    Requests = {r1}
    Interviewers = {a, b}
    PanelistsRequired = 2
    Slots = {s1}
    Overlap <- AllOverlap
    MaxEvents = 1
    Conditions = {"races"}
    NoOne = NoOne
    NoRequest = NoRequest
    NoSlot = NoSlot
SPECIFICATION Spec
PROPERTIES
    AcceptedSeatKept
CHECK_DEADLOCK FALSE
