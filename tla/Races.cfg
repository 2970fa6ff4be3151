\* Two handlers race on one panel of two.
CONSTANTS
    Threads = {t1, t2}
    Requests = {r1}
    Interviewers = {a, b}
    PanelistsRequired = 2
    Slots = {s1}
    Overlap <- AllOverlap
    MaxEvents = 0
    Conditions = {"races", "dead_offers"}
    NoOne = NoOne
    NoRequest = NoRequest
    NoSlot = NoSlot
SYMMETRY Symmetric
SPECIFICATION Spec
INVARIANTS
    OfferedNeverOverlap
    IInv
    PanelsDistinct
    DeclinersExcluded
CHECK_DEADLOCK FALSE
