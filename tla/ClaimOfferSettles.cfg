\* An offer of an escalated interview never expires.
CONSTANTS
    Threads = {t1}
    Requests = {r1}
    Interviewers = {a, b}
    PanelistsRequired = 2
    Slots = {s1}
    Overlap <- AllOverlap
    MaxEvents = 1
    Conditions = {}
    NoOne = NoOne
    NoRequest = NoRequest
    NoSlot = NoSlot
SPECIFICATION FairSpec
PROPERTIES
    OfferEventuallySettled
CHECK_DEADLOCK FALSE
