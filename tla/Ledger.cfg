\* Three sessions reserve for interviews that clash, in every deployment.
CONSTANTS
    Sessions = {s1, s2, s3}
    Processes = {p1, p2}
    Interviewers = {a, b}
    Interviews = {v1, v2, v3}
    PanelistsRequired = 2
    Clash <- AllClash
    Deployments <- EveryDeployment
    MaxHandlers = 3
    NoSession = NoSession
    NoOne = NoOne
    NoInterview = NoInterview
SYMMETRY Symmetric
SPECIFICATION Spec
INVARIANTS
    LedgerInv
    NeverDoubleHeld
    NoLockLeftBehind
PROPERTIES
    ImplementsLedger
CHECK_DEADLOCK FALSE
