\* A lost race keeps its row lock: two sessions wait for one another.
CONSTANTS
    Sessions = {s1, s2}
    Processes = {p1}
    Interviewers = {a}
    Interviews = {v1, v2, v3}
    PanelistsRequired = 2
    Clash <- AllClash
    Deployments <- PostgresOneProcess
    MaxHandlers = 3
    NoSession = NoSession
    NoOne = NoOne
    NoInterview = NoInterview
SPECIFICATION FairSpec
PROPERTIES
    AssignmentEnds
CHECK_DEADLOCK FALSE
