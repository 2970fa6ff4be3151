\* A search, a changing world, a choice: two interviewers, one request.
CONSTANTS
    DayLength = 10
    Spellings = {"python", "Python ", "go", "  "}
    Skill <- Stripped
    Blank = ""
    Interviewers = {1, 2}
    Profiles <- People
    Directories <- Teams
    Asks <- Rounds
    WindowSets <- Submissions
    Meetings <- Busy
    Granularity = 2
    Margin = 1
    LoadWindow = 1
    Policy <- DefaultPolicy
    Horizon = 2
    MaxChanges = 2
SPECIFICATION Spec
INVARIANTS
    TypeOK
    StoredSlotsFit
PROPERTIES
    SearchIsSound
    NoSlotOverlooked
    PanelIsAvailable
    EscalationIsHonest
    LightestFirst
CHECK_DEADLOCK FALSE
