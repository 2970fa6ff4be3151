\* One interview, booked twice, and what reaches the people in it.
CONSTANTS
    Interviewers = {"a", "b", "c"}
    Handlers = {1, 2}
    Worlds <- SomeWorlds
    MaxBookings = 2
    MaxEvents = 3
    MaxCrashes = 1
SPECIFICATION Spec
INVARIANTS
    TypeOK
    CalendarMirrorsRow
    OneEventPerBooking
    InboxTellsTruth
    RemindedOnce
PROPERTIES EveryoneReminded
CHECK_DEADLOCK FALSE
