\* Two handlers: racing logins with one invitation, and disconnects, refreshes
\* and logins of one user.
CONSTANTS
    rita = rita
    cleo = cleo
    cleo2 = cleo2
    cleo3 = cleo3
    Accounts = {rita, cleo, cleo2, cleo3}
    Emails = {"rita@", "cleo@", "Cleo@"}
    Lower <- InLowerCase
    EmailOf <- SomeEmails
    InternalRole <- SomeRoles
    Handlers = {h1, h2}
    Worlds = {{"failures"}, {"calendar"}}
    MaxRequests = 1
    MaxConsents = 3
SYMMETRY Perms
SPECIFICATION Spec
INVARIANTS
    TypeOK
    EveryoneWasLetIn
    NobodyLockedOut
    NoDeadTokens
PROPERTIES
    InviteIsSpent
CHECK_DEADLOCK FALSE
