\* One dashboard, one incident that is assigned and one resolved, an agent who is away.
CONSTANTS
    NONE = NONE
    i1 = i1
    i2 = i2
    a1 = a1
    a2 = a2
    b = b
    s1 = s1
    s2 = s2
    Incidents <- MCIncidents
    Users <- MCUsers
    Me <- MCMe
    Boss <- MCBoss
    Slots <- MCSlots
    FirstRows <- MCFirstRows
    Away <- MCAway
    MaxEvents = 2
SPECIFICATION DashboardsSpec
INVARIANTS
    OfferedMovesAreAccepted
    TrailShowsOwnActions
PROPERTIES
    ControlsComeBack
\* an agent who is deactivated cannot sign in again
CHECK_DEADLOCK FALSE
