\* The agent dashboard after its own switch is used.
CONSTANTS
    NONE = NONE
    i1 = i1
    i2 = i2
    a1 = a1
    a2 = a2
    b = b
    s1 = s1
    s2 = s2
    Incidents <- MCIncidents
    Users <- MCUsers
    Me <- MCMe
    Boss <- MCBoss
    Slots <- MCSlots
    FirstRows <- MCFirstRows
    Away <- MCAway
    MaxEvents = 2
SPECIFICATION DashboardsSpec
INVARIANTS
    AgentSeesTheFullTrail
\* an agent who is deactivated cannot sign in again
CHECK_DEADLOCK FALSE
