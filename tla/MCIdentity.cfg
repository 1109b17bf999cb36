\* Two requests overlap, of administrators or of people who sign in.
CONSTANTS
    NONE = NONE
    u1 = u1
    u2 = u2
    u3 = u3
    r1 = r1
    r2 = r2
    t1 = t1
    t2 = t2
    e1 = e1
    e2 = e2
    g1 = g1
    g2 = g2
    Users <- MCUsers
    ScriptCallers <- MCNoScripts
    Requests <- TwoSlots
    Tabs <- MCTabs
    Addresses <- MCAddresses
    Subjects <- MCSubjects
    Known <- MCKnown
    FirstGoogle <- MCFirstGoogle
    MaxAudit = 2
    MaxOverlap = 2
    MaxMoves = 1
SYMMETRY MCSymmetry
SPECIFICATION IdentitySpec
INVARIANTS
    OneAccountPerIdentity
    AuditExplainsAccounts
PROPERTIES
    BoundForGood
    ImplementsRaces
\* the trail is bounded: a behaviour stops when it is full
CHECK_DEADLOCK FALSE
