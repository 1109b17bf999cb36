\* One incident, two agents, one administrator, a clock that crosses the
\* deadlines: every sequence of requests that fits a trail of eight entries.
CONSTANTS
    NONE = NONE
    adm = adm
    ag1 = ag1
    ag2 = ag2
    i1 = i1
    Users <- Crew
    SeedRole <- CrewSeed
    ScriptCallers <- NoScripts
    MaxAudit = 1
    Incidents <- OneIncident
    Times <- ShortDay
    CategoryChoices <- FireOnly
    PriorityChoices <- P1P2
    SlaChoices <- OneHour
    MaxPhotos = 1
    MaxHistory = 8
SYMMETRY AgentSymmetry
VIEW WorkflowView
SPECIFICATION WorkflowSpec
INVARIANTS
    WorkflowTypeOK
    TrailExplainsRow
    TrailIsAChain
    AgentsMoveOnlyTheirOwnWork
    ReworkIsRecorded
    ProofFollowsResolution
    WindowAnchored
    LateIsBreached
    AvailabilityTrailCurrent
PROPERTIES
    ClosedIsTerminal
    ImplementsAccounts
\* the trail is bounded: a behaviour stops when it is full
CHECK_DEADLOCK FALSE
