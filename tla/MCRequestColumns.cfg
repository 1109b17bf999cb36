\* Two requests that write one incident overlap in every order.
CONSTANTS
    NONE = NONE
    adm = adm
    ag1 = ag1
    i1 = i1
    r1 = r1
    r2 = r2
    Users <- Pair
    SeedRole <- PairSeed
    ScriptCallers <- NoScripts
    MaxAudit = 0
    Incidents <- OneIncident
    Times <- NoTime
    CategoryChoices <- FireOnly
    PriorityChoices <- P2Only
    SlaChoices <- OneHour
    MaxPhotos = 0
    MaxHistory = 5
    Requests <- TwoSlots
    Kinds <- WriteKinds
SYMMETRY SlotSymmetry
SPECIFICATION RacesSpec
INVARIANTS
    AgentEntriesBacked
PROPERTIES
    ChangesAreAnnounced
\* the trail is bounded: a behaviour stops when it is full
CHECK_DEADLOCK FALSE
