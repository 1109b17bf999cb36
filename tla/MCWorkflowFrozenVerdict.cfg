\* The verdict of work finished in time: closing it late or editing its window
\* reports it as BREACHED.
CONSTANTS
    NONE = NONE
    adm = adm
    ag1 = ag1
    ag2 = ag2
    i1 = i1
    ScriptCallers <- NoScripts
    MaxAudit = 0
    Users <- Pair
    SeedRole <- PairSeed
    Incidents <- OneIncident
    Times <- ShortDay
    CategoryChoices <- FireOnly
    PriorityChoices <- P1P2
    SlaChoices <- OneHour
    MaxPhotos = 0
    MaxHistory = 8
SPECIFICATION WorkflowSpec
INVARIANTS
    OnTimeIsNotBreached
\* the trail is bounded: a behaviour stops when it is full
CHECK_DEADLOCK FALSE
