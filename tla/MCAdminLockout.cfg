\* Two administrators act on each other at the same time.
CONSTANTS
    NONE = NONE
    u1 = u1
    u2 = u2
    u3 = u3
    r1 = r1
    r2 = r2
    Users <- MCUsers
    ScriptCallers <- MCNoScripts
    Requests <- TwoSlots
    MaxAudit = 2
SYMMETRY SlotSymmetry
SPECIFICATION RacesSpec
INVARIANTS
    ActiveAdminRemains
\* the trail is bounded: a behaviour stops when it is full
CHECK_DEADLOCK FALSE
