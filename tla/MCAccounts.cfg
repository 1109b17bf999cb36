\* Administrators over HTTP, and one account a script may act as.
CONSTANTS
    NONE = NONE
    u1 = u1
    u2 = u2
    u3 = u3
    Users <- MCUsers
    ScriptCallers <- MCScripts
    MaxAudit = 4
SYMMETRY MCSymmetry
SPECIFICATION Spec
INVARIANTS
    AuditExplainsAccounts
    AuditIsAChain
    AuditAuthorisesChanges
    ActiveAdminRemains
\* the trail is bounded: a behaviour stops when it is full
CHECK_DEADLOCK FALSE
