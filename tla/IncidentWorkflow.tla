-------------------------- MODULE IncidentWorkflow --------------------------
(***************************************************************************)
(* The incident lifecycle: app/services/incident_service.py behind         *)
(* app/api/incidents.py, the availability switch of app/api/agents.py and  *)
(* the proof-of-work upload of app/api/images.py, over the accounts of     *)
(* module Accounts.                                                        *)
(*                                                                         *)
(* Every request is one atomic step: what the code does when requests do   *)
(* not overlap.  Module RequestRaces lets them overlap.                    *)
(*                                                                         *)
(* A row is updated together with its history entries, as the code commits *)
(* both in one transaction; a refused request is not a step.               *)
(***************************************************************************)
EXTENDS Accounts

CONSTANTS
    SeedRole,        \* the accounts create_demo_data left behind
    Incidents,       \* incident ids
    Times,           \* bound: the hours at which requests are served
    CategoryChoices, PriorityChoices, SlaChoices,   \* bounds: request inputs
    MaxPhotos,       \* bound: photos sent with one report
    MaxHistory       \* bound: length of an incident's history

ASSUME WorkflowAssumption ==
    /\ SeedRole \in [Users -> Roles \cup {NONE}]
    /\ \E u \in Users : SeedRole[u] = "ADMIN"
    /\ Times \subseteq Nat /\ 0 \in Times
    /\ CategoryChoices \subseteq Categories
    /\ PriorityChoices \subseteq Priorities
    /\ SlaChoices \subseteq SlaHours
    /\ MaxPhotos \in Nat /\ MaxHistory \in Nat
    /\ NONE \notin Nat
    /\ NONE \notin Statuses \cup Verdicts

VARIABLES
    available,      \* users.is_available
    lastAssigned,   \* users.last_assigned_at
    incident,       \* incidents, NONE while the id is unused
    history,        \* incident_history of each incident, in id order
    now             \* the wall clock

agentVars == <<available, lastAssigned>>
workflowVars == <<role, active, audit, available, lastAssigned, incident, history, now>>

Row == [status   : Statuses,
        agent    : Users \cup {NONE},        \* assigned_agent_id
        priority : Priorities,               \* priority_level
        hours    : SlaHours \cup {NONE},     \* sla_hours
        deadline : Nat \cup {NONE},          \* sla_deadline
        verdict  : Verdicts \cup {NONE},     \* sla_status
        created  : Times]                    \* created_at

\* The NULL of an absent incident is no row.
ASSUME NullIsNoRow == NONE \notin Row

(***************************************************************************)
(* A history entry.  Agent names and SLA labels stand for the agent and    *)
(* the hours they name; an image entry carries the kind of its image.      *)
(***************************************************************************)
EventOK(e) ==
    /\ e.action \in HistoryActions
    /\ e.actor \in Users \cup {NONE}
    /\ e.by \in Roles \cup {"SYSTEM"}
    /\ e.at \in Times
    /\ e.action \in StatusActions \ {"INCIDENT_CREATED"} => e.old \in Statuses
    /\ e.action \in StatusActions   => e.new \in Statuses
    /\ e.action \in AgentActions    => {e.old, e.new} \subseteq Users \cup {NONE}
    /\ e.action \in SlaActions      => {e.old, e.new} \subseteq SlaHours \cup {NONE}
    /\ e.action \in PriorityActions => {e.old, e.new} \subseteq Priorities

WorkflowTypeOK ==
    /\ TypeOK
    /\ available \in [Users -> BOOLEAN]
    /\ lastAssigned \in [Users -> Times \cup {NONE}]
    /\ now \in Times
    /\ incident \in [Incidents -> Row \cup {NONE}]
    /\ DOMAIN history = Incidents
    /\ \A i \in Incidents : \A k \in DOMAIN history[i] : EventOK(history[i][k])

-----------------------------------------------------------------------------
WorkflowInit ==
    /\ Init
    /\ role = SeedRole
    /\ available = [u \in Users |-> TRUE]
    /\ lastAssigned = [u \in Users |-> NONE]
    /\ incident = [i \in Incidents |-> NONE]
    /\ history = [i \in Incidents |-> <<>>]
    /\ now = 0

Filed(i) == incident[i] # NONE

\* MUTANT: no role is written for what the system did
Entry_NoSystemRole(action, actor, old, new) ==
    [action |-> action, actor |-> actor,
     by |-> IF actor = NONE THEN NONE ELSE role[actor],
     old |-> old, new |-> new, at |-> now]

\* history_service.record: the entry for what `actor` (NONE: the system) did
Entry(action, actor, old, new) ==
    [action |-> action, actor |-> actor,
     by |-> IF actor = NONE THEN "SYSTEM" ELSE role[actor],
     old |-> old, new |-> new, at |-> now]

\* Append `entries` to the history of i, within the bound.
RecordAll(i, entries) ==
    /\ Len(history[i]) + Len(entries) <= MaxHistory
    /\ history' = [history EXCEPT ![i] = @ \o entries]

\* The entry list that is there only under a condition.
When(condition, entry) == IF condition THEN <<entry>> ELSE <<>>

\* MUTANT: only the named milestones are recorded
StatusEntry_MilestonesOnly(actor, old, new) ==
    When(old # new /\ StatusAction(old, new) # "STATUS_CHANGED",
         Entry(StatusAction(old, new), actor, old, new))

\* _record_status_change, when the status did change
StatusEntry(actor, old, new) ==
    When(old # new, Entry(StatusAction(old, new), actor, old, new))

\* The row with its verdict computed now; a row without deadline has none.
Judged(row) ==
    IF row.deadline = NONE THEN row
    ELSE [row EXCEPT !.verdict = SlaVerdict(row.deadline, row.hours, now)]

(***************************************************************************)
(* The row as get_incident_by_id hands it to every handler.                *)
(* _enrich_incident assigns the refreshed verdict to the sla_status        *)
(* column, so the handler's commit writes it back.                         *)
(***************************************************************************)
Enriched(row) == IF row.status \in SLA_FREEZE_STATUSES THEN row ELSE Judged(row)

\* MUTANT: a new window starts when it is set
WithWindow_FromNow(row, h) ==
    IF h = NONE
    THEN [row EXCEPT !.hours = NONE, !.deadline = NONE, !.verdict = NONE]
    ELSE Judged([row EXCEPT !.hours = h, !.deadline = now + h])

\* MUTANT: the verdict of a finished incident is kept when its window is edited
WithWindow_FrozenKept(row, h) ==
    IF h = NONE
    THEN [row EXCEPT !.hours = NONE, !.deadline = NONE, !.verdict = NONE]
    ELSE LET new == [row EXCEPT !.hours = h, !.deadline = row.created + h] IN
         IF row.status \in SLA_FREEZE_STATUSES /\ row.verdict # NONE
         THEN new ELSE Judged(new)

\* The row with a window of h hours from its creation (h = NONE: cleared).
WithWindow(row, h) ==
    IF h = NONE
    THEN [row EXCEPT !.hours = NONE, !.deadline = NONE, !.verdict = NONE]
    ELSE Judged([row EXCEPT !.hours = h, !.deadline = row.created + h])

-----------------------------------------------------------------------------
(***************************************************************************)
(* POST /incidents.  The longest-idle available agent gets the incident,   *)
(* one that was never assigned first; the query returns agents in no       *)
(* particular order, so a tie may go either way.                           *)
(***************************************************************************)
AvailableAgents == {a \in Users : role[a] = "AGENT" /\ available[a] /\ active[a]}

IdleSince(a) == IF lastAssigned[a] = NONE THEN -1 ELSE lastAssigned[a]

BestAvailableAgents ==
    {a \in AvailableAgents : \A b \in AvailableAgents : IdleSince(a) <= IdleSince(b)}

NewRow(category, agent) ==
    LET p == CATEGORY_DEFAULT_PRIORITY[category] IN
    WithWindow([status   |-> IF agent = NONE THEN "REPORTED" ELSE "ASSIGNED",
                agent    |-> agent,
                priority |-> p,
                hours    |-> NONE, deadline |-> NONE, verdict |-> NONE,
                created  |-> now],
               DEFAULT_SLA_HOURS[p])

CreateIncident(u, i, category, agent, photos) ==
    LET row == NewRow(category, agent) IN
    /\ Authenticated(u)
    /\ ~Filed(i)
    /\ IF AvailableAgents = {} THEN agent = NONE ELSE agent \in BestAvailableAgents
    /\ incident' = [incident EXCEPT ![i] = row]
    /\ lastAssigned' = IF agent = NONE THEN lastAssigned
                       ELSE [lastAssigned EXCEPT ![agent] = now]
    /\ RecordAll(i,
         <<Entry("INCIDENT_CREATED", u, NONE, "REPORTED"),
           Entry("SLA_CREATED", NONE, NONE, row.hours)>>
         \o When(agent # NONE, Entry("AGENT_ASSIGNED", NONE, NONE, agent))
         \o StatusEntry(NONE, "REPORTED", row.status)
         \o [k \in 1 .. photos |-> Entry("IMAGE_ADDED", u, NONE, "REPORT")])
    /\ UNCHANGED <<accountVars, available, now>>

-----------------------------------------------------------------------------
(***************************************************************************)
(* The requests on one incident.  Each has a guard, read on the row as the *)
(* handler sees it, and a plan: the row it writes and the entries it adds, *)
(* committed together.                                                     *)
(***************************************************************************)
Plan(row, entries) == [row |-> row, entries |-> entries]

CarryOut(i, plan) ==
    /\ incident' = [incident EXCEPT ![i] = plan.row]
    /\ RecordAll(i, plan.entries)

(***************************************************************************)
(* PATCH /incidents/{id}/status                                            *)
(***************************************************************************)
\* MUTANT: any agent may move any incident
MayMove_AnyAgent(u, row, new) ==
    /\ role[u] \in {"AGENT", "ADMIN"}
    /\ role[u] = "AGENT" => new \in AGENT_TRANSITIONS[row.status]
    /\ new \in VALID_TRANSITIONS[row.status]

MayMove(u, row, new) ==
    /\ role[u] \in {"AGENT", "ADMIN"}
    /\ role[u] = "AGENT" => row.agent = u /\ new \in AGENT_TRANSITIONS[row.status]
    /\ new \in VALID_TRANSITIONS[row.status]

StatusPlan(u, row, new) ==
    LET moved == [row EXCEPT !.status = new] IN
    Plan(IF new \in SLA_FREEZE_STATUSES THEN Judged(moved) ELSE moved,
         StatusEntry(u, row.status, new))

UpdateStatus(u, i, new) ==
    LET row == Enriched(incident[i]) IN
    /\ Authenticated(u)
    /\ Filed(i)
    /\ MayMove(u, row, new)
    /\ CarryOut(i, StatusPlan(u, row, new))
    /\ UNCHANGED <<accountVars, agentVars, now>>

(***************************************************************************)
(* PUT /incidents/{id}/assign, with an agent and without one.  The status  *)
(* of the incident is no obstacle.                                         *)
(***************************************************************************)
MayHold(agent, override) ==
    /\ role[agent] = "AGENT"
    /\ active[agent]
    /\ available[agent] \/ override

AssignPlan(u, row, agent) ==
    LET status == IF row.status \in {"REPORTED", "TRIAGED"} THEN "ASSIGNED" ELSE row.status
    IN Plan([row EXCEPT !.agent = agent, !.status = status],
            When(~available[agent], Entry("ADMIN_OVERRIDE", u, NONE, NONE))
            \o When(row.agent # agent,
                    Entry(IF row.agent = NONE THEN "AGENT_ASSIGNED" ELSE "AGENT_REASSIGNED",
                          u, row.agent, agent))
            \o StatusEntry(u, row.status, status))

AssignAgent(u, i, agent, override) ==
    /\ RequireAdmin(u)
    /\ Filed(i)
    /\ MayHold(agent, override)
    /\ CarryOut(i, AssignPlan(u, Enriched(incident[i]), agent))
    /\ lastAssigned' = [lastAssigned EXCEPT ![agent] = now]
    /\ UNCHANGED <<accountVars, available, now>>

\* MUTANT: unassigning sends every incident back to REPORTED
UnassignPlan_AlwaysReported(u, row) ==
    Plan([row EXCEPT !.agent = NONE, !.status = "REPORTED"],
         When(row.agent # NONE, Entry("AGENT_UNASSIGNED", u, row.agent, NONE))
         \o StatusEntry(u, row.status, "REPORTED"))

UnassignPlan(u, row) ==
    LET status == IF row.status = "ASSIGNED" THEN "REPORTED" ELSE row.status
    IN Plan([row EXCEPT !.agent = NONE, !.status = status],
            When(row.agent # NONE, Entry("AGENT_UNASSIGNED", u, row.agent, NONE))
            \o StatusEntry(u, row.status, status))

UnassignAgent(u, i) ==
    /\ RequireAdmin(u)
    /\ Filed(i)
    /\ CarryOut(i, UnassignPlan(u, Enriched(incident[i])))
    /\ UNCHANGED <<accountVars, agentVars, now>>

(***************************************************************************)
(* PATCH /incidents/{id}/sla (h = NONE clears the window) and .../priority *)
(* (the window goes back to the new level's default).                      *)
(***************************************************************************)
SlaPlan(u, row, h) ==
    Plan(WithWindow(row, h),
         When(row.hours # h,
              Entry(IF row.hours = NONE THEN "SLA_CREATED" ELSE "SLA_UPDATED",
                    u, row.hours, h)))

UpdateSla(u, i, h) ==
    /\ RequireAdmin(u)
    /\ Filed(i)
    /\ CarryOut(i, SlaPlan(u, Enriched(incident[i]), h))
    /\ UNCHANGED <<accountVars, agentVars, now>>

\* MUTANT: the window a priority brings with it is not recorded
PriorityPlan_SilentWindow(u, row, p) ==
    Plan(WithWindow([row EXCEPT !.priority = p], DEFAULT_SLA_HOURS[p]),
         When(row.priority # p, Entry("PRIORITY_CHANGED", u, row.priority, p)))

PriorityPlan(u, row, p) ==
    LET h == DEFAULT_SLA_HOURS[p] IN
    Plan(WithWindow([row EXCEPT !.priority = p], h),
         When(row.priority # p, Entry("PRIORITY_CHANGED", u, row.priority, p))
         \o When(row.hours # h, Entry("SLA_UPDATED", u, row.hours, h)))

UpdatePriority(u, i, p) ==
    /\ RequireAdmin(u)
    /\ Filed(i)
    /\ CarryOut(i, PriorityPlan(u, Enriched(incident[i]), p))
    /\ UNCHANGED <<accountVars, agentVars, now>>

(***************************************************************************)
(* POST /incidents/{id}/images/resolution                                  *)
(***************************************************************************)
\* MUTANT: finished is taken for resolved
MayProve_Finished(u, row) ==
    /\ role[u] \in {"AGENT", "ADMIN"}
    /\ role[u] = "AGENT" => row.agent = u
    /\ row.status \in SLA_FREEZE_STATUSES

MayProve(u, row) ==
    /\ role[u] \in {"AGENT", "ADMIN"}
    /\ role[u] = "AGENT" => row.agent = u
    /\ row.status = "RESOLVED"

ProofPlan(u, row) == Plan(row, <<Entry("IMAGE_ADDED", u, NONE, "RESOLUTION")>>)

UploadResolutionImage(u, i) ==
    LET row == Enriched(incident[i]) IN
    /\ Authenticated(u)
    /\ Filed(i)
    /\ MayProve(u, row)
    /\ CarryOut(i, ProofPlan(u, row))
    /\ UNCHANGED <<accountVars, agentVars, now>>

(***************************************************************************)
(* POST /agents/availability by the agent, PATCH /agents/{id}/availability *)
(* by an administrator.  The switch belongs to the agent, its entries to   *)
(* every incident still open on the agent's plate.                         *)
(***************************************************************************)
\* MUTANT: work in progress is forgotten
OpenOnPlate_AssignedOnly(a) ==
    {i \in Incidents : Filed(i) /\ incident[i].agent = a /\ incident[i].status = "ASSIGNED"}

OpenOnPlate(a) ==
    {i \in Incidents : /\ Filed(i)
                       /\ incident[i].agent = a
                       /\ incident[i].status \notin SLA_FREEZE_STATUSES}

AvailabilityWord(flag) == IF flag THEN "Available" ELSE "Unavailable"

\* MUTANT: the switch writes is_active for is_available
SetAvailability_Deactivates(u, a, flag) ==
    /\ Authenticated(u)
    /\ role[a] = "AGENT"
    /\ u = a \/ role[u] = "ADMIN"
    /\ active[a] # flag
    /\ active' = [active EXCEPT ![a] = flag]
    /\ UNCHANGED <<role, audit, agentVars, incident, history, now>>

SetAvailability(u, a, flag) ==
    /\ Authenticated(u)
    /\ role[a] = "AGENT"
    /\ u = a \/ role[u] = "ADMIN"
    /\ available[a] # flag
    /\ available' = [available EXCEPT ![a] = flag]
    /\ \A i \in OpenOnPlate(a) : Len(history[i]) < MaxHistory
    /\ history' = [i \in Incidents |->
                     IF i \in OpenOnPlate(a)
                     THEN Append(history[i],
                                 Entry("AGENT_AVAILABILITY_CHANGED", u,
                                       AvailabilityWord(~flag), AvailabilityWord(flag)))
                     ELSE history[i]]
    /\ UNCHANGED <<accountVars, lastAssigned, incident, now>>

-----------------------------------------------------------------------------
\* An account is registered, promoted, demoted, activated or deactivated: no
\* handler of these looks at incidents.
AccountStep ==
    /\ Next
    /\ UNCHANGED <<agentVars, incident, history, now>>

\* Time passes between requests.
Tick ==
    /\ \E t \in Times : t > now /\ now' = t
    /\ UNCHANGED <<accountVars, agentVars, incident, history>>

WorkflowNext ==
    \/ \E u \in Users, i \in Incidents, c \in CategoryChoices,
          a \in Users \cup {NONE}, n \in 0 .. MaxPhotos : CreateIncident(u, i, c, a, n)
    \/ \E u \in Users, i \in Incidents, s \in Statuses : UpdateStatus(u, i, s)
    \/ \E u, a \in Users, i \in Incidents, f \in BOOLEAN : AssignAgent(u, i, a, f)
    \/ \E u \in Users, i \in Incidents : UnassignAgent(u, i)
    \/ \E u \in Users, i \in Incidents, h \in SlaChoices \cup {NONE} : UpdateSla(u, i, h)
    \/ \E u \in Users, i \in Incidents, p \in PriorityChoices : UpdatePriority(u, i, p)
    \/ \E u \in Users, i \in Incidents : UploadResolutionImage(u, i)
    \/ \E u, a \in Users, f \in BOOLEAN : SetAvailability(u, a, f)
    \/ AccountStep
    \/ Tick

WorkflowSpec == WorkflowInit /\ [][WorkflowNext]_workflowVars

-----------------------------------------------------------------------------
(***************************************************************************)
(* Reading a history: the positions of the entries of one family.          *)
(***************************************************************************)
Rows(i, actions) == {k \in DOMAIN history[i] : history[i][k].action \in actions}

\* The entries that say an incident left the open statuses.
FinishRows(i) ==
    {k \in Rows(i, StatusActions \ {"INCIDENT_CREATED"}) :
        /\ history[i][k].old \notin SLA_FREEZE_STATUSES
        /\ history[i][k].new \in SLA_FREEZE_STATUSES}

\* The hour an incident in a frozen status was finished at.
FinishedAt(i) ==
    LET S == FinishRows(i)
        k == CHOOSE k \in S : \A m \in S : m <= k
    IN history[i][k].at

Frozen(i) == Filed(i) /\ incident[i].status \in SLA_FREEZE_STATUSES

\* Of the entries of one family, the last one carries `value`.
LastSays(i, actions, value) ==
    \A k \in Rows(i, actions) :
        IsLastBefore(k, Rows(i, actions), Len(history[i]) + 1) => history[i][k].new = value

(***************************************************************************)
(* The trail explains the row: replaying an incident's history (its last   *)
(* status, agent, SLA and priority entries) gives the status, agent,       *)
(* window and priority the row shows, through side effects, no-ops,        *)
(* overrides and reopenings alike (tests/test_history.py).                 *)
(***************************************************************************)
TrailExplainsRow ==
    \A i \in Incidents : Filed(i) =>
        /\ LastSays(i, StatusActions, incident[i].status)
        /\ LastSays(i, AgentActions, incident[i].agent)
        /\ LastSays(i, SlaActions, incident[i].hours)
        /\ LastSays(i, PriorityActions, incident[i].priority)
        /\ Rows(i, AgentActions) = {} => incident[i].agent = NONE

(***************************************************************************)
(* The trail is gapless: the old value of every entry is the new value of  *)
(* the entry before it in its family, so no change went unrecorded.        *)
(***************************************************************************)
TrailIsAChain ==
    \A i \in Incidents :
        \A S \in {Rows(i, StatusActions), Rows(i, AgentActions),
                  Rows(i, SlaActions), Rows(i, PriorityActions)} :
            \A j, k \in S : IsLastBefore(j, S, k) => history[i][k].old = history[i][j].new

(***************************************************************************)
(* Accountability: every status entry an agent signed is a move agents may *)
(* make, on an incident the trail itself shows was theirs at that moment.  *)
(***************************************************************************)
AgentsMoveOnlyTheirOwnWork ==
    \A i \in Incidents : \A k \in Rows(i, StatusActions \ {"INCIDENT_CREATED"}) :
        LET e == history[i][k] IN
        e.by = "AGENT" =>
            /\ <<e.old, e.new>> \in {<<"ASSIGNED", "IN_PROGRESS">>, <<"IN_PROGRESS", "RESOLVED">>}
            /\ \E j \in Rows(i, AgentActions) :
                  /\ IsLastBefore(j, Rows(i, AgentActions), k)
                  /\ history[i][j].new = e.actor

(***************************************************************************)
(* Work that was declared finished is taken up again only through a        *)
(* recorded reopening: between two entries that finish the same incident   *)
(* there is an INCIDENT_REOPENED.                                          *)
(***************************************************************************)
ReworkIsRecorded ==
    \A i \in Incidents : \A j, k \in FinishRows(i) :
        j < k => \E m \in Rows(i, {"INCIDENT_REOPENED"}) : j < m /\ m < k

(***************************************************************************)
(* A proof of work is attached only while the incident is RESOLVED: the    *)
(* last status entry before it says so (app/api/images.py).                *)
(***************************************************************************)
ProofFollowsResolution ==
    \A i \in Incidents : \A k \in Rows(i, {"IMAGE_ADDED"}) :
        history[i][k].new = "RESOLUTION" =>
            \A j \in Rows(i, StatusActions) :
                IsLastBefore(j, Rows(i, StatusActions), k) => history[i][j].new = "RESOLVED"

(***************************************************************************)
(* CLOSED is terminal: no request of any kind, an assignment included,     *)
(* takes a closed incident out of it (models/incident.py, TERMINAL_STATUSES)*)
(***************************************************************************)
ClosedIsTerminal ==
    [][\A i \in Incidents :
          (Filed(i) /\ incident[i].status = "CLOSED") => incident'[i].status = "CLOSED"]_workflowVars

(***************************************************************************)
(* The window always means "within N hours of being reported": whatever    *)
(* was edited and whenever, the deadline is the creation time plus the     *)
(* hours shown, and the three SLA columns are set or cleared together.     *)
(***************************************************************************)
WindowAnchored ==
    \A i \in Incidents : Filed(i) =>
        IF incident[i].hours = NONE
        THEN incident[i].deadline = NONE /\ incident[i].verdict = NONE
        ELSE /\ incident[i].deadline = incident[i].created + incident[i].hours
             /\ incident[i].verdict # NONE

(***************************************************************************)
(* Late work is never excused: an incident finished at or after its        *)
(* deadline shows BREACHED, however its window was edited, before or after *)
(* it was finished.                                                        *)
(***************************************************************************)
LateIsBreached ==
    \A i \in Incidents :
        (Frozen(i) /\ incident[i].hours # NONE /\ FinishedAt(i) >= incident[i].deadline)
            => incident[i].verdict = "BREACHED"

(***************************************************************************)
(* The converse, which models/incident.py:144-147 promises: an incident    *)
(* finished inside its window is not retroactively reported as BREACHED.   *)
(* Closing a resolved incident, or touching its SLA or priority, computes  *)
(* the verdict again against the clock, so the code does not keep it.      *)
(***************************************************************************)
OnTimeIsNotBreached ==
    \A i \in Incidents :
        (Frozen(i) /\ incident[i].hours # NONE /\ FinishedAt(i) < incident[i].deadline)
            => incident[i].verdict # "BREACHED"

(***************************************************************************)
(* What an open incident's trail last says of its agent's availability,    *)
(* since that agent got it or since it was reopened, is still true.        *)
(***************************************************************************)
AvailabilityTrailCurrent ==
    \A i \in Incidents : (Filed(i) /\ ~Frozen(i) /\ incident[i].agent # NONE) =>
        LET resets == Rows(i, AgentActions \cup {"INCIDENT_REOPENED"})
            notes  == Rows(i, {"AGENT_AVAILABILITY_CHANGED"})
        IN \A k \in notes :
              /\ IsLastBefore(k, notes, Len(history[i]) + 1)
              /\ \A m \in resets : m < k
              => history[i][k].new = AvailabilityWord(available[incident[i].agent])

(***************************************************************************)
(* The workflow implements module Accounts: whatever is done to incidents  *)
(* and whatever agents switch, accounts change in the audited ways only.   *)
(***************************************************************************)
ImplementsAccounts == Spec
=============================================================================
