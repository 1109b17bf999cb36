--------------------------- MODULE IncidentRules ---------------------------
(***************************************************************************)
(* The policy tables and pure functions of the incident lifecycle:         *)
(* app/models/incident.py and the helpers of                               *)
(* app/services/incident_service.py that read no database row.             *)
(*                                                                         *)
(* Time is counted in hours.  A deadline is an absolute hour; NONE stands  *)
(* for SQL NULL.                                                           *)
(***************************************************************************)
EXTENDS Integers

CONSTANT NONE   \* SQL NULL / Python None

Statuses   == {"REPORTED", "TRIAGED", "ASSIGNED", "IN_PROGRESS", "RESOLVED", "CLOSED"}
Priorities == {"P1", "P2", "P3", "P4"}
Verdicts   == {"ON_TRACK", "AT_RISK", "BREACHED"}
Roles      == {"USER", "AGENT", "ADMIN"}
Categories == {"POTHOLE", "FLOOD", "FIRE_HAZARD", "GARBAGE", "STREETLIGHT", "OTHER"}

\* Next statuses an administrator may choose.
VALID_TRANSITIONS ==
    [REPORTED    |-> {"TRIAGED", "ASSIGNED", "CLOSED"},
     TRIAGED     |-> {"ASSIGNED", "CLOSED"},
     ASSIGNED    |-> {"IN_PROGRESS", "TRIAGED", "CLOSED"},
     IN_PROGRESS |-> {"RESOLVED", "ASSIGNED"},
     RESOLVED    |-> {"CLOSED", "IN_PROGRESS"},
     CLOSED      |-> {}]

\* Next statuses the assigned agent may choose; the dict's missing keys mean {}.
AGENT_TRANSITIONS ==
    [s \in Statuses |-> CASE s = "ASSIGNED"    -> {"IN_PROGRESS"}
                          [] s = "IN_PROGRESS" -> {"RESOLVED"}
                          [] OTHER             -> {}]

\* The statuses that stop the SLA clock.
SLA_FREEZE_STATUSES == {"RESOLVED", "CLOSED"}

DEFAULT_SLA_HOURS == [P1 |-> 4, P2 |-> 24, P3 |-> 72, P4 |-> 168]

CATEGORY_DEFAULT_PRIORITY ==
    [c \in Categories |-> CASE c = "FIRE_HAZARD" -> "P1"
                            [] c = "FLOOD"       -> "P2"
                            [] c = "GARBAGE"     -> "P4"
                            [] OTHER             -> "P3"]

\* The legal window sizes of an SLAUpdate request (one hour to one year).
SlaHours == 1 .. 8760

(***************************************************************************)
(* _compute_sla_status: BREACHED from the deadline on, AT_RISK in the last *)
(* fifth of the window (or the last two hours when the window's size is    *)
(* unknown), ON_TRACK before.  The comparison with 20% is kept in integers.*)
(***************************************************************************)
SlaVerdict(deadline, hours, t) ==
    IF deadline = NONE THEN NONE
    ELSE IF t >= deadline THEN "BREACHED"
    ELSE IF IF hours = NONE THEN deadline - t < 2
                            ELSE 5 * (deadline - t) < hours
         THEN "AT_RISK"
         ELSE "ON_TRACK"

\* MUTANT: only leaving CLOSED counts as a reopening
StatusAction_ClosedOnly(old, new) ==
    IF old = "CLOSED" /\ new \notin SLA_FREEZE_STATUSES
    THEN "INCIDENT_REOPENED"
    ELSE CASE new = "TRIAGED"  -> "INCIDENT_TRIAGED"
           [] new = "RESOLVED" -> "INCIDENT_RESOLVED"
           [] new = "CLOSED"   -> "INCIDENT_CLOSED"
           [] OTHER            -> "STATUS_CHANGED"

\* The label _record_status_change gives a move from old to new.
StatusAction(old, new) ==
    IF old \in SLA_FREEZE_STATUSES /\ new \notin SLA_FREEZE_STATUSES
    THEN "INCIDENT_REOPENED"
    ELSE CASE new = "TRIAGED"  -> "INCIDENT_TRIAGED"
           [] new = "RESOLVED" -> "INCIDENT_RESOLVED"
           [] new = "CLOSED"   -> "INCIDENT_CLOSED"
           [] OTHER            -> "STATUS_CHANGED"

(***************************************************************************)
(* The families of history actions, by the column they speak about.        *)
(***************************************************************************)
StatusActions   == {"INCIDENT_CREATED", "INCIDENT_TRIAGED", "STATUS_CHANGED",
                    "INCIDENT_RESOLVED", "INCIDENT_CLOSED", "INCIDENT_REOPENED"}
AgentActions    == {"AGENT_ASSIGNED", "AGENT_REASSIGNED", "AGENT_UNASSIGNED"}
SlaActions      == {"SLA_CREATED", "SLA_UPDATED"}
PriorityActions == {"PRIORITY_CHANGED"}
OtherActions    == {"AGENT_AVAILABILITY_CHANGED", "IMAGE_ADDED", "ADMIN_OVERRIDE"}
HistoryActions  == StatusActions \cup AgentActions \cup SlaActions
                     \cup PriorityActions \cup OtherActions
=============================================================================
