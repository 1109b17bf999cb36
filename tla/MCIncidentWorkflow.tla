------------------------- MODULE MCIncidentWorkflow -------------------------
(***************************************************************************)
(* Instances of IncidentWorkflow for TLC: an administrator and one or two  *)
(* agents.                                                                 *)
(***************************************************************************)
EXTENDS IncidentWorkflow, TLC

CONSTANTS adm, ag1, ag2, i1

\* one administrator, two agents
Crew     == {adm, ag1, ag2}
CrewSeed == [u \in Crew |-> IF u = adm THEN "ADMIN" ELSE "AGENT"]

\* one administrator, one agent
Pair     == {adm, ag1}
PairSeed == [u \in Pair |-> IF u = adm THEN "ADMIN" ELSE "AGENT"]

OneIncident == {i1}
NoScripts   == {}

\* Before and at the end of a one-hour window.
ShortDay == {0, 1}

FireOnly  == {"FIRE_HAZARD"}
P1P2      == {"P1", "P2"}
OneHour   == {1}

AgentSymmetry == Permutations({ag1, ag2})

(***************************************************************************)
(* What is left to tell two trails apart: how long they are, how each      *)
(* family of entries ends, when the work was last finished and whether it  *)
(* was reopened since, the last word on the agent's availability if        *)
(* nothing reset it.  No guard reads more, and whether an invariant about  *)
(* the trail holds after the next entry depends on nothing else; whether   *)
(* it holds now is part of the view, so that no state that violates one is *)
(* taken for one that does not.                                            *)
(***************************************************************************)
LastNew(i, S) == {history[i][k].new : k \in {j \in S : \A m \in S : m <= j}}

TrailEnd(i) ==
    LET notes  == Rows(i, {"AGENT_AVAILABILITY_CHANGED"})
        resets == Rows(i, AgentActions \cup {"INCIDENT_REOPENED"})
    IN <<Len(history[i]),
         LastNew(i, Rows(i, StatusActions)), LastNew(i, Rows(i, AgentActions)),
         LastNew(i, Rows(i, SlaActions)), LastNew(i, Rows(i, PriorityActions)),
         IF FinishRows(i) = {} THEN NONE ELSE FinishedAt(i),
         \A j \in FinishRows(i) : \E m \in Rows(i, {"INCIDENT_REOPENED"}) : j < m,
         LastNew(i, {k \in notes : \A m \in resets : m < k})>>

TrailSound ==
    TrailIsAChain /\ AgentsMoveOnlyTheirOwnWork /\ ReworkIsRecorded /\ ProofFollowsResolution

\* Of the account audit only the length counts: MaxAudit bounds it.
WorkflowView ==
    <<role, active, Len(audit), agentVars, incident, now,
      [i \in Incidents |-> TrailEnd(i)], WorkflowTypeOK, TrailSound>>
=============================================================================
