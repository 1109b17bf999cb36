---------------------------- MODULE RequestRaces ----------------------------
(***************************************************************************)
(* The requests on one incident taken apart.  Each runs in its own session *)
(* and READ COMMITTED transaction, without a lock or a version column:     *)
(*   Load    the handler reads the caller and the incident and tests its   *)
(*           guard on them,                                                *)
(*   Stage   it inserts its first history entry, which takes its id now,   *)
(*   Commit  the columns it changed are written over the row as it is by   *)
(*           then, its other entries are inserted, and all become visible. *)
(*                                                                         *)
(* The session flushes incident_history before incidents (unit-of-work     *)
(* order, no relationship between the two), so an id is taken before the   *)
(* row lock is: ids need not follow the order of the commits.              *)
(*                                                                         *)
(* Reports and the availability switch stay single steps.  Accounts do not *)
(* change here and the clock stands still: the README says what that       *)
(* leaves out.                                                             *)
(***************************************************************************)
EXTENDS IncidentWorkflow, SequencesExt

CONSTANTS
    Requests,   \* request slots: how many requests overlap
    Kinds       \* bound: the kinds of request that are taken apart

ASSUME RequestsAssumption ==
    /\ Requests # {}
    /\ Kinds \subseteq {"status", "assign", "unassign", "sla", "priority", "proof"}

VARIABLE req   \* the request in each slot, Idle when there is none

racesVars == <<role, active, audit, available, lastAssigned, incident, history, now, req>>

Idle == [step |-> "idle"]

StagedOn(i) == {r \in Requests : req[r].step = "staged" /\ req[r].incident = i}

(***************************************************************************)
(* A staged request has its place in the id order of the history: after    *)
(* `place` entries that are committed and after the entries of the         *)
(* requests in `behind`, which are not yet.                                *)
(***************************************************************************)
Staged(q) ==
    /\ q.place \in 0 .. Len(history[q.incident])
    /\ q.behind \subseteq StagedOn(q.incident)
    /\ \A s \in q.behind : req[s].place <= q.place /\ req[s].behind \subseteq q.behind
    /\ DOMAIN q.set \subseteq DOMAIN incident[q.incident]

\* Types, and the order of the staged requests agrees with their places.
RacesTypeOK ==
    /\ WorkflowTypeOK
    /\ DOMAIN req = Requests
    /\ \A r \in Requests :
          /\ req[r].step \in {"idle", "loaded", "staged"}
          /\ req[r].step = "staged" => Staged(req[r]) /\ r \notin req[r].behind

RacesInit ==
    /\ WorkflowInit
    /\ req = [r \in Requests |-> Idle]

-----------------------------------------------------------------------------
\* The tests of a request on its caller and on the row it loaded.
Admitted(q, row) ==
    CASE q.kind = "status" -> MayMove(q.user, row, q.arg)
      [] q.kind = "proof"  -> MayProve(q.user, row)
      [] OTHER             -> role[q.user] = "ADMIN"

PlanOf(q, row) ==
    CASE q.kind = "status"   -> StatusPlan(q.user, row, q.arg)
      [] q.kind = "assign"   -> AssignPlan(q.user, row, q.arg)
      [] q.kind = "unassign" -> UnassignPlan(q.user, row)
      [] q.kind = "sla"      -> SlaPlan(q.user, row, q.arg)
      [] q.kind = "priority" -> PriorityPlan(q.user, row, q.arg)
      [] q.kind = "proof"    -> ProofPlan(q.user, row)

\* A request that is refused changes nothing, so its Load is not a step.
Load(r, u, i, kind, arg, override) ==
    LET q == [step |-> "loaded", user |-> u, incident |-> i, kind |-> kind,
              arg |-> arg, override |-> override, row |-> incident[i]]
    IN
    /\ req[r].step = "idle"
    /\ kind \in Kinds
    /\ Authenticated(u)
    /\ Filed(i)
    /\ Admitted(q, Enriched(incident[i]))
    /\ req' = [req EXCEPT ![r] = q]
    /\ UNCHANGED workflowVars

\* MUTANT: the UPDATE writes every column, as it was loaded or planned
SetClause_WholeRow(loaded, planned) == planned

\* The SET clause of the UPDATE: the columns whose value is not the loaded one
SetClause(loaded, planned) ==
    [c \in {c \in DOMAIN loaded : planned[c] # loaded[c]} |-> planned[c]]

\* assign_agent reads the agent's row here, after it loaded the incident.
Stage(r) ==
    LET q    == req[r]
        plan == PlanOf(q, Enriched(q.row))
    IN
    /\ q.step = "loaded"
    /\ q.kind = "assign" => MayHold(q.arg, q.override)
    /\ req' = [req EXCEPT ![r] =
                 [step |-> "staged", incident |-> q.incident,
                  set |-> SetClause(q.row, plan.row), entries |-> plan.entries,
                  agent |-> IF q.kind = "assign" THEN q.arg ELSE NONE,
                  place |-> Len(history[q.incident]), behind |-> StagedOn(q.incident)]]
    /\ UNCHANGED workflowVars

\* The slots once r is done and put `inserted` entries in its place.
Released(r, inserted) ==
    [s \in Requests |->
        IF s = r THEN Idle
        ELSE IF req[s].step = "staged" /\ r \in req[s].behind
        THEN [req[s] EXCEPT !.behind = @ \ {r}, !.place = @ + inserted]
        ELSE req[s]]

\* The first entry goes where its id was taken, the others get the next ids.
Commit(r) ==
    LET q == req[r]
        i == q.incident
    IN
    /\ q.step = "staged"
    /\ Len(history[i]) + Len(q.entries) <= MaxHistory
    /\ incident' = [incident EXCEPT ![i] =
                      [c \in DOMAIN @ |-> IF c \in DOMAIN q.set THEN q.set[c] ELSE @[c]]]
    /\ history' = [history EXCEPT ![i] =
                     IF q.entries = <<>> THEN @
                     ELSE InsertAt(@, q.place + 1, Head(q.entries)) \o Tail(q.entries)]
    /\ lastAssigned' = IF q.agent = NONE THEN lastAssigned
                       ELSE [lastAssigned EXCEPT ![q.agent] = now]
    /\ req' = Released(r, IF q.entries = <<>> THEN 0 ELSE 1)
    /\ UNCHANGED <<accountVars, available, now>>

\* The session is rolled back by an error, or the agent is refused.
Abandon(r) ==
    /\ req[r].step # "idle"
    /\ req' = Released(r, 0)
    /\ UNCHANGED workflowVars

\* The requests left whole need a slot too.
Atomic(A) ==
    /\ \E r \in Requests : req[r].step = "idle"
    /\ A
    /\ UNCHANGED req

RacesNext ==
    \/ \E r \in Requests, u \in Users, i \in Incidents :
          \/ \E s \in Statuses : Load(r, u, i, "status", s, FALSE)
          \/ \E a \in Users, f \in BOOLEAN : Load(r, u, i, "assign", a, f)
          \/ Load(r, u, i, "unassign", NONE, FALSE)
          \/ \E h \in SlaChoices \cup {NONE} : Load(r, u, i, "sla", h, FALSE)
          \/ \E p \in PriorityChoices : Load(r, u, i, "priority", p, FALSE)
          \/ Load(r, u, i, "proof", NONE, FALSE)
    \/ \E r \in Requests : Stage(r)
    \/ \E r \in Requests : Commit(r)
    \/ \E r \in Requests : Abandon(r)
    \/ \E u \in Users, i \in Incidents, c \in CategoryChoices,
          a \in Users \cup {NONE}, n \in 0 .. MaxPhotos : Atomic(CreateIncident(u, i, c, a, n))
    \/ \E u, a \in Users, f \in BOOLEAN : Atomic(SetAvailability(u, a, f))

RacesSpec == RacesInit /\ [][RacesNext]_racesVars

-----------------------------------------------------------------------------
(***************************************************************************)
(* Requests that never overlap implement module IncidentWorkflow: Load and *)
(* Stage change nothing, Commit is the whole handler.  (Proved for one     *)
(* slot.)                                                                  *)
(***************************************************************************)
ImplementsWorkflow == WorkflowSpec

(***************************************************************************)
(* However requests overlap, an agent's entry (a move or a proof of work)  *)
(* comes after an entry that gave the incident to that agent: the          *)
(* ownership test reads a committed row, and the row was committed with    *)
(* its assignment entry.  And the state is typed.                          *)
(***************************************************************************)
AgentEntriesBacked ==
    /\ RacesTypeOK
    /\ \A i \in Incidents : \A k \in DOMAIN history[i] :
        LET e == history[i][k] IN
        (e.by = "AGENT" /\ (\/ e.action \in StatusActions \ {"INCIDENT_CREATED"}
                            \/ e.action = "IMAGE_ADDED" /\ e.new = "RESOLUTION")) =>
            \E j \in Rows(i, AgentActions) : j < k /\ history[i][j].new = e.actor

\* How many entries of a history give a column of one family this value.
Announced(entries, actions, value) ==
    Cardinality({k \in DOMAIN entries :
                    entries[k].action \in actions /\ entries[k].new = value})

(***************************************************************************)
(* No overlap loses an update silently: whenever the status, the agent,    *)
(* the window or the priority of an incident changes, an entry committed   *)
(* with the change announces the new value.  So a request never puts back  *)
(* a column it only read, although it works on a stale row.                *)
(***************************************************************************)
ChangesAreAnnounced ==
    [][\A i \in Incidents : Filed(i) =>
          \A family \in {<<"status", StatusActions>>, <<"agent", AgentActions>>,
                         <<"hours", SlaActions>>, <<"priority", PriorityActions>>} :
              LET c == family[1]
                  actions == family[2]
              IN incident'[i][c] # incident[i][c] =>
                    Announced(history'[i], actions, incident'[i][c])
                        > Announced(history[i], actions, incident'[i][c])]_racesVars

(***************************************************************************)
(* TERMINAL_STATUSES again: an incident whose trail records that it was    *)
(* closed is closed.  It holds of requests that do not overlap; a request  *)
(* that loaded the incident before it was closed and commits afterwards    *)
(* writes its own status over CLOSED.                                      *)
(***************************************************************************)
ClosedStaysClosed ==
    \A i \in Incidents :
        Rows(i, {"INCIDENT_CLOSED"}) # {} => incident[i].status = "CLOSED"
=============================================================================
