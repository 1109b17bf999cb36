------------------------- MODULE RequestRacesProofs -------------------------
(***************************************************************************)
(* Requests on the same incident, for any constants.                       *)
(*                                                                         *)
(* Requests that do not overlap implement IncidentWorkflow: a loaded row   *)
(* is then still the committed one (SlotsCurrent).                         *)
(*                                                                         *)
(* Requests that overlap lose that, and the columns of the row with it,    *)
(* but not the reason an agent may act: OverlapInv, in the second half,    *)
(* says of every slot and every history what stays true of a stale row.    *)
(***************************************************************************)
EXTENDS RequestRaces, IncidentWorkflowProofs, FiniteSetTheorems

\* Requests do not overlap.
OneSlot == \A r, s \in Requests : r = s

\* What a request may ask for.
Legal(q) ==
    /\ q.user \in Users /\ q.incident \in Incidents
    /\ q.kind \in {"status", "assign", "unassign", "sla", "priority", "proof"}
    /\ q.kind = "status"   => q.arg \in Statuses
    /\ q.kind = "assign"   => q.arg \in Users /\ q.override \in BOOLEAN
    /\ q.kind = "sla"      => q.arg \in SlaChoices \cup {NONE}
    /\ q.kind = "priority" => q.arg \in PriorityChoices

\* A loaded request whose row is still the committed one.
Current(q) ==
    /\ q.step = "loaded" /\ Legal(q)
    /\ Authenticated(q.user) /\ Filed(q.incident)
    /\ q.row = incident[q.incident]
    /\ Admitted(q, Enriched(q.row))

PlanFor(q) == PlanOf(q, Enriched(q.row))

\* A request whose plan is sound, on a row that may be stale.
Ready(q) ==
    /\ Legal(q) /\ Exists(q.user)
    /\ q.row \in Row
    /\ Admitted(q, Enriched(q.row))

\* What Stage makes of q when no other request is staged.
StagedFrom(q) ==
    [step |-> "staged", incident |-> q.incident,
     set |-> SetClause(q.row, PlanFor(q).row), entries |-> PlanFor(q).entries,
     agent |-> IF q.kind = "assign" THEN q.arg ELSE NONE,
     place |-> Len(history[q.incident]), behind |-> {}]

(***************************************************************************)
(* What the only request has read, and what it planned from that, is still *)
(* so: nothing else runs before it ends.                                   *)
(***************************************************************************)
StagedAs(r, q) ==
    /\ Current(q)
    /\ q.kind = "assign" => MayHold(q.arg, q.override)
    /\ req[r] = StagedFrom(q)

SlotCurrent(r) ==
    \/ req[r] = Idle
    \/ Current(req[r])
    \/ \E q : StagedAs(r, q)

SlotsCurrent ==
    /\ DOMAIN req = Requests
    /\ \A r \in Requests : SlotCurrent(r)

-----------------------------------------------------------------------------
LEMMA AppendAtEnd ==
    ASSUME NEW S, NEW s \in Seq(S), NEW t \in Seq(S), t # <<>>
    PROVE  InsertAt(s, Len(s) + 1, Head(t)) \o Tail(t) = s \o t
<1> DEFINE e == Head(t)
           u == InsertAt(s, Len(s) + 1, e)
<1>1. e \in S /\ Tail(t) \in Seq(S)
  OBVIOUS
<1>2. t = <<e>> \o Tail(t)
  <2>1. <<e>> \o Tail(t) \in Seq(S) /\ Len(<<e>> \o Tail(t)) = Len(t)
    BY <1>1
  <2>2. \A k \in 1 .. Len(t) : t[k] = (<<e>> \o Tail(t))[k]
    OBVIOUS
  <2> QED
    BY <2>1, <2>2, SeqEqual
<1>3. u = s \o <<e>>
  <2>1. SubSeq(s, 1, Len(s)) = s
    OBVIOUS
  <2>2. SubSeq(s, Len(s) + 1, Len(s)) = <<>>
    OBVIOUS
  <2>3. Len(s) + 1 - 1 = Len(s)
    OBVIOUS
  <2>4. u = SubSeq(s, 1, Len(s)) \o <<e>> \o SubSeq(s, Len(s) + 1, Len(s))
    BY <2>3 DEF InsertAt
  <2>5. s \o <<e>> \in Seq(S)
    BY <1>1
  <2>6. (s \o <<e>>) \o <<>> = s \o <<e>>
    BY <2>5
  <2> QED
    BY <2>1, <2>2, <2>4, <2>6
<1>4. (s \o <<e>>) \o Tail(t) = s \o (<<e>> \o Tail(t))
  <2>1. <<e>> \in Seq(S)
    BY <1>1
  <2> QED
    BY <1>1, <2>1, ConcatAssociative
<1> QED
  BY <1>2, <1>3, <1>4

\* The UPDATE of the changed columns leaves the planned row.
LEMMA SetClauseWrites ==
    ASSUME NEW row \in Row, NEW new \in Row
    PROVE  [c \in DOMAIN row |-> IF c \in DOMAIN SetClause(row, new)
                                 THEN SetClause(row, new)[c] ELSE row[c]] = new
<1>1. DOMAIN row = DOMAIN new
  BY DEF Row
<1>2. new = [c \in DOMAIN new |-> new[c]]
  BY DEF Row
<1>3. DOMAIN SetClause(row, new) = {c \in DOMAIN row : new[c] # row[c]}
  BY DEF SetClause
<1>4. \A c \in DOMAIN SetClause(row, new) : SetClause(row, new)[c] = new[c]
  BY DEF SetClause
<1> QED
  BY <1>1, <1>2, <1>3, <1>4

LEMMA CurrentReady ==
    ASSUME TypeInv, NEW q, Current(q)
    PROVE  Ready(q)
  BY DEF Current, Legal, TypeInv, Filed, Ready, Authenticated

LEMMA PlanIsSound ==
    ASSUME TypeInv, NEW q, Ready(q)
    PROVE  Sound(Enriched(q.row), PlanFor(q))
<1>1. /\ q.row \in Row /\ Enriched(q.row) \in Row
      /\ q.user \in Users /\ Exists(q.user)
  BY EnrichedRow DEF Ready, Legal, TypeInv
<1>2. CASE q.kind = "status"
  BY <1>1, <1>2, StatusPlanSound DEF Ready, Legal, Admitted, PlanFor, PlanOf
<1>3. CASE q.kind = "assign"
  BY <1>1, <1>3, AssignPlanSound DEF Ready, Legal, PlanFor, PlanOf
<1>4. CASE q.kind = "unassign"
  BY <1>1, <1>4, UnassignPlanSound DEF PlanFor, PlanOf
<1>5. CASE q.kind = "sla"
  <2>1. q.arg \in SlaHours \cup {NONE}
    BY <1>5, WorkflowAssumption DEF Ready, Legal
  <2> QED
    BY <1>1, <1>5, <2>1, SlaPlanSound DEF PlanFor, PlanOf
<1>6. CASE q.kind = "priority"
  <2>1. q.arg \in Priorities
    BY <1>6, WorkflowAssumption DEF Ready, Legal
  <2> QED
    BY <1>1, <1>6, <2>1, PriorityPlanSound DEF PlanFor, PlanOf
<1>7. CASE q.kind = "proof"
  BY <1>1, <1>7, ProofPlanSound DEF PlanFor, PlanOf
<1> QED
  BY <1>1, <1>2, <1>3, <1>4, <1>5, <1>6, <1>7 DEF Ready, Legal

-----------------------------------------------------------------------------
LEMMA CommitCarriesOut ==
    ASSUME TypeInv, NEW q, Current(q), NEW r \in Requests, req[r] = StagedFrom(q), Commit(r)
    PROVE  /\ CarryOut(q.incident, PlanFor(q))
           /\ lastAssigned' = IF q.kind = "assign" THEN [lastAssigned EXCEPT ![q.arg] = now]
                                                   ELSE lastAssigned
           /\ UNCHANGED <<accountVars, available, now>>
<1> DEFINE i    == q.incident
           p    == req[r]
           plan == PlanFor(q)
<1>1. /\ i \in Incidents /\ q.row = incident[i] /\ q.row \in Row
      /\ plan.row \in Row /\ plan.entries \in Seq(Event)
      /\ history[i] \in Seq(Event)
      /\ q.kind = "assign" => q.arg \in Users
  BY PlanIsSound, CurrentReady DEF Sound, Ready, Current, Legal, TypeInv
<1>2. /\ p.incident = i /\ p.set = SetClause(incident[i], plan.row) /\ p.entries = plan.entries
      /\ p.agent = (IF q.kind = "assign" THEN q.arg ELSE NONE)
      /\ p.place = Len(history[i])
  BY <1>1 DEF StagedFrom
<1>3. /\ Len(history[i]) + Len(p.entries) <= MaxHistory
      /\ incident' = [incident EXCEPT ![i] =
                        [c \in DOMAIN incident[i] |->
                           IF c \in DOMAIN p.set THEN p.set[c] ELSE incident[i][c]]]
      /\ history' = [history EXCEPT ![i] =
                       IF p.entries = <<>> THEN history[i]
                       ELSE InsertAt(history[i], p.place + 1, Head(p.entries)) \o Tail(p.entries)]
      /\ lastAssigned' = IF p.agent = NONE THEN lastAssigned
                         ELSE [lastAssigned EXCEPT ![p.agent] = now]
      /\ UNCHANGED <<accountVars, available, now>>
  BY <1>2 DEF Commit
<1> HIDE DEF p, plan
<1>4. incident' = [incident EXCEPT ![i] = plan.row]
  <2>1. [c \in DOMAIN incident[i] |->
           IF c \in DOMAIN p.set THEN p.set[c] ELSE incident[i][c]] = plan.row
    BY <1>1, <1>2, SetClauseWrites
  <2> QED
    BY <1>3, <2>1
<1>5. history' = [history EXCEPT ![i] = history[i] \o plan.entries]
  <2>1. CASE plan.entries = <<>>
    <3>1. history[i] \o plan.entries = history[i]
      BY <1>1, <2>1, SMTT(60)
    <3> QED
      BY <1>2, <1>3, <2>1, <3>1
  <2>2. CASE plan.entries # <<>>
    <3>1. InsertAt(history[i], p.place + 1, Head(p.entries)) \o Tail(p.entries)
            = history[i] \o plan.entries
      BY <1>1, <1>2, <2>2, AppendAtEnd
    <3> QED
      BY <1>2, <1>3, <2>2, <3>1
  <2> QED
    BY <2>1, <2>2
<1>6. lastAssigned' = IF q.kind = "assign" THEN [lastAssigned EXCEPT ![q.arg] = now]
                                           ELSE lastAssigned
  BY <1>1, <1>2, <1>3, AccountsAssumption
<1> QED
  BY <1>2, <1>3, <1>4, <1>5, <1>6 DEF CarryOut, RecordAll, plan

\* A commit is the whole handler.
LEMMA CommitIsAtomic ==
    ASSUME TypeInv, NEW q, Current(q), NEW r \in Requests, req[r] = StagedFrom(q), Commit(r),
           q.kind = "assign" => MayHold(q.arg, q.override)
    PROVE  WorkflowNext
<1> DEFINE u == q.user
           i == q.incident
           row == Enriched(incident[i])
<1>1. /\ CarryOut(i, PlanFor(q))
      /\ lastAssigned' = IF q.kind = "assign" THEN [lastAssigned EXCEPT ![q.arg] = now]
                                              ELSE lastAssigned
      /\ UNCHANGED <<accountVars, available, now>>
  BY CommitCarriesOut
<1>2. /\ u \in Users /\ i \in Incidents /\ Authenticated(u) /\ Filed(i) /\ Admitted(q, row)
      /\ PlanFor(q) = PlanOf(q, row)
  BY DEF Current, Legal, PlanFor
<1> HIDE DEF u, i, row
<1>3. CASE q.kind = "status"
  <2>1. UpdateStatus(u, i, q.arg)
    BY <1>1, <1>2, <1>3 DEF UpdateStatus, Admitted, PlanOf, agentVars, u, row
  <2> QED
    BY <1>2, <1>3, <2>1 DEF WorkflowNext, Current, Legal
<1>4. CASE q.kind = "assign"
  <2>1. AssignAgent(u, i, q.arg, q.override)
    BY <1>1, <1>2, <1>4 DEF AssignAgent, RequireAdmin, Admitted, PlanOf, u, row
  <2> QED
    BY <1>2, <1>4, <2>1 DEF WorkflowNext, Current, Legal
<1>5. CASE q.kind = "unassign"
  <2>1. UnassignAgent(u, i)
    BY <1>1, <1>2, <1>5 DEF UnassignAgent, RequireAdmin, Admitted, PlanOf, agentVars, u, row
  <2> QED
    BY <1>2, <2>1 DEF WorkflowNext
<1>6. CASE q.kind = "sla"
  <2>1. UpdateSla(u, i, q.arg)
    BY <1>1, <1>2, <1>6 DEF UpdateSla, RequireAdmin, Admitted, PlanOf, agentVars, u, row
  <2> QED
    BY <1>2, <1>6, <2>1 DEF WorkflowNext, Current, Legal
<1>7. CASE q.kind = "priority"
  <2>1. UpdatePriority(u, i, q.arg)
    BY <1>1, <1>2, <1>7 DEF UpdatePriority, RequireAdmin, Admitted, PlanOf, agentVars, u, row
  <2> QED
    BY <1>2, <1>7, <2>1 DEF WorkflowNext, Current, Legal
<1>8. CASE q.kind = "proof"
  <2>1. UploadResolutionImage(u, i)
    BY <1>1, <1>2, <1>8 DEF UploadResolutionImage, Admitted, PlanOf, agentVars, u, row
  <2> QED
    BY <1>2, <2>1 DEF WorkflowNext
<1> QED
  BY <1>3, <1>4, <1>5, <1>6, <1>7, <1>8 DEF Current, Legal

-----------------------------------------------------------------------------
\* A slot that is current, by its step.
LEMMA SlotCases ==
    ASSUME NEW r \in Requests, SlotCurrent(r)
    PROVE  /\ req[r].step = "idle" => req[r] = Idle
           /\ req[r].step = "loaded" => Current(req[r])
           /\ req[r].step = "staged" => \E q : StagedAs(r, q)
<1>1. ASSUME NEW q, StagedAs(r, q) PROVE req[r].step = "staged"
  BY <1>1 DEF StagedAs, StagedFrom
<1>2. Current(req[r]) => req[r].step = "loaded"
  BY DEF Current
<1>3. req[r] = Idle => req[r].step = "idle"
  BY DEF Idle
<1> QED
  BY <1>1, <1>2, <1>3 DEF SlotCurrent

\* A commit or any other step of one slot is a workflow step.
LEMMA SerialStep ==
    ASSUME TypeInv, SlotsCurrent, [RacesNext]_racesVars
    PROVE  [WorkflowNext]_workflowVars
<1>1. ASSUME NEW r \in Requests, Commit(r) PROVE WorkflowNext
  <2>1. req[r].step = "staged" /\ SlotCurrent(r)
    BY <1>1 DEF Commit, SlotsCurrent
  <2>2. PICK q : StagedAs(r, q)
    BY <2>1, SlotCases
  <2> QED
    BY <1>1, <2>2, CommitIsAtomic DEF StagedAs
<1>2. ASSUME NEW u \in Users, NEW i \in Incidents, NEW c \in CategoryChoices,
             NEW a \in Users \cup {NONE}, NEW n \in 0 .. MaxPhotos, CreateIncident(u, i, c, a, n)
      PROVE  WorkflowNext
  BY <1>2 DEF WorkflowNext
<1>3. ASSUME NEW u \in Users, NEW a \in Users, NEW f \in BOOLEAN, SetAvailability(u, a, f)
      PROVE  WorkflowNext
  BY <1>3 DEF WorkflowNext
<1>4. ASSUME NEW r \in Requests, Stage(r) \/ Abandon(r) PROVE UNCHANGED workflowVars
  BY <1>4 DEF Stage, Abandon
<1>5. ASSUME NEW r, NEW u, NEW i, NEW kind, NEW arg, NEW o, Load(r, u, i, kind, arg, o)
      PROVE  UNCHANGED workflowVars
  BY <1>5 DEF Load
<1>6. CASE UNCHANGED racesVars
  BY <1>6 DEF racesVars, workflowVars, accountVars, agentVars
<1> QED
  BY <1>1, <1>2, <1>3, <1>4, <1>5, <1>6 DEF RacesNext, Atomic

-----------------------------------------------------------------------------
\* A loaded request is current, on the row it has just read.
LEMMA LoadCurrent ==
    ASSUME DOMAIN req = Requests, NEW r \in Requests, NEW u \in Users, NEW i \in Incidents,
           NEW kind, NEW arg, NEW o, Load(r, u, i, kind, arg, o),
           kind = "status"   => arg \in Statuses,
           kind = "assign"   => arg \in Users /\ o \in BOOLEAN,
           kind = "sla"      => arg \in SlaChoices \cup {NONE},
           kind = "priority" => arg \in PriorityChoices
    PROVE  Current(req'[r])
<1> DEFINE q == [step |-> "loaded", user |-> u, incident |-> i, kind |-> kind,
                 arg |-> arg, override |-> o, row |-> incident[i]]
<1>1. /\ req' = [req EXCEPT ![r] = q] /\ kind \in Kinds
      /\ Authenticated(u) /\ Filed(i) /\ Admitted(q, Enriched(incident[i]))
  BY DEF Load
<1>2. /\ q.step = "loaded" /\ q.user = u /\ q.incident = i /\ q.kind = kind /\ q.arg = arg
      /\ q.override = o /\ q.row = incident[i]
  OBVIOUS
<1> HIDE DEF q
<1>3. kind \in {"status", "assign", "unassign", "sla", "priority", "proof"}
  BY <1>1, RequestsAssumption
<1>4. Current(q)
  BY <1>1, <1>2, <1>3 DEF Current, Legal
<1> QED
  BY <1>1, <1>4

\* What is current stays so while the workflow's variables do.
LEMMA CurrentStays ==
    ASSUME UNCHANGED workflowVars, NEW q, Current(q)
    PROVE  Current(q)'
  BY DEF Current, workflowVars, accountVars, agentVars, Filed, Authenticated, Exists, Admitted,
         Enriched, Judged, SlaVerdict, MayMove, MayProve, Legal

LEMMA PlanStays ==
    ASSUME UNCHANGED workflowVars, NEW q
    PROVE  PlanFor(q)' = PlanFor(q)
  BY DEF workflowVars, accountVars, agentVars, PlanFor, PlanOf, Enriched, Judged, SlaVerdict,
         StatusPlan, AssignPlan, UnassignPlan, SlaPlan, PriorityPlan, ProofPlan, Plan,
         StatusEntry, StatusAction, When, Entry, WithWindow

\* A staged request and its agent stay as they are with the workflow's variables.
LEMMA StagedStays ==
    ASSUME UNCHANGED workflowVars, NEW q
    PROVE  /\ StagedFrom(q)' = StagedFrom(q)
           /\ MayHold(q.arg, q.override)' <=> MayHold(q.arg, q.override)
<1>1. PlanFor(q)' = PlanFor(q) /\ history' = history
  BY PlanStays DEF workflowVars
<1>2. StagedFrom(q)' = StagedFrom(q)
  BY <1>1 DEF StagedFrom, SetClause
<1> QED
  BY <1>2 DEF MayHold, workflowVars, accountVars, agentVars

LEMMA SlotStays ==
    ASSUME UNCHANGED workflowVars, UNCHANGED req, NEW r \in Requests, SlotCurrent(r)
    PROVE  SlotCurrent(r)'
<1>1. CASE req[r] = Idle
  BY <1>1 DEF SlotCurrent, Idle
<1>2. CASE Current(req[r])
  <2>1. PICK q : q = req[r]
    OBVIOUS
  <2>2. Current(q)'
    BY <1>2, <2>1, CurrentStays
  <2>3. Current(req[r])'
    BY <2>1, <2>2
  <2> QED
    BY <2>3 DEF SlotCurrent
<1>3. ASSUME NEW q, StagedAs(r, q) PROVE SlotCurrent(r)'
  <2>1. Current(q)'
    BY <1>3, CurrentStays DEF StagedAs
  <2>2. StagedAs(r, q)'
    BY <1>3, <2>1, StagedStays DEF StagedAs
  <2> QED
    BY <2>2 DEF SlotCurrent
<1> QED
  BY <1>1, <1>2, <1>3 DEF SlotCurrent

(***************************************************************************)
(* With one slot, every step leaves the slot current or idle.              *)
(***************************************************************************)
LEMMA SlotStep ==
    ASSUME OneSlot, TypeInv, SlotsCurrent, [RacesNext]_racesVars
    PROVE  SlotsCurrent'
<1> SUFFICES ASSUME NEW r \in Requests
             PROVE  DOMAIN req' = Requests /\ SlotCurrent(r)'
  <2>1. \E r \in Requests : TRUE
    BY RequestsAssumption
  <2> QED
    BY <2>1 DEF SlotsCurrent
<1>0. DOMAIN req = Requests /\ SlotCurrent(r) /\ \A s \in Requests : s = r
  BY DEF SlotsCurrent, OneSlot
<1>1. ASSUME NEW s \in Requests, Commit(s) \/ Abandon(s)
      PROVE  DOMAIN req' = Requests /\ SlotCurrent(r)'
  <2>1. s = r
    BY <1>0
  <2>2. \E n : req' = Released(s, n)
    BY <1>1 DEF Commit, Abandon
  <2>3. DOMAIN req' = Requests /\ req'[r] = Idle
    BY <2>1, <2>2 DEF Released
  <2> QED
    BY <2>3 DEF SlotCurrent, Idle
<1>2. ASSUME NEW s \in Requests, NEW u \in Users, NEW i \in Incidents,
             NEW kind, NEW arg, NEW o, Load(s, u, i, kind, arg, o),
             kind = "status"   => arg \in Statuses,
             kind = "assign"   => arg \in Users /\ o \in BOOLEAN,
             kind = "sla"      => arg \in SlaChoices \cup {NONE},
             kind = "priority" => arg \in PriorityChoices
      PROVE  DOMAIN req' = Requests /\ SlotCurrent(r)'
  <2>1. s = r
    BY <1>0
  <2>2. Current(req'[r])
    BY <1>0, <1>2, <2>1, LoadCurrent
  <2>3. UNCHANGED workflowVars /\ DOMAIN req' = Requests
    BY <1>0, <1>2 DEF Load
  <2>4. PICK q : q = req'[r]
    OBVIOUS
  <2>5. Current(q)'
    BY <2>2, <2>3, <2>4, CurrentStays
  <2>6. Current(req[r])'
    BY <2>4, <2>5
  <2> QED
    BY <2>3, <2>6 DEF SlotCurrent
<1>3. ASSUME NEW s \in Requests, Stage(s)
      PROVE  DOMAIN req' = Requests /\ SlotCurrent(r)'
  <2>1. PICK q : q = req[r]
    OBVIOUS
  <2>2. s = r /\ q.step = "loaded" /\ Current(q) /\ UNCHANGED workflowVars
    BY <1>0, <1>3, <2>1, SlotCases DEF Stage
  <2>3. StagedOn(q.incident) = {}
    BY <1>0, <2>1, <2>2 DEF StagedOn
  <2>4. /\ q.kind = "assign" => MayHold(q.arg, q.override)
        /\ req' = [req EXCEPT ![r] = StagedFrom(q)]
    BY <1>3, <2>1, <2>2, <2>3 DEF Stage, PlanFor, StagedFrom
  <2>5. DOMAIN req' = Requests /\ req'[r] = StagedFrom(q)
    BY <1>0, <2>4
  <2>6. StagedAs(r, q)'
    BY <2>2, <2>4, <2>5, CurrentStays, StagedStays DEF StagedAs
  <2> QED
    BY <2>5, <2>6 DEF SlotCurrent
<1>4. ASSUME NEW s \in Requests, req[s].step = "idle", UNCHANGED req
      PROVE  DOMAIN req' = Requests /\ SlotCurrent(r)'
  <2>1. req[r] = Idle
    BY <1>0, <1>4, SlotCases
  <2> QED
    BY <1>0, <1>4, <2>1 DEF SlotCurrent, Idle
<1>5. CASE UNCHANGED racesVars
  BY <1>0, <1>5, SlotStays DEF racesVars, workflowVars, accountVars, agentVars
<1>6. ASSUME NEW s \in Requests, NEW u \in Users, NEW i \in Incidents,
             \/ \E x \in Statuses : Load(s, u, i, "status", x, FALSE)
             \/ \E a \in Users, f \in BOOLEAN : Load(s, u, i, "assign", a, f)
             \/ Load(s, u, i, "unassign", NONE, FALSE)
             \/ \E h \in SlaChoices \cup {NONE} : Load(s, u, i, "sla", h, FALSE)
             \/ \E p \in PriorityChoices : Load(s, u, i, "priority", p, FALSE)
             \/ Load(s, u, i, "proof", NONE, FALSE)
      PROVE  DOMAIN req' = Requests /\ SlotCurrent(r)'
  BY <1>2, <1>6
<1>7. ASSUME RacesNext PROVE DOMAIN req' = Requests /\ SlotCurrent(r)'
  BY <1>1, <1>3, <1>4, <1>6, <1>7 DEF RacesNext, Atomic
<1> QED
  BY <1>5, <1>7

-----------------------------------------------------------------------------
(***************************************************************************)
(* Requests on incidents that do not overlap implement IncidentWorkflow,   *)
(* whatever its constants: load, flush and commit are the atomic handlers, *)
(* with the rows, the trail and its order, and the agents' last assignment.*)
(***************************************************************************)
THEOREM SerialImplementsWorkflow == ASSUME OneSlot PROVE RacesSpec => ImplementsWorkflow
<1>1. RacesInit => TypeInv /\ SlotsCurrent /\ WorkflowInit
  BY WorkflowInitType DEF RacesInit, SlotsCurrent, SlotCurrent, Idle
<1>2. TypeInv /\ SlotsCurrent /\ [RacesNext]_racesVars => [WorkflowNext]_workflowVars
  BY SerialStep
<1>3. TypeInv /\ SlotsCurrent /\ [RacesNext]_racesVars => TypeInv' /\ SlotsCurrent'
  BY SerialStep, SlotStep, WorkflowStep
<1> QED
  BY <1>1, <1>2, <1>3, PTL DEF RacesSpec, ImplementsWorkflow, WorkflowSpec

(***************************************************************************)
(* So without overlap CLOSED is never left, in the requests' separate      *)
(* steps too: what MCRequestClosed shows is the overlap's work alone.      *)
(***************************************************************************)
THEOREM SerialKeepsClosed == ASSUME OneSlot PROVE RacesSpec => ClosedIsTerminal
  BY SerialImplementsWorkflow, ClosedNeverLeft, PTL DEF ImplementsWorkflow

-----------------------------------------------------------------------------
(***************************************************************************)
(* Requests that overlap.  An agent's entry claims an incident; an entry   *)
(* of the agent family gives it.                                           *)
(***************************************************************************)
Claims(e) ==
    /\ e.by = "AGENT"
    /\ \/ e.action \in StatusActions \ {"INCIDENT_CREATED"}
       \/ e.action = "IMAGE_ADDED" /\ e.new = "RESOLUTION"

Gives(e, a) == e.action \in AgentActions /\ e.new = a

\* One of the first n entries of h gives the incident to a.
Given(h, n, a) == \E j \in DOMAIN h : j <= n /\ Gives(h[j], a)

\* Some entry of es gives the incident to a.
HasGift(es, a) == \E k \in DOMAIN es : Gives(es[k], a)

Backed(h) == \A k \in DOMAIN h : Claims(h[k]) => Given(h, k - 1, h[k].actor)

Columns == {"status", "agent", "priority", "hours", "deadline", "verdict", "created"}

ColumnsOK(set) ==
    /\ DOMAIN set \subseteq Columns
    /\ "status"   \in DOMAIN set => set["status"]   \in Statuses
    /\ "agent"    \in DOMAIN set => set["agent"]    \in Users \cup {NONE}
    /\ "priority" \in DOMAIN set => set["priority"] \in Priorities
    /\ "hours"    \in DOMAIN set => set["hours"]    \in SlaHours \cup {NONE}
    /\ "deadline" \in DOMAIN set => set["deadline"] \in Nat \cup {NONE}
    /\ "verdict"  \in DOMAIN set => set["verdict"]  \in Verdicts \cup {NONE}
    /\ "created"  \in DOMAIN set => set["created"]  \in Times

\* A loaded request: its row may be stale, but it was committed once, with
\* the entry that gave it its agent.
Loaded(q) ==
    /\ q.step = "loaded" /\ Legal(q)
    /\ Authenticated(q.user) /\ Filed(q.incident)
    /\ q.row \in Row
    /\ Admitted(q, Enriched(q.row))
    /\ q.row.agent # NONE =>
          Given(history[q.incident], Len(history[q.incident]), q.row.agent)

\* A staged request: what its entries claim was given before its place, and
\* an agent it writes is given by an entry of its own.
Pending(q) ==
    /\ DOMAIN q = {"step", "incident", "set", "entries", "agent", "place", "behind"}
    /\ q.step = "staged"
    /\ q.incident \in Incidents /\ Filed(q.incident)
    /\ q.entries \in Seq(Event)
    /\ ColumnsOK(q.set)
    /\ q.agent \in Users \cup {NONE}
    /\ q.place \in 0 .. Len(history[q.incident])
    /\ \A k \in DOMAIN q.entries :
          Claims(q.entries[k]) => Given(history[q.incident], q.place, q.entries[k].actor)
    /\ ("agent" \in DOMAIN q.set /\ q.set["agent"] # NONE) =>
          HasGift(q.entries, q.set["agent"])

SlotSound(r) == req[r] = Idle \/ Loaded(req[r]) \/ Pending(req[r])

(***************************************************************************)
(* The staged requests of one incident, in slots f, stand in a line: of    *)
(* any two, one is behind the other, and with it behind everything that    *)
(* one is behind.                                                          *)
(***************************************************************************)
Waiting(f, i) == {r \in Requests : f[r].step = "staged" /\ f[r].incident = i}

Lined(f) ==
    \A r \in Requests : f[r].step = "staged" =>
        /\ r \notin f[r].behind
        /\ f[r].behind \subseteq Waiting(f, f[r].incident)
        /\ \A s \in f[r].behind :
              f[s].place <= f[r].place /\ f[s].behind \subseteq f[r].behind
        /\ \A s \in Waiting(f, f[r].incident) \ {r} :
              s \in f[r].behind \/ r \in f[s].behind

TrailBacked ==
    \A i \in Incidents :
        /\ Backed(history[i])
        /\ (Filed(i) /\ incident[i].agent # NONE) =>
              Given(history[i], Len(history[i]), incident[i].agent)

OverlapInv ==
    /\ DOMAIN req = Requests
    /\ \A r \in Requests : SlotSound(r)
    /\ Lined(req)
    /\ TrailBacked

\* What a commit makes of a history: its first entry goes to its place.
Merged(h, p, es) ==
    IF es = <<>> THEN h ELSE InsertAt(h, p + 1, Head(es)) \o Tail(es)

Taken(es) == IF es = <<>> THEN 0 ELSE 1

LEMMA GivenMore ==
    ASSUME NEW h, NEW m \in Int, NEW n \in Int, m <= n, NEW a, Given(h, m, a),
           DOMAIN h \subseteq Int
    PROVE  Given(h, n, a)
  BY DEF Given

LEMMA JoinedEntries ==
    ASSUME NEW s \in Seq(Event), NEW t \in Seq(Event)
    PROVE  /\ s \o t \in Seq(Event) /\ Len(s \o t) = Len(s) + Len(t)
           /\ \A k \in 1 .. Len(s) : (s \o t)[k] = s[k]
           /\ \A k \in 1 .. Len(t) : (s \o t)[Len(s) + k] = t[k]
  OBVIOUS

LEMMA InsertedAt ==
    ASSUME NEW h \in Seq(Event), NEW p \in Int, NEW e \in Event
    PROVE  InsertAt(h, p + 1, e) = (SubSeq(h, 1, p) \o <<e>>) \o SubSeq(h, p + 1, Len(h))
<1>1. InsertAt(h, p + 1, e)
         = (SubSeq(h, 1, (p + 1) - 1) \o <<e>>) \o SubSeq(h, p + 1, Len(h))
  BY Zenon DEF InsertAt
<1>2. (p + 1) - 1 = p
  OBVIOUS
<1> QED
  BY <1>1, <1>2

LEMMA MergedEntries ==
    ASSUME NEW h \in Seq(Event), NEW es \in Seq(Event), es # <<>>, NEW p \in 0 .. Len(h)
    PROVE  /\ Merged(h, p, es) \in Seq(Event) /\ Len(es) >= 1
           /\ Len(Merged(h, p, es)) = Len(h) + Len(es)
           /\ \A k \in 1 .. p : Merged(h, p, es)[k] = h[k]
           /\ Merged(h, p, es)[p + 1] = es[1]
           /\ \A k \in (p + 1) .. Len(h) : Merged(h, p, es)[k + 1] = h[k]
           /\ \A k \in 2 .. Len(es) : Merged(h, p, es)[Len(h) + k] = es[k]
<1> DEFINE e == Head(es)
           t == Tail(es)
           x == SubSeq(h, 1, p)
           y == SubSeq(h, p + 1, Len(h))
           u == (x \o <<e>>) \o y
           g == Merged(h, p, es)
<1>1. /\ e \in Event /\ t \in Seq(Event) /\ e = es[1] /\ Len(es) \in Nat /\ Len(es) >= 1
      /\ Len(t) = Len(es) - 1 /\ \A k \in 1 .. Len(t) : t[k] = es[k + 1]
  OBVIOUS
<1>2. /\ x \in Seq(Event) /\ Len(x) = p /\ \A k \in 1 .. p : x[k] = h[k]
      /\ y \in Seq(Event) /\ Len(y) = Len(h) - p
      /\ \A k \in 1 .. Len(h) - p : y[k] = h[p + k]
  OBVIOUS
<1>3. g = u \o t
  <2>1. p \in Int
    OBVIOUS
  <2>2. InsertAt(h, p + 1, e) = u
    BY <1>1, <2>1, InsertedAt
  <2>3. g = InsertAt(h, p + 1, e) \o t
    BY Zenon DEF Merged
  <2> HIDE DEF u
  <2> QED
    BY <2>2, <2>3
<1> HIDE DEF e, t, x, y, g
<1>4. x \o <<e>> \in Seq(Event) /\ Len(x \o <<e>>) = p + 1
  BY <1>1, <1>2
<1>5. (x \o <<e>>)[p + 1] = e /\ \A k \in 1 .. p : (x \o <<e>>)[k] = x[k]
  BY <1>1, <1>2
<1> DEFINE w == x \o <<e>>
<1>6. w \in Seq(Event) /\ Len(w) = p + 1 /\ w[p + 1] = e /\ \A k \in 1 .. p : w[k] = x[k]
  BY <1>4, <1>5
<1> HIDE DEF w
<1>7. u = w \o y
  BY DEF w
<1>8. /\ u \in Seq(Event) /\ Len(u) = Len(h) + 1
      /\ \A k \in 1 .. p + 1 : u[k] = w[k]
      /\ \A k \in 1 .. Len(h) - p : u[p + 1 + k] = y[k]
  <2>1. /\ w \o y \in Seq(Event) /\ Len(w \o y) = Len(w) + Len(y)
        /\ \A k \in 1 .. Len(w) : (w \o y)[k] = w[k]
        /\ \A k \in 1 .. Len(y) : (w \o y)[Len(w) + k] = y[k]
    BY <1>2, <1>6, JoinedEntries
  <2> HIDE DEF u
  <2> QED
    BY <1>2, <1>6, <1>7, <2>1
<1> HIDE DEF u
<1>9. /\ g \in Seq(Event) /\ Len(g) = Len(h) + Len(es)
      /\ \A k \in 1 .. Len(h) + 1 : g[k] = u[k]
      /\ \A k \in 1 .. Len(t) : g[Len(h) + 1 + k] = t[k]
  <2>1. /\ u \o t \in Seq(Event) /\ Len(u \o t) = Len(u) + Len(t)
        /\ \A k \in 1 .. Len(u) : (u \o t)[k] = u[k]
        /\ \A k \in 1 .. Len(t) : (u \o t)[Len(u) + k] = t[k]
    BY <1>1, <1>8, JoinedEntries
  <2> QED
    BY <1>1, <1>3, <1>8, <2>1, SMTT(60)
<1>10. ASSUME NEW k \in 1 .. p PROVE g[k] = h[k]
  BY <1>2, <1>6, <1>8, <1>9
<1>11. g[p + 1] = es[1]
  BY <1>1, <1>6, <1>8, <1>9
<1>12. ASSUME NEW k \in (p + 1) .. Len(h) PROVE g[k + 1] = h[k]
  <2>1. k - p \in 1 .. Len(h) - p /\ k + 1 \in 1 .. Len(h) + 1
        /\ p + 1 + (k - p) = k + 1 /\ p + (k - p) = k
    OBVIOUS
  <2>2. u[k + 1] = y[k - p] /\ y[k - p] = h[k]
    BY <1>2, <1>8, <2>1
  <2> QED
    BY <1>9, <2>1, <2>2
<1>13. ASSUME NEW k \in 2 .. Len(es) PROVE g[Len(h) + k] = es[k]
  <2>1. k - 1 \in 1 .. Len(t) /\ Len(h) + 1 + (k - 1) = Len(h) + k /\ (k - 1) + 1 = k
    BY <1>1
  <2>2. g[Len(h) + k] = t[k - 1] /\ t[k - 1] = es[k]
    BY <1>1, <1>9, <2>1
  <2> QED
    BY <2>2
<1> QED
  BY <1>1, <1>9, <1>10, <1>11, <1>12, <1>13 DEF g

(***************************************************************************)
(* A merge loses no entry, keeps what was given before its place where it  *)
(* is and moves the rest by one.                                           *)
(***************************************************************************)
LEMMA MergedGiven ==
    ASSUME NEW h \in Seq(Event), NEW es \in Seq(Event), NEW p \in 0 .. Len(h)
    PROVE  LET g == Merged(h, p, es)
           IN  /\ g \in Seq(Event) /\ Len(g) = Len(h) + Len(es)
               /\ Taken(es) \in 0 .. Len(es)
               /\ \A a : \A m \in 0 .. Len(h) : Given(h, m, a) => Given(g, m + Taken(es), a)
               /\ \A a : \A m \in 0 .. p : Given(h, m, a) => Given(g, m, a)
               /\ \A k \in DOMAIN es : \E j \in DOMAIN g : g[j] = es[k]
<1> DEFINE g == Merged(h, p, es)
<1>1. CASE es = <<>>
  BY <1>1 DEF Merged, Taken
<1>2. CASE es # <<>>
  <2>1. /\ g \in Seq(Event) /\ Len(g) = Len(h) + Len(es) /\ Len(es) >= 1
        /\ \A k \in 1 .. p : g[k] = h[k]
        /\ g[p + 1] = es[1]
        /\ \A k \in (p + 1) .. Len(h) : g[k + 1] = h[k]
        /\ \A k \in 2 .. Len(es) : g[Len(h) + k] = es[k]
    BY <1>2, MergedEntries, ZenonT(60)
  <2> HIDE DEF g
  <2>2. Taken(es) = 1 /\ Len(es) \in Nat /\ Len(h) \in Nat /\ DOMAIN g = 1 .. Len(h) + Len(es)
        /\ DOMAIN h = 1 .. Len(h) /\ DOMAIN es = 1 .. Len(es)
    BY <1>2, <2>1 DEF Taken
  <2>3. ASSUME NEW a, NEW m \in 0 .. Len(h), Given(h, m, a)
        PROVE  Given(g, m + 1, a) /\ (m <= p => Given(g, m, a))
    <3>1. PICK j \in 1 .. Len(h) : j <= m /\ Gives(h[j], a)
      BY <2>2, <2>3 DEF Given
    <3>2. CASE j <= p
      <4>1. j \in DOMAIN g /\ g[j] = h[j] /\ j <= m + 1
        BY <2>1, <2>2, <3>1, <3>2
      <4> QED
        BY <3>1, <4>1 DEF Given
    <3>3. CASE j > p
      <4>1. j + 1 \in DOMAIN g /\ g[j + 1] = h[j] /\ j + 1 <= m + 1 /\ ~(m <= p)
        BY <2>1, <2>2, <3>1, <3>3
      <4> QED
        BY <3>1, <4>1 DEF Given
    <3> QED
      BY <3>2, <3>3
  <2>4. ASSUME NEW k \in DOMAIN es PROVE \E j \in DOMAIN g : g[j] = es[k]
    <3>1. CASE k = 1
      BY <2>1, <2>2, <3>1, SMTT(60)
    <3>2. CASE k # 1
      <4>1. k \in 2 .. Len(es) /\ Len(h) + k \in DOMAIN g
        BY <2>2, <3>2
      <4> QED
        BY <2>1, <4>1
    <3> QED
      BY <3>1, <3>2
  <2>5. \A a : \A m \in 0 .. p : Given(h, m, a) => Given(g, m, a)
    BY <2>2, <2>3
  <2> QED
    BY <2>1, <2>2, <2>3, <2>4, <2>5 DEF g
<1> QED
  BY <1>1, <1>2

LEMMA MergedBacked ==
    ASSUME NEW h \in Seq(Event), NEW es \in Seq(Event), NEW p \in 0 .. Len(h), Backed(h),
           \A k \in DOMAIN es : Claims(es[k]) => Given(h, p, es[k].actor)
    PROVE  Backed(Merged(h, p, es))
<1>1. CASE es = <<>>
  BY <1>1 DEF Merged
<1>2. CASE es # <<>>
  <2> DEFINE g == Merged(h, p, es)
  <2>1. /\ g \in Seq(Event) /\ Len(g) = Len(h) + Len(es) /\ Len(es) >= 1
        /\ \A k \in 1 .. p : g[k] = h[k]
        /\ g[p + 1] = es[1]
        /\ \A k \in (p + 1) .. Len(h) : g[k + 1] = h[k]
        /\ \A k \in 2 .. Len(es) : g[Len(h) + k] = es[k]
    BY <1>2, MergedEntries, ZenonT(60)
  <2>2. /\ Taken(es) = 1
        /\ \A a : \A m \in 0 .. Len(h) : Given(h, m, a) => Given(g, m + 1, a)
        /\ \A a : \A m \in 0 .. p : Given(h, m, a) => Given(g, m, a)
    <3>1. Taken(es) = 1
      BY <1>2 DEF Taken
    <3> QED
      BY <3>1, MergedGiven
  <2> HIDE DEF g
  <2>3. DOMAIN h = 1 .. Len(h) /\ DOMAIN es = 1 .. Len(es) /\ DOMAIN g = 1 .. Len(h) + Len(es)
        /\ Len(h) \in Nat /\ Len(es) \in Nat
    BY <2>1
  <2>4. SUFFICES ASSUME NEW k \in DOMAIN g, Claims(g[k])
                 PROVE  Given(g, k - 1, g[k].actor)
    BY DEF g, Backed
  <2>5. CASE k <= p
    <3>1. k \in DOMAIN h /\ g[k] = h[k] /\ k - 1 \in 0 .. p
      BY <2>1, <2>3, <2>5
    <3> QED
      BY <2>2, <2>4, <3>1 DEF Backed
  <2>6. CASE k = p + 1
    <3>1. g[k] = es[1] /\ 1 \in DOMAIN es /\ k - 1 = p /\ p \in 0 .. p
      BY <2>1, <2>3, <2>6
    <3>2. Given(h, p, g[k].actor)
      BY <2>4, <3>1
    <3> QED
      BY <2>2, <3>1, <3>2
  <2>7. CASE k \in (p + 2) .. (Len(h) + 1)
    <3>1. k - 1 \in (p + 1) .. Len(h) /\ (k - 1) + 1 = k
      BY <2>3, <2>7
    <3>2. g[k] = h[k - 1]
      BY <2>1, <3>1
    <3>3. k - 1 \in DOMAIN h /\ (k - 1) - 1 \in 0 .. Len(h) /\ ((k - 1) - 1) + 1 = k - 1
      BY <2>3, <2>7
    <3>4. Given(h, (k - 1) - 1, g[k].actor)
      BY <2>4, <3>2, <3>3 DEF Backed
    <3> QED
      BY <2>2, <3>3, <3>4
  <2>8. CASE k > Len(h) + 1
    <3>1. k - Len(h) \in 2 .. Len(es) /\ Len(h) + (k - Len(h)) = k
      BY <2>3, <2>8
    <3>2. g[k] = es[k - Len(h)] /\ k - Len(h) \in DOMAIN es
      BY <2>1, <2>3, <3>1
    <3>3. Given(h, p, g[k].actor)
      BY <2>4, <3>2
    <3>4. Given(g, p, g[k].actor) /\ p \in Int /\ k - 1 \in Int /\ p <= k - 1
      BY <2>2, <2>3, <2>8, <3>3
    <3> QED
      BY <2>3, <3>4, GivenMore
  <2> QED
    BY <2>3, <2>5, <2>6, <2>7, <2>8
<1> QED
  BY <1>1, <1>2

-----------------------------------------------------------------------------
\* The UPDATE leaves a row, whatever it was by then.
LEMMA UpdatedRow ==
    ASSUME NEW row \in Row, NEW set, ColumnsOK(set),
           NEW new, new = [c \in DOMAIN row |-> IF c \in DOMAIN set THEN set[c] ELSE row[c]]
    PROVE  /\ new \in Row
           /\ new.agent = IF "agent" \in DOMAIN set THEN set["agent"] ELSE row.agent
<1>1. DOMAIN row = Columns
  BY DEF Row, Columns
<1>2. new = [c \in Columns |-> IF c \in DOMAIN set THEN set[c] ELSE row[c]]
  BY <1>1
<1>3. /\ new.status \in Statuses
      /\ new.agent \in Users \cup {NONE}
      /\ new.priority \in Priorities
      /\ new.hours \in SlaHours \cup {NONE}
      /\ new.deadline \in Nat \cup {NONE}
      /\ new.verdict \in Verdicts \cup {NONE}
      /\ new.created \in Times
  BY <1>2 DEF Columns, ColumnsOK, Row
<1>4. new \in Row
  <2>1. new = [status |-> new.status, agent |-> new.agent, priority |-> new.priority,
               hours |-> new.hours, deadline |-> new.deadline, verdict |-> new.verdict,
               created |-> new.created]
    BY <1>2 DEF Columns
  <2> QED
    BY <1>3, <2>1 DEF Row
<1> QED
  BY <1>2, <1>4 DEF Columns

LEMMA SetClauseOK ==
    ASSUME NEW row \in Row, NEW new \in Row
    PROVE  /\ ColumnsOK(SetClause(row, new))
           /\ "agent" \in DOMAIN SetClause(row, new) =>
                 new.agent # row.agent /\ SetClause(row, new)["agent"] = new.agent
<1> DEFINE set == SetClause(row, new)
<1>1. DOMAIN set = {c \in Columns : new[c] # row[c]}
  BY DEF SetClause, Row, Columns
<1>2. \A c \in DOMAIN set : set[c] = new[c]
  BY DEF SetClause
<1> HIDE DEF set
<1> QED
  BY <1>1, <1>2 DEF set, ColumnsOK, Row, Columns

(***************************************************************************)
(* Every entry of a plan is signed by its user in the user's role.         *)
(***************************************************************************)
SignedBy(es, u) == \A k \in DOMAIN es : es[k].actor = u /\ es[k].by = role[u]

LEMMA SignedWhen ==
    ASSUME NEW u \in Users, NEW b \in BOOLEAN, NEW action, NEW old, NEW new
    PROVE  SignedBy(When(b, Entry(action, u, old, new)), u)
<1>1. u # NONE
  BY AccountsAssumption
<1> DEFINE e == Entry(action, u, old, new)
<1>2. e.actor = u /\ e.by = role[u]
  BY <1>1 DEF Entry
<1> HIDE DEF e
<1>3. ASSUME b PROVE SignedBy(When(b, e), u)
  BY <1>2, <1>3 DEF When, SignedBy
<1>4. ASSUME ~b PROVE SignedBy(When(b, e), u)
  BY <1>4 DEF When, SignedBy
<1> QED
  BY <1>3, <1>4 DEF e

LEMMA SignedStatus ==
    ASSUME NEW u \in Users, NEW old, NEW new
    PROVE  SignedBy(StatusEntry(u, old, new), u)
<1>1. (old # new) \in BOOLEAN
  OBVIOUS
<1> QED
  BY <1>1, SignedWhen DEF StatusEntry

LEMMA SignedJoin ==
    ASSUME NEW u, NEW s \in Seq(Event), NEW t \in Seq(Event), SignedBy(s, u), SignedBy(t, u)
    PROVE  SignedBy(s \o t, u)
<1>1. /\ s \o t \in Seq(Event) /\ Len(s \o t) = Len(s) + Len(t)
      /\ \A k \in 1 .. Len(s) : (s \o t)[k] = s[k]
      /\ \A k \in 1 .. Len(t) : (s \o t)[Len(s) + k] = t[k]
  BY JoinedEntries
<1> SUFFICES ASSUME NEW k \in DOMAIN (s \o t)
             PROVE  (s \o t)[k].actor = u /\ (s \o t)[k].by = role[u]
  BY DEF SignedBy
<1>2. CASE k \in 1 .. Len(s)
  BY <1>1, <1>2 DEF SignedBy
<1>3. CASE k \notin 1 .. Len(s)
  <2>1. k - Len(s) \in 1 .. Len(t) /\ Len(s) + (k - Len(s)) = k
    BY <1>1, <1>3
  <2>2. (s \o t)[k] = t[k - Len(s)] /\ k - Len(s) \in DOMAIN t
    BY <1>1, <2>1
  <2> QED
    BY <2>2 DEF SignedBy
<1> QED
  BY <1>2, <1>3

LEMMA GiftJoin ==
    ASSUME NEW s \in Seq(Event), NEW t \in Seq(Event), NEW a, HasGift(s, a) \/ HasGift(t, a)
    PROVE  HasGift(s \o t, a)
<1>1. /\ s \o t \in Seq(Event) /\ Len(s \o t) = Len(s) + Len(t)
      /\ \A k \in 1 .. Len(s) : (s \o t)[k] = s[k]
      /\ \A k \in 1 .. Len(t) : (s \o t)[Len(s) + k] = t[k]
  BY JoinedEntries
<1>2. CASE HasGift(s, a)
  <2>1. PICK k \in 1 .. Len(s) : Gives(s[k], a)
    BY <1>2 DEF HasGift
  <2>2. k \in DOMAIN (s \o t) /\ Gives((s \o t)[k], a)
    BY <1>1, <2>1
  <2> QED
    BY <2>2 DEF HasGift
<1>3. CASE HasGift(t, a)
  <2>1. PICK k \in 1 .. Len(t) : Gives(t[k], a)
    BY <1>3 DEF HasGift
  <2>2. Len(s) + k \in DOMAIN (s \o t) /\ Gives((s \o t)[Len(s) + k], a)
    BY <1>1, <2>1
  <2> QED
    BY <2>2 DEF HasGift
<1> QED
  BY <1>2, <1>3

\* What a plan on row by user u owes to the trail, when it is stale perhaps.
Owned(u, row, plan) ==
    /\ SignedBy(plan.entries, u)
    /\ (plan.row.agent # row.agent /\ plan.row.agent # NONE) =>
          HasGift(plan.entries, plan.row.agent)

LEMMA StatusPlanOwned ==
    ASSUME TypeInv, NEW u \in Users, NEW row \in Row, NEW new \in Statuses
    PROVE  Owned(u, row, StatusPlan(u, row, new))
<1> DEFINE moved == [row EXCEPT !.status = new]
           plan  == StatusPlan(u, row, new)
<1>1. /\ plan.row = (IF new \in SLA_FREEZE_STATUSES THEN Judged(moved) ELSE moved)
      /\ plan.entries = StatusEntry(u, row.status, new)
  BY DEF StatusPlan, Plan
<1>2. moved \in Row /\ moved.agent = row.agent
  BY DEF Row
<1> HIDE DEF moved, plan
<1>3. plan.row.agent = row.agent
  BY <1>1, <1>2, JudgedRow DEF TypeInv, SameCase
<1>4. SignedBy(plan.entries, u)
  BY <1>1, SignedStatus
<1> QED
  BY <1>3, <1>4 DEF Owned, plan

LEMMA AssignPlanOwned ==
    ASSUME TypeInv, NEW u \in Users, Exists(u), NEW row \in Row, NEW agent \in Users
    PROVE  Owned(u, row, AssignPlan(u, row, agent))
<1> DEFINE status == IF row.status \in {"REPORTED", "TRIAGED"} THEN "ASSIGNED" ELSE row.status
           a  == IF row.agent = NONE THEN "AGENT_ASSIGNED" ELSE "AGENT_REASSIGNED"
           b1 == ~available[agent]
           b2 == row.agent # agent
           e2 == Entry(a, u, row.agent, agent)
           s1 == When(b1, Entry("ADMIN_OVERRIDE", u, NONE, NONE))
           s2 == When(b2, e2)
           s3 == StatusEntry(u, row.status, status)
           plan == AssignPlan(u, row, agent)
<1>1. plan.row.agent = agent /\ plan.entries = (s1 \o s2) \o s3
  BY DEF AssignPlan, Plan, Row
<1>2. /\ Signer(u) /\ b1 \in BOOLEAN /\ b2 \in BOOLEAN /\ a \in AgentActions
      /\ row.agent \in Users \cup {NONE} /\ row.status \in Statuses /\ status \in Statuses
  BY DEF Signer, Row, TypeInv, AgentActions, Statuses
<1> HIDE DEF plan, status, a
<1>3. /\ s1 \in Seq(Event) /\ s2 \in Seq(Event) /\ s3 \in Seq(Event)
  <2>1. Entry("ADMIN_OVERRIDE", u, NONE, NONE) \in Event /\ e2 \in Event
    BY <1>2, OtherEntries DEF OtherActions, EntryValues
  <2> QED
    BY <1>2, <2>1, WhenEvents, StatusEntryEvents
<1>4. SignedBy(s1, u) /\ SignedBy(s2, u) /\ SignedBy(s3, u)
  BY <1>2, SignedWhen, SignedStatus
<1>5. b2 => HasGift(s2, agent)
  <2>1. Gives(e2, agent)
    BY <1>2 DEF Gives, Entry
  <2> HIDE DEF e2
  <2> QED
    BY <2>1 DEF When, HasGift
<1> HIDE DEF s1, s2, s3
<1>6. s1 \o s2 \in Seq(Event) /\ SignedBy(s1 \o s2, u) /\ (b2 => HasGift(s1 \o s2, agent))
  BY <1>3, <1>4, <1>5, SignedJoin, GiftJoin
<1>7. SignedBy((s1 \o s2) \o s3, u) /\ (b2 => HasGift((s1 \o s2) \o s3, agent))
  BY <1>3, <1>4, <1>6, SignedJoin, GiftJoin
<1> QED
  BY <1>1, <1>7 DEF Owned, plan

LEMMA UnassignPlanOwned ==
    ASSUME TypeInv, NEW u \in Users, Exists(u), NEW row \in Row
    PROVE  Owned(u, row, UnassignPlan(u, row))
<1> DEFINE status == IF row.status = "ASSIGNED" THEN "REPORTED" ELSE row.status
           b  == row.agent # NONE
           s1 == When(b, Entry("AGENT_UNASSIGNED", u, row.agent, NONE))
           s2 == StatusEntry(u, row.status, status)
           plan == UnassignPlan(u, row)
<1>1. plan.row.agent = NONE /\ plan.entries = s1 \o s2
  BY DEF UnassignPlan, Plan, Row
<1>2. /\ Signer(u) /\ b \in BOOLEAN
      /\ row.agent \in Users \cup {NONE} /\ row.status \in Statuses /\ status \in Statuses
  BY DEF Signer, Row, Statuses
<1> HIDE DEF plan, status
<1>3. s1 \in Seq(Event) /\ s2 \in Seq(Event)
  <2>1. Entry("AGENT_UNASSIGNED", u, row.agent, NONE) \in Event
    BY <1>2, OtherEntries DEF AgentActions
  <2> QED
    BY <1>2, <2>1, WhenEvents, StatusEntryEvents
<1>4. SignedBy(s1, u) /\ SignedBy(s2, u)
  BY <1>2, SignedWhen, SignedStatus
<1> HIDE DEF s1, s2
<1> QED
  BY <1>1, <1>3, <1>4, SignedJoin DEF Owned, plan

LEMMA SlaPlanOwned ==
    ASSUME TypeInv, NEW u \in Users, NEW row \in Row, NEW h \in SlaHours \cup {NONE}
    PROVE  Owned(u, row, SlaPlan(u, row, h))
<1> DEFINE a == IF row.hours = NONE THEN "SLA_CREATED" ELSE "SLA_UPDATED"
           b == row.hours # h
           plan == SlaPlan(u, row, h)
<1>1. plan.row = WithWindow(row, h) /\ plan.entries = When(b, Entry(a, u, row.hours, h))
  BY DEF SlaPlan, Plan
<1>2. WithWindow(row, h).agent = row.agent /\ b \in BOOLEAN
  BY WindowRow DEF TypeInv, SameCase
<1> HIDE DEF plan, a
<1>3. SignedBy(plan.entries, u)
  BY <1>1, <1>2, SignedWhen
<1> QED
  BY <1>1, <1>2, <1>3 DEF Owned, plan

LEMMA PriorityPlanOwned ==
    ASSUME TypeInv, NEW u \in Users, Exists(u), NEW row \in Row, NEW p \in Priorities
    PROVE  Owned(u, row, PriorityPlan(u, row, p))
<1> DEFINE h  == DEFAULT_SLA_HOURS[p]
           r  == [row EXCEPT !.priority = p]
           b1 == row.priority # p
           b2 == row.hours # h
           s1 == When(b1, Entry("PRIORITY_CHANGED", u, row.priority, p))
           s2 == When(b2, Entry("SLA_UPDATED", u, row.hours, h))
           plan == PriorityPlan(u, row, p)
<1>1. plan.row = WithWindow(r, h) /\ plan.entries = s1 \o s2
  BY DEF PriorityPlan, Plan
<1>2. /\ h \in SlaHours /\ row.hours \in SlaHours \cup {NONE} /\ row.priority \in Priorities
      /\ Signer(u) /\ b1 \in BOOLEAN /\ b2 \in BOOLEAN /\ now \in Times
  BY DefaultHours DEF Row, TypeInv, Signer
<1>3. r \in Row /\ r.agent = row.agent
  BY DEF Row
<1> HIDE DEF h, r, plan
<1>4. WithWindow(r, h).agent = row.agent
  BY <1>2, <1>3, WindowRow DEF SameCase
<1>5. s1 \in Seq(Event) /\ s2 \in Seq(Event)
  <2>1. /\ Entry("PRIORITY_CHANGED", u, row.priority, p) \in Event
        /\ Entry("SLA_UPDATED", u, row.hours, h) \in Event
    BY <1>2, OtherEntries DEF SlaActions
  <2> QED
    BY <1>2, <2>1, WhenEvents
<1>6. SignedBy(s1, u) /\ SignedBy(s2, u)
  BY <1>2, SignedWhen
<1> HIDE DEF s1, s2
<1> QED
  BY <1>1, <1>4, <1>5, <1>6, SignedJoin DEF Owned, plan

LEMMA ProofPlanOwned ==
    ASSUME NEW u \in Users, NEW row
    PROVE  Owned(u, row, ProofPlan(u, row))
<1> DEFINE e == Entry("IMAGE_ADDED", u, NONE, "RESOLUTION")
           plan == ProofPlan(u, row)
<1>1. plan.row = row /\ plan.entries = When(TRUE, e)
  BY DEF ProofPlan, Plan, When
<1> HIDE DEF plan
<1>2. SignedBy(plan.entries, u)
  BY <1>1, SignedWhen
<1> QED
  BY <1>1, <1>2 DEF Owned, plan

(***************************************************************************)
(* What any plan claims, it claims for its user, and an agent's request is *)
(* on a row that was the agent's.                                          *)
(***************************************************************************)
LEMMA PlanOwned ==
    ASSUME TypeInv, NEW q, Ready(q)
    PROVE  /\ \A k \in DOMAIN PlanFor(q).entries :
                 Claims(PlanFor(q).entries[k]) =>
                    /\ q.row.agent # NONE
                    /\ PlanFor(q).entries[k].actor = q.row.agent
           /\ (PlanFor(q).row.agent # q.row.agent /\ PlanFor(q).row.agent # NONE) =>
                 HasGift(PlanFor(q).entries, PlanFor(q).row.agent)
<1> DEFINE u == q.user
           row == Enriched(q.row)
           plan == PlanFor(q)
<1>1. /\ q.row \in Row /\ row \in Row /\ row.agent = q.row.agent
      /\ u \in Users /\ Exists(u) /\ Admitted(q, row) /\ plan = PlanOf(q, row)
  BY EnrichedRow DEF Ready, Legal, TypeInv, SameCase, PlanFor
<1>2. u # NONE
  BY <1>1, AccountsAssumption
<1> HIDE DEF u, row, plan
<1>3. Owned(u, row, plan)
  <2>1. CASE q.kind = "status"
    BY <1>1, <2>1, StatusPlanOwned DEF Ready, Legal, PlanOf, u
  <2>2. CASE q.kind = "assign"
    BY <1>1, <2>2, AssignPlanOwned DEF Ready, Legal, PlanOf, u
  <2>3. CASE q.kind = "unassign"
    BY <1>1, <2>3, UnassignPlanOwned DEF PlanOf, u
  <2>4. CASE q.kind = "sla"
    <3>1. q.arg \in SlaHours \cup {NONE}
      BY <2>4, WorkflowAssumption DEF Ready, Legal
    <3> QED
      BY <1>1, <2>4, <3>1, SlaPlanOwned DEF PlanOf, u
  <2>5. CASE q.kind = "priority"
    <3>1. q.arg \in Priorities
      BY <2>5, WorkflowAssumption DEF Ready, Legal
    <3> QED
      BY <1>1, <2>5, <3>1, PriorityPlanOwned DEF PlanOf, u
  <2>6. CASE q.kind = "proof"
    BY <1>1, <2>6, ProofPlanOwned DEF PlanOf, u
  <2> QED
    BY <2>1, <2>2, <2>3, <2>4, <2>5, <2>6 DEF Ready, Legal
<1>4. role[u] = "AGENT" => row.agent = u
  BY <1>1 DEF Ready, Legal, Admitted, MayMove, MayProve, u
<1>5. ASSUME NEW k \in DOMAIN plan.entries, Claims(plan.entries[k])
      PROVE  q.row.agent # NONE /\ plan.entries[k].actor = q.row.agent
  BY <1>1, <1>2, <1>3, <1>4, <1>5 DEF Owned, SignedBy, Claims
<1> QED
  BY <1>1, <1>3, <1>5 DEF Owned, plan

-----------------------------------------------------------------------------
(***************************************************************************)
(* What a step does to the slots it does not touch.                        *)
(***************************************************************************)
LEMMA LoadedKept ==
    ASSUME UNCHANGED <<role, active, now>>, NEW q, Loaded(q), Filed(q.incident)',
           \A a : Given(history[q.incident], Len(history[q.incident]), a)
                     => Given(history'[q.incident], Len(history'[q.incident]), a)
    PROVE  Loaded(q)'
<1>1. /\ q.step = "loaded" /\ Legal(q) /\ Authenticated(q.user) /\ q.row \in Row
      /\ Admitted(q, Enriched(q.row))
      /\ q.row.agent # NONE =>
            Given(history[q.incident], Len(history[q.incident]), q.row.agent)
  BY DEF Loaded
<1>2. Legal(q)' /\ Authenticated(q.user)'
  BY <1>1 DEF Legal, Authenticated, Exists
<1>3. Admitted(q, Enriched(q.row))'
  BY <1>1 DEF Admitted, Enriched, Judged, SlaVerdict, MayMove, MayProve
<1> QED
  BY <1>1, <1>2, <1>3 DEF Loaded

LEMMA PendingKept ==
    ASSUME NEW q, NEW p, Pending(q), DOMAIN p = DOMAIN q, p.step = q.step,
           p.incident = q.incident, p.entries = q.entries, p.set = q.set, p.agent = q.agent,
           Filed(q.incident)', p.place \in 0 .. Len(history'[q.incident]),
           \A a : Given(history[q.incident], q.place, a)
                     => Given(history'[q.incident], p.place, a)
    PROVE  Pending(p)'
<1> DEFINE h == history[q.incident]
           g == history'[q.incident]
<1>1. /\ \A k \in DOMAIN q.entries : Claims(q.entries[k]) => Given(h, q.place, q.entries[k].actor)
      /\ \A a : Given(h, q.place, a) => Given(g, p.place, a)
  BY DEF Pending
<1>2. \A k \in DOMAIN p.entries : Claims(p.entries[k]) => Given(g, p.place, p.entries[k].actor)
  BY <1>1
<1>3. history'[p.incident] = g
  OBVIOUS
<1> HIDE DEF g, h
<1> QED
  BY <1>2, <1>3 DEF Pending, g

\* A sound slot, by its step.
LEMMA SoundCases ==
    ASSUME NEW r \in Requests, SlotSound(r)
    PROVE  /\ req[r].step = "idle" => req[r] = Idle
           /\ req[r].step = "loaded" => Loaded(req[r])
           /\ req[r].step = "staged" => Pending(req[r])
  BY DEF SlotSound, Idle, Loaded, Pending

\* Histories grow at their end, or not at all.
Lengthened ==
    /\ UNCHANGED <<role, active, now>>
    /\ \A i \in Incidents :
          /\ Filed(i) => Filed(i)'
          /\ Len(history[i]) <= Len(history'[i])
          /\ \A m \in 0 .. Len(history[i]) : \A a :
                Given(history[i], m, a) => Given(history'[i], m, a)

LEMMA LengthenedKeeps ==
    ASSUME TypeInv, TypeInv', Lengthened, NEW q
    PROVE  /\ Loaded(q) => Loaded(q)'
           /\ \A p : (/\ Pending(q) /\ DOMAIN p = DOMAIN q /\ p.step = q.step
                      /\ p.incident = q.incident /\ p.entries = q.entries /\ p.set = q.set
                      /\ p.agent = q.agent /\ p.place = q.place) => Pending(p)'
<1> DEFINE i == q.incident
           h == history[i]
           g == history'[i]
<1>0. ASSUME i \in Incidents
      PROVE  Len(h) \in Nat /\ Len(g) \in Nat /\ DOMAIN g \subseteq Int
  BY <1>0 DEF TypeInv
<1>1. ASSUME Loaded(q) PROVE Loaded(q)'
  <2>1. i \in Incidents /\ Filed(i)
    BY <1>1 DEF Loaded, Legal
  <2>2. ASSUME NEW a, Given(h, Len(h), a) PROVE Given(g, Len(g), a)
    <3>0. Len(h) \in 0 .. Len(h)
      BY <1>0, <2>1
    <3>1. Given(g, Len(h), a) /\ Len(h) <= Len(g)
      BY <2>1, <2>2, <3>0 DEF Lengthened
    <3>2. Len(h) \in Int /\ Len(g) \in Int /\ DOMAIN g \subseteq Int
      BY <1>0, <2>1
    <3> HIDE DEF g, h
    <3> QED
      BY <3>1, <3>2, GivenMore
  <2>3. Filed(i)' /\ UNCHANGED <<role, active, now>>
    BY <2>1 DEF Lengthened
  <2> QED
    BY <1>1, <2>2, <2>3, LoadedKept
<1>2. ASSUME NEW p, Pending(q), DOMAIN p = DOMAIN q, p.step = q.step,
             p.incident = q.incident, p.entries = q.entries, p.set = q.set,
             p.agent = q.agent, p.place = q.place
      PROVE  Pending(p)'
  <2>1. i \in Incidents /\ Filed(i) /\ q.place \in 0 .. Len(h)
    BY <1>2 DEF Pending
  <2>2. \A a : Given(h, q.place, a) => Given(g, p.place, a)
    BY <1>2, <2>1 DEF Lengthened
  <2>3. Filed(i)' /\ p.place \in 0 .. Len(g)
    BY <1>0, <1>2, <2>1 DEF Lengthened
  <2> QED
    BY <1>2, <2>2, <2>3, PendingKept
<1> QED
  BY <1>1, <1>2

LEMMA UnchangedLengthened ==
    ASSUME TypeInv, UNCHANGED workflowVars
    PROVE  Lengthened /\ (TrailBacked => TrailBacked')
<1>1. /\ UNCHANGED <<role, active, now>> /\ history' = history /\ incident' = incident
  BY DEF workflowVars, accountVars
<1>2. Lengthened
  BY <1>1 DEF Lengthened, Filed, TypeInv
<1>3. TrailBacked => TrailBacked'
  BY <1>1 DEF TrailBacked, Filed
<1> QED
  BY <1>2, <1>3

-----------------------------------------------------------------------------
(***************************************************************************)
(* The line: a request that is done leaves it, one that stages joins it.   *)
(***************************************************************************)
LEMMA LeavesLine ==
    ASSUME OverlapInv, NEW r \in Requests, NEW n \in Nat, req' = Released(r, n)
    PROVE  Lined(req')
<1> DEFINE Left(s) == [req[s] EXCEPT !.behind = @ \ {r}, !.place = @ + n]
<1>1. ASSUME NEW s \in Requests
      PROVE  /\ req'[s].step = "staged" => s # r /\ req[s].step = "staged"
             /\ (s # r /\ req[s].step = "staged") =>
                   /\ req'[s].step = "staged" /\ req'[s].incident = req[s].incident
                   /\ req'[s].behind = req[s].behind \ {r}
                   /\ req'[s].place = req[s].place + (IF r \in req[s].behind THEN n ELSE 0)
                   /\ req[s].place \in Int
  <2>1. req'[s] = IF s = r THEN Idle
                  ELSE IF req[s].step = "staged" /\ r \in req[s].behind THEN Left(s) ELSE req[s]
    BY DEF Released
  <2>2. ASSUME req[s].step = "staged"
        PROVE  DOMAIN req[s] = {"step", "incident", "set", "entries", "agent", "place", "behind"}
               /\ req[s].place \in Int
    BY <2>2, SoundCases DEF OverlapInv, Pending
  <2>3. Idle.step # "staged"
    BY DEF Idle
  <2>4. ASSUME req[s].step = "staged"
        PROVE  /\ Left(s).step = "staged" /\ Left(s).incident = req[s].incident
               /\ Left(s).behind = req[s].behind \ {r} /\ Left(s).place = req[s].place + n
    BY <2>2, <2>4
  <2> HIDE DEF Left
  <2>5. CASE s = r
    BY <2>1, <2>3, <2>5
  <2>6. CASE s # r /\ req[s].step = "staged" /\ r \in req[s].behind
    BY <2>1, <2>2, <2>4, <2>6
  <2>7. CASE s # r /\ req[s].step = "staged" /\ r \notin req[s].behind
    <3>1. req'[s] = req[s] /\ req[s].behind \ {r} = req[s].behind
      BY <2>1, <2>7
    <3> QED
      BY <2>2, <2>7, <3>1
  <2>8. CASE s # r /\ req[s].step # "staged"
    BY <2>1, <2>8
  <2> QED
    BY <2>5, <2>6, <2>7, <2>8
<1>2. \A i : Waiting(req', i) = Waiting(req, i) \ {r}
  BY <1>1 DEF Waiting
<1> SUFFICES ASSUME NEW s \in Requests, req'[s].step = "staged"
             PROVE  /\ s \notin req'[s].behind
                    /\ req'[s].behind \subseteq Waiting(req', req'[s].incident)
                    /\ \A t \in req'[s].behind :
                          req'[t].place <= req'[s].place /\ req'[t].behind \subseteq req'[s].behind
                    /\ \A t \in Waiting(req', req'[s].incident) \ {s} :
                          t \in req'[s].behind \/ s \in req'[t].behind
  BY DEF Lined
<1>3. /\ s # r /\ req[s].step = "staged" /\ req'[s].incident = req[s].incident
      /\ req'[s].behind = req[s].behind \ {r}
      /\ req'[s].place = req[s].place + (IF r \in req[s].behind THEN n ELSE 0)
      /\ req[s].place \in Int
  BY <1>1
<1>4. /\ s \notin req[s].behind
      /\ req[s].behind \subseteq Waiting(req, req[s].incident)
      /\ \A t \in req[s].behind :
            req[t].place <= req[s].place /\ req[t].behind \subseteq req[s].behind
      /\ \A t \in Waiting(req, req[s].incident) \ {s} : t \in req[s].behind \/ s \in req[t].behind
  BY <1>3 DEF OverlapInv, Lined
<1>5. req'[s].behind \subseteq Waiting(req', req'[s].incident)
  BY <1>2, <1>3, <1>4
<1>6. ASSUME NEW t \in req'[s].behind
      PROVE  req'[t].place <= req'[s].place /\ req'[t].behind \subseteq req'[s].behind
  <2>1. t \in req[s].behind /\ t # r /\ t \in Requests /\ req[t].step = "staged"
    BY <1>3, <1>4 DEF Waiting
  <2>2. /\ req'[t].behind = req[t].behind \ {r} /\ req[t].place \in Int
        /\ req'[t].place = req[t].place + (IF r \in req[t].behind THEN n ELSE 0)
    BY <1>1, <2>1
  <2>3. req[t].place <= req[s].place /\ req[t].behind \subseteq req[s].behind
    BY <1>4, <2>1
  <2> QED
    BY <1>3, <2>2, <2>3
<1>7. ASSUME NEW t \in Waiting(req', req'[s].incident) \ {s}
      PROVE  t \in req'[s].behind \/ s \in req'[t].behind
  <2>1. t \in Waiting(req, req[s].incident) \ {s} /\ t # r /\ t \in Requests
        /\ req[t].step = "staged"
    BY <1>2, <1>3, <1>7 DEF Waiting
  <2>2. req'[t].behind = req[t].behind \ {r}
    BY <1>1, <2>1
  <2> QED
    BY <1>3, <1>4, <2>1, <2>2
<1> QED
  BY <1>3, <1>4, <1>5, <1>6, <1>7

LEMMA JoinsLine ==
    ASSUME OverlapInv, NEW r \in Requests, req[r].step # "staged",
           NEW p, req' = [req EXCEPT ![r] = p],
           p.step = "staged", p.behind = Waiting(req, p.incident),
           \A s \in Waiting(req, p.incident) : req[s].place <= p.place
    PROVE  Lined(req')
<1>1. DOMAIN req = Requests /\ req'[r] = p /\ \A s \in Requests : s # r => req'[s] = req[s]
  BY DEF OverlapInv
<1>2. \A i : Waiting(req', i) = Waiting(req, i) \cup (IF p.incident = i THEN {r} ELSE {})
  BY <1>1 DEF Waiting
<1>3. \A i : r \notin Waiting(req, i)
  BY DEF Waiting
<1>4. \A s \in Requests : req[s].step = "staged" =>
        /\ s \notin req[s].behind
        /\ req[s].behind \subseteq Waiting(req, req[s].incident)
        /\ \A t \in req[s].behind :
              req[t].place <= req[s].place /\ req[t].behind \subseteq req[s].behind
        /\ \A t \in Waiting(req, req[s].incident) \ {s} : t \in req[s].behind \/ s \in req[t].behind
  BY DEF OverlapInv, Lined
<1> SUFFICES ASSUME NEW s \in Requests, req'[s].step = "staged"
             PROVE  /\ s \notin req'[s].behind
                    /\ req'[s].behind \subseteq Waiting(req', req'[s].incident)
                    /\ \A t \in req'[s].behind :
                          req'[t].place <= req'[s].place /\ req'[t].behind \subseteq req'[s].behind
                    /\ \A t \in Waiting(req', req'[s].incident) \ {s} :
                          t \in req'[s].behind \/ s \in req'[t].behind
  BY DEF Lined
<1>5. CASE s = r
  <2>1. ASSUME NEW t \in Waiting(req, p.incident)
        PROVE  /\ req'[t] = req[t] /\ req[t].place <= p.place
               /\ req[t].behind \subseteq Waiting(req, p.incident)
    <3>1. t \in Requests /\ req[t].step = "staged" /\ req[t].incident = p.incident /\ t # r
      BY <1>3 DEF Waiting
    <3> QED
      BY <1>1, <1>4, <3>1
  <2>2. req'[s] = p /\ p.behind = Waiting(req, p.incident) /\ s \notin p.behind
    BY <1>1, <1>3, <1>5
  <2>3. Waiting(req', p.incident) = Waiting(req, p.incident) \cup {s}
    BY <1>2, <1>5
  <2> QED
    BY <2>1, <2>2, <2>3, ZenonT(60)
<1>6. CASE s # r
  <2>1. req'[s] = req[s] /\ req[s].step = "staged"
    BY <1>1, <1>6
  <2>2. ASSUME NEW t \in req[s].behind PROVE req'[t] = req[t]
    BY <1>1, <1>3, <1>4, <2>1 DEF Waiting
  <2>3. ASSUME NEW t \in Waiting(req', req[s].incident) \ {s}
        PROVE  t \in req'[s].behind \/ s \in req'[t].behind
    <3>1. CASE t = r
      <4>1. p.incident = req[s].incident
        BY <1>2, <1>3, <2>3, <3>1
      <4>2. s \in Waiting(req, p.incident)
        BY <2>1, <4>1 DEF Waiting
      <4> QED
        BY <1>1, <3>1, <4>2
    <3>2. CASE t # r
      <4>1. t \in Waiting(req, req[s].incident) \ {s} /\ t \in Requests
        BY <1>2, <2>3, <3>2 DEF Waiting
      <4> QED
        BY <1>1, <1>4, <2>1, <3>2, <4>1
    <3> QED
      BY <3>1, <3>2
  <2>4. req'[s].behind \subseteq Waiting(req', req'[s].incident)
    <3>1. Waiting(req, req[s].incident) \subseteq Waiting(req', req[s].incident)
      BY <1>2
    <3>2. req[s].behind \subseteq Waiting(req, req[s].incident)
      BY <1>4, <2>1
    <3> QED
      BY <2>1, <3>1, <3>2
  <2>5. \A t \in req'[s].behind :
           req'[t].place <= req'[s].place /\ req'[t].behind \subseteq req'[s].behind
    BY <1>4, <2>1, <2>2
  <2>6. s \notin req'[s].behind
    BY <1>4, <2>1
  <2> QED
    BY <2>1, <2>3, <2>4, <2>5, <2>6
<1> QED
  BY <1>5, <1>6

-----------------------------------------------------------------------------
(***************************************************************************)
(* The steps.                                                              *)
(***************************************************************************)
LEMMA SlotKept ==
    ASSUME TypeInv, TypeInv', OverlapInv, Lengthened, NEW s \in Requests, req'[s] = req[s]
    PROVE  SlotSound(s)'
<1>1. SlotSound(s)
  BY DEF OverlapInv
<1>2. PICK q : q = req[s]
  OBVIOUS
<1>3. q = Idle \/ Loaded(q)' \/ Pending(q)'
  BY <1>1, <1>2, LengthenedKeeps DEF SlotSound
<1>4. Idle' = Idle
  BY DEF Idle
<1>5. req'[s] = q
  BY <1>2
<1> QED
  BY <1>3, <1>4, <1>5 DEF SlotSound

LEMMA SlotTo ==
    ASSUME NEW s \in Requests, NEW q, req'[s] = q, q = Idle \/ Loaded(q)' \/ Pending(q)'
    PROVE  SlotSound(s)'
  BY DEF SlotSound, Idle

LEMMA LoadOverlap ==
    ASSUME TypeInv, TypeInv', OverlapInv, NEW r \in Requests, NEW u \in Users,
           NEW i \in Incidents, NEW kind, NEW arg, NEW o, Load(r, u, i, kind, arg, o),
           kind = "status"   => arg \in Statuses,
           kind = "assign"   => arg \in Users /\ o \in BOOLEAN,
           kind = "sla"      => arg \in SlaChoices \cup {NONE},
           kind = "priority" => arg \in PriorityChoices
    PROVE  OverlapInv'
<1> DEFINE q == [step |-> "loaded", user |-> u, incident |-> i, kind |-> kind,
                 arg |-> arg, override |-> o, row |-> incident[i]]
<1>1. /\ req' = [req EXCEPT ![r] = q] /\ kind \in Kinds /\ req[r].step = "idle"
      /\ Authenticated(u) /\ Filed(i) /\ Admitted(q, Enriched(incident[i]))
      /\ UNCHANGED workflowVars /\ DOMAIN req = Requests
  BY DEF Load, OverlapInv
<1>2. /\ q.step = "loaded" /\ q.user = u /\ q.incident = i /\ q.kind = kind /\ q.arg = arg
      /\ q.override = o /\ q.row = incident[i]
  OBVIOUS
<1> HIDE DEF q
<1>3. kind \in {"status", "assign", "unassign", "sla", "priority", "proof"}
  BY <1>1, RequestsAssumption
<1>4. Loaded(q)
  <2>1. incident[i] \in Row
    BY <1>1 DEF TypeInv, Filed
  <2>2. incident[i].agent # NONE => Given(history[i], Len(history[i]), incident[i].agent)
    BY <1>1 DEF OverlapInv, TrailBacked
  <2> QED
    BY <1>1, <1>2, <1>3, <2>1, <2>2 DEF Loaded, Legal
<1>5. Lengthened /\ TrailBacked'
  BY <1>1, UnchangedLengthened DEF OverlapInv
<1>6. req'[r] = q /\ \A s \in Requests : s # r => req'[s] = req[s]
  BY <1>1
<1>7. ASSUME NEW s \in Requests PROVE SlotSound(s)'
  <2>1. CASE s = r
    <3>1. PICK x : x = q
      OBVIOUS
    <3>2. Loaded(x)'
      BY <1>4, <1>5, <3>1, LengthenedKeeps
    <3>3. req'[s] = x
      BY <1>6, <2>1, <3>1
    <3> QED
      BY <3>2, <3>3, SlotTo
  <2>2. CASE s # r
    BY <1>5, <1>6, <2>2, SlotKept
  <2> QED
    BY <2>1, <2>2
<1>8. Lined(req')
  <2>1. \A s \in Requests : req'[s].step = "staged" <=> req[s].step = "staged"
    BY <1>1, <1>2, <1>6
  <2>2. \A s \in Requests : req[s].step = "staged" => req'[s] = req[s]
    BY <1>1, <1>6
  <2>3. \A j : Waiting(req', j) = Waiting(req, j)
    BY <2>1, <2>2 DEF Waiting
  <2>4. \A j : \A s \in Waiting(req, j) : req'[s] = req[s]
    BY <2>2 DEF Waiting
  <2>5. Lined(req)
    BY DEF OverlapInv
  <2> SUFFICES ASSUME NEW s \in Requests, req'[s].step = "staged"
               PROVE  /\ s \notin req'[s].behind
                      /\ req'[s].behind \subseteq Waiting(req', req'[s].incident)
                      /\ \A t \in req'[s].behind :
                            /\ req'[t].place <= req'[s].place
                            /\ req'[t].behind \subseteq req'[s].behind
                      /\ \A t \in Waiting(req', req'[s].incident) \ {s} :
                            t \in req'[s].behind \/ s \in req'[t].behind
    BY DEF Lined
  <2>6. req'[s] = req[s] /\ req[s].step = "staged"
    BY <2>1, <2>2
  <2>7. /\ s \notin req[s].behind
        /\ req[s].behind \subseteq Waiting(req, req[s].incident)
        /\ \A t \in req[s].behind :
              req[t].place <= req[s].place /\ req[t].behind \subseteq req[s].behind
        /\ \A t \in Waiting(req, req[s].incident) \ {s} :
              t \in req[s].behind \/ s \in req[t].behind
    BY <2>5, <2>6 DEF Lined
  <2>8. \A t \in req[s].behind : req'[t] = req[t]
    BY <2>4, <2>7
  <2>9. Waiting(req', req'[s].incident) = Waiting(req, req[s].incident)
    BY <2>3, <2>6
  <2> QED
    BY <2>4, <2>6, <2>7, <2>8, <2>9
<1>9. DOMAIN req' = Requests
  BY <1>1
<1> QED
  BY <1>5, <1>7, <1>8, <1>9 DEF OverlapInv

LEMMA StageOverlap ==
    ASSUME TypeInv, TypeInv', OverlapInv, NEW r \in Requests, Stage(r)
    PROVE  OverlapInv'
<1>1. PICK q : q = req[r]
  OBVIOUS
<1> DEFINE plan == PlanFor(q)
           i    == q.incident
           p    == [step |-> "staged", incident |-> i,
                    set |-> SetClause(q.row, plan.row), entries |-> plan.entries,
                    agent |-> IF q.kind = "assign" THEN q.arg ELSE NONE,
                    place |-> Len(history[i]), behind |-> StagedOn(i)]
<1>2. /\ q.step = "loaded" /\ Loaded(q) /\ UNCHANGED workflowVars /\ DOMAIN req = Requests
      /\ req' = [req EXCEPT ![r] = p]
  BY <1>1, SoundCases DEF Stage, OverlapInv, PlanFor
<1>3. Ready(q) /\ i \in Incidents /\ Filed(i) /\ q.row \in Row
  BY <1>2 DEF Loaded, Ready, Authenticated, Legal
<1>4. plan.row \in Row /\ plan.entries \in Seq(Event)
  BY <1>3, PlanIsSound DEF Sound
<1>5. /\ \A k \in DOMAIN plan.entries :
            Claims(plan.entries[k]) => q.row.agent # NONE /\ plan.entries[k].actor = q.row.agent
      /\ (plan.row.agent # q.row.agent /\ plan.row.agent # NONE) =>
            HasGift(plan.entries, plan.row.agent)
  BY <1>3, PlanOwned
<1>6. /\ ColumnsOK(SetClause(q.row, plan.row))
      /\ "agent" \in DOMAIN SetClause(q.row, plan.row) =>
            /\ plan.row.agent # q.row.agent
            /\ SetClause(q.row, plan.row)["agent"] = plan.row.agent
  BY <1>3, <1>4, SetClauseOK
<1>7. /\ p.step = "staged" /\ p.incident = i /\ p.set = SetClause(q.row, plan.row)
      /\ p.entries = plan.entries /\ p.place = Len(history[i]) /\ p.behind = StagedOn(i)
      /\ p.agent = (IF q.kind = "assign" THEN q.arg ELSE NONE)
      /\ DOMAIN p = {"step", "incident", "set", "entries", "agent", "place", "behind"}
  OBVIOUS
<1> HIDE DEF p, plan
<1>8. Pending(p)
  <2>1. p.agent \in Users \cup {NONE}
    BY <1>3, <1>7 DEF Ready, Legal
  <2>2. Len(history[i]) \in 0 .. Len(history[i])
    BY <1>3 DEF TypeInv
  <2>3. q.row.agent # NONE => Given(history[i], Len(history[i]), q.row.agent)
    BY <1>2 DEF Loaded
  <2>4. \A k \in DOMAIN p.entries :
           Claims(p.entries[k]) => Given(history[i], p.place, p.entries[k].actor)
    BY <1>5, <1>7, <2>3
  <2>5. ("agent" \in DOMAIN p.set /\ p.set["agent"] # NONE) => HasGift(p.entries, p.set["agent"])
    BY <1>5, <1>6, <1>7
  <2> QED
    BY <1>3, <1>4, <1>6, <1>7, <2>1, <2>2, <2>4, <2>5 DEF Pending
<1>9. Lengthened /\ TrailBacked'
  BY <1>2, UnchangedLengthened DEF OverlapInv
<1>10. req'[r] = p /\ \A s \in Requests : s # r => req'[s] = req[s]
  BY <1>2
<1>11. ASSUME NEW s \in Requests PROVE SlotSound(s)'
  <2>1. CASE s = r
    <3>1. PICK x : x = p
      OBVIOUS
    <3>2. Pending(x)'
      BY <1>8, <1>9, <3>1, LengthenedKeeps
    <3>3. req'[s] = x
      BY <1>10, <2>1, <3>1
    <3> QED
      BY <3>2, <3>3, SlotTo
  <2>2. CASE s # r
    BY <1>9, <1>10, <2>2, SlotKept
  <2> QED
    BY <2>1, <2>2
<1>12. Lined(req')
  <2>1. StagedOn(i) = Waiting(req, i)
    BY DEF StagedOn, Waiting
  <2>2. ASSUME NEW s \in Waiting(req, i) PROVE req[s].place <= p.place
    <3>1. s \in Requests /\ req[s].step = "staged" /\ req[s].incident = i
      BY DEF Waiting
    <3>2. req[s].place \in 0 .. Len(history[i])
      BY <3>1, SoundCases DEF OverlapInv, Pending
    <3> QED
      BY <1>3, <1>7, <3>2 DEF TypeInv
  <2>3. req[r].step # "staged"
    BY <1>1, <1>2
  <2> QED
    BY <1>2, <1>7, <2>1, <2>2, <2>3, JoinsLine
<1>13. DOMAIN req' = Requests
  BY <1>2
<1> QED
  BY <1>9, <1>11, <1>12, <1>13 DEF OverlapInv

\* Where r's request goes, the others go on from where they stood.
LEMMA ReleasedSlots ==
    ASSUME OverlapInv, NEW r \in Requests, NEW n \in Nat, req' = Released(r, n)
    PROVE  /\ DOMAIN req' = Requests
           /\ req'[r] = Idle
           /\ \A s \in Requests : (s # r /\ req[s].step # "staged") => req'[s] = req[s]
           /\ \A s \in Requests : (s # r /\ req[s].step = "staged") =>
                 /\ DOMAIN req'[s] = DOMAIN req[s] /\ req'[s].step = req[s].step
                 /\ req'[s].incident = req[s].incident /\ req'[s].entries = req[s].entries
                 /\ req'[s].set = req[s].set /\ req'[s].agent = req[s].agent
                 /\ req'[s].place = req[s].place + (IF r \in req[s].behind THEN n ELSE 0)
<1> DEFINE Left(s) == [req[s] EXCEPT !.behind = @ \ {r}, !.place = @ + n]
<1>1. \A s \in Requests :
         req'[s] = IF s = r THEN Idle
                   ELSE IF req[s].step = "staged" /\ r \in req[s].behind THEN Left(s) ELSE req[s]
  BY DEF Released
<1>2. ASSUME NEW s \in Requests, req[s].step = "staged"
      PROVE  /\ req[s].place \in Int
             /\ DOMAIN Left(s) = DOMAIN req[s] /\ Left(s).step = req[s].step
             /\ Left(s).incident = req[s].incident /\ Left(s).entries = req[s].entries
             /\ Left(s).set = req[s].set /\ Left(s).agent = req[s].agent
             /\ Left(s).place = req[s].place + n
  <2>1. DOMAIN req[s] = {"step", "incident", "set", "entries", "agent", "place", "behind"}
        /\ req[s].place \in Int
    BY <1>2, SoundCases DEF OverlapInv, Pending
  <2> QED
    BY <2>1
<1>3. DOMAIN req' = Requests
  BY DEF Released
<1> HIDE DEF Left
<1>4. ASSUME NEW s \in Requests, s # r, req[s].step = "staged"
      PROVE  /\ DOMAIN req'[s] = DOMAIN req[s] /\ req'[s].step = req[s].step
             /\ req'[s].incident = req[s].incident /\ req'[s].entries = req[s].entries
             /\ req'[s].set = req[s].set /\ req'[s].agent = req[s].agent
             /\ req'[s].place = req[s].place + (IF r \in req[s].behind THEN n ELSE 0)
  <2>1. CASE r \in req[s].behind
    <3>1. req'[s] = Left(s)
      BY <1>1, <1>4, <2>1
    <3> QED
      BY <1>2, <1>4, <2>1, <3>1
  <2>2. CASE r \notin req[s].behind
    <3>1. req'[s] = req[s]
      BY <1>1, <1>4, <2>2
    <3> QED
      BY <1>2, <1>4, <2>2, <3>1
  <2> QED
    BY <2>1, <2>2
<1>5. \A s \in Requests : (s # r /\ req[s].step # "staged") => req'[s] = req[s]
  BY <1>1
<1>6. req'[r] = Idle
  BY <1>1
<1> QED
  BY <1>3, <1>4, <1>5, <1>6

LEMMA AbandonOverlap ==
    ASSUME TypeInv, TypeInv', OverlapInv, NEW r \in Requests, Abandon(r)
    PROVE  OverlapInv'
<1>1. req' = Released(r, 0) /\ UNCHANGED workflowVars
  BY DEF Abandon
<1>2. Lengthened /\ TrailBacked'
  BY <1>1, UnchangedLengthened DEF OverlapInv
<1>3. Lined(req')
  BY <1>1, LeavesLine
<1>4. /\ DOMAIN req' = Requests
      /\ req'[r] = Idle
      /\ \A s \in Requests : (s # r /\ req[s].step # "staged") => req'[s] = req[s]
      /\ \A s \in Requests : (s # r /\ req[s].step = "staged") =>
            /\ DOMAIN req'[s] = DOMAIN req[s] /\ req'[s].step = req[s].step
            /\ req'[s].incident = req[s].incident /\ req'[s].entries = req[s].entries
            /\ req'[s].set = req[s].set /\ req'[s].agent = req[s].agent
            /\ req'[s].place = req[s].place + (IF r \in req[s].behind THEN 0 ELSE 0)
  BY <1>1, ReleasedSlots
<1>5. ASSUME NEW s \in Requests PROVE SlotSound(s)'
  <2>1. CASE s = r
    BY <1>4, <2>1, SlotTo
  <2>2. CASE s # r /\ req[s].step # "staged"
    BY <1>2, <1>4, <2>2, SlotKept
  <2>3. CASE s # r /\ req[s].step = "staged"
    <3>1. PICK q, p : q = req[s] /\ p = req'[s]
      OBVIOUS
    <3>2. Pending(q)
      BY <2>3, <3>1, SoundCases DEF OverlapInv
    <3>3. p.place = q.place
      BY <1>4, <2>3, <3>1, <3>2 DEF Pending
    <3>4. Pending(p)'
      BY <1>2, <1>4, <2>3, <3>1, <3>2, <3>3, LengthenedKeeps
    <3>5. req'[s] = p
      BY <3>1
    <3> QED
      BY <3>4, <3>5, SlotTo
  <2> QED
    BY <2>1, <2>2, <2>3
<1> QED
  BY <1>2, <1>3, <1>4, <1>5 DEF OverlapInv

\* The committed row and history are typed and tell who holds the incident.
LEMMA CommitTrail ==
    ASSUME TypeInv, OverlapInv, NEW r \in Requests, Commit(r)
    PROVE  /\ TypeInv' /\ TrailBacked' /\ UNCHANGED <<role, active, now>>
           /\ Pending(req[r])
           /\ \A i \in Incidents : Filed(i) => Filed(i)'
           /\ history' = [history EXCEPT ![req[r].incident] =
                             Merged(@, req[r].place, req[r].entries)]
           /\ req' = Released(r, Taken(req[r].entries))
<1>1. PICK q : q = req[r]
  OBVIOUS
<1> DEFINE i == q.incident
           h == history[i]
           g == Merged(h, q.place, q.entries)
           row == incident[i]
           new == [c \in DOMAIN row |-> IF c \in DOMAIN q.set THEN q.set[c] ELSE row[c]]
<1>2. /\ q.step = "staged"
      /\ incident' = [incident EXCEPT ![i] = new]
      /\ history' = [history EXCEPT ![i] = g]
      /\ lastAssigned' = IF q.agent = NONE THEN lastAssigned
                         ELSE [lastAssigned EXCEPT ![q.agent] = now]
      /\ req' = Released(r, Taken(q.entries))
      /\ UNCHANGED <<accountVars, available, now>>
  BY <1>1 DEF Commit, Merged, Taken
<1>3. Pending(q)
  BY <1>1, <1>2, SoundCases DEF OverlapInv
<1>4. /\ i \in Incidents /\ Filed(i) /\ row \in Row /\ h \in Seq(Event)
      /\ q.entries \in Seq(Event) /\ ColumnsOK(q.set) /\ q.agent \in Users \cup {NONE}
      /\ q.place \in 0 .. Len(h)
      /\ \A k \in DOMAIN q.entries : Claims(q.entries[k]) => Given(h, q.place, q.entries[k].actor)
      /\ ("agent" \in DOMAIN q.set /\ q.set["agent"] # NONE) => HasGift(q.entries, q.set["agent"])
  BY <1>3 DEF Pending, TypeInv, Filed
<1>5. /\ Backed(h)
      /\ row.agent # NONE => Given(h, Len(h), row.agent)
  BY <1>4 DEF OverlapInv, TrailBacked
<1> HIDE DEF h, row
<1>6. /\ new \in Row
      /\ new.agent = IF "agent" \in DOMAIN q.set THEN q.set["agent"] ELSE row.agent
  BY <1>4, UpdatedRow
<1> HIDE DEF new
<1>7. /\ g \in Seq(Event) /\ Len(g) = Len(h) + Len(q.entries)
      /\ Taken(q.entries) \in 0 .. Len(q.entries)
      /\ \A a : \A m \in 0 .. Len(h) : Given(h, m, a) => Given(g, m + Taken(q.entries), a)
      /\ \A k \in DOMAIN q.entries : \E j \in DOMAIN g : g[j] = q.entries[k]
  BY <1>4, MergedGiven
<1>8. Backed(g)
  BY <1>4, <1>5, MergedBacked
<1> HIDE DEF g
<1>9. Len(h) \in Nat /\ Len(g) \in Nat /\ Len(q.entries) \in Nat /\ DOMAIN g = 1 .. Len(g)
  BY <1>4, <1>7
<1>10. new.agent # NONE => Given(g, Len(g), new.agent)
  <2> SUFFICES ASSUME new.agent # NONE PROVE Given(g, Len(g), new.agent)
    OBVIOUS
  <2>1. CASE "agent" \in DOMAIN q.set
    <3>1. HasGift(q.entries, new.agent)
      BY <1>4, <1>6, <2>1
    <3>2. PICK k \in DOMAIN q.entries : Gives(q.entries[k], new.agent)
      BY <3>1 DEF HasGift
    <3>3. PICK j \in DOMAIN g : g[j] = q.entries[k]
      BY <1>7, <3>2
    <3> QED
      BY <1>9, <3>2, <3>3 DEF Given
  <2>2. CASE "agent" \notin DOMAIN q.set
    <3>1. Given(h, Len(h), new.agent) /\ Len(h) \in 0 .. Len(h)
      BY <1>5, <1>6, <1>9, <2>2
    <3>2. Given(g, Len(h) + Taken(q.entries), new.agent)
      BY <1>7, <3>1
    <3>3. /\ Len(h) + Taken(q.entries) \in Int /\ Len(g) \in Int /\ DOMAIN g \subseteq Int
          /\ Len(h) + Taken(q.entries) <= Len(g)
      BY <1>7, <1>9
    <3> QED
      BY <3>2, <3>3, GivenMore
  <2> QED
    BY <2>1, <2>2
<1>11. TypeInv'
  <2>1. incident' \in [Incidents -> Row \cup {NONE}] /\ history' \in [Incidents -> Seq(Event)]
    BY <1>2, <1>6, <1>7 DEF TypeInv
  <2>2. lastAssigned' \in [Users -> Times \cup {NONE}] /\ now' \in Times
        /\ available' \in [Users -> BOOLEAN]
    BY <1>2, <1>4 DEF TypeInv
  <2>3. TypeOK'
    BY <1>2 DEF TypeInv, TypeOK, accountVars
  <2> QED
    BY <2>1, <2>2, <2>3 DEF TypeInv
<1>12. new # NONE
  BY <1>6, NullIsNoRow
<1>13. \A j \in Incidents : Filed(j) => Filed(j)'
  BY <1>2, <1>12 DEF Filed, TypeInv
<1>14. TrailBacked'
  <2> SUFFICES ASSUME NEW j \in Incidents
               PROVE  /\ Backed(history'[j])
                      /\ (incident'[j] # NONE /\ incident'[j].agent # NONE) =>
                            Given(history'[j], Len(history'[j]), incident'[j].agent)
    BY DEF TrailBacked, Filed
  <2>1. CASE j = i
    <3>1. history'[j] = g /\ incident'[j] = new
      BY <1>2, <2>1 DEF TypeInv
    <3> QED
      BY <1>8, <1>10, <3>1
  <2>2. CASE j # i
    <3>1. history'[j] = history[j] /\ incident'[j] = incident[j]
      BY <1>2, <2>2 DEF TypeInv
    <3> QED
      BY <3>1 DEF OverlapInv, TrailBacked, Filed
  <2> QED
    BY <2>1, <2>2
<1>15. history' = [history EXCEPT ![i] = Merged(@, q.place, q.entries)]
  BY <1>2 DEF g, h
<1>16. UNCHANGED <<role, active, now>>
  BY <1>2 DEF accountVars
<1> QED
  BY <1>1, <1>2, <1>3, <1>11, <1>13, <1>14, <1>15, <1>16

LEMMA CommitOverlap ==
    ASSUME TypeInv, OverlapInv, NEW r \in Requests, Commit(r)
    PROVE  TypeInv' /\ OverlapInv'
<1>1. PICK q : q = req[r]
  OBVIOUS
<1> DEFINE i == q.incident
           n == Taken(q.entries)
           h == history[i]
           g == history'[i]
<1>2. /\ TypeInv' /\ TrailBacked' /\ UNCHANGED <<role, active, now>> /\ Pending(q)
      /\ \A j \in Incidents : Filed(j) => Filed(j)'
      /\ history' = [history EXCEPT ![i] = Merged(@, q.place, q.entries)]
      /\ req' = Released(r, n)
  BY <1>1, CommitTrail
<1>3. /\ i \in Incidents /\ h \in Seq(Event) /\ q.entries \in Seq(Event)
      /\ q.place \in 0 .. Len(h) /\ q.step = "staged"
      /\ g = Merged(h, q.place, q.entries)
      /\ \A j \in Incidents : j # i => history'[j] = history[j]
  BY <1>2 DEF Pending, TypeInv
<1>4. /\ g \in Seq(Event) /\ Len(g) = Len(h) + Len(q.entries)
      /\ n \in 0 .. Len(q.entries)
      /\ \A a : \A m \in 0 .. Len(h) : Given(h, m, a) => Given(g, m + n, a)
      /\ \A a : \A m \in 0 .. q.place : Given(h, m, a) => Given(g, m, a)
  <2> DEFINE x == Merged(h, q.place, q.entries)
  <2>1. /\ x \in Seq(Event) /\ Len(x) = Len(h) + Len(q.entries)
        /\ n \in 0 .. Len(q.entries)
        /\ \A a : \A m \in 0 .. Len(h) : Given(h, m, a) => Given(x, m + n, a)
        /\ \A a : \A m \in 0 .. q.place : Given(h, m, a) => Given(x, m, a)
    BY <1>3, MergedGiven
  <2> HIDE DEF x, n
  <2>2. g = x
    BY <1>3 DEF x
  <2> HIDE DEF g
  <2> QED
    BY <2>1, <2>2
<1> HIDE DEF n, g, h
<1>5. Len(h) \in Nat /\ Len(g) \in Nat /\ Len(q.entries) \in Nat /\ DOMAIN g \subseteq Int
  BY <1>3, <1>4
<1>6. n \in Nat /\ Len(h) + n <= Len(g) /\ Len(h) <= Len(g) /\ q.place \in Nat
  BY <1>3, <1>4, <1>5
<1> USE DEF h
<1>7. Lined(req')
  BY <1>2, <1>6, LeavesLine
<1>8. /\ DOMAIN req' = Requests
      /\ req'[r] = Idle
      /\ \A s \in Requests : (s # r /\ req[s].step # "staged") => req'[s] = req[s]
      /\ \A s \in Requests : (s # r /\ req[s].step = "staged") =>
            /\ DOMAIN req'[s] = DOMAIN req[s] /\ req'[s].step = req[s].step
            /\ req'[s].incident = req[s].incident /\ req'[s].entries = req[s].entries
            /\ req'[s].set = req[s].set /\ req'[s].agent = req[s].agent
            /\ req'[s].place = req[s].place + (IF r \in req[s].behind THEN n ELSE 0)
  BY <1>2, <1>6, ReleasedSlots
<1>9. ASSUME NEW s \in Requests, s # r, req[s].step = "loaded" PROVE SlotSound(s)'
  <2>1. PICK p : p = req[s]
    OBVIOUS
  <2>2. Loaded(p) /\ req'[s] = p
    BY <1>8, <1>9, <2>1, SoundCases DEF OverlapInv
  <2>3. p.incident \in Incidents /\ Filed(p.incident)'
    BY <1>2, <2>2 DEF Loaded, Legal
  <2>4. ASSUME NEW a, Given(history[p.incident], Len(history[p.incident]), a)
        PROVE  Given(history'[p.incident], Len(history'[p.incident]), a)
    <3>1. CASE p.incident = i
      <4>1. Len(h) \in 0 .. Len(h) /\ Given(h, Len(h), a)
        BY <1>5, <2>4, <3>1
      <4>2. Given(g, Len(h) + n, a)
        BY <1>4, <4>1
      <4>3. Len(h) + n \in Int /\ Len(g) \in Int /\ Len(h) + n <= Len(g)
        BY <1>4, <1>5
      <4> HIDE DEF h
      <4>4. Given(g, Len(g), a)
        BY <1>5, <4>2, <4>3, GivenMore
      <4> QED
        BY <3>1, <4>4 DEF g
    <3>2. CASE p.incident # i
      <4>1. history'[p.incident] = history[p.incident]
        BY <1>3, <2>3, <3>2
      <4> QED
        BY <2>4, <4>1
    <3> QED
      BY <3>1, <3>2
  <2>5. Loaded(p)'
    BY <1>2, <2>2, <2>3, <2>4, LoadedKept
  <2> QED
    BY <2>2, <2>5, SlotTo
<1>10. ASSUME NEW s \in Requests, s # r, req[s].step = "staged" PROVE SlotSound(s)'
  <2>1. PICK p, p1 : p = req[s] /\ p1 = req'[s]
    OBVIOUS
  <2>2. Pending(p)
    BY <1>10, <2>1, SoundCases DEF OverlapInv
  <2>3. /\ DOMAIN p1 = DOMAIN p /\ p1.step = p.step /\ p1.incident = p.incident
        /\ p1.entries = p.entries /\ p1.set = p.set /\ p1.agent = p.agent
        /\ p1.place = p.place + (IF r \in p.behind THEN n ELSE 0)
    BY <1>8, <1>10, <2>1
  <2>4. /\ p.incident \in Incidents /\ Filed(p.incident)'
        /\ p.place \in 0 .. Len(history[p.incident])
    BY <1>2, <2>2 DEF Pending
  <2>5. /\ p1.place \in 0 .. Len(history'[p.incident])
        /\ \A a : Given(history[p.incident], p.place, a) => Given(history'[p.incident], p1.place, a)
    <3>1. CASE p.incident = i
      <4>1. r \in p.behind \/ p.place <= q.place
        <5>1. /\ \A t \in Waiting(req, req[s].incident) \ {s} :
                    t \in req[s].behind \/ s \in req[t].behind
              /\ \A t \in req[r].behind : req[t].place <= req[r].place
          BY <1>1, <1>3, <1>10 DEF OverlapInv, Lined
        <5>2. r \in Waiting(req, req[s].incident)
          BY <1>1, <1>3, <2>1, <3>1 DEF Waiting
        <5> QED
          BY <1>1, <1>10, <2>1, <5>1, <5>2
      <4>2. p.place \in 0 .. Len(h)
        BY <2>4, <3>1
      <4>3. CASE r \in p.behind
        <5>1. p1.place = p.place + n
          BY <2>3, <4>3
        <5>2. p1.place \in 0 .. Len(g)
          <6> HIDE DEF h
          <6> QED
            BY <1>5, <1>6, <4>2, <5>1
        <5>3. \A a : Given(h, p.place, a) => Given(g, p1.place, a)
          BY <1>4, <4>2, <5>1
        <5> QED
          BY <3>1, <5>2, <5>3 DEF g
      <4>4. CASE r \notin p.behind
        <5>1. p1.place = p.place
          BY <2>3, <4>2, <4>4
        <5>2. p.place \in 0 .. q.place
          BY <1>6, <4>1, <4>2, <4>4
        <5>3. p1.place \in 0 .. Len(g)
          <6> HIDE DEF h
          <6> QED
            BY <1>5, <1>6, <4>2, <5>1
        <5>4. \A a : Given(h, p.place, a) => Given(g, p1.place, a)
          BY <1>4, <5>1, <5>2
        <5> QED
          BY <3>1, <5>3, <5>4 DEF g
      <4> QED
        BY <4>3, <4>4
    <3>2. CASE p.incident # i
      <4>1. history'[p.incident] = history[p.incident] /\ p.incident = p.incident
        BY <1>3, <2>4, <3>2
      <4>2. r \notin p.behind
        <5>1. req[s].behind \subseteq Waiting(req, req[s].incident)
          BY <1>10 DEF OverlapInv, Lined
        <5> QED
          BY <1>1, <2>1, <3>2, <5>1 DEF Waiting
      <4>3. p1.place = p.place
        BY <2>3, <2>4, <4>2
      <4> QED
        BY <2>4, <4>1, <4>3
    <3> QED
      BY <3>1, <3>2
  <2>6. Pending(p1)'
    BY <2>2, <2>3, <2>4, <2>5, PendingKept
  <2>7. req'[s] = p1
    BY <2>1
  <2> QED
    BY <2>6, <2>7, SlotTo
<1>11. ASSUME NEW s \in Requests PROVE SlotSound(s)'
  <2>1. req[s].step \in {"idle", "loaded", "staged"}
    BY DEF OverlapInv, SlotSound, Idle, Loaded, Pending
  <2>2. CASE s = r
    BY <1>8, <2>2, SlotTo
  <2>3. CASE s # r /\ req[s].step = "idle"
    <3>1. req'[s] = Idle
      BY <1>8, <2>3, SoundCases DEF OverlapInv
    <3> QED
      BY <3>1, SlotTo
  <2> QED
    BY <1>9, <1>10, <2>1, <2>2, <2>3
<1> QED
  BY <1>2, <1>7, <1>8, <1>11 DEF OverlapInv

-----------------------------------------------------------------------------
(***************************************************************************)
(* The requests left whole add at the end, and claim nothing.              *)
(***************************************************************************)
ClaimsNothing(es) == \A k \in DOMAIN es : ~Claims(es[k])

LEMMA Added ==
    ASSUME NEW h \in Seq(Event), NEW t \in Seq(Event)
    PROVE  /\ h \o t \in Seq(Event) /\ Len(h) <= Len(h \o t)
           /\ \A a : \A m \in 0 .. Len(h) : Given(h, m, a) => Given(h \o t, m, a)
           /\ \A a : HasGift(t, a) => Given(h \o t, Len(h \o t), a)
           /\ (Backed(h) /\ ClaimsNothing(t)) => Backed(h \o t)
           /\ (ClaimsNothing(h) /\ ClaimsNothing(t)) => ClaimsNothing(h \o t)
<1> DEFINE g == h \o t
<1>1. /\ g \in Seq(Event) /\ Len(g) = Len(h) + Len(t)
      /\ \A k \in 1 .. Len(h) : g[k] = h[k]
      /\ \A k \in 1 .. Len(t) : g[Len(h) + k] = t[k]
  BY JoinedEntries
<1> HIDE DEF g
<1>2. /\ Len(h) \in Nat /\ Len(t) \in Nat /\ DOMAIN h = 1 .. Len(h) /\ DOMAIN t = 1 .. Len(t)
      /\ DOMAIN g = 1 .. Len(g)
  BY <1>1
<1>3. ASSUME NEW a, NEW m \in Int, Given(h, m, a) PROVE Given(g, m, a)
  <2>1. PICK j \in 1 .. Len(h) : j <= m /\ Gives(h[j], a)
    BY <1>2, <1>3 DEF Given
  <2>2. j \in DOMAIN g /\ g[j] = h[j]
    BY <1>1, <1>2
  <2> QED
    BY <2>1, <2>2 DEF Given
<1>4. ASSUME NEW a, HasGift(t, a) PROVE Given(g, Len(g), a)
  <2>1. PICK k \in 1 .. Len(t) : Gives(t[k], a)
    BY <1>2, <1>4 DEF HasGift
  <2>2. Len(h) + k \in DOMAIN g /\ g[Len(h) + k] = t[k] /\ Len(h) + k <= Len(g)
    BY <1>1, <1>2
  <2> QED
    BY <2>1, <2>2 DEF Given
<1>5. ASSUME NEW k \in DOMAIN g
      PROVE  \/ k \in DOMAIN h /\ g[k] = h[k]
             \/ \E j \in DOMAIN t : g[k] = t[j]
  <2>1. CASE k \in DOMAIN h
    BY <1>1, <1>2, <2>1
  <2>2. CASE k \notin DOMAIN h
    <3>1. k - Len(h) \in DOMAIN t /\ Len(h) + (k - Len(h)) = k
      BY <1>1, <1>2, <1>5, <2>2
    <3>2. g[k] = t[k - Len(h)]
      BY <1>1, <1>2, <3>1
    <3> QED
      BY <3>1, <3>2
  <2> QED
    BY <2>1, <2>2
<1>6. ASSUME Backed(h), ClaimsNothing(t) PROVE Backed(g)
  <2> SUFFICES ASSUME NEW k \in DOMAIN g, Claims(g[k]) PROVE Given(g, k - 1, g[k].actor)
    BY DEF Backed
  <2>1. k \in DOMAIN h /\ g[k] = h[k]
    BY <1>5, <1>6 DEF ClaimsNothing
  <2>2. Given(h, k - 1, g[k].actor) /\ k - 1 \in Int
    BY <1>2, <1>6, <2>1 DEF Backed
  <2> QED
    BY <1>3, <2>2
<1>7. ASSUME ClaimsNothing(h), ClaimsNothing(t) PROVE ClaimsNothing(g)
  BY <1>5, <1>7 DEF ClaimsNothing
<1>8. Len(h) <= Len(g)
  BY <1>1, <1>2
<1> QED
  BY <1>1, <1>3, <1>4, <1>6, <1>7, <1>8 DEF g

LEMMA WhenClaimsNothing ==
    ASSUME NEW b \in BOOLEAN, NEW e, ~Claims(e)
    PROVE  ClaimsNothing(When(b, e))
<1>1. CASE b
  BY <1>1 DEF When, ClaimsNothing
<1>2. CASE ~b
  BY <1>2 DEF When, ClaimsNothing
<1> QED
  BY <1>1, <1>2

LEMMA ReportEntries ==
    ASSUME TypeInv, NEW u \in Users, Authenticated(u), NEW row \in Row,
           NEW a \in Users \cup {NONE}, NEW n \in Nat,
           NEW s, s = <<Entry("INCIDENT_CREATED", u, NONE, "REPORTED"),
                        Entry("SLA_CREATED", NONE, NONE, row.hours)>>
                      \o When(a # NONE, Entry("AGENT_ASSIGNED", NONE, NONE, a))
                      \o StatusEntry(NONE, "REPORTED", row.status)
                      \o [k \in 1 .. n |-> Entry("IMAGE_ADDED", u, NONE, "REPORT")]
    PROVE  /\ s \in Seq(Event) /\ ClaimsNothing(s)
           /\ a # NONE => HasGift(s, a)
<1> DEFINE e0  == Entry("INCIDENT_CREATED", u, NONE, "REPORTED")
           e1  == Entry("SLA_CREATED", NONE, NONE, row.hours)
           e2  == Entry("AGENT_ASSIGNED", NONE, NONE, a)
           e4  == Entry("IMAGE_ADDED", u, NONE, "REPORT")
           s1  == <<e0, e1>>
           s2  == When(a # NONE, e2)
           s3  == StatusEntry(NONE, "REPORTED", row.status)
           s4  == [k \in 1 .. n |-> e4]
<1>1. Signer(u) /\ Signer(NONE) /\ NONE \notin Users /\ "AGENT" # "SYSTEM"
  BY AccountsAssumption DEF Authenticated, Signer
<1>2. e0 \in Event
  <2>1. /\ "INCIDENT_CREATED" \in HistoryActions
        /\ Fits("INCIDENT_CREATED", NONE, "REPORTED")
    BY DEF HistoryActions, Fits, StatusActions, AgentActions, SlaActions, PriorityActions, Statuses
  <2> QED
    BY <1>1, <2>1, EntryEvent DEF EntryValues, Statuses
<1>3. e1 \in Event /\ e2 \in Event /\ e4 \in Event
  <2>1. row.hours \in SlaHours \cup {NONE}
    BY DEF Row
  <2>2. e1 \in Event
    BY <1>1, <2>1, OtherEntries DEF SlaActions
  <2>3. e2 \in Event
    BY <1>1, OtherEntries DEF AgentActions
  <2>4. e4 \in Event
    BY <1>1, OtherEntries DEF OtherActions, EntryValues
  <2> QED
    BY <2>2, <2>3, <2>4
<1>4. s3 \in Seq(Event)
  BY <1>1, StatusEntryEvents DEF Row, Statuses
<1>5. ~Claims(e0) /\ ~Claims(e1) /\ ~Claims(e2) /\ ~Claims(e4)
  BY DEF Claims, Entry, StatusActions
<1>6. \A x, old, new : ~Claims(Entry(x, NONE, old, new))
  BY DEF Claims, Entry
<1>7. ClaimsNothing(s3)
  <2>1. ("REPORTED" # row.status) \in BOOLEAN
    OBVIOUS
  <2> QED
    BY <1>6, <2>1, WhenClaimsNothing DEF StatusEntry
<1>8. (a # NONE) \in BOOLEAN /\ (a # NONE => Gives(e2, a))
  BY DEF Gives, Entry, AgentActions
<1> HIDE DEF e0, e1, e2, e4
<1>9. s1 \in Seq(Event) /\ ClaimsNothing(s1)
  BY <1>2, <1>3, <1>5 DEF ClaimsNothing
<1>10. s2 \in Seq(Event) /\ ClaimsNothing(s2) /\ (a # NONE => HasGift(s2, a))
  <2>1. s2 \in Seq(Event) /\ ClaimsNothing(s2)
    BY <1>3, <1>5, <1>8, WhenEvents, WhenClaimsNothing
  <2>2. a # NONE => HasGift(s2, a)
    BY <1>8 DEF When, HasGift
  <2> QED
    BY <2>1, <2>2
<1>11. s4 \in Seq(Event) /\ ClaimsNothing(s4)
  BY <1>3, <1>5 DEF ClaimsNothing
<1>12. s = ((s1 \o s2) \o s3) \o s4
  BY Zenon DEF e0, e1, e2, e4
<1> HIDE DEF s1, s2, s3, s4
<1>13. /\ s1 \o s2 \in Seq(Event) /\ ClaimsNothing(s1 \o s2)
       /\ a # NONE => HasGift(s1 \o s2, a)
  BY <1>9, <1>10, Added, GiftJoin
<1>14. /\ (s1 \o s2) \o s3 \in Seq(Event) /\ ClaimsNothing((s1 \o s2) \o s3)
       /\ a # NONE => HasGift((s1 \o s2) \o s3, a)
  BY <1>4, <1>7, <1>13, Added, GiftJoin
<1>15. /\ ((s1 \o s2) \o s3) \o s4 \in Seq(Event) /\ ClaimsNothing(((s1 \o s2) \o s3) \o s4)
       /\ a # NONE => HasGift(((s1 \o s2) \o s3) \o s4, a)
  BY <1>11, <1>14, Added, GiftJoin
<1> QED
  BY <1>12, <1>15

LEMMA ReportOverlap ==
    ASSUME TypeInv, TypeInv', OverlapInv, NEW u \in Users, NEW i \in Incidents,
           NEW c \in CategoryChoices, NEW a \in Users \cup {NONE}, NEW n \in 0 .. MaxPhotos,
           CreateIncident(u, i, c, a, n)
    PROVE  Lengthened /\ TrailBacked'
<1> DEFINE row == NewRow(c, a)
           s == <<Entry("INCIDENT_CREATED", u, NONE, "REPORTED"),
                  Entry("SLA_CREATED", NONE, NONE, row.hours)>>
                \o When(a # NONE, Entry("AGENT_ASSIGNED", NONE, NONE, a))
                \o StatusEntry(NONE, "REPORTED", row.status)
                \o [k \in 1 .. n |-> Entry("IMAGE_ADDED", u, NONE, "REPORT")]
           h == history[i]
<1>1. row \in Row /\ row # NONE
  BY NewRowSound, NullIsNoRow, WorkflowAssumption
<1>2. row.agent = a
  <2> DEFINE p == CATEGORY_DEFAULT_PRIORITY[c]
             r == [status   |-> IF a = NONE THEN "REPORTED" ELSE "ASSIGNED",
                   agent    |-> a,
                   priority |-> p,
                   hours    |-> NONE, deadline |-> NONE, verdict |-> NONE,
                   created  |-> now]
  <2>1. p \in Priorities /\ DEFAULT_SLA_HOURS[p] \in SlaHours /\ now \in Times
    BY DefaultPriority, DefaultHours, WorkflowAssumption DEF TypeInv
  <2>2. row = WithWindow(r, DEFAULT_SLA_HOURS[p])
    BY DEF NewRow
  <2> HIDE DEF p
  <2>3. r \in Row /\ r.agent = a
    BY <2>1 DEF Row, Statuses
  <2> HIDE DEF r, row
  <2> QED
    BY <2>1, <2>2, <2>3, WindowRow DEF SameCase
<1>3. /\ incident' = [incident EXCEPT ![i] = row]
      /\ history' = [history EXCEPT ![i] = @ \o s]
      /\ Authenticated(u) /\ ~Filed(i) /\ UNCHANGED <<role, active, now>>
  BY DEF CreateIncident, RecordAll, accountVars
<1>4. n \in Nat
  BY WorkflowAssumption
<1> HIDE DEF row
<1>5. s \in Seq(Event) /\ ClaimsNothing(s) /\ (a # NONE => HasGift(s, a))
  BY <1>1, <1>3, <1>4, ReportEntries
<1> HIDE DEF s
<1>6. h \in Seq(Event) /\ Backed(h)
  BY DEF TypeInv, OverlapInv, TrailBacked
<1>7. /\ h \o s \in Seq(Event) /\ Len(h) <= Len(h \o s)
      /\ \A b : \A m \in 0 .. Len(h) : Given(h, m, b) => Given(h \o s, m, b)
      /\ \A b : HasGift(s, b) => Given(h \o s, Len(h \o s), b)
      /\ Backed(h \o s)
  BY <1>5, <1>6, Added
<1> DEFINE g == h \o s
<1>8. history'[i] = g /\ incident'[i] = row
  BY <1>3 DEF TypeInv
<1> HIDE DEF g
<1>9. \A j \in Incidents : j # i => history'[j] = history[j] /\ incident'[j] = incident[j]
  BY <1>3 DEF TypeInv
<1>10. Lengthened
  <2>1. ASSUME NEW j \in Incidents
        PROVE  /\ Filed(j) => incident'[j] # NONE
               /\ Len(history[j]) <= Len(history'[j])
               /\ \A m \in 0 .. Len(history[j]) : \A b :
                     Given(history[j], m, b) => Given(history'[j], m, b)
    <3>1. CASE j = i
      BY <1>1, <1>7, <1>8, <3>1 DEF g
    <3>2. CASE j # i
      BY <1>9, <3>2 DEF Filed, TypeInv
    <3> QED
      BY <3>1, <3>2
  <2> QED
    BY <1>3, <2>1 DEF Lengthened, Filed
<1>11. TrailBacked'
  <2> SUFFICES ASSUME NEW j \in Incidents
               PROVE  /\ Backed(history'[j])
                      /\ (incident'[j] # NONE /\ incident'[j].agent # NONE) =>
                            Given(history'[j], Len(history'[j]), incident'[j].agent)
    BY DEF TrailBacked, Filed
  <2>1. CASE j = i
    BY <1>2, <1>5, <1>7, <1>8, <2>1 DEF g
  <2>2. CASE j # i
    BY <1>9, <2>2 DEF OverlapInv, TrailBacked, Filed
  <2> QED
    BY <2>1, <2>2
<1> QED
  BY <1>10, <1>11

LEMMA SwitchOverlap ==
    ASSUME TypeInv, TypeInv', OverlapInv, NEW u \in Users, NEW a \in Users, NEW f \in BOOLEAN,
           SetAvailability(u, a, f)
    PROVE  Lengthened /\ TrailBacked'
<1> DEFINE e == Entry("AGENT_AVAILABILITY_CHANGED", u,
                      AvailabilityWord(~f), AvailabilityWord(f))
<1>1. e \in Event
  <2>1. Signer(u)
    BY DEF SetAvailability, Authenticated, Signer
  <2>2. AvailabilityWord(~f) \in EntryValues /\ AvailabilityWord(f) \in EntryValues
    BY DEF AvailabilityWord, EntryValues
  <2> QED
    BY <2>1, <2>2, OtherEntries DEF OtherActions
<1>2. ~Claims(e)
  BY DEF Claims, Entry, StatusActions
<1>3. /\ history' = [i \in Incidents |-> IF i \in OpenOnPlate(a) THEN Append(history[i], e)
                                                              ELSE history[i]]
      /\ incident' = incident /\ UNCHANGED <<role, active, now>>
  BY DEF SetAvailability, accountVars
<1> HIDE DEF e
<1>4. <<e>> \in Seq(Event) /\ ClaimsNothing(<<e>>)
  BY <1>1, <1>2 DEF ClaimsNothing
<1>5. ASSUME NEW j \in Incidents
      PROVE  /\ Len(history[j]) <= Len(history'[j])
             /\ \A m \in 0 .. Len(history[j]) : \A b :
                   Given(history[j], m, b) => Given(history'[j], m, b)
             /\ Backed(history[j]) => Backed(history'[j])
  <2> DEFINE h == history[j]
             g == h \o <<e>>
  <2>1. h \in Seq(Event) /\ Len(h) \in Nat
    BY DEF TypeInv
  <2>2. /\ Len(h) <= Len(g)
        /\ \A b : \A m \in 0 .. Len(h) : Given(h, m, b) => Given(g, m, b)
        /\ Backed(h) => Backed(g)
    BY <1>4, <2>1, Added
  <2>3. Append(h, e) = g
    BY <1>1, <2>1
  <2> HIDE DEF g
  <2>4. history'[j] = h \/ history'[j] = g
    BY <1>3, <2>3
  <2> QED
    BY <2>1, <2>2, <2>4
<1>6. Lengthened
  BY <1>3, <1>5 DEF Lengthened, Filed
<1>7. TrailBacked'
  <2> SUFFICES ASSUME NEW j \in Incidents
               PROVE  /\ Backed(history'[j])
                      /\ (incident'[j] # NONE /\ incident'[j].agent # NONE) =>
                            Given(history'[j], Len(history'[j]), incident'[j].agent)
    BY DEF TrailBacked, Filed
  <2>1. /\ Backed(history[j])
        /\ (incident[j] # NONE /\ incident[j].agent # NONE) =>
              Given(history[j], Len(history[j]), incident[j].agent)
    BY DEF OverlapInv, TrailBacked, Filed
  <2>2. ASSUME NEW b, Given(history[j], Len(history[j]), b)
        PROVE  Given(history'[j], Len(history'[j]), b)
    <3>1. /\ Len(history[j]) \in Nat /\ Len(history'[j]) \in Nat
          /\ DOMAIN history'[j] \subseteq Int
      BY DEF TypeInv
    <3>a. Len(history[j]) \in 0 .. Len(history[j])
      BY <3>1
    <3>2. Given(history'[j], Len(history[j]), b) /\ Len(history[j]) <= Len(history'[j])
      BY <1>5, <2>2, <3>a
    <3>3. Len(history[j]) \in Int /\ Len(history'[j]) \in Int
      BY <3>1
    <3> QED
      BY <3>1, <3>2, <3>3, GivenMore
  <2> QED
    BY <1>3, <1>5, <2>1, <2>2
<1> QED
  BY <1>6, <1>7

\* A step that leaves the slots alone and lengthens the trail.
LEMMA SlotsAlone ==
    ASSUME TypeInv, TypeInv', OverlapInv, Lengthened, TrailBacked', UNCHANGED req
    PROVE  OverlapInv'
<1>1. \A s \in Requests : SlotSound(s)'
  BY SlotKept
<1>2. Lined(req') /\ DOMAIN req' = Requests
  BY DEF OverlapInv
<1> QED
  BY <1>1, <1>2 DEF OverlapInv

LEMMA OverlapStep ==
    ASSUME TypeInv, OverlapInv, [RacesNext]_racesVars
    PROVE  TypeInv' /\ OverlapInv'
<1>0. ASSUME UNCHANGED workflowVars PROVE TypeInv'
  BY <1>0, WorkflowStep
<1>1. ASSUME NEW r \in Requests, NEW u \in Users, NEW i \in Incidents,
             NEW kind, NEW arg, NEW o, Load(r, u, i, kind, arg, o),
             kind = "status"   => arg \in Statuses,
             kind = "assign"   => arg \in Users /\ o \in BOOLEAN,
             kind = "sla"      => arg \in SlaChoices \cup {NONE},
             kind = "priority" => arg \in PriorityChoices
      PROVE  TypeInv' /\ OverlapInv'
  <2>1. TypeInv'
    BY <1>0, <1>1 DEF Load
  <2> QED
    BY <1>1, <2>1, LoadOverlap
<1>2. ASSUME NEW r \in Requests, NEW u \in Users, NEW i \in Incidents,
             \/ \E x \in Statuses : Load(r, u, i, "status", x, FALSE)
             \/ \E a \in Users, f \in BOOLEAN : Load(r, u, i, "assign", a, f)
             \/ Load(r, u, i, "unassign", NONE, FALSE)
             \/ \E h \in SlaChoices \cup {NONE} : Load(r, u, i, "sla", h, FALSE)
             \/ \E p \in PriorityChoices : Load(r, u, i, "priority", p, FALSE)
             \/ Load(r, u, i, "proof", NONE, FALSE)
      PROVE  TypeInv' /\ OverlapInv'
  BY <1>1, <1>2
<1>3. ASSUME NEW r \in Requests, Stage(r) PROVE TypeInv' /\ OverlapInv'
  <2>1. TypeInv'
    BY <1>0, <1>3 DEF Stage
  <2> QED
    BY <1>3, <2>1, StageOverlap
<1>4. ASSUME NEW r \in Requests, Commit(r) PROVE TypeInv' /\ OverlapInv'
  BY <1>4, CommitOverlap
<1>5. ASSUME NEW r \in Requests, Abandon(r) PROVE TypeInv' /\ OverlapInv'
  <2>1. TypeInv'
    BY <1>0, <1>5 DEF Abandon
  <2> QED
    BY <1>5, <2>1, AbandonOverlap
<1>6. ASSUME NEW u \in Users, NEW i \in Incidents, NEW c \in CategoryChoices,
             NEW a \in Users \cup {NONE}, NEW n \in 0 .. MaxPhotos,
             Atomic(CreateIncident(u, i, c, a, n))
      PROVE  TypeInv' /\ OverlapInv'
  <2>1. CreateIncident(u, i, c, a, n) /\ UNCHANGED req
    BY <1>6 DEF Atomic
  <2>2. TypeInv'
    BY <2>1, WorkflowStep DEF WorkflowNext
  <2>3. Lengthened /\ TrailBacked'
    BY <2>1, <2>2, ReportOverlap
  <2> QED
    BY <2>1, <2>2, <2>3, SlotsAlone
<1>7. ASSUME NEW u \in Users, NEW a \in Users, NEW f \in BOOLEAN,
             Atomic(SetAvailability(u, a, f))
      PROVE  TypeInv' /\ OverlapInv'
  <2>1. SetAvailability(u, a, f) /\ UNCHANGED req
    BY <1>7 DEF Atomic
  <2>2. TypeInv'
    BY <2>1, WorkflowStep DEF WorkflowNext
  <2>3. Lengthened /\ TrailBacked'
    BY <2>1, <2>2, SwitchOverlap
  <2> QED
    BY <2>1, <2>2, <2>3, SlotsAlone
<1>8. ASSUME UNCHANGED racesVars PROVE TypeInv' /\ OverlapInv'
  <2>1. UNCHANGED workflowVars /\ UNCHANGED req
    BY <1>8 DEF racesVars, workflowVars, accountVars, agentVars
  <2>2. TypeInv' /\ Lengthened /\ TrailBacked'
    BY <1>0, <2>1, UnchangedLengthened DEF OverlapInv
  <2> QED
    BY <2>1, <2>2, SlotsAlone
<1> QED
  BY <1>2, <1>3, <1>4, <1>5, <1>6, <1>7, <1>8 DEF RacesNext

-----------------------------------------------------------------------------
LEMMA OverlapInit == RacesInit => TypeInv /\ OverlapInv
<1> SUFFICES ASSUME RacesInit PROVE TypeInv /\ OverlapInv
  OBVIOUS
<1>1. TypeInv
  BY WorkflowInitType DEF RacesInit
<1>2. /\ DOMAIN req = Requests /\ \A r \in Requests : req[r] = Idle
      /\ \A i \in Incidents : history[i] = <<>> /\ ~Filed(i)
  BY DEF RacesInit, WorkflowInit, Filed
<1>3. Lined(req)
  BY <1>2 DEF Lined, Idle
<1>4. TrailBacked
  BY <1>2 DEF TrailBacked, Backed
<1> QED
  BY <1>1, <1>2, <1>3, <1>4 DEF OverlapInv, SlotSound

LEMMA OverlapBacks == TypeInv /\ OverlapInv => AgentEntriesBacked
<1> SUFFICES ASSUME TypeInv, OverlapInv PROVE AgentEntriesBacked
  OBVIOUS
<1>1. ASSUME NEW r \in Requests
      PROVE  /\ req[r].step \in {"idle", "loaded", "staged"}
             /\ req[r].step = "staged" => Staged(req[r]) /\ r \notin req[r].behind
  <2>1. req[r].step \in {"idle", "loaded", "staged"}
    BY DEF OverlapInv, SlotSound, Idle, Loaded, Pending
  <2>2. ASSUME req[r].step = "staged" PROVE Staged(req[r]) /\ r \notin req[r].behind
    <3> DEFINE q == req[r]
    <3>1. Pending(q)
      BY <2>2, SoundCases DEF OverlapInv
    <3>2. /\ r \notin q.behind /\ q.behind \subseteq Waiting(req, q.incident)
          /\ \A s \in q.behind : req[s].place <= q.place /\ req[s].behind \subseteq q.behind
      BY <2>2 DEF OverlapInv, Lined
    <3>3. Waiting(req, q.incident) = StagedOn(q.incident)
      BY DEF Waiting, StagedOn
    <3>4. DOMAIN q.set \subseteq DOMAIN incident[q.incident]
      <4>1. incident[q.incident] \in Row
        BY <3>1 DEF Pending, TypeInv, Filed
      <4>2. DOMAIN incident[q.incident] = Columns
        BY <4>1 DEF Row, Columns
      <4> QED
        BY <3>1, <4>2 DEF Pending, ColumnsOK
    <3>5. q.place \in 0 .. Len(history[q.incident])
      BY <3>1 DEF Pending
    <3> HIDE DEF q
    <3>6. Staged(q)
      BY <3>2, <3>3, <3>4, <3>5 DEF Staged
    <3> QED
      BY <3>2, <3>6 DEF q
  <2> QED
    BY <2>1, <2>2
<1>2. RacesTypeOK
  BY <1>1, TypeInvTypes DEF RacesTypeOK, OverlapInv
<1>3. ASSUME NEW i \in Incidents, NEW k \in DOMAIN history[i], Claims(history[i][k])
      PROVE  \E j \in Rows(i, AgentActions) : j < k /\ history[i][j].new = history[i][k].actor
  <2>1. Given(history[i], k - 1, history[i][k].actor)
    BY <1>3 DEF OverlapInv, TrailBacked, Backed
  <2>2. PICK j \in DOMAIN history[i] : j <= k - 1 /\ Gives(history[i][j], history[i][k].actor)
    BY <2>1 DEF Given
  <2>3. j < k
    BY <2>2 DEF TypeInv
  <2> QED
    BY <2>2, <2>3 DEF Rows, Gives
<1> QED
  BY <1>2, <1>3 DEF AgentEntriesBacked, Claims

(***************************************************************************)
(* However many requests overlap, and in whatever order they read, flush   *)
(* and commit: an entry an agent signs comes after an entry that gave the  *)
(* incident to that agent, and the places the requests hold in the order   *)
(* of the ids agree.                                                       *)
(***************************************************************************)
THEOREM AgentEntriesAlwaysBacked == RacesSpec => []AgentEntriesBacked
<1>1. RacesInit => TypeInv /\ OverlapInv
  BY OverlapInit
<1>2. TypeInv /\ OverlapInv /\ [RacesNext]_racesVars => TypeInv' /\ OverlapInv'
  BY OverlapStep
<1> QED
  BY <1>1, <1>2, OverlapBacks, PTL DEF RacesSpec

-----------------------------------------------------------------------------
(***************************************************************************)
(* No overlap changes a column silently.  What a staged request writes it  *)
(* also announces: its SET clause holds the columns it means to change,    *)
(* and its entries one for each of these.                                  *)
(***************************************************************************)
Tagged(e, actions, value) == e.action \in actions /\ e.new = value

Announces(es, actions, value) == \E k \in DOMAIN es : Tagged(es[k], actions, value)

\* The columns with a family of entries, and the entries of that family.
Families == {<<"status", StatusActions>>, <<"agent", AgentActions>>,
             <<"hours", SlaActions>>, <<"priority", PriorityActions>>}

\* The entries es announce every column of such a family that set changes.
AnnouncesAll(es, set) ==
    \A family \in Families :
        family[1] \in DOMAIN set => Announces(es, family[2], set[family[1]])

StagedAnnounces ==
    \A r \in Requests : req[r].step = "staged" => AnnouncesAll(req[r].entries, req[r].set)

(***************************************************************************)
(* Entries merged into a history are all there afterwards, and so is every *)
(* entry the history had: one more of the kind that was merged.            *)
(***************************************************************************)
LEMMA MergedCounts ==
    ASSUME NEW h \in Seq(Event), NEW es \in Seq(Event), NEW p \in 0 .. Len(h),
           NEW actions, NEW value, Announces(es, actions, value)
    PROVE  Announced(Merged(h, p, es), actions, value) > Announced(h, actions, value)
<1> DEFINE g == Merged(h, p, es)
           S == {k \in DOMAIN h : Tagged(h[k], actions, value)}
           T == {k \in DOMAIN g : Tagged(g[k], actions, value)}
           f == [k \in S |-> IF k <= p THEN k ELSE k + 1]
<1>1. PICK m \in DOMAIN es : Tagged(es[m], actions, value)
  BY DEF Announces
<1>2. es # <<>>
  BY <1>1
<1>3. /\ g \in Seq(Event) /\ Len(es) >= 1
      /\ Len(g) = Len(h) + Len(es)
      /\ \A k \in 1 .. p : g[k] = h[k]
      /\ g[p + 1] = es[1]
      /\ \A k \in (p + 1) .. Len(h) : g[k + 1] = h[k]
      /\ \A k \in 2 .. Len(es) : g[Len(h) + k] = es[k]
  BY <1>2, MergedEntries
<1> HIDE DEF g
<1>4. /\ Len(h) \in Nat /\ Len(es) \in Nat /\ Len(g) \in Nat /\ p \in Nat /\ p <= Len(h)
      /\ DOMAIN h = 1 .. Len(h) /\ DOMAIN es = 1 .. Len(es) /\ DOMAIN g = 1 .. Len(g)
  BY <1>3
<1>5. ASSUME NEW k \in S
      PROVE  /\ f[k] \in T /\ f[k] \in Nat /\ k \in Nat
             /\ f[k] # p + 1 /\ f[k] <= Len(h) + 1
             /\ f[k] = IF k <= p THEN k ELSE k + 1
  <2>1. k \in 1 .. Len(h) /\ Tagged(h[k], actions, value)
    BY <1>4
  <2>2. f[k] = IF k <= p THEN k ELSE k + 1
    OBVIOUS
  <2> HIDE DEF f
  <2>3. f[k] \in 1 .. Len(g)
    BY <1>3, <1>4, <2>1, <2>2
  <2>4. g[f[k]] = h[k]
    <3>1. CASE k <= p
      BY <1>3, <1>4, <2>1, <2>2, <3>1
    <3>2. CASE ~(k <= p)
      <4>1. k \in (p + 1) .. Len(h)
        BY <1>4, <2>1, <3>2
      <4> QED
        BY <1>3, <2>2, <3>2, <4>1
    <3> QED
      BY <3>1, <3>2
  <2>5. f[k] \in T
    BY <1>4, <2>1, <2>3, <2>4
  <2> QED
    BY <1>4, <2>1, <2>2, <2>5
<1>6. f \in Injection(S, T)
  <2>1. f \in [S -> T]
    BY <1>5
  <2>2. ASSUME NEW a \in S, NEW b \in S, f[a] = f[b] PROVE a = b
    <3> HIDE DEF f
    <3> QED
      BY <1>4, <1>5, <2>2
  <2> HIDE DEF f, S, T
  <2> QED
    BY <2>1, <2>2 DEF Injection, IsInjective
<1>7. PICK x \in T : x \in Nat /\ (x = p + 1 \/ x > Len(h) + 1)
  <2>1. CASE m = 1
    <3>1. p + 1 \in DOMAIN g /\ g[p + 1] = es[m]
      BY <1>3, <1>4, <2>1
    <3>2. p + 1 \in T /\ p + 1 \in Nat
      BY <1>1, <1>4, <3>1
    <3> QED
      BY <3>2
  <2>2. CASE m # 1
    <3>1. m \in 2 .. Len(es)
      BY <1>4, <2>2
    <3>2. Len(h) + m \in DOMAIN g /\ g[Len(h) + m] = es[m]
      BY <1>3, <1>4, <3>1
    <3>3. Len(h) + m \in T /\ Len(h) + m \in Nat /\ Len(h) + m > Len(h) + 1
      BY <1>1, <1>4, <3>1, <3>2
    <3> QED
      BY <3>3
  <2> QED
    BY <2>1, <2>2
<1>8. f \notin Surjection(S, T)
  <2>1. \A k \in S : f[k] # x
    <3> HIDE DEF f, S, T
    <3> QED
      BY <1>4, <1>5, <1>7
  <2> HIDE DEF f, S, T
  <2> QED
    BY <1>7, <2>1 DEF Surjection
<1>9. IsFiniteSet(T)
  <2>1. IsFiniteSet(1 .. Len(g))
    BY <1>4, FS_Interval
  <2>2. T \in SUBSET (1 .. Len(g))
    BY <1>4
  <2> HIDE DEF T
  <2> QED
    BY <2>1, <2>2, FS_Subset
<1> HIDE DEF f, S, T
<1>10. /\ IsFiniteSet(S) /\ Cardinality(S) <= Cardinality(T)
       /\ Cardinality(S) = Cardinality(T) <=> f \in Surjection(S, T)
  BY <1>6, <1>9, FS_Injection
<1>11. Cardinality(S) \in Nat /\ Cardinality(T) \in Nat
  BY <1>9, <1>10, FS_CardinalityType
<1>12. Cardinality(S) < Cardinality(T)
  BY <1>8, <1>10, <1>11
<1>13. /\ Announced(h, actions, value) = Cardinality(S)
       /\ Announced(g, actions, value) = Cardinality(T)
  BY DEF Announced, Tagged, S, T
<1> QED
  BY <1>11, <1>12, <1>13 DEF g

(***************************************************************************)
(* Every plan announces the columns it changes, on whatever row it reads.  *)
(***************************************************************************)
PlanAnnounces(row, plan) ==
    /\ plan.row.status # row.status => Announces(plan.entries, StatusActions, plan.row.status)
    /\ plan.row.agent # row.agent => Announces(plan.entries, AgentActions, plan.row.agent)
    /\ plan.row.hours # row.hours => Announces(plan.entries, SlaActions, plan.row.hours)
    /\ plan.row.priority # row.priority =>
          Announces(plan.entries, PriorityActions, plan.row.priority)

LEMMA AnnouncesWhen ==
    ASSUME NEW b, b, NEW action, NEW u, NEW old, NEW value, NEW actions, action \in actions
    PROVE  Announces(When(b, Entry(action, u, old, value)), actions, value)
<1> DEFINE e == Entry(action, u, old, value)
<1>1. Tagged(e, actions, value)
  BY DEF Tagged, Entry
<1>2. When(b, e) = <<e>>
  BY DEF When
<1> HIDE DEF e
<1>3. 1 \in DOMAIN <<e>> /\ <<e>>[1] = e
  OBVIOUS
<1>4. Announces(When(b, e), actions, value)
  BY <1>1, <1>2, <1>3 DEF Announces
<1> QED
  BY <1>4 DEF e

LEMMA AnnouncesStatus ==
    ASSUME NEW u, NEW old \in Statuses, NEW new \in Statuses, old # new
    PROVE  Announces(StatusEntry(u, old, new), StatusActions, new)
<1>1. StatusAction(old, new) \in StatusActions
  BY StatusActionKind
<1> QED
  BY <1>1, AnnouncesWhen DEF StatusEntry

LEMMA AnnouncesJoin ==
    ASSUME NEW s \in Seq(Event), NEW t \in Seq(Event), NEW actions, NEW value,
           Announces(s, actions, value) \/ Announces(t, actions, value)
    PROVE  Announces(s \o t, actions, value)
<1>1. /\ s \o t \in Seq(Event) /\ Len(s \o t) = Len(s) + Len(t)
      /\ \A k \in 1 .. Len(s) : (s \o t)[k] = s[k]
      /\ \A k \in 1 .. Len(t) : (s \o t)[Len(s) + k] = t[k]
  BY JoinedEntries
<1>2. CASE Announces(s, actions, value)
  <2>1. PICK k \in 1 .. Len(s) : Tagged(s[k], actions, value)
    BY <1>2 DEF Announces
  <2>2. k \in DOMAIN (s \o t) /\ Tagged((s \o t)[k], actions, value)
    BY <1>1, <2>1
  <2> QED
    BY <2>2 DEF Announces
<1>3. CASE Announces(t, actions, value)
  <2>1. PICK k \in 1 .. Len(t) : Tagged(t[k], actions, value)
    BY <1>3 DEF Announces
  <2>2. Len(s) + k \in DOMAIN (s \o t) /\ Tagged((s \o t)[Len(s) + k], actions, value)
    BY <1>1, <2>1
  <2> QED
    BY <2>2 DEF Announces
<1> QED
  BY <1>2, <1>3

LEMMA StatusPlanAnnounces ==
    ASSUME TypeInv, NEW u, NEW row \in Row, NEW new \in Statuses
    PROVE  PlanAnnounces(row, StatusPlan(u, row, new))
<1> DEFINE moved == [row EXCEPT !.status = new]
           plan  == StatusPlan(u, row, new)
<1>1. /\ plan.row = (IF new \in SLA_FREEZE_STATUSES THEN Judged(moved) ELSE moved)
      /\ plan.entries = StatusEntry(u, row.status, new)
  BY DEF StatusPlan, Plan
<1>2. /\ moved \in Row /\ moved.status = new /\ moved.agent = row.agent
      /\ moved.hours = row.hours /\ moved.priority = row.priority /\ row.status \in Statuses
  BY DEF Row
<1> HIDE DEF moved, plan
<1>3. /\ plan.row.status = new /\ plan.row.agent = row.agent
      /\ plan.row.hours = row.hours /\ plan.row.priority = row.priority
  BY <1>1, <1>2, JudgedRow DEF TypeInv, SameCase
<1>4. new # row.status => Announces(plan.entries, StatusActions, new)
  BY <1>1, <1>2, AnnouncesStatus
<1> QED
  BY <1>3, <1>4 DEF PlanAnnounces, plan

LEMMA AssignPlanAnnounces ==
    ASSUME TypeInv, NEW u \in Users, Exists(u), NEW row \in Row, NEW agent \in Users
    PROVE  PlanAnnounces(row, AssignPlan(u, row, agent))
<1> DEFINE status == IF row.status \in {"REPORTED", "TRIAGED"} THEN "ASSIGNED" ELSE row.status
           a  == IF row.agent = NONE THEN "AGENT_ASSIGNED" ELSE "AGENT_REASSIGNED"
           b1 == ~available[agent]
           b2 == row.agent # agent
           s1 == When(b1, Entry("ADMIN_OVERRIDE", u, NONE, NONE))
           s2 == When(b2, Entry(a, u, row.agent, agent))
           s3 == StatusEntry(u, row.status, status)
           plan == AssignPlan(u, row, agent)
<1>1. /\ plan.row.agent = agent /\ plan.row.status = status /\ plan.row.hours = row.hours
      /\ plan.row.priority = row.priority /\ plan.entries = (s1 \o s2) \o s3
  BY DEF AssignPlan, Plan, Row
<1>2. /\ Signer(u) /\ b1 \in BOOLEAN /\ b2 \in BOOLEAN /\ a \in AgentActions
      /\ row.agent \in Users \cup {NONE} /\ row.status \in Statuses /\ status \in Statuses
  BY DEF Signer, Row, TypeInv, AgentActions, Statuses
<1> HIDE DEF plan, status, a
<1>3. /\ s1 \in Seq(Event) /\ s2 \in Seq(Event) /\ s3 \in Seq(Event)
  <2>1. /\ Entry("ADMIN_OVERRIDE", u, NONE, NONE) \in Event
        /\ Entry(a, u, row.agent, agent) \in Event
    BY <1>2, OtherEntries DEF OtherActions, EntryValues
  <2> QED
    BY <1>2, <2>1, WhenEvents, StatusEntryEvents
<1>4. b2 => Announces(s2, AgentActions, agent)
  BY <1>2, AnnouncesWhen
<1>5. status # row.status => Announces(s3, StatusActions, status)
  BY <1>2, AnnouncesStatus
<1> HIDE DEF s1, s2, s3
<1>6. s1 \o s2 \in Seq(Event) /\ (b2 => Announces(s1 \o s2, AgentActions, agent))
  BY <1>3, <1>4, AnnouncesJoin
<1>7. /\ b2 => Announces((s1 \o s2) \o s3, AgentActions, agent)
      /\ status # row.status => Announces((s1 \o s2) \o s3, StatusActions, status)
  BY <1>3, <1>5, <1>6, AnnouncesJoin
<1> QED
  BY <1>1, <1>7 DEF PlanAnnounces, plan

LEMMA UnassignPlanAnnounces ==
    ASSUME TypeInv, NEW u \in Users, Exists(u), NEW row \in Row
    PROVE  PlanAnnounces(row, UnassignPlan(u, row))
<1> DEFINE status == IF row.status = "ASSIGNED" THEN "REPORTED" ELSE row.status
           b  == row.agent # NONE
           s1 == When(b, Entry("AGENT_UNASSIGNED", u, row.agent, NONE))
           s2 == StatusEntry(u, row.status, status)
           plan == UnassignPlan(u, row)
<1>1. /\ plan.row.agent = NONE /\ plan.row.status = status /\ plan.row.hours = row.hours
      /\ plan.row.priority = row.priority /\ plan.entries = s1 \o s2
  BY DEF UnassignPlan, Plan, Row
<1>2. /\ Signer(u) /\ b \in BOOLEAN /\ "AGENT_UNASSIGNED" \in AgentActions
      /\ row.agent \in Users \cup {NONE} /\ row.status \in Statuses /\ status \in Statuses
  BY DEF Signer, Row, Statuses, AgentActions
<1> HIDE DEF plan, status
<1>3. s1 \in Seq(Event) /\ s2 \in Seq(Event)
  <2>1. Entry("AGENT_UNASSIGNED", u, row.agent, NONE) \in Event
    BY <1>2, OtherEntries
  <2> QED
    BY <1>2, <2>1, WhenEvents, StatusEntryEvents
<1>4. b => Announces(s1, AgentActions, NONE)
  BY <1>2, AnnouncesWhen
<1>5. status # row.status => Announces(s2, StatusActions, status)
  BY <1>2, AnnouncesStatus
<1> HIDE DEF s1, s2
<1>6. /\ b => Announces(s1 \o s2, AgentActions, NONE)
      /\ status # row.status => Announces(s1 \o s2, StatusActions, status)
  BY <1>3, <1>4, <1>5, AnnouncesJoin
<1> QED
  BY <1>1, <1>6 DEF PlanAnnounces, plan

LEMMA SlaPlanAnnounces ==
    ASSUME TypeInv, NEW u, NEW row \in Row, NEW h \in SlaHours \cup {NONE}
    PROVE  PlanAnnounces(row, SlaPlan(u, row, h))
<1> DEFINE a == IF row.hours = NONE THEN "SLA_CREATED" ELSE "SLA_UPDATED"
           b == row.hours # h
           plan == SlaPlan(u, row, h)
<1>1. plan.row = WithWindow(row, h) /\ plan.entries = When(b, Entry(a, u, row.hours, h))
  BY DEF SlaPlan, Plan
<1>2. /\ plan.row.agent = row.agent /\ plan.row.status = row.status
      /\ plan.row.priority = row.priority /\ plan.row.hours = h
  BY <1>1, WindowRow DEF TypeInv, SameCase
<1>3. a \in SlaActions
  BY DEF SlaActions
<1> HIDE DEF plan, a
<1>4. b => Announces(plan.entries, SlaActions, h)
  BY <1>1, <1>3, AnnouncesWhen
<1> QED
  BY <1>2, <1>4 DEF PlanAnnounces, plan

LEMMA PriorityPlanAnnounces ==
    ASSUME TypeInv, NEW u \in Users, Exists(u), NEW row \in Row, NEW p \in Priorities
    PROVE  PlanAnnounces(row, PriorityPlan(u, row, p))
<1> DEFINE h  == DEFAULT_SLA_HOURS[p]
           r  == [row EXCEPT !.priority = p]
           b1 == row.priority # p
           b2 == row.hours # h
           s1 == When(b1, Entry("PRIORITY_CHANGED", u, row.priority, p))
           s2 == When(b2, Entry("SLA_UPDATED", u, row.hours, h))
           plan == PriorityPlan(u, row, p)
<1>1. plan.row = WithWindow(r, h) /\ plan.entries = s1 \o s2
  BY DEF PriorityPlan, Plan
<1>2. /\ h \in SlaHours /\ row.hours \in SlaHours \cup {NONE} /\ row.priority \in Priorities
      /\ Signer(u) /\ b1 \in BOOLEAN /\ b2 \in BOOLEAN /\ now \in Times
      /\ "SLA_UPDATED" \in SlaActions /\ "PRIORITY_CHANGED" \in PriorityActions
  BY DefaultHours DEF Row, TypeInv, Signer, SlaActions, PriorityActions
<1>3. r \in Row /\ r.agent = row.agent /\ r.status = row.status /\ r.priority = p
  BY DEF Row
<1> HIDE DEF h, r, plan
<1>4. /\ plan.row.agent = row.agent /\ plan.row.status = row.status
      /\ plan.row.priority = p /\ plan.row.hours = h
  BY <1>1, <1>2, <1>3, WindowRow DEF SameCase
<1>5. s1 \in Seq(Event) /\ s2 \in Seq(Event)
  <2>1. /\ Entry("PRIORITY_CHANGED", u, row.priority, p) \in Event
        /\ Entry("SLA_UPDATED", u, row.hours, h) \in Event
    BY <1>2, OtherEntries
  <2> QED
    BY <1>2, <2>1, WhenEvents
<1>6. /\ b1 => Announces(s1, PriorityActions, p)
      /\ b2 => Announces(s2, SlaActions, h)
  BY <1>2, AnnouncesWhen
<1> HIDE DEF s1, s2
<1>7. /\ b1 => Announces(s1 \o s2, PriorityActions, p)
      /\ b2 => Announces(s1 \o s2, SlaActions, h)
  BY <1>5, <1>6, AnnouncesJoin
<1> QED
  BY <1>1, <1>4, <1>7 DEF PlanAnnounces, plan

LEMMA ReadyPlanAnnounces ==
    ASSUME TypeInv, NEW q, Ready(q)
    PROVE  PlanAnnounces(q.row, PlanFor(q))
<1> DEFINE u == q.user
           row == Enriched(q.row)
           plan == PlanFor(q)
<1>1. /\ q.row \in Row /\ row \in Row /\ row.agent = q.row.agent /\ row.status = q.row.status
      /\ row.priority = q.row.priority /\ row.hours = q.row.hours
      /\ u \in Users /\ Exists(u) /\ plan = PlanOf(q, row)
  BY EnrichedRow DEF Ready, Legal, TypeInv, SameCase, PlanFor
<1> HIDE DEF u, row, plan
<1>2. PlanAnnounces(row, plan)
  <2>1. CASE q.kind = "status"
    BY <1>1, <2>1, StatusPlanAnnounces DEF Ready, Legal, PlanOf, u
  <2>2. CASE q.kind = "assign"
    BY <1>1, <2>2, AssignPlanAnnounces DEF Ready, Legal, PlanOf, u
  <2>3. CASE q.kind = "unassign"
    BY <1>1, <2>3, UnassignPlanAnnounces DEF PlanOf, u
  <2>4. CASE q.kind = "sla"
    <3>1. q.arg \in SlaHours \cup {NONE}
      BY <2>4, WorkflowAssumption DEF Ready, Legal
    <3> QED
      BY <1>1, <2>4, <3>1, SlaPlanAnnounces DEF PlanOf, u
  <2>5. CASE q.kind = "priority"
    <3>1. q.arg \in Priorities
      BY <2>5, WorkflowAssumption DEF Ready, Legal
    <3> QED
      BY <1>1, <2>5, <3>1, PriorityPlanAnnounces DEF PlanOf, u
  <2>6. CASE q.kind = "proof"
    <3>1. plan.row = row
      BY <1>1, <2>6 DEF PlanOf, ProofPlan, Plan
    <3> QED
      BY <3>1 DEF PlanAnnounces
  <2> QED
    BY <2>1, <2>2, <2>3, <2>4, <2>5, <2>6 DEF Ready, Legal
<1> QED
  BY <1>1, <1>2 DEF PlanAnnounces, plan

LEMMA StagedRequestAnnounces ==
    ASSUME TypeInv, NEW q, Ready(q)
    PROVE  AnnouncesAll(PlanFor(q).entries, SetClause(q.row, PlanFor(q).row))
<1> DEFINE plan == PlanFor(q)
           set  == SetClause(q.row, plan.row)
<1>1. PlanAnnounces(q.row, plan)
  BY ReadyPlanAnnounces
<1>2. DOMAIN q.row = Columns
  BY DEF Ready, Row, Columns
<1> HIDE DEF plan
<1>3. \A c \in DOMAIN set : set[c] = plan.row[c] /\ plan.row[c] # q.row[c]
  BY DEF SetClause
<1> HIDE DEF set
<1>4. /\ "status" \in DOMAIN set => Announces(plan.entries, StatusActions, set["status"])
      /\ "agent" \in DOMAIN set => Announces(plan.entries, AgentActions, set["agent"])
      /\ "hours" \in DOMAIN set => Announces(plan.entries, SlaActions, set["hours"])
      /\ "priority" \in DOMAIN set => Announces(plan.entries, PriorityActions, set["priority"])
  BY <1>1, <1>3 DEF PlanAnnounces
<1>5. AnnouncesAll(plan.entries, set)
  <2> SUFFICES ASSUME NEW family \in Families, family[1] \in DOMAIN set
               PROVE  Announces(plan.entries, family[2], set[family[1]])
    BY DEF AnnouncesAll
  <2>1. CASE family = <<"status", StatusActions>>
    BY <1>4, <2>1
  <2>2. CASE family = <<"agent", AgentActions>>
    BY <1>4, <2>2
  <2>3. CASE family = <<"hours", SlaActions>>
    BY <1>4, <2>3
  <2>4. CASE family = <<"priority", PriorityActions>>
    BY <1>4, <2>4
  <2> QED
    BY <2>1, <2>2, <2>3, <2>4 DEF Families
<1> QED
  BY <1>5 DEF plan, set

(***************************************************************************)
(* A commit writes the columns of its SET clause over the row as it is by  *)
(* then, and puts an entry for each of them in the history.                *)
(***************************************************************************)
ColumnAnnounced(i, family) ==
    incident'[i][family[1]] # incident[i][family[1]] =>
        Announced(history'[i], family[2], incident'[i][family[1]])
            > Announced(history[i], family[2], incident'[i][family[1]])

LEMMA CommitAnnounces ==
    ASSUME TypeInv, OverlapInv, StagedAnnounces, NEW r \in Requests, Commit(r),
           NEW i \in Incidents, Filed(i), NEW family \in Families
    PROVE  ColumnAnnounced(i, family)
<1>1. PICK q : q = req[r]
  OBVIOUS
<1> DEFINE row == incident[q.incident]
           new == [c \in DOMAIN row |-> IF c \in DOMAIN q.set THEN q.set[c] ELSE row[c]]
           g == Merged(history[q.incident], q.place, q.entries)
<1>2. /\ q.step = "staged"
      /\ incident' = [incident EXCEPT ![q.incident] = new]
      /\ history' = [history EXCEPT ![q.incident] = g]
  BY <1>1 DEF Commit, Merged
<1>3. Pending(q) /\ AnnouncesAll(q.entries, q.set)
  BY <1>1, <1>2, SoundCases DEF OverlapInv, StagedAnnounces
<1>4. /\ q.incident \in Incidents /\ row \in Row
      /\ history[q.incident] \in Seq(Event) /\ q.entries \in Seq(Event)
      /\ q.place \in 0 .. Len(history[q.incident])
  BY <1>3 DEF Pending, TypeInv, Filed
<1>5. CASE i # q.incident
  BY <1>2, <1>5 DEF TypeInv, ColumnAnnounced
<1>6. CASE i = q.incident
  <2>1. incident'[i] = new /\ history'[i] = g
    BY <1>2, <1>6 DEF TypeInv
  <2> SUFFICES ASSUME new[family[1]] # row[family[1]]
               PROVE  Announced(g, family[2], new[family[1]])
                        > Announced(history[q.incident], family[2], new[family[1]])
    BY <1>6, <2>1, Zenon DEF ColumnAnnounced
  <2>2. family[1] \in DOMAIN row
    BY <1>4 DEF Families, Row
  <2>3. family[1] \in DOMAIN q.set /\ new[family[1]] = q.set[family[1]]
    BY <2>2
  <2>4. Announces(q.entries, family[2], new[family[1]])
    BY <1>3, <2>3 DEF AnnouncesAll
  <2> HIDE DEF new, row
  <2> QED
    BY <1>4, <2>4, MergedCounts
<1> QED
  BY <1>5, <1>6

\* A step that leaves the filed rows alone has nothing to announce.
LEMMA NothingToAnnounce ==
    ASSUME NEW i \in Incidents, incident'[i] = incident[i], NEW family
    PROVE  ColumnAnnounced(i, family)
  BY DEF ColumnAnnounced

LEMMA StagedKeepAnnouncing ==
    ASSUME TypeInv, OverlapInv, StagedAnnounces, NEW r \in Requests, NEW n \in Nat,
           req' = Released(r, n)
    PROVE  StagedAnnounces'
<1>1. /\ req'[r] = Idle
      /\ \A s \in Requests : (s # r /\ req[s].step # "staged") => req'[s] = req[s]
      /\ \A s \in Requests : (s # r /\ req[s].step = "staged") =>
            req'[s].entries = req[s].entries /\ req'[s].set = req[s].set
  BY ReleasedSlots
<1> SUFFICES ASSUME NEW s \in Requests, req'[s].step = "staged"
             PROVE  AnnouncesAll(req'[s].entries, req'[s].set)
  BY DEF StagedAnnounces
<1>2. s # r
  BY <1>1 DEF Idle
<1>3. req[s].step = "staged"
  BY <1>1, <1>2
<1>4. AnnouncesAll(req[s].entries, req[s].set)
  BY <1>3 DEF StagedAnnounces
<1> QED
  BY <1>1, <1>2, <1>3, <1>4

LEMMA AnnounceStep ==
    ASSUME TypeInv, OverlapInv, StagedAnnounces, [RacesNext]_racesVars
    PROVE  /\ StagedAnnounces'
           /\ \A i \in Incidents : Filed(i) =>
                 \A family \in Families : ColumnAnnounced(i, family)
<1> DEFINE Noticed(i) == Filed(i) => \A family \in Families : ColumnAnnounced(i, family)
<1>1. ASSUME NEW r \in Requests, NEW u \in Users, NEW i \in Incidents,
             NEW kind, NEW arg, NEW o, Load(r, u, i, kind, arg, o)
      PROVE  StagedAnnounces' /\ incident' = incident
  <2>1. PICK q : req' = [req EXCEPT ![r] = q] /\ q.step = "loaded" /\ incident' = incident
    BY <1>1 DEF Load, workflowVars
  <2>2. \A s \in Requests : req'[s].step = "staged" => req'[s] = req[s]
    BY <2>1 DEF OverlapInv
  <2> QED
    BY <2>1, <2>2 DEF StagedAnnounces
<1>2. ASSUME NEW r \in Requests, NEW u \in Users, NEW i \in Incidents,
             \/ \E x \in Statuses : Load(r, u, i, "status", x, FALSE)
             \/ \E a \in Users, f \in BOOLEAN : Load(r, u, i, "assign", a, f)
             \/ Load(r, u, i, "unassign", NONE, FALSE)
             \/ \E h \in SlaChoices \cup {NONE} : Load(r, u, i, "sla", h, FALSE)
             \/ \E p \in PriorityChoices : Load(r, u, i, "priority", p, FALSE)
             \/ Load(r, u, i, "proof", NONE, FALSE)
      PROVE  StagedAnnounces' /\ incident' = incident
  BY <1>1, <1>2
<1>3. ASSUME NEW r \in Requests, Stage(r) PROVE StagedAnnounces' /\ incident' = incident
  <2>1. PICK q : q = req[r]
    OBVIOUS
  <2> DEFINE plan == PlanFor(q)
             p == [step |-> "staged", incident |-> q.incident,
                   set |-> SetClause(q.row, plan.row), entries |-> plan.entries,
                   agent |-> IF q.kind = "assign" THEN q.arg ELSE NONE,
                   place |-> Len(history[q.incident]), behind |-> StagedOn(q.incident)]
  <2>2. /\ req' = [req EXCEPT ![r] = p]
        /\ p.set = SetClause(q.row, PlanFor(q).row) /\ p.entries = PlanFor(q).entries
    BY <1>3, <2>1 DEF Stage, PlanFor
  <2> HIDE DEF p, plan
  <2>3. q.step = "loaded" /\ incident' = incident
    BY <1>3, <2>1 DEF Stage, workflowVars
  <2>4. Ready(q)
    BY <2>1, <2>3, SoundCases DEF OverlapInv, Loaded, Ready, Authenticated
  <2>5. AnnouncesAll(p.entries, p.set)
    BY <2>2, <2>4, StagedRequestAnnounces
  <2>6. \A s \in Requests : req'[s] = IF s = r THEN p ELSE req[s]
    BY <2>2 DEF OverlapInv
  <2> QED
    BY <2>3, <2>5, <2>6 DEF StagedAnnounces
<1>4. ASSUME NEW r \in Requests, Commit(r)
      PROVE  StagedAnnounces' /\ \A i \in Incidents : Noticed(i)
  <2>1. req' = Released(r, 0) \/ req' = Released(r, 1)
    BY <1>4 DEF Commit
  <2>2. 0 \in Nat /\ 1 \in Nat
    OBVIOUS
  <2>3. StagedAnnounces'
    BY <2>1, <2>2, StagedKeepAnnouncing
  <2> QED
    BY <1>4, <2>3, CommitAnnounces
<1>5. ASSUME NEW r \in Requests, Abandon(r) PROVE StagedAnnounces' /\ incident' = incident
  <2>1. req' = Released(r, 0) /\ incident' = incident /\ 0 \in Nat
    BY <1>5 DEF Abandon, workflowVars
  <2> QED
    BY <2>1, StagedKeepAnnouncing
<1>6. ASSUME NEW u \in Users, NEW j \in Incidents, NEW c \in CategoryChoices,
             NEW a \in Users \cup {NONE}, NEW n \in 0 .. MaxPhotos,
             Atomic(CreateIncident(u, j, c, a, n))
      PROVE  StagedAnnounces' /\ \A i \in Incidents : Filed(i) => incident'[i] = incident[i]
  <2>1. PICK row : incident' = [incident EXCEPT ![j] = row]
    BY <1>6 DEF Atomic, CreateIncident
  <2>2. ~Filed(j) /\ req' = req
    BY <1>6 DEF Atomic, CreateIncident
  <2> QED
    BY <2>1, <2>2 DEF TypeInv, StagedAnnounces
<1>7. ASSUME NEW u \in Users, NEW a \in Users, NEW f \in BOOLEAN,
             Atomic(SetAvailability(u, a, f))
      PROVE  StagedAnnounces' /\ incident' = incident
  BY <1>7 DEF Atomic, SetAvailability, StagedAnnounces
<1>8. ASSUME UNCHANGED racesVars PROVE StagedAnnounces' /\ incident' = incident
  BY <1>8 DEF racesVars, StagedAnnounces
<1>9. ASSUME \A i \in Incidents : Filed(i) => incident'[i] = incident[i]
      PROVE  \A i \in Incidents : Noticed(i)
  BY <1>9, NothingToAnnounce
<1>10. ASSUME incident' = incident PROVE \A i \in Incidents : Noticed(i)
  BY <1>9, <1>10
<1> HIDE DEF Noticed
<1>11. StagedAnnounces' /\ \A i \in Incidents : Noticed(i)
  BY <1>2, <1>3, <1>4, <1>5, <1>6, <1>7, <1>8, <1>9, <1>10 DEF RacesNext
<1> QED
  BY <1>11 DEF Noticed

(***************************************************************************)
(* However many requests overlap: no commit changes the status, the agent, *)
(* the window or the priority of an incident without an entry that says    *)
(* what the column is now.                                                 *)
(***************************************************************************)
THEOREM ChangesAlwaysAnnounced == RacesSpec => ChangesAreAnnounced
<1> DEFINE Inv == TypeInv /\ OverlapInv /\ StagedAnnounces
           Said == \A i \in Incidents : Filed(i) =>
                      \A family \in Families : ColumnAnnounced(i, family)
<1>1. RacesInit => Inv
  <2> SUFFICES ASSUME RacesInit PROVE Inv
    OBVIOUS
  <2>1. TypeInv /\ OverlapInv
    BY OverlapInit
  <2>2. StagedAnnounces
    BY DEF RacesInit, StagedAnnounces, Idle
  <2> QED
    BY <2>1, <2>2
<1>2. Inv /\ [RacesNext]_racesVars => Inv' /\ Said
  BY OverlapStep, AnnounceStep
<1>3. Said => [\A i \in Incidents : Filed(i) =>
          \A family \in {<<"status", StatusActions>>, <<"agent", AgentActions>>,
                         <<"hours", SlaActions>>, <<"priority", PriorityActions>>} :
              LET c == family[1]
                  actions == family[2]
              IN incident'[i][c] # incident[i][c] =>
                    Announced(history'[i], actions, incident'[i][c])
                        > Announced(history[i], actions, incident'[i][c])]_racesVars
  BY DEF Families, ColumnAnnounced
<1> HIDE DEF Inv, Said
<1> QED
  BY <1>1, <1>2, <1>3, PTL DEF RacesSpec, ChangesAreAnnounced
=============================================================================
