----------------------- MODULE IncidentWorkflowProofs -----------------------
(***************************************************************************)
(* Proofs about IncidentWorkflow, for any accounts, incidents, hours and   *)
(* request inputs, and any bounds on the trails.                           *)
(***************************************************************************)
EXTENDS IncidentWorkflow, AccountsProofs, SequenceTheorems

(***************************************************************************)
(* WorkflowTypeOK speaks of the entries of a history one by one; to append *)
(* entries the proofs also need that a history is a sequence.              *)
(***************************************************************************)
EntryValues == Statuses \cup Users \cup SlaHours \cup Priorities
                 \cup {NONE, "REPORT", "RESOLUTION", "Available", "Unavailable"}

Event == {e \in [action : HistoryActions, actor : Users \cup {NONE},
                 by : Roles \cup {"SYSTEM"}, old : EntryValues, new : EntryValues,
                 at : Times] : EventOK(e)}

TypeInv ==
    /\ TypeOK
    /\ available \in [Users -> BOOLEAN]
    /\ lastAssigned \in [Users -> Times \cup {NONE}]
    /\ now \in Times
    /\ incident \in [Incidents -> Row \cup {NONE}]
    /\ history \in [Incidents -> Seq(Event)]

\* The values an action's entry carries.
Fits(action, old, new) ==
    /\ action \in StatusActions \ {"INCIDENT_CREATED"} => old \in Statuses
    /\ action \in StatusActions   => new \in Statuses
    /\ action \in AgentActions    => {old, new} \subseteq Users \cup {NONE}
    /\ action \in SlaActions      => {old, new} \subseteq SlaHours \cup {NONE}
    /\ action \in PriorityActions => {old, new} \subseteq Priorities

LEMMA TypeInvTypes == TypeInv => WorkflowTypeOK
<1> SUFFICES ASSUME TypeInv PROVE WorkflowTypeOK
  OBVIOUS
<1>1. ASSUME NEW i \in Incidents, NEW k \in DOMAIN history[i] PROVE EventOK(history[i][k])
  <2>1. history[i] \in Seq(Event)
    BY DEF TypeInv
  <2>2. history[i][k] \in Event
    BY <2>1
  <2> QED
    BY <2>2 DEF Event
<1> QED
  BY <1>1 DEF TypeInv, WorkflowTypeOK

-----------------------------------------------------------------------------
(***************************************************************************)
(* The policy tables.                                                      *)
(***************************************************************************)
LEMMA HoursAreNat == SlaHours \subseteq Nat
  BY SMTT(60) DEF SlaHours

LEMMA DefaultHours == \A p \in Priorities : DEFAULT_SLA_HOURS[p] \in SlaHours
  BY DEF Priorities, DEFAULT_SLA_HOURS, SlaHours

LEMMA DefaultPriority == \A c \in Categories : CATEGORY_DEFAULT_PRIORITY[c] \in Priorities
  BY DEF Categories, CATEGORY_DEFAULT_PRIORITY, Priorities

\* A deadline always has a verdict, and only a deadline has one.
LEMMA VerdictOfDeadline ==
    ASSUME NEW d \in Nat \cup {NONE}, NEW h \in SlaHours \cup {NONE}, NEW t \in Times
    PROVE  /\ d = NONE => SlaVerdict(d, h, t) = NONE
           /\ d # NONE => SlaVerdict(d, h, t) \in Verdicts
  BY DEF SlaVerdict, Verdicts

LEMMA StatusActionKind ==
    ASSUME NEW old \in Statuses, NEW new \in Statuses
    PROVE  StatusAction(old, new) \in StatusActions \ {"INCIDENT_CREATED"}
  BY DEF StatusAction, StatusActions, Statuses, SLA_FREEZE_STATUSES

-----------------------------------------------------------------------------
(***************************************************************************)
(* What the helpers do to a row.  SameCase says that two rows differ in    *)
(* their SLA columns at most.                                              *)
(***************************************************************************)
SameCase(r, s) ==
    r.status = s.status /\ r.agent = s.agent /\ r.priority = s.priority /\ r.created = s.created

\* The three SLA columns agree with the time the incident was reported.
Anchored(row) ==
    IF row.hours = NONE
    THEN row.deadline = NONE /\ row.verdict = NONE
    ELSE row.deadline = row.created + row.hours /\ row.verdict # NONE

LEMMA JudgedRow ==
    ASSUME now \in Times, NEW row \in Row
    PROVE  /\ Judged(row) \in Row
           /\ SameCase(Judged(row), row)
           /\ Judged(row).hours = row.hours
           /\ Judged(row).deadline = row.deadline
           /\ row.deadline = NONE => Judged(row) = row
           /\ row.deadline # NONE => Judged(row).verdict \in Verdicts
<1>1. CASE row.deadline = NONE
  BY <1>1 DEF Judged, SameCase
<1>2. CASE row.deadline # NONE
  <2> DEFINE v == SlaVerdict(row.deadline, row.hours, now)
  <2>1. v \in Verdicts
    BY <1>2, VerdictOfDeadline DEF Row
  <2> HIDE DEF v
  <2>2. Judged(row) = [row EXCEPT !.verdict = v]
    BY <1>2 DEF Judged, v
  <2> QED
    BY <1>2, <2>1, <2>2 DEF Row, SameCase
<1> QED
  BY <1>1, <1>2

LEMMA JudgedAnchored ==
    ASSUME now \in Times, NEW row \in Row, Anchored(row)
    PROVE  Anchored(Judged(row))
<1>1. NONE \notin Verdicts /\ NONE \notin Nat
  BY WorkflowAssumption
<1>2. ASSUME row.hours # NONE PROVE row.deadline # NONE
  <2>1. row.created \in Nat /\ row.hours \in Nat
    <3>1. row.created \in Nat
      BY WorkflowAssumption DEF Row
    <3>2. row.hours \in SlaHours
      BY <1>2 DEF Row
    <3> QED
      BY <3>1, <3>2, HoursAreNat
  <2>2. row.deadline = row.created + row.hours
    BY <1>2 DEF Anchored
  <2> QED
    BY <1>1, <2>1, <2>2
<1> QED
  BY <1>1, <1>2, JudgedRow DEF Anchored, SameCase

LEMMA EnrichedRow ==
    ASSUME now \in Times, NEW row \in Row
    PROVE  /\ Enriched(row) \in Row
           /\ SameCase(Enriched(row), row)
           /\ Enriched(row).hours = row.hours
           /\ Anchored(row) => Anchored(Enriched(row))
  BY JudgedRow, JudgedAnchored DEF Enriched, SameCase

LEMMA WindowRow ==
    ASSUME now \in Times, NEW row \in Row, NEW h \in SlaHours \cup {NONE}
    PROVE  /\ WithWindow(row, h) \in Row
           /\ SameCase(WithWindow(row, h), row)
           /\ WithWindow(row, h).hours = h
           /\ Anchored(WithWindow(row, h))
<1>1. CASE h = NONE
  BY <1>1 DEF WithWindow, Row, SameCase, Anchored
<1>2. CASE h # NONE
  <2> DEFINE d   == row.created + h
             new == [row EXCEPT !.hours = h, !.deadline = d]
  <2>1. h \in SlaHours
    BY <1>2
  <2>2. d \in Nat
    <3>1. row.created \in Nat
      BY WorkflowAssumption DEF Row
    <3>2. h \in Nat
      BY <2>1 DEF SlaHours
    <3> QED
      BY <3>1, <3>2
  <2>3. WithWindow(row, h) = Judged(new)
    BY <1>2 DEF WithWindow
  <2> SUFFICES /\ Judged(new) \in Row
               /\ SameCase(Judged(new), row)
               /\ Judged(new).hours = h
               /\ Anchored(Judged(new))
    BY <2>3
  <2>4. d = row.created + h
    OBVIOUS
  <2> HIDE DEF d
  <2>5. /\ new \in Row
        /\ SameCase(new, row)
        /\ new.hours = h
        /\ new.deadline = d
    BY <2>1, <2>2 DEF Row, SameCase
  <2>6. d # NONE
    BY <2>2, WorkflowAssumption
  <2> HIDE DEF new
  <2>7. Judged(new).verdict # NONE
    BY <2>5, <2>6, JudgedRow, WorkflowAssumption
  <2> QED
    BY <1>2, <2>4, <2>5, <2>7, JudgedRow DEF Anchored, SameCase
<1> QED
  BY <1>1, <1>2

-----------------------------------------------------------------------------
(***************************************************************************)
(* Entries and lists of entries.  An actor is an existing account or, when *)
(* the system acts on its own, NONE.                                       *)
(***************************************************************************)
Signer(u) == u \in Users \cup {NONE} /\ (u # NONE => Exists(u))

LEMMA EntryEvent ==
    ASSUME TypeInv, NEW u, Signer(u), NEW action \in HistoryActions,
           NEW old \in EntryValues, NEW new \in EntryValues, Fits(action, old, new)
    PROVE  Entry(action, u, old, new) \in Event
<1> DEFINE by == IF u = NONE THEN "SYSTEM" ELSE role[u]
<1>1. by \in Roles \cup {"SYSTEM"}
  BY DEF TypeInv, TypeOK, Signer, Exists
<1>2. now \in Times /\ u \in Users \cup {NONE}
  BY DEF TypeInv, Signer
<1>3. Entry(action, u, old, new) =
        [action |-> action, actor |-> u, by |-> by, old |-> old, new |-> new, at |-> now]
  BY DEF Entry
<1> HIDE DEF by
<1> QED
  BY <1>1, <1>2, <1>3 DEF Event, EventOK, Fits

LEMMA WhenEvents ==
    ASSUME NEW c \in BOOLEAN, NEW e, c => e \in Event
    PROVE  When(c, e) \in Seq(Event)
<1>1. CASE c
  BY <1>1 DEF When
<1>2. CASE ~c
  BY <1>2 DEF When
<1> QED
  BY <1>1, <1>2

LEMMA StatusEntryEvents ==
    ASSUME TypeInv, NEW u, Signer(u), NEW old \in Statuses, NEW new \in Statuses
    PROVE  StatusEntry(u, old, new) \in Seq(Event)
<1> DEFINE a == StatusAction(old, new)
<1>1. a \in StatusActions \ {"INCIDENT_CREATED"}
  BY StatusActionKind
<1> HIDE DEF a
<1>2. a \in HistoryActions /\ Fits(a, old, new)
  BY <1>1 DEF HistoryActions, Fits, StatusActions, AgentActions, SlaActions, PriorityActions
<1>3. Entry(a, u, old, new) \in Event
  BY <1>2, EntryEvent DEF EntryValues
<1> QED
  BY <1>3, WhenEvents DEF StatusEntry, a

\* The kinds of entry the handlers write beside status entries.
LEMMA OtherEntries ==
    ASSUME TypeInv, NEW u, Signer(u)
    PROVE  /\ \A a \in OtherActions : \A old, new \in EntryValues : Entry(a, u, old, new) \in Event
           /\ \A a \in AgentActions : \A old, new \in Users \cup {NONE} :
                  Entry(a, u, old, new) \in Event
           /\ \A a \in SlaActions : \A old, new \in SlaHours \cup {NONE} :
                  Entry(a, u, old, new) \in Event
           /\ \A old, new \in Priorities : Entry("PRIORITY_CHANGED", u, old, new) \in Event
<1>1. ASSUME NEW a \in OtherActions, NEW old \in EntryValues, NEW new \in EntryValues
      PROVE  Entry(a, u, old, new) \in Event
  <2>1. a \in HistoryActions /\ Fits(a, old, new)
    BY DEF HistoryActions, Fits, StatusActions, AgentActions, SlaActions, PriorityActions,
           OtherActions
  <2> QED
    BY <2>1, EntryEvent
<1>2. ASSUME NEW a \in AgentActions, NEW old \in Users \cup {NONE}, NEW new \in Users \cup {NONE}
      PROVE  Entry(a, u, old, new) \in Event
  <2>1. a \in HistoryActions /\ Fits(a, old, new)
    BY DEF HistoryActions, Fits, StatusActions, AgentActions, SlaActions, PriorityActions
  <2> QED
    BY <2>1, EntryEvent DEF EntryValues
<1>3. ASSUME NEW a \in SlaActions, NEW old \in SlaHours \cup {NONE}, NEW new \in SlaHours \cup {NONE}
      PROVE  Entry(a, u, old, new) \in Event
  <2>1. a \in HistoryActions /\ Fits(a, old, new)
    BY DEF HistoryActions, Fits, StatusActions, AgentActions, SlaActions, PriorityActions
  <2> QED
    BY <2>1, EntryEvent DEF EntryValues
<1>4. ASSUME NEW old \in Priorities, NEW new \in Priorities
      PROVE  Entry("PRIORITY_CHANGED", u, old, new) \in Event
  <2>1. /\ "PRIORITY_CHANGED" \in HistoryActions
        /\ Fits("PRIORITY_CHANGED", old, new)
    BY DEF HistoryActions, Fits, StatusActions, AgentActions, SlaActions, PriorityActions
  <2> QED
    BY <2>1, EntryEvent DEF EntryValues
<1> QED
  BY <1>1, <1>2, <1>3, <1>4

-----------------------------------------------------------------------------
(***************************************************************************)
(* The plans: each yields a row and entries of the right kind, keeps the   *)
(* window anchored and a closed incident closed.                           *)
(***************************************************************************)
Sound(row, plan) ==
    /\ plan.row \in Row
    /\ plan.entries \in Seq(Event)
    /\ Anchored(row) => Anchored(plan.row)
    /\ row.status = "CLOSED" => plan.row.status = "CLOSED"

LEMMA StatusPlanSound ==
    ASSUME TypeInv, NEW u \in Users, Exists(u), NEW row \in Row, NEW new \in Statuses,
           MayMove(u, row, new)
    PROVE  Sound(row, StatusPlan(u, row, new))
<1> DEFINE moved == [row EXCEPT !.status = new]
           final == IF new \in SLA_FREEZE_STATUSES THEN Judged(moved) ELSE moved
<1>1. moved \in Row /\ (Anchored(row) => Anchored(moved))
  BY DEF Row, Anchored
<1>2. now \in Times
  BY DEF TypeInv
<1>3. StatusPlan(u, row, new) = [row |-> final, entries |-> StatusEntry(u, row.status, new)]
  BY DEF StatusPlan, Plan
<1> HIDE DEF moved
<1>4. final \in Row /\ (Anchored(row) => Anchored(final))
  BY <1>1, <1>2, JudgedRow, JudgedAnchored
<1>5. StatusEntry(u, row.status, new) \in Seq(Event)
  BY StatusEntryEvents DEF Signer, Row
<1>6. row.status # "CLOSED"
  BY DEF MayMove, VALID_TRANSITIONS
<1> HIDE DEF final
<1> QED
  BY <1>3, <1>4, <1>5, <1>6 DEF Sound

LEMMA AssignPlanSound ==
    ASSUME TypeInv, NEW u \in Users, Exists(u), NEW row \in Row, NEW agent \in Users
    PROVE  Sound(row, AssignPlan(u, row, agent))
<1> DEFINE status == IF row.status \in {"REPORTED", "TRIAGED"} THEN "ASSIGNED" ELSE row.status
           new    == [row EXCEPT !.agent = agent, !.status = status]
           s1 == When(~available[agent], Entry("ADMIN_OVERRIDE", u, NONE, NONE))
           s2 == When(row.agent # agent,
                      Entry(IF row.agent = NONE THEN "AGENT_ASSIGNED" ELSE "AGENT_REASSIGNED",
                            u, row.agent, agent))
           s3 == StatusEntry(u, row.status, status)
<1>1. AssignPlan(u, row, agent) = [row |-> new, entries |-> s1 \o s2 \o s3]
  BY DEF AssignPlan, Plan
<1>2. status \in Statuses /\ (row.status = "CLOSED" => status = "CLOSED") /\ Signer(u)
  BY DEF Row, Statuses, Signer
<1>3. s3 \in Seq(Event)
  BY <1>2, StatusEntryEvents DEF Row
<1>4. s1 \in Seq(Event)
  <2>1. Entry("ADMIN_OVERRIDE", u, NONE, NONE) \in Event
    BY <1>2, OtherEntries DEF OtherActions, EntryValues
  <2>2. (~available[agent]) \in BOOLEAN
    OBVIOUS
  <2> QED
    BY <2>1, <2>2, WhenEvents
<1>5. s2 \in Seq(Event)
  <2> DEFINE a == IF row.agent = NONE THEN "AGENT_ASSIGNED" ELSE "AGENT_REASSIGNED"
  <2>1. a \in AgentActions /\ row.agent \in Users \cup {NONE}
    BY DEF AgentActions, Row
  <2> HIDE DEF a
  <2>2. Entry(a, u, row.agent, agent) \in Event
    BY <1>2, <2>1, OtherEntries
  <2> QED
    BY <2>2, WhenEvents DEF a
<1> HIDE DEF s1, s2, s3
<1>6. s1 \o s2 \o s3 \in Seq(Event)
  BY <1>3, <1>4, <1>5
<1> HIDE DEF status
<1>7. new \in Row /\ (Anchored(row) => Anchored(new)) /\ new.status = status
  BY <1>2 DEF Row, Anchored
<1> HIDE DEF new
<1> QED
  BY <1>1, <1>2, <1>6, <1>7 DEF Sound

LEMMA UnassignPlanSound ==
    ASSUME TypeInv, NEW u \in Users, Exists(u), NEW row \in Row
    PROVE  Sound(row, UnassignPlan(u, row))
<1> DEFINE status == IF row.status = "ASSIGNED" THEN "REPORTED" ELSE row.status
           new    == [row EXCEPT !.agent = NONE, !.status = status]
           s1 == When(row.agent # NONE, Entry("AGENT_UNASSIGNED", u, row.agent, NONE))
           s2 == StatusEntry(u, row.status, status)
<1>1. UnassignPlan(u, row) = [row |-> new, entries |-> s1 \o s2]
  BY DEF UnassignPlan, Plan
<1>2. status \in Statuses /\ (row.status = "CLOSED" => status = "CLOSED") /\ Signer(u)
  BY DEF Row, Statuses, Signer
<1>3. s2 \in Seq(Event)
  BY <1>2, StatusEntryEvents DEF Row
<1>4. s1 \in Seq(Event)
  <2>1. Entry("AGENT_UNASSIGNED", u, row.agent, NONE) \in Event
    BY <1>2, OtherEntries DEF AgentActions, Row
  <2> QED
    BY <2>1, WhenEvents
<1> HIDE DEF s1, s2
<1>5. s1 \o s2 \in Seq(Event)
  BY <1>3, <1>4
<1> HIDE DEF status
<1>6. new \in Row /\ (Anchored(row) => Anchored(new)) /\ new.status = status
  BY <1>2 DEF Row, Anchored
<1> HIDE DEF new
<1> QED
  BY <1>1, <1>2, <1>5, <1>6 DEF Sound

LEMMA SlaPlanSound ==
    ASSUME TypeInv, NEW u \in Users, Exists(u), NEW row \in Row, NEW h \in SlaHours \cup {NONE}
    PROVE  Sound(row, SlaPlan(u, row, h))
<1> DEFINE a == IF row.hours = NONE THEN "SLA_CREATED" ELSE "SLA_UPDATED"
           s == When(row.hours # h, Entry(a, u, row.hours, h))
<1>1. SlaPlan(u, row, h) = [row |-> WithWindow(row, h), entries |-> s]
  BY DEF SlaPlan, Plan
<1>2. s \in Seq(Event)
  <2>1. a \in SlaActions /\ row.hours \in SlaHours \cup {NONE} /\ Signer(u)
    BY DEF SlaActions, Row, Signer
  <2> HIDE DEF a
  <2>2. Entry(a, u, row.hours, h) \in Event
    BY <2>1, OtherEntries
  <2> QED
    BY <2>2, WhenEvents
<1> HIDE DEF s
<1>3. now \in Times
  BY DEF TypeInv
<1> QED
  BY <1>1, <1>2, <1>3, WindowRow DEF Sound, SameCase

LEMMA PriorityPlanSound ==
    ASSUME TypeInv, NEW u \in Users, Exists(u), NEW row \in Row, NEW p \in Priorities
    PROVE  Sound(row, PriorityPlan(u, row, p))
<1> DEFINE h  == DEFAULT_SLA_HOURS[p]
           r  == [row EXCEPT !.priority = p]
           s1 == When(row.priority # p, Entry("PRIORITY_CHANGED", u, row.priority, p))
           s2 == When(row.hours # h, Entry("SLA_UPDATED", u, row.hours, h))
<1>1. PriorityPlan(u, row, p) = [row |-> WithWindow(r, h), entries |-> s1 \o s2]
  BY DEF PriorityPlan, Plan
<1>2. h \in SlaHours /\ Signer(u) /\ row.hours \in SlaHours \cup {NONE}
      /\ row.priority \in Priorities
  BY DefaultHours DEF Signer, Row
<1> HIDE DEF h
<1>3. s1 \in Seq(Event)
  BY <1>2, OtherEntries, WhenEvents
<1>4. s2 \in Seq(Event)
  <2>1. Entry("SLA_UPDATED", u, row.hours, h) \in Event
    BY <1>2, OtherEntries DEF SlaActions
  <2> QED
    BY <2>1, WhenEvents
<1> HIDE DEF s1, s2
<1>5. s1 \o s2 \in Seq(Event)
  BY <1>3, <1>4
<1>6. r \in Row /\ r.status = row.status
  BY DEF Row
<1>7. now \in Times
  BY DEF TypeInv
<1> HIDE DEF r
<1> QED
  BY <1>1, <1>2, <1>5, <1>6, <1>7, WindowRow DEF Sound, SameCase

LEMMA ProofPlanSound ==
    ASSUME TypeInv, NEW u \in Users, Exists(u), NEW row \in Row
    PROVE  Sound(row, ProofPlan(u, row))
<1>1. Entry("IMAGE_ADDED", u, NONE, "RESOLUTION") \in Event
  BY OtherEntries DEF OtherActions, EntryValues, Signer
<1>2. ProofPlan(u, row) = [row |-> row, entries |-> <<Entry("IMAGE_ADDED", u, NONE, "RESOLUTION")>>]
  BY DEF ProofPlan, Plan
<1> QED
  BY <1>1, <1>2 DEF Sound

-----------------------------------------------------------------------------
(***************************************************************************)
(* What every step keeps.                                                  *)
(***************************************************************************)
ClosedStep ==
    \A i \in Incidents :
        (Filed(i) /\ incident[i].status = "CLOSED") => incident'[i].status = "CLOSED"

\* The incidents and histories a step leaves behind are as they should be.
Kept ==
    /\ incident' \in [Incidents -> Row \cup {NONE}]
    /\ history' \in [Incidents -> Seq(Event)]
    /\ WindowAnchored => WindowAnchored'
    /\ ClosedStep

LEMMA AnchoredRows == WindowAnchored <=> \A i \in Incidents : Filed(i) => Anchored(incident[i])
  BY DEF WindowAnchored, Anchored

LEMMA UnchangedKept ==
    ASSUME TypeInv, UNCHANGED <<incident, history>>
    PROVE  Kept
  BY DEF TypeInv, Kept, ClosedStep, WindowAnchored, Filed

LEMMA CarryOutKept ==
    ASSUME TypeInv, NEW i \in Incidents, Filed(i), NEW plan,
           Sound(Enriched(incident[i]), plan), CarryOut(i, plan)
    PROVE  Kept
<1>1. now \in Times /\ incident[i] \in Row
  BY DEF TypeInv, Filed
<1>2. /\ Anchored(incident[i]) => Anchored(Enriched(incident[i]))
      /\ Enriched(incident[i]).status = incident[i].status
  BY <1>1, EnrichedRow DEF SameCase
<1>3. /\ plan.row \in Row
      /\ plan.entries \in Seq(Event)
      /\ Anchored(incident[i]) => Anchored(plan.row)
      /\ incident[i].status = "CLOSED" => plan.row.status = "CLOSED"
  BY <1>2 DEF Sound
<1>4. /\ incident' = [incident EXCEPT ![i] = plan.row]
      /\ history' = [history EXCEPT ![i] = @ \o plan.entries]
  BY DEF CarryOut, RecordAll
<1>5. incident' \in [Incidents -> Row \cup {NONE}]
  BY <1>3, <1>4 DEF TypeInv
<1>6. history' \in [Incidents -> Seq(Event)]
  <2>1. history[i] \o plan.entries \in Seq(Event)
    BY <1>3 DEF TypeInv
  <2> QED
    BY <1>4, <2>1 DEF TypeInv
<1>7. ASSUME WindowAnchored PROVE WindowAnchored'
  <2>1. \A j \in Incidents : Filed(j) => Anchored(incident[j])
    BY <1>7, AnchoredRows
  <2>2. \A j \in Incidents : incident'[j] # NONE => Anchored(incident'[j])
    BY <1>3, <1>4, <2>1 DEF TypeInv, Filed
  <2> QED
    BY <2>2 DEF WindowAnchored, Anchored, Filed
<1>8. ClosedStep
  BY <1>3, <1>4 DEF ClosedStep, TypeInv
<1> QED
  BY <1>5, <1>6, <1>7, <1>8 DEF Kept

\* A report: the row it files, and its entries.
LEMMA NewRowSound ==
    ASSUME TypeInv, NEW c \in Categories, NEW a \in Users \cup {NONE}
    PROVE  /\ NewRow(c, a) \in Row
           /\ Anchored(NewRow(c, a))
<1> DEFINE p == CATEGORY_DEFAULT_PRIORITY[c]
           r == [status   |-> IF a = NONE THEN "REPORTED" ELSE "ASSIGNED",
                 agent    |-> a,
                 priority |-> p,
                 hours    |-> NONE, deadline |-> NONE, verdict |-> NONE,
                 created  |-> now]
<1>1. p \in Priorities /\ DEFAULT_SLA_HOURS[p] \in SlaHours
  BY DefaultPriority, DefaultHours
<1>2. NewRow(c, a) = WithWindow(r, DEFAULT_SLA_HOURS[p])
  BY DEF NewRow
<1> HIDE DEF p
<1>3. now \in Times /\ r \in Row
  BY <1>1 DEF TypeInv, Row, Statuses
<1> HIDE DEF r
<1> QED
  BY <1>1, <1>2, <1>3, WindowRow

LEMMA CreateIncidentKept ==
    ASSUME TypeInv, NEW u \in Users, NEW i \in Incidents, NEW c \in CategoryChoices,
           NEW a \in Users \cup {NONE}, NEW n \in 0 .. MaxPhotos,
           CreateIncident(u, i, c, a, n)
    PROVE  Kept
<1> DEFINE row == NewRow(c, a)
           s1  == <<Entry("INCIDENT_CREATED", u, NONE, "REPORTED"),
                    Entry("SLA_CREATED", NONE, NONE, row.hours)>>
           s2  == When(a # NONE, Entry("AGENT_ASSIGNED", NONE, NONE, a))
           s3  == StatusEntry(NONE, "REPORTED", row.status)
           s4  == [k \in 1 .. n |-> Entry("IMAGE_ADDED", u, NONE, "REPORT")]
<1>1. row \in Row /\ Anchored(row)
  BY NewRowSound, WorkflowAssumption
<1>2. /\ incident' = [incident EXCEPT ![i] = row]
      /\ history' = [history EXCEPT ![i] = @ \o (s1 \o s2 \o s3 \o s4)]
      /\ ~Filed(i)
  BY DEF CreateIncident, RecordAll
<1>3. Signer(u) /\ Signer(NONE)
  BY DEF CreateIncident, Authenticated, Signer
<1>4. s1 \in Seq(Event)
  <2>1. /\ "INCIDENT_CREATED" \in HistoryActions
        /\ Fits("INCIDENT_CREATED", NONE, "REPORTED")
    BY DEF HistoryActions, Fits, StatusActions, AgentActions, SlaActions, PriorityActions, Statuses
  <2>2. Entry("INCIDENT_CREATED", u, NONE, "REPORTED") \in Event
    BY <1>3, <2>1, EntryEvent DEF EntryValues, Statuses
  <2>3. row.hours \in SlaHours \cup {NONE}
    BY <1>1 DEF Row
  <2>4. Entry("SLA_CREATED", NONE, NONE, row.hours) \in Event
    BY <1>3, <2>3, OtherEntries DEF SlaActions
  <2> QED
    BY <2>2, <2>4
<1>5. s2 \in Seq(Event)
  <2>1. Entry("AGENT_ASSIGNED", NONE, NONE, a) \in Event
    BY <1>3, OtherEntries DEF AgentActions
  <2> QED
    BY <2>1, WhenEvents
<1>6. s3 \in Seq(Event)
  BY <1>1, <1>3, StatusEntryEvents DEF Row, Statuses
<1>7. s4 \in Seq(Event)
  <2>1. Entry("IMAGE_ADDED", u, NONE, "REPORT") \in Event
    BY <1>3, OtherEntries DEF OtherActions, EntryValues
  <2>2. n \in Nat
    BY WorkflowAssumption
  <2> QED
    BY <2>1, <2>2
<1> HIDE DEF s1, s2, s3, s4, row
<1>8. incident' \in [Incidents -> Row \cup {NONE}]
  BY <1>1, <1>2 DEF TypeInv
<1>9. history' \in [Incidents -> Seq(Event)]
  <2>1. s1 \o s2 \o s3 \o s4 \in Seq(Event)
    BY <1>4, <1>5, <1>6, <1>7
  <2> DEFINE s == s1 \o s2 \o s3 \o s4
  <2> HIDE DEF s
  <2>2. history[i] \o s \in Seq(Event)
    BY <2>1 DEF s, TypeInv
  <2> QED
    BY <1>2, <2>2 DEF s, TypeInv
<1>10. ASSUME WindowAnchored PROVE WindowAnchored'
  <2>1. \A j \in Incidents : Filed(j) => Anchored(incident[j])
    BY <1>10, AnchoredRows
  <2>2. \A j \in Incidents : incident'[j] # NONE => Anchored(incident'[j])
    BY <1>1, <1>2, <2>1 DEF TypeInv, Filed
  <2> QED
    BY <2>2 DEF WindowAnchored, Anchored, Filed
<1>11. ClosedStep
  BY <1>2 DEF ClosedStep, TypeInv
<1> QED
  BY <1>8, <1>9, <1>10, <1>11 DEF Kept

LEMMA SetAvailabilityKept ==
    ASSUME TypeInv, NEW u \in Users, NEW a \in Users, NEW f \in BOOLEAN,
           SetAvailability(u, a, f)
    PROVE  Kept
<1> DEFINE e == Entry("AGENT_AVAILABILITY_CHANGED", u,
                      AvailabilityWord(~f), AvailabilityWord(f))
<1>1. e \in Event
  <2>1. Signer(u)
    BY DEF SetAvailability, Authenticated, Signer
  <2>2. AvailabilityWord(~f) \in EntryValues /\ AvailabilityWord(f) \in EntryValues
    BY DEF AvailabilityWord, EntryValues
  <2> QED
    BY <2>1, <2>2, OtherEntries DEF OtherActions
<1>2. history' = [i \in Incidents |-> IF i \in OpenOnPlate(a) THEN Append(history[i], e)
                                                            ELSE history[i]]
  BY DEF SetAvailability
<1> HIDE DEF e
<1>3. history' \in [Incidents -> Seq(Event)]
  BY <1>1, <1>2 DEF TypeInv
<1>4. incident' = incident
  BY DEF SetAvailability
<1> QED
  BY <1>3, <1>4 DEF TypeInv, Kept, ClosedStep, WindowAnchored, Filed

-----------------------------------------------------------------------------
(***************************************************************************)
(* The inductive step, one case per action.                                *)
(***************************************************************************)
LEMMA WorkflowInitType == WorkflowInit => TypeInv
<1> SUFFICES ASSUME WorkflowInit PROVE TypeInv
  OBVIOUS
<1>1. TypeOK
  BY AccountsInitType DEF WorkflowInit
<1>2. history \in [Incidents -> Seq(Event)]
  BY DEF WorkflowInit
<1> QED
  BY <1>1, <1>2, WorkflowAssumption DEF WorkflowInit, TypeInv

LEMMA WorkflowStep ==
    ASSUME TypeInv, [WorkflowNext]_workflowVars
    PROVE  TypeInv' /\ Kept
<1>0. ASSUME NEW i \in Incidents, Filed(i) PROVE Enriched(incident[i]) \in Row
  BY <1>0, EnrichedRow DEF TypeInv, Filed
<1> DEFINE Staff == /\ TypeOK'
                    /\ available' \in [Users -> BOOLEAN]
                    /\ lastAssigned' \in [Users -> Times \cup {NONE}]
                    /\ now' \in Times
<1>1. ASSUME NEW u \in Users, NEW i \in Incidents, NEW c \in CategoryChoices,
             NEW a \in Users \cup {NONE}, NEW n \in 0 .. MaxPhotos,
             CreateIncident(u, i, c, a, n)
      PROVE  Staff /\ Kept
  <2>1. Kept
    BY <1>1, CreateIncidentKept
  <2> QED
    BY <1>1, <2>1 DEF CreateIncident, TypeInv, TypeOK, accountVars
<1>2. ASSUME NEW u \in Users, NEW i \in Incidents, NEW s \in Statuses, UpdateStatus(u, i, s)
      PROVE  Staff /\ Kept
  <2>1. Sound(Enriched(incident[i]), StatusPlan(u, Enriched(incident[i]), s))
    BY <1>0, <1>2, StatusPlanSound DEF UpdateStatus, Authenticated
  <2>2. Kept
    BY <1>2, <2>1, CarryOutKept DEF UpdateStatus
  <2> QED
    BY <1>2, <2>2 DEF UpdateStatus, TypeInv, TypeOK, accountVars, agentVars
<1>3. ASSUME NEW u \in Users, NEW a \in Users, NEW i \in Incidents, NEW f \in BOOLEAN,
             AssignAgent(u, i, a, f)
      PROVE  Staff /\ Kept
  <2>1. Sound(Enriched(incident[i]), AssignPlan(u, Enriched(incident[i]), a))
    BY <1>0, <1>3, AssignPlanSound DEF AssignAgent, RequireAdmin, Authenticated
  <2>2. Kept
    BY <1>3, <2>1, CarryOutKept DEF AssignAgent
  <2> QED
    BY <1>3, <2>2 DEF AssignAgent, TypeInv, TypeOK, accountVars
<1>4. ASSUME NEW u \in Users, NEW i \in Incidents, UnassignAgent(u, i)
      PROVE  Staff /\ Kept
  <2>1. Sound(Enriched(incident[i]), UnassignPlan(u, Enriched(incident[i])))
    BY <1>0, <1>4, UnassignPlanSound DEF UnassignAgent, RequireAdmin, Authenticated
  <2>2. Kept
    BY <1>4, <2>1, CarryOutKept DEF UnassignAgent
  <2> QED
    BY <1>4, <2>2 DEF UnassignAgent, TypeInv, TypeOK, accountVars, agentVars
<1>5. ASSUME NEW u \in Users, NEW i \in Incidents, NEW h \in SlaChoices \cup {NONE},
             UpdateSla(u, i, h)
      PROVE  Staff /\ Kept
  <2>1. h \in SlaHours \cup {NONE}
    BY WorkflowAssumption
  <2>2. Sound(Enriched(incident[i]), SlaPlan(u, Enriched(incident[i]), h))
    BY <1>0, <1>5, <2>1, SlaPlanSound DEF UpdateSla, RequireAdmin, Authenticated
  <2>3. Kept
    BY <1>5, <2>2, CarryOutKept DEF UpdateSla
  <2> QED
    BY <1>5, <2>3 DEF UpdateSla, TypeInv, TypeOK, accountVars, agentVars
<1>6. ASSUME NEW u \in Users, NEW i \in Incidents, NEW p \in PriorityChoices,
             UpdatePriority(u, i, p)
      PROVE  Staff /\ Kept
  <2>1. p \in Priorities
    BY WorkflowAssumption
  <2>2. Sound(Enriched(incident[i]), PriorityPlan(u, Enriched(incident[i]), p))
    BY <1>0, <1>6, <2>1, PriorityPlanSound DEF UpdatePriority, RequireAdmin, Authenticated
  <2>3. Kept
    BY <1>6, <2>2, CarryOutKept DEF UpdatePriority
  <2> QED
    BY <1>6, <2>3 DEF UpdatePriority, TypeInv, TypeOK, accountVars, agentVars
<1>7. ASSUME NEW u \in Users, NEW i \in Incidents, UploadResolutionImage(u, i)
      PROVE  Staff /\ Kept
  <2>1. Sound(Enriched(incident[i]), ProofPlan(u, Enriched(incident[i])))
    BY <1>0, <1>7, ProofPlanSound DEF UploadResolutionImage, Authenticated
  <2>2. Kept
    BY <1>7, <2>1, CarryOutKept DEF UploadResolutionImage
  <2> QED
    BY <1>7, <2>2 DEF UploadResolutionImage, TypeInv, TypeOK, accountVars, agentVars
<1>8. ASSUME NEW u \in Users, NEW a \in Users, NEW f \in BOOLEAN, SetAvailability(u, a, f)
      PROVE  Staff /\ Kept
  <2>1. Kept
    BY <1>8, SetAvailabilityKept
  <2> QED
    BY <1>8, <2>1 DEF SetAvailability, TypeInv, TypeOK, accountVars
<1>9. ASSUME AccountStep PROVE Staff /\ Kept
  <2>1. TypeOK'
    BY <1>9, AccountsTypeStep DEF AccountStep, TypeInv
  <2>2. Kept
    BY <1>9, UnchangedKept DEF AccountStep
  <2> QED
    BY <1>9, <2>1, <2>2 DEF AccountStep, TypeInv, agentVars
<1>10. ASSUME Tick PROVE Staff /\ Kept
  <2>1. Kept
    BY <1>10, UnchangedKept DEF Tick
  <2> QED
    BY <1>10, <2>1 DEF Tick, TypeInv, TypeOK, accountVars, agentVars
<1>11. ASSUME UNCHANGED workflowVars PROVE Staff /\ Kept
  <2>1. Kept
    BY <1>11, UnchangedKept DEF workflowVars
  <2> QED
    BY <1>11, <2>1 DEF workflowVars, TypeInv, TypeOK
<1> HIDE DEF Staff
<1>12. Staff /\ Kept
  BY <1>1, <1>2, <1>3, <1>4, <1>5, <1>6, <1>7, <1>8, <1>9, <1>10, <1>11 DEF WorkflowNext
<1> QED
  BY <1>12 DEF Staff, TypeInv, Kept

-----------------------------------------------------------------------------
LEMMA WorkflowTypeInv == WorkflowSpec => []TypeInv
<1>1. TypeInv /\ [WorkflowNext]_workflowVars => TypeInv'
  BY WorkflowStep
<1> QED
  BY <1>1, WorkflowInitType, PTL DEF WorkflowSpec

(***************************************************************************)
(* Every row and every history entry is one the tables can hold.           *)
(***************************************************************************)
THEOREM WorkflowTypeCorrect == WorkflowSpec => []WorkflowTypeOK
  BY WorkflowTypeInv, TypeInvTypes, PTL

(***************************************************************************)
(* The SLA window is always anchored at the time of the report.            *)
(***************************************************************************)
THEOREM WindowStaysAnchored == WorkflowSpec => []WindowAnchored
<1>1. WorkflowInit => WindowAnchored
  BY DEF WorkflowInit, WindowAnchored, Filed
<1>2. TypeInv /\ WindowAnchored /\ [WorkflowNext]_workflowVars => WindowAnchored'
  BY WorkflowStep DEF Kept
<1> QED
  BY <1>1, <1>2, WorkflowTypeInv, PTL DEF WorkflowSpec

(***************************************************************************)
(* No request of any kind takes an incident out of CLOSED, as long as      *)
(* requests do not overlap.                                                *)
(***************************************************************************)
THEOREM ClosedNeverLeft == WorkflowSpec => ClosedIsTerminal
<1>1. TypeInv /\ [WorkflowNext]_workflowVars => [ClosedStep]_workflowVars
  BY WorkflowStep DEF Kept
<1> QED
  BY <1>1, WorkflowTypeInv, PTL DEF WorkflowSpec, ClosedIsTerminal, ClosedStep

(***************************************************************************)
(* The workflow is a system of accounts: its account steps are those of    *)
(* Accounts and no other step touches an account, so the lockout invariant *)
(* holds of it too.                                                        *)
(***************************************************************************)
THEOREM WorkflowImplementsAccounts == WorkflowSpec => ImplementsAccounts
<1>1. WorkflowInit => Init
  BY DEF WorkflowInit
<1>2. [WorkflowNext]_workflowVars => [Next]_accountVars
  <2> SUFFICES ASSUME [WorkflowNext]_workflowVars, ~ UNCHANGED accountVars
               PROVE  Next
    OBVIOUS
  <2> QED
    BY ZenonT(60) DEF WorkflowNext, workflowVars, accountVars, CreateIncident, UpdateStatus, AssignAgent,
           UnassignAgent, UpdateSla, UpdatePriority, UploadResolutionImage, SetAvailability,
           AccountStep, Tick
<1> QED
  BY <1>1, <1>2, PTL DEF WorkflowSpec, ImplementsAccounts, Spec

THEOREM WorkflowKeepsAnAdmin == WorkflowSpec => []ActiveAdminRemains
  BY WorkflowImplementsAccounts, ActiveAdminAlwaysRemains, PTL DEF ImplementsAccounts

-----------------------------------------------------------------------------
(***************************************************************************)
(* The histories, of any length.                                           *)
(*                                                                         *)
(* The properties quantify over positions of entries, so none of them is   *)
(* inductive: a request appends up to four entries, and what they must say *)
(* depends on what the history said before and on the row.  HistoryInv     *)
(* gives each incident a Story(h, c, f, t): the history h tells of the row *)
(* c, the switches f and the clock t, at every prefix a request passes     *)
(* through.  A plan is then read as a walk of rows, one entry at a time    *)
(* (Follows), and StoryOn says that an entry that follows keeps the story. *)
(***************************************************************************)

(***************************************************************************)
(* The same readings of a history as in IncidentWorkflow, of any sequence  *)
(* of entries h.                                                           *)
(***************************************************************************)
Positions(h, A) == {k \in DOMAIN h : h[k].action \in A}

\* Of the entries of family A, the last one carries v.
LastTells(h, A, v) ==
    \A k \in Positions(h, A) : IsLastBefore(k, Positions(h, A), Len(h) + 1) => h[k].new = v

Gapless(h, A) ==
    \A j, k \in Positions(h, A) : IsLastBefore(j, Positions(h, A), k) => h[k].old = h[j].new

Tells(h, A, v) == LastTells(h, A, v) /\ Gapless(h, A)

\* An agent who has the incident was given it by an entry, the last of its family.
Named(h, a) ==
    a # NONE => \E j \in Positions(h, AgentActions) :
                   /\ IsLastBefore(j, Positions(h, AgentActions), Len(h) + 1)
                   /\ h[j].new = a

AgentMove(old, new) ==
    <<old, new>> \in {<<"ASSIGNED", "IN_PROGRESS">>, <<"IN_PROGRESS", "RESOLVED">>}

MoveActions == StatusActions \ {"INCIDENT_CREATED"}

Accountable(h) ==
    \A k \in Positions(h, MoveActions) :
        h[k].by = "AGENT" =>
            /\ AgentMove(h[k].old, h[k].new)
            /\ \E j \in Positions(h, AgentActions) :
                  /\ IsLastBefore(j, Positions(h, AgentActions), k)
                  /\ h[j].new = h[k].actor

Finishes(e) ==
    /\ e.action \in MoveActions
    /\ e.old \notin SLA_FREEZE_STATUSES
    /\ e.new \in SLA_FREEZE_STATUSES

FinishPositions(h) == {k \in DOMAIN h : Finishes(h[k])}

\* Two finishes have a reopening in between; one has a reopening after it
\* unless the incident is still finished, status s.
Reworked(h, s) ==
    /\ \A j, k \in FinishPositions(h) :
          j < k => \E m \in Positions(h, {"INCIDENT_REOPENED"}) : j < m /\ m < k
    /\ s \notin SLA_FREEZE_STATUSES =>
          \A j \in FinishPositions(h) : \E m \in Positions(h, {"INCIDENT_REOPENED"}) : j < m

\* A finished incident has a last entry that finished it.
FinishKnown(h, s) ==
    s \in SLA_FREEZE_STATUSES =>
        \E k \in FinishPositions(h) : \A m \in FinishPositions(h) : m <= k

IsProof(e) == e.action = "IMAGE_ADDED" /\ e.new = "RESOLUTION"

Proven(h) ==
    \A k \in DOMAIN h : IsProof(h[k]) =>
        \A j \in Positions(h, StatusActions) :
            IsLastBefore(j, Positions(h, StatusActions), k) => h[j].new = "RESOLVED"

Resets == AgentActions \cup {"INCIDENT_REOPENED"}
Notes  == {"AGENT_AVAILABILITY_CHANGED"}

\* The last word on the availability of the agent of an open row c is f's,
\* unless the agent was changed or the incident reopened since.
Noted(h, c, f) ==
    (c.status \notin SLA_FREEZE_STATUSES /\ c.agent # NONE) =>
        \A k \in Positions(h, Notes) :
            (/\ IsLastBefore(k, Positions(h, Notes), Len(h) + 1)
             /\ \A m \in Positions(h, Resets) : m < k)
            => h[k].new = AvailabilityWord(f[c.agent])

\* No entry is from later than t.
Dated(h, t) == \A k \in DOMAIN h : h[k].at <= t

(***************************************************************************)
(* What the history h of an incident must be like for its row c, at time t *)
(* and when the agents have switched their availability to f.              *)
(***************************************************************************)
Story(h, c, f, t) ==
    /\ Tells(h, StatusActions, c.status)
    /\ Tells(h, AgentActions, c.agent)
    /\ Tells(h, SlaActions, c.hours)
    /\ Tells(h, PriorityActions, c.priority)
    /\ Named(h, c.agent)
    /\ Accountable(h)
    /\ Reworked(h, c.status)
    /\ FinishKnown(h, c.status)
    /\ Proven(h)
    /\ Noted(h, c, f)
    /\ Dated(h, t)

\* A finish that came too late for the window shows in the verdict.
Late(h, c) ==
    (c.status \in SLA_FREEZE_STATUSES /\ c.hours # NONE) =>
        \A k \in FinishPositions(h) : h[k].at >= c.deadline => c.verdict = "BREACHED"

HistoryInv ==
    \A i \in Incidents :
        IF Filed(i) THEN Story(history[i], incident[i], available, now)
                         /\ Late(history[i], incident[i])
                    ELSE history[i] = <<>>

-----------------------------------------------------------------------------
(***************************************************************************)
(* One more entry.  Continues says that e, written by time t, takes an     *)
(* incident whose columns are those of c to the columns of d.              *)
(***************************************************************************)
Continues(e, c, d, t) ==
    /\ e.at <= t
    /\ e.action # "INCIDENT_CREATED"
    /\ IF e.action \in StatusActions
       THEN /\ e.old = c.status /\ e.new = d.status
            /\ e.action = StatusAction(c.status, d.status)
            /\ e.by = "AGENT" => /\ e.actor = c.agent /\ c.agent # NONE
                                 /\ AgentMove(c.status, d.status)
       ELSE d.status = c.status
    /\ IF e.action \in AgentActions THEN e.old = c.agent /\ e.new = d.agent
                                    ELSE d.agent = c.agent
    /\ IF e.action \in SlaActions THEN e.old = c.hours /\ e.new = d.hours
                                  ELSE d.hours = c.hours
    /\ IF e.action \in PriorityActions THEN e.old = c.priority /\ e.new = d.priority
                                       ELSE d.priority = c.priority
    /\ IsProof(e) => c.status = "RESOLVED"

\* The same of an entry that is no note on the agent's availability.
Follows(e, c, d, t) == Continues(e, c, d, t) /\ e.action \notin Notes

LEMMA AppendedEntry ==
    ASSUME NEW h \in Seq(Event), NEW e \in Event
    PROVE  /\ Append(h, e) \in Seq(Event)
           /\ Len(h) \in Nat /\ DOMAIN h = 1 .. Len(h)
           /\ Len(Append(h, e)) = Len(h) + 1
           /\ \A k : k \in DOMAIN Append(h, e) <=> k \in DOMAIN h \/ k = Len(h) + 1
           /\ \A k \in DOMAIN h : Append(h, e)[k] = h[k]
           /\ Append(h, e)[Len(h) + 1] = e
  OBVIOUS

LEMMA AppendedPositions ==
    ASSUME NEW h \in Seq(Event), NEW e \in Event, NEW A
    PROVE  /\ Positions(h, A) \subseteq 1 .. Len(h)
           /\ Positions(Append(h, e), A) =
                IF e.action \in A THEN Positions(h, A) \cup {Len(h) + 1} ELSE Positions(h, A)
<1> DEFINE g == Append(h, e)
<1>1. /\ DOMAIN h = 1 .. Len(h) /\ Len(h) \in Nat
      /\ \A k : k \in DOMAIN g <=> k \in DOMAIN h \/ k = Len(h) + 1
      /\ \A k \in DOMAIN h : g[k] = h[k]
      /\ g[Len(h) + 1] = e
      /\ Len(h) + 1 \notin DOMAIN h
  BY AppendedEntry
<1> HIDE DEF g
<1> QED
  BY <1>1 DEF Positions, g

\* Before an earlier entry there are the same entries as before.
LEMMA BeforeIsKept ==
    ASSUME NEW h \in Seq(Event), NEW e \in Event, NEW A, NEW k \in 1 .. Len(h), NEW j,
           IsLastBefore(j, Positions(Append(h, e), A), k)
    PROVE  IsLastBefore(j, Positions(h, A), k)
  BY AppendedPositions, AppendedEntry DEF IsLastBefore

LEMMA BeforeIsStill ==
    ASSUME NEW h \in Seq(Event), NEW e \in Event, NEW A, NEW k \in 1 .. Len(h), NEW j,
           IsLastBefore(j, Positions(h, A), k)
    PROVE  IsLastBefore(j, Positions(Append(h, e), A), k)
  BY AppendedPositions, AppendedEntry DEF IsLastBefore

\* Before the new entry, the last is the one that was last.
LEMMA BeforeTheNew ==
    ASSUME NEW h \in Seq(Event), NEW e \in Event, NEW A, NEW j
    PROVE  IsLastBefore(j, Positions(Append(h, e), A), Len(h) + 1)
              <=> IsLastBefore(j, Positions(h, A), Len(h) + 1)
  BY AppendedPositions, AppendedEntry DEF IsLastBefore

\* At the end, the last one is the new entry or, if it is of another family, as before.
LEMMA LastAtTheEnd ==
    ASSUME NEW h \in Seq(Event), NEW e \in Event, NEW A, NEW j
    PROVE  IsLastBefore(j, Positions(Append(h, e), A), Len(Append(h, e)) + 1)
              <=> IF e.action \in A THEN j = Len(h) + 1
                                    ELSE IsLastBefore(j, Positions(h, A), Len(h) + 1)
  BY AppendedPositions, AppendedEntry DEF IsLastBefore

LEMMA TellsOn ==
    ASSUME NEW h \in Seq(Event), NEW e \in Event, NEW A, NEW v, NEW w, Tells(h, A, v),
           IF e.action \in A THEN e.old = v /\ e.new = w ELSE w = v
    PROVE  Tells(Append(h, e), A, w)
<1> DEFINE g == Append(h, e)
<1>1. ASSUME NEW k \in Positions(g, A), IsLastBefore(k, Positions(g, A), Len(g) + 1)
      PROVE  g[k].new = w
  <2>1. CASE e.action \in A
    BY <1>1, <2>1, LastAtTheEnd, AppendedEntry
  <2>2. CASE e.action \notin A
    <3>1. IsLastBefore(k, Positions(h, A), Len(h) + 1) /\ k \in Positions(h, A) /\ w = v
      BY <1>1, <2>2, LastAtTheEnd, AppendedPositions
    <3>2. h[k].new = v /\ k \in DOMAIN h
      BY <3>1 DEF Tells, LastTells, Positions
    <3> QED
      BY <3>1, <3>2, AppendedEntry
  <2> QED
    BY <2>1, <2>2
<1>2. ASSUME NEW j \in Positions(g, A), NEW k \in Positions(g, A),
             IsLastBefore(j, Positions(g, A), k)
      PROVE  g[k].old = g[j].new
  <2>1. CASE k \in 1 .. Len(h)
    <3>1. IsLastBefore(j, Positions(h, A), k)
      BY <1>2, <2>1, BeforeIsKept
    <3>2. j \in Positions(h, A) /\ k \in Positions(h, A)
      BY <1>2, <2>1, <3>1, AppendedPositions, AppendedEntry DEF IsLastBefore
    <3>3. h[k].old = h[j].new /\ j \in DOMAIN h /\ k \in DOMAIN h
      BY <3>1, <3>2 DEF Tells, Gapless, Positions
    <3> QED
      BY <3>3, AppendedEntry
  <2>2. CASE k \notin 1 .. Len(h)
    <3>1. e.action \in A /\ k = Len(h) + 1
      BY <1>2, <2>2, AppendedPositions
    <3>2. IsLastBefore(j, Positions(h, A), Len(h) + 1)
      BY <1>2, <3>1, BeforeTheNew
    <3>3. j \in Positions(h, A)
      BY <3>2 DEF IsLastBefore
    <3>4. h[j].new = v /\ j \in DOMAIN h
      BY <3>2, <3>3 DEF Tells, LastTells, Positions
    <3> QED
      BY <3>1, <3>4, AppendedEntry
  <2> QED
    BY <2>1, <2>2
<1> QED
  BY <1>1, <1>2 DEF Tells, LastTells, Gapless

LEMMA NamedOn ==
    ASSUME NEW h \in Seq(Event), NEW e \in Event, NEW a, NEW b, Named(h, a),
           IF e.action \in AgentActions THEN e.new = b ELSE b = a
    PROVE  Named(Append(h, e), b)
<1> DEFINE g == Append(h, e)
<1> SUFFICES ASSUME b # NONE
             PROVE  \E j \in Positions(g, AgentActions) :
                       /\ IsLastBefore(j, Positions(g, AgentActions), Len(g) + 1)
                       /\ g[j].new = b
  BY DEF Named
<1>1. CASE e.action \in AgentActions
  BY <1>1, LastAtTheEnd, AppendedPositions, AppendedEntry
<1>2. CASE e.action \notin AgentActions
  <2>1. PICK j \in Positions(h, AgentActions) :
               IsLastBefore(j, Positions(h, AgentActions), Len(h) + 1) /\ h[j].new = b
    BY <1>2 DEF Named
  <2>2. j \in DOMAIN h
    BY DEF Positions
  <2> QED
    BY <1>2, <2>1, <2>2, LastAtTheEnd, AppendedPositions, AppendedEntry
<1> QED
  BY <1>1, <1>2

LEMMA AccountableOn ==
    ASSUME NEW h \in Seq(Event), NEW e \in Event, NEW c, NEW d, NEW t,
           Accountable(h), Named(h, c.agent), Continues(e, c, d, t)
    PROVE  Accountable(Append(h, e))
<1> DEFINE g == Append(h, e)
<1> SUFFICES ASSUME NEW k \in Positions(g, MoveActions), g[k].by = "AGENT"
             PROVE  /\ AgentMove(g[k].old, g[k].new)
                    /\ \E j \in Positions(g, AgentActions) :
                          /\ IsLastBefore(j, Positions(g, AgentActions), k)
                          /\ g[j].new = g[k].actor
  BY DEF Accountable
<1>1. CASE k \in 1 .. Len(h)
  <2>1. k \in Positions(h, MoveActions) /\ k \in DOMAIN h /\ g[k] = h[k]
    BY <1>1, AppendedPositions, AppendedEntry
  <2>2. AgentMove(h[k].old, h[k].new)
    BY <2>1 DEF Accountable
  <2>3. PICK j \in Positions(h, AgentActions) :
               IsLastBefore(j, Positions(h, AgentActions), k) /\ h[j].new = h[k].actor
    BY <2>1 DEF Accountable
  <2>4. j \in DOMAIN h /\ j \in Positions(g, AgentActions)
    BY AppendedPositions DEF Positions
  <2>5. IsLastBefore(j, Positions(g, AgentActions), k)
    BY <1>1, <2>3, BeforeIsStill
  <2> QED
    BY <2>1, <2>2, <2>3, <2>4, <2>5, AppendedEntry
<1>2. CASE k \notin 1 .. Len(h)
  <2>1. k = Len(h) + 1 /\ g[k] = e /\ e.action \in MoveActions
    BY <1>2, AppendedPositions, AppendedEntry
  <2>2. /\ e.old = c.status /\ e.new = d.status
        /\ e.actor = c.agent /\ c.agent # NONE
        /\ AgentMove(c.status, d.status)
    BY <2>1 DEF Continues, MoveActions
  <2>3. PICK j \in Positions(h, AgentActions) :
               IsLastBefore(j, Positions(h, AgentActions), Len(h) + 1) /\ h[j].new = c.agent
    BY <2>2 DEF Named
  <2>4. j \in DOMAIN h /\ j \in Positions(g, AgentActions)
    BY AppendedPositions DEF Positions
  <2>5. IsLastBefore(j, Positions(g, AgentActions), k)
    BY <2>1, <2>3, BeforeTheNew
  <2> QED
    BY <2>1, <2>2, <2>3, <2>4, <2>5, AppendedEntry
<1> QED
  BY <1>1, <1>2

LEMMA AppendedFinish ==
    ASSUME NEW h \in Seq(Event), NEW e \in Event
    PROVE  /\ FinishPositions(h) \subseteq 1 .. Len(h)
           /\ FinishPositions(Append(h, e)) =
                IF Finishes(e) THEN FinishPositions(h) \cup {Len(h) + 1} ELSE FinishPositions(h)
<1> DEFINE g == Append(h, e)
<1>1. /\ DOMAIN h = 1 .. Len(h) /\ Len(h) \in Nat
      /\ \A k : k \in DOMAIN g <=> k \in DOMAIN h \/ k = Len(h) + 1
      /\ \A k \in DOMAIN h : g[k] = h[k]
      /\ g[Len(h) + 1] = e
      /\ Len(h) + 1 \notin DOMAIN h
  BY AppendedEntry
<1> HIDE DEF g
<1> QED
  BY <1>1 DEF FinishPositions, g

\* An entry that continues either finishes the incident, reopens it, or leaves
\* it as finished or unfinished as it was.
LEMMA ContinuesKinds ==
    ASSUME NEW e, NEW c, NEW d, NEW t, Continues(e, c, d, t)
    PROVE  /\ Finishes(e) <=> /\ c.status \notin SLA_FREEZE_STATUSES
                              /\ d.status \in SLA_FREEZE_STATUSES
           /\ (c.status \in SLA_FREEZE_STATUSES /\ d.status \notin SLA_FREEZE_STATUSES)
                 => e.action = "INCIDENT_REOPENED"
  BY DEF Continues, Finishes, MoveActions, StatusAction, StatusActions

LEMMA ReworkedOn ==
    ASSUME NEW h \in Seq(Event), NEW e \in Event, NEW c, NEW d, NEW t,
           Reworked(h, c.status), Continues(e, c, d, t)
    PROVE  Reworked(Append(h, e), d.status)
<1> DEFINE g == Append(h, e)
           R(x) == Positions(x, {"INCIDENT_REOPENED"})
           F(x) == FinishPositions(x)
<1>1. /\ F(h) \subseteq 1 .. Len(h) /\ R(h) \subseteq 1 .. Len(h) /\ Len(h) \in Nat
      /\ F(g) = IF Finishes(e) THEN F(h) \cup {Len(h) + 1} ELSE F(h)
      /\ R(g) = IF e.action = "INCIDENT_REOPENED" THEN R(h) \cup {Len(h) + 1} ELSE R(h)
  <2> DEFINE A == {"INCIDENT_REOPENED"}
  <2>1. e.action \in A <=> e.action = "INCIDENT_REOPENED"
    OBVIOUS
  <2> HIDE DEF A
  <2>2. /\ Positions(h, A) \subseteq 1 .. Len(h)
        /\ Positions(g, A) = IF e.action \in A THEN Positions(h, A) \cup {Len(h) + 1}
                                              ELSE Positions(h, A)
    BY AppendedPositions
  <2> QED
    BY <2>1, <2>2, AppendedFinish, AppendedEntry DEF A
<1>2. /\ \A j, k \in F(h) : j < k => \E m \in R(h) : j < m /\ m < k
      /\ c.status \notin SLA_FREEZE_STATUSES => \A j \in F(h) : \E m \in R(h) : j < m
  BY DEF Reworked
<1>3. SUFFICES /\ \A j, k \in F(g) : j < k => \E m \in R(g) : j < m /\ m < k
               /\ d.status \notin SLA_FREEZE_STATUSES => \A j \in F(g) : \E m \in R(g) : j < m
  BY DEF Reworked
<1> HIDE DEF g, R, F
<1>4. R(h) \subseteq R(g)
  BY <1>1
<1>5. ASSUME NEW j \in F(g), NEW k \in F(g), j < k
      PROVE  \E m \in R(g) : j < m /\ m < k
  <2>1. j \in F(h)
    BY <1>1, <1>5
  <2>2. CASE k \in F(h)
    BY <1>2, <1>4, <1>5, <2>1, <2>2
  <2>3. CASE k \notin F(h)
    <3>1. k = Len(h) + 1 /\ c.status \notin SLA_FREEZE_STATUSES
      BY <1>1, <2>3, ContinuesKinds
    <3>2. PICK m \in R(h) : j < m
      BY <1>2, <2>1, <3>1
    <3> QED
      BY <1>1, <1>4, <3>1, <3>2
  <2> QED
    BY <2>2, <2>3
<1>6. ASSUME d.status \notin SLA_FREEZE_STATUSES, NEW j \in F(g)
      PROVE  \E m \in R(g) : j < m
  <2>1. j \in F(h)
    BY <1>1, <1>6, ContinuesKinds
  <2>2. CASE c.status \in SLA_FREEZE_STATUSES
    <3>1. Len(h) + 1 \in R(g)
      BY <1>1, <1>6, <2>2, ContinuesKinds
    <3> QED
      BY <1>1, <2>1, <3>1
  <2>3. CASE c.status \notin SLA_FREEZE_STATUSES
    BY <1>2, <1>4, <2>1, <2>3
  <2> QED
    BY <2>2, <2>3
<1> QED
  BY <1>5, <1>6

LEMMA FinishKnownOn ==
    ASSUME NEW h \in Seq(Event), NEW e \in Event, NEW c, NEW d, NEW t,
           FinishKnown(h, c.status), Continues(e, c, d, t)
    PROVE  FinishKnown(Append(h, e), d.status)
<1>1. CASE Finishes(e)
  BY <1>1, AppendedFinish, AppendedEntry DEF FinishKnown
<1>2. CASE ~Finishes(e)
  BY <1>2, AppendedFinish, ContinuesKinds DEF FinishKnown
<1> QED
  BY <1>1, <1>2

LEMMA ProvenOn ==
    ASSUME NEW h \in Seq(Event), NEW e \in Event, NEW c, NEW d, NEW t,
           Proven(h), Tells(h, StatusActions, c.status), Continues(e, c, d, t)
    PROVE  Proven(Append(h, e))
<1> DEFINE g == Append(h, e)
<1> SUFFICES ASSUME NEW k \in DOMAIN g, IsProof(g[k]), NEW j \in Positions(g, StatusActions),
                    IsLastBefore(j, Positions(g, StatusActions), k)
             PROVE  g[j].new = "RESOLVED"
  BY DEF Proven
<1>1. CASE k \in 1 .. Len(h)
  <2>1. IsLastBefore(j, Positions(h, StatusActions), k)
    BY <1>1, BeforeIsKept
  <2>2. j \in Positions(h, StatusActions) /\ j \in DOMAIN h
    BY <2>1 DEF IsLastBefore, Positions
  <2>3. k \in DOMAIN h /\ IsProof(h[k])
    BY <1>1, AppendedEntry
  <2>4. h[j].new = "RESOLVED"
    BY <2>1, <2>2, <2>3 DEF Proven
  <2> QED
    BY <2>2, <2>4, AppendedEntry
<1>2. CASE k \notin 1 .. Len(h)
  <2>1. k = Len(h) + 1 /\ IsProof(e)
    BY <1>2, AppendedEntry
  <2>2. c.status = "RESOLVED"
    BY <2>1 DEF Continues
  <2>3. IsLastBefore(j, Positions(h, StatusActions), Len(h) + 1)
    BY <2>1, BeforeTheNew
  <2>4. j \in Positions(h, StatusActions) /\ j \in DOMAIN h
    BY <2>3 DEF IsLastBefore, Positions
  <2>5. h[j].new = "RESOLVED"
    BY <2>2, <2>3, <2>4 DEF Tells, LastTells
  <2> QED
    BY <2>4, <2>5, AppendedEntry
<1> QED
  BY <1>1, <1>2

LEMMA NotedOn ==
    ASSUME NEW h \in Seq(Event), NEW e \in Event, NEW c, NEW d, NEW f, NEW t,
           Noted(h, c, f), Follows(e, c, d, t)
    PROVE  Noted(Append(h, e), d, f)
<1> DEFINE g == Append(h, e)
<1> SUFFICES ASSUME d.status \notin SLA_FREEZE_STATUSES, d.agent # NONE,
                    NEW k \in Positions(g, Notes),
                    IsLastBefore(k, Positions(g, Notes), Len(g) + 1),
                    \A m \in Positions(g, Resets) : m < k
             PROVE  g[k].new = AvailabilityWord(f[d.agent])
  BY DEF Noted
<1>1. e.action \notin Notes
  BY DEF Follows
<1>2. /\ IsLastBefore(k, Positions(h, Notes), Len(h) + 1)
      /\ k \in Positions(h, Notes) /\ k \in 1 .. Len(h) /\ k \in DOMAIN h
  BY <1>1, LastAtTheEnd, AppendedPositions, AppendedEntry
<1>3. e.action \notin Resets
  BY <1>2, AppendedPositions, AppendedEntry
<1>4. \A m \in Positions(h, Resets) : m < k
  BY AppendedPositions
<1>5. d.agent = c.agent /\ c.status \notin SLA_FREEZE_STATUSES
  <2>1. d.agent = c.agent /\ e.action # "INCIDENT_REOPENED"
    BY <1>3 DEF Follows, Continues, Resets
  <2> QED
    BY <2>1, ContinuesKinds DEF Follows
<1>6. h[k].new = AvailabilityWord(f[c.agent])
  BY <1>2, <1>4, <1>5 DEF Noted
<1> QED
  BY <1>2, <1>5, <1>6, AppendedEntry

LEMMA DatedOn ==
    ASSUME NEW h \in Seq(Event), NEW e \in Event, NEW t, Dated(h, t), e.at <= t
    PROVE  Dated(Append(h, e), t)
  BY AppendedEntry DEF Dated

LEMMA StoryOn ==
    ASSUME NEW h \in Seq(Event), NEW e \in Event, NEW c, NEW d, NEW f, NEW t,
           Story(h, c, f, t), Follows(e, c, d, t)
    PROVE  Story(Append(h, e), d, f, t)
<1> DEFINE g == Append(h, e)
<1>1. Tells(g, StatusActions, d.status)
  BY TellsOn DEF Story, Follows, Continues
<1>2. Tells(g, AgentActions, d.agent)
  BY TellsOn DEF Story, Follows, Continues
<1>3. Tells(g, SlaActions, d.hours)
  BY TellsOn DEF Story, Follows, Continues
<1>4. Tells(g, PriorityActions, d.priority)
  BY TellsOn DEF Story, Follows, Continues
<1>5. Named(g, d.agent)
  BY NamedOn DEF Story, Follows, Continues
<1>6. Accountable(g)
  BY AccountableOn DEF Story, Follows
<1>7. Reworked(g, d.status) /\ FinishKnown(g, d.status)
  BY ReworkedOn, FinishKnownOn DEF Story, Follows
<1>8. Proven(g) /\ Noted(g, d, f)
  BY ProvenOn, NotedOn DEF Story, Follows
<1>9. Dated(g, t)
  BY DatedOn DEF Story, Follows, Continues
<1> QED
  BY <1>1, <1>2, <1>3, <1>4, <1>5, <1>6, <1>7, <1>8, <1>9 DEF Story

\* A note that says how the agent's availability now is.
LEMMA NoteOn ==
    ASSUME NEW h \in Seq(Event), NEW e \in Event, NEW c, NEW f, NEW g, NEW t,
           Story(h, c, f, t), e.action \in Notes, e.at <= t,
           c.agent # NONE => e.new = AvailabilityWord(g[c.agent])
    PROVE  Story(Append(h, e), c, g, t)
<1>1. Continues(e, c, c, t)
  BY DEF Continues, Notes, StatusActions, AgentActions, SlaActions, PriorityActions, IsProof
<1>3. /\ Tells(Append(h, e), StatusActions, c.status) /\ Tells(Append(h, e), AgentActions, c.agent)
      /\ Tells(Append(h, e), SlaActions, c.hours)
      /\ Tells(Append(h, e), PriorityActions, c.priority)
  <2>1. /\ e.action \notin StatusActions /\ e.action \notin AgentActions
        /\ e.action \notin SlaActions /\ e.action \notin PriorityActions
    BY DEF Notes, StatusActions, AgentActions, SlaActions, PriorityActions
  <2> QED
    BY <2>1, TellsOn DEF Story
<1>4. Named(Append(h, e), c.agent)
  BY NamedOn DEF Story, Notes, AgentActions
<1>5. Accountable(Append(h, e)) /\ Proven(Append(h, e))
  BY <1>1, AccountableOn, ProvenOn DEF Story
<1>6. Reworked(Append(h, e), c.status) /\ FinishKnown(Append(h, e), c.status)
  BY <1>1, ReworkedOn, FinishKnownOn DEF Story
<1>7. Noted(Append(h, e), c, g)
  BY LastAtTheEnd, AppendedEntry DEF Noted
<1>8. Dated(Append(h, e), t)
  BY DatedOn DEF Story
<1> QED
  BY <1>3, <1>4, <1>5, <1>6, <1>7, <1>8 DEF Story

-----------------------------------------------------------------------------
(***************************************************************************)
(* The lists of entries the handlers write.                                *)
(***************************************************************************)
SameColumns(c, d) ==
    c.status = d.status /\ c.agent = d.agent /\ c.hours = d.hours /\ c.priority = d.priority

LEMMA StoryOfSame ==
    ASSUME NEW h, NEW c, NEW d, NEW f, NEW t, Story(h, c, f, t), SameColumns(c, d)
    PROVE  Story(h, d, f, t)
  BY DEF Story, SameColumns, Noted

LEMMA WhenOn ==
    ASSUME NEW h \in Seq(Event), NEW b \in BOOLEAN, NEW e, b => e \in Event,
           NEW c, NEW d, NEW f, NEW t, Story(h, c, f, t),
           b => Follows(e, c, d, t), ~b => SameColumns(c, d)
    PROVE  /\ h \o When(b, e) \in Seq(Event)
           /\ Story(h \o When(b, e), d, f, t)
<1>1. CASE b
  <2>1. e \in Event /\ When(b, e) = <<e>>
    BY <1>1 DEF When
  <2>2. h \o <<e>> = Append(h, e)
    BY <2>1
  <2>3. Follows(e, c, d, t)
    BY <1>1
  <2>4. Story(Append(h, e), d, f, t) /\ Append(h, e) \in Seq(Event)
    BY <2>1, <2>3, StoryOn, AppendedEntry
  <2> QED
    BY <2>1, <2>2, <2>4, Zenon
<1>2. CASE ~b
  <2>1. h \o When(b, e) = h
    BY <1>2 DEF When
  <2> QED
    BY <1>2, <2>1, StoryOfSame
<1> QED
  BY <1>1, <1>2

\* A status entry, of the system, of an administrator or of the agent in charge.
LEMMA StatusEntryOn ==
    ASSUME TypeInv, NEW u, Signer(u), NEW h \in Seq(Event), NEW c, NEW d,
           c.status \in Statuses, d.status \in Statuses,
           c.agent = d.agent, c.hours = d.hours, c.priority = d.priority,
           (u # NONE /\ role[u] = "AGENT") =>
               u = c.agent /\ (c.status # d.status => AgentMove(c.status, d.status)),
           Story(h, c, available, now)
    PROVE  /\ h \o StatusEntry(u, c.status, d.status) \in Seq(Event)
           /\ Story(h \o StatusEntry(u, c.status, d.status), d, available, now)
<1> DEFINE a == StatusAction(c.status, d.status)
           e == Entry(a, u, c.status, d.status)
           b == c.status # d.status
<1>1. a \in StatusActions \ {"INCIDENT_CREATED"}
  BY StatusActionKind
<1>2. e \in Event
  <2>1. a \in HistoryActions /\ Fits(a, c.status, d.status)
    BY <1>1 DEF HistoryActions, Fits, StatusActions, AgentActions, SlaActions, PriorityActions
  <2> HIDE DEF a
  <2> QED
    BY <2>1, EntryEvent DEF EntryValues
<1>3. b => Follows(e, c, d, now)
  <2> SUFFICES ASSUME b PROVE Follows(e, c, d, now)
    OBVIOUS
  <2> DEFINE by == IF u = NONE THEN "SYSTEM" ELSE role[u]
  <2>1. by = "AGENT" => u = c.agent /\ c.agent # NONE /\ AgentMove(c.status, d.status)
    OBVIOUS
  <2>2. /\ e.action = a /\ e.by = by /\ e.actor = u
        /\ e.old = c.status /\ e.new = d.status /\ e.at = now
    BY DEF Entry
  <2>3. /\ a \in StatusActions
        /\ a \notin AgentActions \cup SlaActions \cup PriorityActions
        /\ a \notin Notes \cup {"INCIDENT_CREATED", "IMAGE_ADDED"}
    BY <1>1 DEF StatusActions, AgentActions, SlaActions, PriorityActions, Notes
  <2>4. now <= now
    BY WorkflowAssumption DEF TypeInv
  <2> HIDE DEF e, by
  <2> QED
    BY <2>1, <2>2, <2>3, <2>4 DEF Follows, Continues, IsProof
<1>4. StatusEntry(u, c.status, d.status) = When(b, e)
  BY DEF StatusEntry
<1>5. b \in BOOLEAN /\ (~b => SameColumns(c, d))
  BY SMTT(60) DEF SameColumns
<1> HIDE DEF e, b
<1> QED
  BY <1>2, <1>3, <1>4, <1>5, WhenOn

\* An entry about the agent, the window or the priority, or a note of an override.
LEMMA ColumnEntryFollows ==
    ASSUME TypeInv, NEW u, NEW a, NEW c, NEW d, c.status = d.status
    PROVE  /\ (a \in AgentActions /\ c.hours = d.hours /\ c.priority = d.priority)
                 => Follows(Entry(a, u, c.agent, d.agent), c, d, now)
           /\ (a \in SlaActions /\ c.agent = d.agent /\ c.priority = d.priority)
                 => Follows(Entry(a, u, c.hours, d.hours), c, d, now)
           /\ (a \in PriorityActions /\ c.agent = d.agent /\ c.hours = d.hours)
                 => Follows(Entry(a, u, c.priority, d.priority), c, d, now)
           /\ (a = "ADMIN_OVERRIDE" /\ SameColumns(c, d))
                 => Follows(Entry(a, u, NONE, NONE), c, d, now)
           /\ (a = "IMAGE_ADDED" /\ SameColumns(c, d) /\ c.status = "RESOLVED")
                 => Follows(Entry(a, u, NONE, "RESOLUTION"), c, d, now)
<1>1. now <= now
  BY WorkflowAssumption DEF TypeInv
<1>2. ASSUME NEW old, NEW new
      PROVE  LET e == Entry(a, u, old, new) IN
             e.action = a /\ e.old = old /\ e.new = new /\ e.at = now
  BY DEF Entry
<1> USE <1>1, <1>2 DEF Follows, Continues, IsProof, Notes, StatusActions
<1>3. ASSUME a \in AgentActions, c.hours = d.hours, c.priority = d.priority
      PROVE  Follows(Entry(a, u, c.agent, d.agent), c, d, now)
  BY <1>3 DEF AgentActions, SlaActions, PriorityActions
<1>4. ASSUME a \in SlaActions, c.agent = d.agent, c.priority = d.priority
      PROVE  Follows(Entry(a, u, c.hours, d.hours), c, d, now)
  BY <1>4 DEF AgentActions, SlaActions, PriorityActions
<1>5. ASSUME a \in PriorityActions, c.agent = d.agent, c.hours = d.hours
      PROVE  Follows(Entry(a, u, c.priority, d.priority), c, d, now)
  BY <1>5 DEF AgentActions, SlaActions, PriorityActions
<1>6. ASSUME a = "ADMIN_OVERRIDE", SameColumns(c, d)
      PROVE  Follows(Entry(a, u, NONE, NONE), c, d, now)
  BY <1>6 DEF AgentActions, SlaActions, PriorityActions, SameColumns
<1>7. ASSUME a = "IMAGE_ADDED", SameColumns(c, d), c.status = "RESOLVED"
      PROVE  Follows(Entry(a, u, NONE, "RESOLUTION"), c, d, now)
  BY <1>7 DEF AgentActions, SlaActions, PriorityActions, SameColumns
<1> QED
  BY <1>3, <1>4, <1>5, <1>6, <1>7

\* Photos of a report: any number of entries no property looks at.
Photo(e, t) == e.action = "IMAGE_ADDED" /\ e.new = "REPORT" /\ e.at <= t

LEMMA PhotosOn ==
    ASSUME NEW h \in Seq(Event), NEW p \in Seq(Event), NEW c, NEW f, NEW t,
           Story(h, c, f, t), \A k \in DOMAIN p : Photo(p[k], t)
    PROVE  Story(h \o p, c, f, t)
<1> DEFINE g == h \o p
<1>1. /\ DOMAIN h = 1 .. Len(h) /\ Len(h) \in Nat /\ Len(g) \in Nat /\ Len(h) <= Len(g)
      /\ DOMAIN g = 1 .. Len(g)
      /\ \A k \in DOMAIN h : k \in DOMAIN g /\ g[k] = h[k]
      /\ \A k \in DOMAIN g : k \notin DOMAIN h => Photo(g[k], t)
  <2>1. /\ Len(h) \in Nat /\ Len(p) \in Nat /\ DOMAIN h = 1 .. Len(h) /\ DOMAIN p = 1 .. Len(p)
        /\ Len(g) = Len(h) + Len(p) /\ DOMAIN g = 1 .. Len(g)
        /\ \A k \in 1 .. Len(h) + Len(p) : g[k] = IF k <= Len(h) THEN h[k] ELSE p[k - Len(h)]
    BY ConcatProperties, LenProperties
  <2> HIDE DEF g
  <2> QED
    BY <2>1
<1> HIDE DEF g
<1>2. ASSUME NEW A, "IMAGE_ADDED" \notin A
      PROVE  Positions(g, A) = Positions(h, A)
  BY <1>1, <1>2 DEF Positions, Photo
<1>3. \A A : Positions(h, A) \subseteq DOMAIN h
  BY DEF Positions
<1>4. ASSUME NEW A, "IMAGE_ADDED" \notin A, NEW j
      PROVE  IsLastBefore(j, Positions(g, A), Len(g) + 1)
                => IsLastBefore(j, Positions(h, A), Len(h) + 1)
  BY <1>1, <1>2, <1>3, <1>4 DEF IsLastBefore
<1>5. ASSUME NEW A, "IMAGE_ADDED" \notin A, NEW j
      PROVE  IsLastBefore(j, Positions(h, A), Len(h) + 1)
                => IsLastBefore(j, Positions(g, A), Len(g) + 1)
  BY <1>1, <1>2, <1>3, <1>5 DEF IsLastBefore
<1>6. ASSUME NEW A, "IMAGE_ADDED" \notin A, NEW v, Tells(h, A, v)
      PROVE  Tells(g, A, v)
  <2>1. Positions(g, A) = Positions(h, A)
    BY <1>2, <1>6
  <2>2. \A k \in Positions(h, A) : g[k] = h[k]
    BY <1>1, <1>3
  <2>3. LastTells(g, A, v)
    BY <1>4, <1>6, <2>1, <2>2 DEF Tells, LastTells
  <2>4. Gapless(g, A)
    BY <1>6, <2>1, <2>2 DEF Tells, Gapless
  <2> QED
    BY <2>3, <2>4 DEF Tells
<1>7. /\ "IMAGE_ADDED" \notin StatusActions /\ "IMAGE_ADDED" \notin AgentActions
      /\ "IMAGE_ADDED" \notin SlaActions /\ "IMAGE_ADDED" \notin PriorityActions
      /\ "IMAGE_ADDED" \notin MoveActions /\ "IMAGE_ADDED" \notin Notes
      /\ "IMAGE_ADDED" \notin Resets /\ "IMAGE_ADDED" \notin {"INCIDENT_REOPENED"}
  BY DEF StatusActions, AgentActions, SlaActions, PriorityActions, MoveActions, Notes, Resets
<1>8. /\ Tells(g, StatusActions, c.status) /\ Tells(g, AgentActions, c.agent)
      /\ Tells(g, SlaActions, c.hours) /\ Tells(g, PriorityActions, c.priority)
  BY <1>6, <1>7 DEF Story
<1>9. Named(g, c.agent)
  BY <1>1, <1>2, <1>3, <1>5, <1>7 DEF Story, Named
<1>10. Accountable(g)
  BY <1>1, <1>2, <1>3, <1>7 DEF Story, Accountable
<1>11. FinishPositions(g) = FinishPositions(h)
  BY <1>1, <1>7 DEF FinishPositions, Finishes, Photo
<1>12. Reworked(g, c.status) /\ FinishKnown(g, c.status)
  BY <1>2, <1>7, <1>11 DEF Story, Reworked, FinishKnown
<1>13. Proven(g)
  <2>1. ASSUME NEW k \in DOMAIN g, IsProof(g[k]), NEW j \in Positions(g, StatusActions),
               IsLastBefore(j, Positions(g, StatusActions), k)
        PROVE  g[j].new = "RESOLVED"
    <3>1. k \in DOMAIN h /\ IsProof(h[k])
      BY <1>1, <2>1 DEF IsProof, Photo
    <3> QED
      BY <1>1, <1>2, <1>3, <1>7, <2>1, <3>1 DEF Story, Proven
  <2> QED
    BY <2>1 DEF Proven
<1>14. Noted(g, c, f)
  <2>1. ASSUME c.status \notin SLA_FREEZE_STATUSES, c.agent # NONE, NEW k \in Positions(g, Notes),
               IsLastBefore(k, Positions(g, Notes), Len(g) + 1),
               \A m \in Positions(g, Resets) : m < k
        PROVE  g[k].new = AvailabilityWord(f[c.agent])
    <3>1. k \in Positions(h, Notes) /\ IsLastBefore(k, Positions(h, Notes), Len(h) + 1)
      BY <1>2, <1>4, <1>7, <2>1
    <3>2. \A m \in Positions(h, Resets) : m < k
      BY <1>2, <1>7, <2>1
    <3>3. h[k].new = AvailabilityWord(f[c.agent]) /\ k \in DOMAIN h
      BY <1>3, <2>1, <3>1, <3>2 DEF Story, Noted
    <3> QED
      BY <1>1, <3>3
  <2> QED
    BY <2>1 DEF Noted
<1>15. Dated(g, t)
  BY <1>1 DEF Story, Dated, Photo
<1> QED
  BY <1>8, <1>9, <1>10, <1>12, <1>13, <1>14, <1>15 DEF Story, g

-----------------------------------------------------------------------------
(***************************************************************************)
(* When the verdict is kept and when it is given anew.                     *)
(***************************************************************************)
SameFinishes(h, g) ==
    /\ FinishPositions(g) = FinishPositions(h)
    /\ \A k \in FinishPositions(h) : g[k] = h[k]

LEMMA WhenSameFinishes ==
    ASSUME NEW h \in Seq(Event), NEW b \in BOOLEAN, NEW e, b => e \in Event /\ ~Finishes(e)
    PROVE  SameFinishes(h, h \o When(b, e))
<1>1. CASE b
  <2>1. h \o When(b, e) = Append(h, e) /\ e \in Event /\ ~Finishes(e)
    BY <1>1 DEF When
  <2>2. SameFinishes(h, Append(h, e))
    BY <2>1, AppendedFinish, AppendedEntry DEF SameFinishes
  <2> QED
    BY <2>1, <2>2
<1>2. CASE ~b
  <2>1. h \o When(b, e) = h
    BY <1>2 DEF When
  <2> QED
    BY <2>1 DEF SameFinishes
<1> QED
  BY <1>1, <1>2

LEMMA LateKept ==
    ASSUME NEW h, NEW g, SameFinishes(h, g), NEW c, NEW d, Late(h, c),
           d.status \in SLA_FREEZE_STATUSES => c.status \in SLA_FREEZE_STATUSES,
           d.hours = c.hours, d.deadline = c.deadline, d.verdict = c.verdict
    PROVE  Late(g, d)
  BY DEF Late, SameFinishes

\* A verdict given now is BREACHED when any finish so far came too late.
LEMMA JudgedLate ==
    ASSUME TypeInv, NEW row \in Row, row.hours # NONE => row.deadline # NONE,
           NEW g \in Seq(Event), Dated(g, now)
    PROVE  Late(g, Judged(row))
<1>1. now \in Times
  BY DEF TypeInv
<1>2. SUFFICES ASSUME row.hours # NONE, NEW k \in FinishPositions(g), g[k].at >= row.deadline
               PROVE  Judged(row).verdict = "BREACHED"
  BY <1>1, JudgedRow DEF Late
<1>3. row.deadline # NONE /\ row.deadline \in Nat /\ now \in Nat
  BY <1>1, <1>2, WorkflowAssumption DEF Row
<1>4. g[k].at \in Nat /\ g[k].at <= now
  <2>1. k \in DOMAIN g /\ g[k] \in Event
    BY DEF FinishPositions
  <2>2. g[k].at \in Times
    BY <2>1 DEF Event
  <2> QED
    BY <2>1, <2>2, WorkflowAssumption DEF Dated
<1>5. SlaVerdict(row.deadline, row.hours, now) = "BREACHED"
  BY <1>2, <1>3, <1>4 DEF SlaVerdict
<1> QED
  BY <1>3, <1>5 DEF Judged, Row

LEMMA WindowLate ==
    ASSUME TypeInv, NEW row \in Row, NEW w \in SlaHours \cup {NONE},
           NEW g \in Seq(Event), Dated(g, now)
    PROVE  Late(g, WithWindow(row, w))
<1>1. CASE w = NONE
  <2>1. WithWindow(row, w).hours = NONE
    BY <1>1, WindowRow DEF TypeInv
  <2> QED
    BY <2>1 DEF Late
<1>2. CASE w # NONE
  <2> DEFINE d   == row.created + w
             new == [row EXCEPT !.hours = w, !.deadline = d]
  <2>1. d \in Nat
    <3>1. row.created \in Nat /\ w \in Nat
      BY <1>2, HoursAreNat, WorkflowAssumption DEF Row
    <3> QED
      BY <3>1
  <2>2. WithWindow(row, w) = Judged(new)
    BY <1>2 DEF WithWindow
  <2> HIDE DEF d
  <2>3. new \in Row /\ new.deadline # NONE
    BY <1>2, <2>1, WorkflowAssumption DEF Row
  <2> HIDE DEF new
  <2> QED
    BY <2>2, <2>3, JudgedLate
<1> QED
  BY <1>1, <1>2

LEMMA LateOfEnriched ==
    ASSUME now \in Times, NEW row \in Row, NEW h, Late(h, row)
    PROVE  Late(h, Enriched(row))
<1>1. CASE row.status \in SLA_FREEZE_STATUSES
  BY <1>1 DEF Enriched
<1>2. CASE row.status \notin SLA_FREEZE_STATUSES
  BY <1>2, EnrichedRow DEF Late, SameCase
<1> QED
  BY <1>1, <1>2

-----------------------------------------------------------------------------
(***************************************************************************)
(* The plans: each leaves a row its history tells of.                      *)
(***************************************************************************)
LEMMA JoinLists ==
    ASSUME NEW h \in Seq(Event), NEW x \in Seq(Event), NEW y \in Seq(Event)
    PROVE  h \o (x \o y) = (h \o x) \o y
  BY ConcatAssociative, SMTT(60)

Told(h, row, plan) ==
    /\ Story(h \o plan.entries, plan.row, available, now)
    /\ Late(h \o plan.entries, plan.row)

LEMMA StatusPlanTold ==
    ASSUME TypeInv, NEW u \in Users, Exists(u), NEW row \in Row, NEW new \in Statuses,
           MayMove(u, row, new), row.hours # NONE => row.deadline # NONE,
           NEW h \in Seq(Event), Story(h, row, available, now)
    PROVE  Told(h, row, StatusPlan(u, row, new))
<1> DEFINE moved == [row EXCEPT !.status = new]
           final == IF new \in SLA_FREEZE_STATUSES THEN Judged(moved) ELSE moved
           s     == StatusEntry(u, row.status, new)
<1>1. /\ moved \in Row /\ moved.status = new
      /\ moved.agent = row.agent /\ moved.hours = row.hours /\ moved.priority = row.priority
      /\ moved.hours # NONE => moved.deadline # NONE
  BY DEF Row
<1>2. now \in Times
  BY DEF TypeInv
<1>3. StatusPlan(u, row, new) = [row |-> final, entries |-> s]
  BY DEF StatusPlan, Plan
<1> HIDE DEF moved
<1>4. /\ SameCase(final, moved) /\ final.hours = moved.hours
  BY <1>1, <1>2, JudgedRow DEF SameCase
<1>5. role[u] = "AGENT" => u = row.agent /\ AgentMove(row.status, new)
  BY DEF MayMove, AGENT_TRANSITIONS, AgentMove, Row, Statuses
<1>6. h \o s \in Seq(Event) /\ Story(h \o s, moved, available, now)
  <2>1. Signer(u) /\ row.status \in Statuses
    BY DEF Signer, Row
  <2> HIDE DEF s, final
  <2>2. /\ h \o StatusEntry(u, row.status, moved.status) \in Seq(Event)
        /\ Story(h \o StatusEntry(u, row.status, moved.status), moved, available, now)
    BY <1>1, <1>5, <2>1, StatusEntryOn
  <2> QED
    BY <1>1, <2>2 DEF s
<1>7. Story(h \o s, final, available, now)
  BY <1>4, <1>6, StoryOfSame DEF SameCase, SameColumns
<1>8. Late(h \o s, final)
  <2>1. Dated(h \o s, now)
    BY <1>6 DEF Story
  <2>2. CASE new \in SLA_FREEZE_STATUSES
    BY <1>1, <1>6, <2>1, <2>2, JudgedLate
  <2>3. CASE new \notin SLA_FREEZE_STATUSES
    BY <1>1, <2>3 DEF Late
  <2> QED
    BY <2>2, <2>3
<1> HIDE DEF final, s
<1> QED
  BY <1>3, <1>7, <1>8 DEF Told

LEMMA AssignPlanTold ==
    ASSUME TypeInv, NEW u \in Users, role[u] = "ADMIN", NEW row \in Row, NEW agent \in Users,
           NEW h \in Seq(Event), Story(h, row, available, now), Late(h, row)
    PROVE  Told(h, row, AssignPlan(u, row, agent))
<1> DEFINE status == IF row.status \in {"REPORTED", "TRIAGED"} THEN "ASSIGNED" ELSE row.status
           given == [row EXCEPT !.agent = agent]
           new == [row EXCEPT !.agent = agent, !.status = status]
           a  == IF row.agent = NONE THEN "AGENT_ASSIGNED" ELSE "AGENT_REASSIGNED"
           e1 == Entry("ADMIN_OVERRIDE", u, NONE, NONE)
           e2 == Entry(a, u, row.agent, agent)
           b1 == ~available[agent]
           b2 == row.agent # agent
           s1 == When(b1, e1)
           s2 == When(b2, e2)
           s3 == StatusEntry(u, row.status, status)
<1>1. AssignPlan(u, row, agent) = [row |-> new, entries |-> s1 \o s2 \o s3]
  BY DEF AssignPlan, Plan
<1>2. /\ status \in Statuses /\ row.status \in Statuses
      /\ status \in SLA_FREEZE_STATUSES => status = row.status
      /\ Signer(u) /\ b1 \in BOOLEAN /\ b2 \in BOOLEAN /\ a \in AgentActions
      /\ row.agent \in Users \cup {NONE}
  <2>1. b1 \in BOOLEAN /\ b2 \in BOOLEAN
    OBVIOUS
  <2>2. Signer(u)
    BY AccountsAssumption DEF Signer, Exists, Roles
  <2>3. a \in AgentActions
    BY DEF AgentActions
  <2> HIDE DEF b1, b2, a
  <2> QED
    BY <2>1, <2>2, <2>3 DEF Row, Statuses, SLA_FREEZE_STATUSES
<1>3. /\ given.status = row.status /\ given.agent = agent /\ given.hours = row.hours
      /\ given.priority = row.priority
      /\ new.status = status /\ new.agent = agent /\ new.hours = row.hours
      /\ new.priority = row.priority /\ new.deadline = row.deadline /\ new.verdict = row.verdict
  BY DEF Row
<1>4. e1 \in Event /\ e2 \in Event
  <2> HIDE DEF a
  <2> QED
    BY <1>2, OtherEntries DEF OtherActions, EntryValues
<1>5. Follows(e1, row, row, now)
  BY ColumnEntryFollows DEF SameColumns
<1>6. Follows(e2, row, given, now) /\ (~b2 => SameColumns(row, given))
  <2> HIDE DEF a, given
  <2>1. Follows(Entry(a, u, row.agent, given.agent), row, given, now)
    BY <1>2, <1>3, ColumnEntryFollows
  <2> QED
    BY <1>3, <2>1 DEF SameColumns
<1>7. SameColumns(row, row) /\ ~Finishes(e1) /\ ~Finishes(e2)
  BY <1>2 DEF SameColumns, Finishes, Entry, MoveActions, StatusActions, AgentActions
<1> HIDE DEF status, given, new, a, e1, e2, b1, b2
<1>8. /\ h \o s1 \in Seq(Event) /\ Story(h \o s1, row, available, now)
      /\ SameFinishes(h, h \o s1) /\ s1 \in Seq(Event)
  BY <1>2, <1>4, <1>5, <1>7, WhenOn, WhenSameFinishes, WhenEvents
<1> DEFINE h1 == h \o s1
           h2 == h1 \o s2
           h3 == h2 \o s3
<1> HIDE DEF s1, h1
<1>9. /\ h2 \in Seq(Event) /\ Story(h2, given, available, now)
      /\ SameFinishes(h1, h2) /\ s2 \in Seq(Event)
  BY <1>2, <1>4, <1>6, <1>7, <1>8, WhenOn, WhenSameFinishes, WhenEvents DEF h1
<1> HIDE DEF s2, h2
<1>10. s3 \in Seq(Event) /\ h3 \in Seq(Event) /\ Story(h3, new, available, now)
  <2>1. s3 \in Seq(Event)
    BY <1>2, StatusEntryEvents
  <2>2. role[u] # "AGENT" /\ given.status = row.status /\ new.status = status
    BY <1>3
  <2>3. /\ h2 \o StatusEntry(u, given.status, new.status) \in Seq(Event)
        /\ Story(h2 \o StatusEntry(u, given.status, new.status), new, available, now)
    <3> HIDE DEF s3
    <3> QED
      BY <1>2, <1>3, <1>9, <2>2, StatusEntryOn
  <2> QED
    BY <2>1, <2>2, <2>3
<1>11. Late(h3, new)
  <2>1. CASE status \in SLA_FREEZE_STATUSES
    <3>1. h3 = h2
      <4>1. s3 = <<>>
        BY <1>2, <2>1 DEF StatusEntry, When
      <4> QED
        BY <1>9, <4>1
    <3>2. SameFinishes(h, h3)
      BY <1>8, <1>9, <3>1 DEF SameFinishes, h1
    <3> QED
      BY <1>2, <1>3, <2>1, <3>2, LateKept
  <2>2. CASE status \notin SLA_FREEZE_STATUSES
    BY <1>3, <2>2 DEF Late
  <2> QED
    BY <2>1, <2>2
<1> HIDE DEF s3
<1>12. h \o (s1 \o s2 \o s3) = h3
  <2>1. s1 \in Seq(Event) /\ s2 \in Seq(Event) /\ s3 \in Seq(Event)
    BY <1>8, <1>9, <1>10
  <2>2. s1 \o s2 \in Seq(Event)
    BY <2>1, ConcatProperties
  <2>3. h \o ((s1 \o s2) \o s3) = (h \o (s1 \o s2)) \o s3
    BY <2>1, <2>2, JoinLists, SMTT(60)
  <2>4. h \o (s1 \o s2) = (h \o s1) \o s2
    BY <2>1, JoinLists
  <2> QED
    BY ONLY <2>3, <2>4 DEF h1, h2, h3
<1> DEFINE plan == AssignPlan(u, row, agent)
<1>13. plan.row = new /\ h \o plan.entries = h3
  <2>1. plan.row = new /\ plan.entries = s1 \o s2 \o s3
    BY <1>1
  <2> QED
    BY <1>12, <2>1, Zenon
<1> HIDE DEF h3, plan
<1>14. Story(h \o plan.entries, plan.row, available, now) /\ Late(h \o plan.entries, plan.row)
  BY <1>10, <1>11, <1>13
<1> QED
  BY <1>14 DEF Told, plan

LEMMA UnassignPlanTold ==
    ASSUME TypeInv, NEW u \in Users, role[u] = "ADMIN", NEW row \in Row,
           NEW h \in Seq(Event), Story(h, row, available, now), Late(h, row)
    PROVE  Told(h, row, UnassignPlan(u, row))
<1> DEFINE status == IF row.status = "ASSIGNED" THEN "REPORTED" ELSE row.status
           freed == [row EXCEPT !.agent = NONE]
           new == [row EXCEPT !.agent = NONE, !.status = status]
           e1 == Entry("AGENT_UNASSIGNED", u, row.agent, NONE)
           b1 == row.agent # NONE
           s1 == When(b1, e1)
           s2 == StatusEntry(u, row.status, status)
           plan == UnassignPlan(u, row)
<1>1. plan = [row |-> new, entries |-> s1 \o s2]
  BY DEF UnassignPlan, Plan
<1>2. /\ status \in Statuses /\ row.status \in Statuses
      /\ status \in SLA_FREEZE_STATUSES => status = row.status
      /\ Signer(u) /\ b1 \in BOOLEAN /\ row.agent \in Users \cup {NONE}
  <2>1. Signer(u)
    BY AccountsAssumption DEF Signer, Exists, Roles
  <2> QED
    BY <2>1 DEF Row, Statuses, SLA_FREEZE_STATUSES
<1>3. /\ freed.status = row.status /\ freed.agent = NONE /\ freed.hours = row.hours
      /\ freed.priority = row.priority
      /\ new.status = status /\ new.agent = NONE /\ new.hours = row.hours
      /\ new.priority = row.priority /\ new.deadline = row.deadline /\ new.verdict = row.verdict
  BY DEF Row
<1>4. e1 \in Event
  BY <1>2, OtherEntries DEF AgentActions
<1>5. Follows(e1, row, freed, now) /\ (~b1 => SameColumns(row, freed))
  <2> HIDE DEF freed
  <2>1. Follows(Entry("AGENT_UNASSIGNED", u, row.agent, freed.agent), row, freed, now)
    BY <1>3, ColumnEntryFollows DEF AgentActions
  <2> QED
    BY <1>3, <2>1 DEF SameColumns
<1>6. ~Finishes(e1)
  BY DEF Finishes, Entry, MoveActions, StatusActions
<1> HIDE DEF status, freed, new, e1, b1, plan
<1>7. /\ h \o s1 \in Seq(Event) /\ Story(h \o s1, freed, available, now)
      /\ SameFinishes(h, h \o s1) /\ s1 \in Seq(Event)
  BY <1>2, <1>4, <1>5, <1>6, WhenOn, WhenSameFinishes, WhenEvents
<1> DEFINE h1 == h \o s1
           h2 == h1 \o s2
<1> HIDE DEF s1, h1
<1>8. s2 \in Seq(Event) /\ h2 \in Seq(Event) /\ Story(h2, new, available, now)
  <2>1. s2 \in Seq(Event)
    BY <1>2, StatusEntryEvents
  <2>2. role[u] # "AGENT" /\ freed.status = row.status /\ new.status = status
    BY <1>3
  <2>3. /\ h1 \o StatusEntry(u, freed.status, new.status) \in Seq(Event)
        /\ Story(h1 \o StatusEntry(u, freed.status, new.status), new, available, now)
    <3>1. h1 \in Seq(Event) /\ Story(h1, freed, available, now)
      BY <1>7 DEF h1
    <3> HIDE DEF s2
    <3> QED
      BY <1>2, <1>3, <2>2, <3>1, StatusEntryOn
  <2> QED
    BY <2>1, <2>2, <2>3
<1>9. Late(h2, new)
  <2>1. CASE status \in SLA_FREEZE_STATUSES
    <3>1. h2 = h1
      <4>1. s2 = <<>>
        BY <1>2, <2>1 DEF StatusEntry, When
      <4>2. h1 \in Seq(Event)
        BY <1>7 DEF h1
      <4> QED
        BY <4>1, <4>2
    <3>2. SameFinishes(h, h2)
      BY <1>7, <3>1 DEF h1
    <3> QED
      BY <1>2, <1>3, <2>1, <3>2, LateKept
  <2>2. CASE status \notin SLA_FREEZE_STATUSES
    BY <1>3, <2>2 DEF Late
  <2> QED
    BY <2>1, <2>2
<1> HIDE DEF s2
<1>10. h \o (s1 \o s2) = h2
  <2>1. h \o (s1 \o s2) = (h \o s1) \o s2
    BY <1>7, <1>8, JoinLists
  <2> QED
    BY ONLY <2>1 DEF h1, h2
<1>11. plan.row = new /\ h \o plan.entries = h2
  <2>1. plan.row = new /\ plan.entries = s1 \o s2
    BY <1>1
  <2> QED
    BY <1>10, <2>1, Zenon
<1> HIDE DEF h2
<1>12. Story(h \o plan.entries, plan.row, available, now) /\ Late(h \o plan.entries, plan.row)
  BY <1>8, <1>9, <1>11
<1> QED
  BY <1>12 DEF Told, plan

LEMMA SlaPlanTold ==
    ASSUME TypeInv, NEW u \in Users, role[u] = "ADMIN", NEW row \in Row,
           NEW w \in SlaHours \cup {NONE},
           NEW h \in Seq(Event), Story(h, row, available, now)
    PROVE  Told(h, row, SlaPlan(u, row, w))
<1> DEFINE a == IF row.hours = NONE THEN "SLA_CREATED" ELSE "SLA_UPDATED"
           e == Entry(a, u, row.hours, w)
           b == row.hours # w
           s == When(b, e)
           new == WithWindow(row, w)
           plan == SlaPlan(u, row, w)
<1>1. plan.row = new /\ plan.entries = s
  BY DEF SlaPlan, Plan
<1>2. /\ a \in SlaActions /\ row.hours \in SlaHours \cup {NONE} /\ Signer(u)
      /\ b \in BOOLEAN /\ now \in Times
  <2>1. Signer(u)
    BY AccountsAssumption DEF Signer, Exists, Roles
  <2> QED
    BY <2>1 DEF SlaActions, Row, TypeInv
<1>3. SameCase(new, row) /\ new.hours = w
  BY <1>2, WindowRow
<1> HIDE DEF a, new, plan
<1>4. e \in Event
  BY <1>2, OtherEntries
<1>5. Follows(e, row, new, now) /\ (~b => SameColumns(row, new))
  <2>1. Follows(Entry(a, u, row.hours, new.hours), row, new, now)
    BY <1>2, <1>3, ColumnEntryFollows DEF SameCase
  <2> QED
    BY <1>3, <2>1 DEF SameColumns, SameCase
<1> HIDE DEF e, b
<1>6. h \o s \in Seq(Event) /\ Story(h \o s, new, available, now)
  BY <1>2, <1>4, <1>5, WhenOn
<1> HIDE DEF s
<1>7. Late(h \o s, new)
  BY <1>6, WindowLate DEF new, Story
<1> QED
  BY <1>1, <1>6, <1>7 DEF Told, plan

LEMMA PriorityPlanTold ==
    ASSUME TypeInv, NEW u \in Users, role[u] = "ADMIN", NEW row \in Row, NEW p \in Priorities,
           NEW h \in Seq(Event), Story(h, row, available, now)
    PROVE  Told(h, row, PriorityPlan(u, row, p))
<1> DEFINE w  == DEFAULT_SLA_HOURS[p]
           r  == [row EXCEPT !.priority = p]
           new == WithWindow(r, w)
           e1 == Entry("PRIORITY_CHANGED", u, row.priority, p)
           e2 == Entry("SLA_UPDATED", u, row.hours, w)
           b1 == row.priority # p
           b2 == row.hours # w
           s1 == When(b1, e1)
           s2 == When(b2, e2)
           plan == PriorityPlan(u, row, p)
<1>1. plan.row = new /\ plan.entries = s1 \o s2
  BY DEF PriorityPlan, Plan
<1>2. /\ w \in SlaHours /\ row.hours \in SlaHours \cup {NONE} /\ row.priority \in Priorities
      /\ Signer(u) /\ b1 \in BOOLEAN /\ b2 \in BOOLEAN /\ now \in Times
  <2>1. Signer(u)
    BY AccountsAssumption DEF Signer, Exists, Roles
  <2> QED
    BY <2>1, DefaultHours DEF Row, TypeInv
<1>3. /\ r \in Row /\ r.status = row.status /\ r.agent = row.agent /\ r.hours = row.hours
      /\ r.priority = p
  BY DEF Row
<1> HIDE DEF r, w, plan
<1>4. SameCase(new, r) /\ new.hours = w
  BY <1>2, <1>3, WindowRow
<1>5. e1 \in Event /\ e2 \in Event
  BY <1>2, OtherEntries DEF SlaActions
<1> HIDE DEF new
<1>6. Follows(e1, row, r, now) /\ (~b1 => SameColumns(row, r))
  <2>1. Follows(Entry("PRIORITY_CHANGED", u, row.priority, r.priority), row, r, now)
    BY <1>3, ColumnEntryFollows DEF PriorityActions
  <2> QED
    BY <1>3, <2>1 DEF SameColumns
<1>7. Follows(e2, r, new, now) /\ (~b2 => SameColumns(r, new))
  <2>1. Follows(Entry("SLA_UPDATED", u, r.hours, new.hours), r, new, now)
    BY <1>4, ColumnEntryFollows DEF SlaActions, SameCase
  <2> QED
    BY <1>3, <1>4, <2>1 DEF SameColumns, SameCase
<1> HIDE DEF e1, e2, b1, b2
<1>8. h \o s1 \in Seq(Event) /\ Story(h \o s1, r, available, now) /\ s1 \in Seq(Event)
  BY <1>2, <1>5, <1>6, WhenOn, WhenEvents
<1> DEFINE h1 == h \o s1
           h2 == h1 \o s2
<1> HIDE DEF s1, h1
<1>9. h2 \in Seq(Event) /\ Story(h2, new, available, now) /\ s2 \in Seq(Event)
  BY <1>2, <1>5, <1>7, <1>8, WhenOn, WhenEvents DEF h1
<1> HIDE DEF s2
<1>10. h \o (s1 \o s2) = h2
  <2>1. h \o (s1 \o s2) = (h \o s1) \o s2
    BY <1>8, <1>9, JoinLists
  <2> QED
    BY ONLY <2>1 DEF h1, h2
<1> HIDE DEF h2
<1>11. Late(h2, new)
  BY <1>2, <1>3, <1>9, WindowLate DEF new, Story
<1>12. h \o plan.entries = h2
  BY <1>1, <1>10, Zenon
<1>13. Story(h \o plan.entries, plan.row, available, now) /\ Late(h \o plan.entries, plan.row)
  BY <1>1, <1>9, <1>11, <1>12
<1> QED
  BY <1>13 DEF Told, plan

LEMMA ProofPlanTold ==
    ASSUME TypeInv, NEW u \in Users, Exists(u), NEW row \in Row, MayProve(u, row),
           NEW h \in Seq(Event), Story(h, row, available, now), Late(h, row)
    PROVE  Told(h, row, ProofPlan(u, row))
<1> DEFINE e == Entry("IMAGE_ADDED", u, NONE, "RESOLUTION")
           plan == ProofPlan(u, row)
<1>1. plan.row = row /\ plan.entries = <<e>>
  BY DEF ProofPlan, Plan
<1>2. e \in Event
  BY OtherEntries DEF OtherActions, EntryValues, Signer
<1>3. Follows(e, row, row, now)
  BY ColumnEntryFollows DEF MayProve, SameColumns
<1>4. ~Finishes(e)
  BY DEF Finishes, Entry, MoveActions, StatusActions
<1> HIDE DEF e, plan
<1>5. h \o plan.entries = Append(h, e)
  BY <1>1, <1>2
<1>6. Story(Append(h, e), row, available, now)
  BY <1>2, <1>3, StoryOn
<1>7. Late(Append(h, e), row)
  <2>1. SameFinishes(h, Append(h, e))
    BY <1>2, <1>4, AppendedFinish, AppendedEntry DEF SameFinishes
  <2> QED
    BY <2>1, LateKept
<1> QED
  BY <1>1, <1>5, <1>6, <1>7 DEF Told, plan

-----------------------------------------------------------------------------
(***************************************************************************)
(* A report starts the story of its incident.                              *)
(***************************************************************************)
LEMMA StoryBegins ==
    ASSUME NEW e \in Event, NEW c, NEW f, NEW t, e.action = "INCIDENT_CREATED",
           e.new = c.status, c.status \notin SLA_FREEZE_STATUSES, c.agent = NONE, e.at <= t
    PROVE  Story(<<e>>, c, f, t)
<1> DEFINE h == <<e>>
<1>1. /\ h \in Seq(Event) /\ Len(h) = 1 /\ h[1] = e
      /\ \A k : k \in DOMAIN h <=> k = 1
  OBVIOUS
<1> HIDE DEF h
<1>2. \A A : Positions(h, A) = IF e.action \in A THEN {1} ELSE {}
  BY <1>1 DEF Positions
<1>3. /\ e.action \in StatusActions /\ e.action \notin MoveActions
      /\ e.action \notin AgentActions /\ e.action \notin SlaActions
      /\ e.action \notin PriorityActions /\ e.action \notin Notes
  BY DEF StatusActions, MoveActions, AgentActions, SlaActions, PriorityActions, Notes
<1>4. /\ Positions(h, StatusActions) = {1} /\ Positions(h, MoveActions) = {}
      /\ Positions(h, AgentActions) = {} /\ Positions(h, SlaActions) = {}
      /\ Positions(h, PriorityActions) = {} /\ Positions(h, Notes) = {}
  BY <1>2, <1>3
<1>5. FinishPositions(h) = {}
  BY <1>1, <1>3 DEF FinishPositions, Finishes
<1>6. Tells(h, StatusActions, c.status)
  BY <1>1, <1>4 DEF Tells, LastTells, Gapless, IsLastBefore
<1>7. /\ Tells(h, AgentActions, c.agent) /\ Tells(h, SlaActions, c.hours)
      /\ Tells(h, PriorityActions, c.priority)
  BY <1>4 DEF Tells, LastTells, Gapless
<1>8. Named(h, c.agent) /\ Accountable(h) /\ Noted(h, c, f)
  BY <1>4 DEF Named, Accountable, Noted
<1>9. Reworked(h, c.status) /\ FinishKnown(h, c.status)
  BY <1>5 DEF Reworked, FinishKnown
<1>10. Proven(h)
  BY <1>1 DEF Proven, IsProof
<1>11. Dated(h, t)
  BY <1>1 DEF Dated
<1> QED
  BY <1>6, <1>7, <1>8, <1>9, <1>10, <1>11 DEF Story, h

LEMMA TwoEntries ==
    ASSUME NEW d \in Event, NEW e \in Event
    PROVE  Append(<<d>>, e) = <<d, e>> /\ <<d, e>> \in Seq(Event)
<1>1. <<d, e>> \in Seq(Event) /\ <<d>> \in Seq(Event) /\ Append(<<d>>, e) \in Seq(Event)
  OBVIOUS
<1>2. Len(Append(<<d>>, e)) = 2 /\ Len(<<d, e>>) = 2
  OBVIOUS
<1>3. ASSUME NEW k \in 1 .. 2 PROVE Append(<<d>>, e)[k] = <<d, e>>[k]
  OBVIOUS
<1> QED
  BY <1>1, <1>2, <1>3, SeqEqual

\* A history goes on from where it was; other incidents keep theirs.
LEMMA OthersTold ==
    ASSUME TypeInv, HistoryInv, UNCHANGED <<available, now>>, NEW i \in Incidents,
           NEW r, NEW s, r # NONE,
           incident' = [incident EXCEPT ![i] = r], history' = [history EXCEPT ![i] = s],
           Story(s, r, available, now), Late(s, r)
    PROVE  HistoryInv'
<1> SUFFICES ASSUME NEW j \in Incidents
             PROVE  IF incident'[j] # NONE
                    THEN Story(history'[j], incident'[j], available', now')
                         /\ Late(history'[j], incident'[j])
                    ELSE history'[j] = <<>>
  BY DEF HistoryInv, Filed
<1>1. available' = available /\ now' = now
  OBVIOUS
<1>2. CASE j = i
  <2>1. incident'[j] = r /\ history'[j] = s
    BY <1>2 DEF TypeInv
  <2> QED
    BY <1>1, <2>1
<1>3. CASE j # i
  <2>1. incident'[j] = incident[j] /\ history'[j] = history[j]
    BY <1>3 DEF TypeInv
  <2>2. IF incident[j] # NONE
        THEN Story(history[j], incident[j], available, now) /\ Late(history[j], incident[j])
        ELSE history[j] = <<>>
    BY DEF HistoryInv, Filed
  <2> QED
    BY <1>1, <2>1, <2>2
<1> QED
  BY <1>2, <1>3

LEMMA CarryOutTold ==
    ASSUME TypeInv, HistoryInv, UNCHANGED <<available, now>>, NEW i \in Incidents,
           NEW row, NEW plan, Sound(row, plan), Told(history[i], row, plan), CarryOut(i, plan)
    PROVE  HistoryInv'
<1> DEFINE s == history[i] \o plan.entries
<1>1. plan.row # NONE
  BY NullIsNoRow DEF Sound
<1>2. incident' = [incident EXCEPT ![i] = plan.row] /\ history' = [history EXCEPT ![i] = s]
  BY DEF CarryOut, RecordAll
<1>3. Story(s, plan.row, available, now) /\ Late(s, plan.row)
  BY DEF Told
<1> HIDE DEF s
<1> QED
  BY <1>1, <1>2, <1>3, OthersTold

\* What a handler finds: a typed row, and the history that tells of it.
LEMMA LoadedRow ==
    ASSUME TypeInv, WindowAnchored, HistoryInv, NEW i \in Incidents, Filed(i)
    PROVE  /\ Enriched(incident[i]) \in Row
           /\ Enriched(incident[i]).hours # NONE => Enriched(incident[i]).deadline # NONE
           /\ history[i] \in Seq(Event)
           /\ Story(history[i], Enriched(incident[i]), available, now)
           /\ Late(history[i], Enriched(incident[i]))
<1> DEFINE row == incident[i]
<1>1. row \in Row /\ now \in Times /\ history[i] \in Seq(Event)
  BY DEF TypeInv, Filed
<1>2. Story(history[i], row, available, now) /\ Late(history[i], row)
  BY DEF HistoryInv
<1>3. Anchored(row)
  BY AnchoredRows
<1> HIDE DEF row
<1>4. /\ Enriched(row) \in Row /\ SameCase(Enriched(row), row) /\ Enriched(row).hours = row.hours
      /\ Anchored(Enriched(row))
  BY <1>1, <1>3, EnrichedRow
<1>5. Story(history[i], Enriched(row), available, now)
  BY <1>2, <1>4, StoryOfSame DEF SameCase, SameColumns
<1>6. Late(history[i], Enriched(row))
  BY <1>1, <1>2, LateOfEnriched
<1>7. Enriched(row).hours # NONE => Enriched(row).deadline # NONE
  <2> SUFFICES ASSUME Enriched(row).hours # NONE PROVE Enriched(row).deadline # NONE
    OBVIOUS
  <2>1. Enriched(row).created \in Nat /\ Enriched(row).hours \in Nat
    BY <1>4, HoursAreNat, WorkflowAssumption DEF Row
  <2>2. Enriched(row).deadline = Enriched(row).created + Enriched(row).hours
    BY <1>4 DEF Anchored
  <2> QED
    BY <2>1, <2>2, WorkflowAssumption
<1> QED
  BY <1>1, <1>4, <1>5, <1>6, <1>7 DEF row

LEMMA CreateIncidentTold ==
    ASSUME TypeInv, HistoryInv, NEW u \in Users, NEW i \in Incidents, NEW c \in CategoryChoices,
           NEW a \in Users \cup {NONE}, NEW n \in 0 .. MaxPhotos,
           CreateIncident(u, i, c, a, n)
    PROVE  HistoryInv'
<1> DEFINE row == NewRow(c, a)
           p   == CATEGORY_DEFAULT_PRIORITY[c]
           c0  == [status |-> "REPORTED", agent |-> NONE, hours |-> NONE, priority |-> row.priority]
           c1  == [c0 EXCEPT !.hours = row.hours]
           c2  == [c1 EXCEPT !.agent = a]
           e0  == Entry("INCIDENT_CREATED", u, NONE, "REPORTED")
           e1  == Entry("SLA_CREATED", NONE, NONE, row.hours)
           e2  == Entry("AGENT_ASSIGNED", NONE, NONE, a)
           e4  == Entry("IMAGE_ADDED", u, NONE, "REPORT")
           b2  == a # NONE
           s2  == When(b2, e2)
           s3  == StatusEntry(NONE, "REPORTED", row.status)
           s4  == [k \in 1 .. n |-> e4]
<1>1. row \in Row
  BY NewRowSound, WorkflowAssumption
<1>2. /\ incident' = [incident EXCEPT ![i] = row]
      /\ history' = [history EXCEPT ![i] = @ \o (<<e0, e1>> \o s2 \o s3 \o s4)]
      /\ ~Filed(i) /\ UNCHANGED <<available, now>>
  BY DEF CreateIncident, RecordAll
<1>3. Signer(u) /\ Signer(NONE) /\ now \in Times /\ now <= now
  BY WorkflowAssumption DEF CreateIncident, Authenticated, Signer, TypeInv
<1>4. row.status = (IF a = NONE THEN "REPORTED" ELSE "ASSIGNED") /\ row.agent = a
  <2> DEFINE r == [status   |-> IF a = NONE THEN "REPORTED" ELSE "ASSIGNED",
                   agent    |-> a,
                   priority |-> p,
                   hours    |-> NONE, deadline |-> NONE, verdict |-> NONE,
                   created  |-> now]
  <2>1. p \in Priorities /\ DEFAULT_SLA_HOURS[p] \in SlaHours
    BY DefaultPriority, DefaultHours, WorkflowAssumption
  <2>2. row = WithWindow(r, DEFAULT_SLA_HOURS[p])
    BY DEF NewRow
  <2> HIDE DEF p
  <2>3. r \in Row
    BY <1>3, <2>1 DEF Row, Statuses
  <2>4. r.status = (IF a = NONE THEN "REPORTED" ELSE "ASSIGNED") /\ r.agent = a
    OBVIOUS
  <2> HIDE DEF r, row
  <2> QED
    BY <1>3, <2>1, <2>2, <2>3, <2>4, WindowRow DEF SameCase
<1>5. e0 \in Event
  <2>1. /\ "INCIDENT_CREATED" \in HistoryActions
        /\ Fits("INCIDENT_CREATED", NONE, "REPORTED")
    BY DEF HistoryActions, Fits, StatusActions, AgentActions, SlaActions, PriorityActions, Statuses
  <2> QED
    BY <1>3, <2>1, EntryEvent DEF EntryValues, Statuses
<1>6. /\ e1 \in Event /\ e2 \in Event /\ e4 \in Event
      /\ s3 \in Seq(Event) /\ s2 \in Seq(Event)
  <2> HIDE DEF row
  <2>1. row.hours \in SlaHours \cup {NONE}
    BY <1>1 DEF Row
  <2>2. e1 \in Event
    BY <1>3, <2>1, OtherEntries DEF SlaActions
  <2>3. e2 \in Event
    BY <1>3, OtherEntries DEF AgentActions
  <2>4. e4 \in Event
    BY <1>3, OtherEntries DEF OtherActions, EntryValues
  <2>5. s3 \in Seq(Event)
    BY <1>1, <1>3, StatusEntryEvents DEF Row, Statuses
  <2>6. s2 \in Seq(Event)
    BY <2>3, WhenEvents
  <2> QED
    BY <2>2, <2>3, <2>4, <2>5, <2>6
<1>7. /\ c0.status = "REPORTED" /\ c0.agent = NONE /\ c0.hours = NONE /\ c0.priority = row.priority
      /\ c1.status = "REPORTED" /\ c1.agent = NONE /\ c1.hours = row.hours
      /\ c1.priority = row.priority
      /\ c2.status = "REPORTED" /\ c2.agent = a /\ c2.hours = row.hours
      /\ c2.priority = row.priority
  OBVIOUS
<1>8. e0.action = "INCIDENT_CREATED" /\ e0.new = "REPORTED" /\ e0.at = now
  BY DEF Entry
<1>9. n \in Nat /\ \A k \in DOMAIN s4 : Photo(s4[k], now)
  BY <1>3, WorkflowAssumption DEF Photo, Entry
<1>10. s4 \in Seq(Event)
  BY <1>6, <1>9
<1> HIDE DEF row, c0, c1, c2, e0, e1, e2, e4, s4, b2
<1>11. Story(<<e0>>, c0, available, now) /\ <<e0>> \in Seq(Event)
  BY <1>3, <1>5, <1>7, <1>8, StoryBegins DEF SLA_FREEZE_STATUSES
<1>12. <<e0, e1>> \in Seq(Event) /\ Story(<<e0, e1>>, c1, available, now)
  <2>1. Follows(Entry("SLA_CREATED", NONE, c0.hours, c1.hours), c0, c1, now)
    BY <1>7, ColumnEntryFollows DEF SlaActions
  <2>2. Follows(e1, c0, c1, now)
    BY <1>7, <2>1 DEF e1
  <2>3. Append(<<e0>>, e1) = <<e0, e1>> /\ <<e0, e1>> \in Seq(Event)
    BY <1>5, <1>6, TwoEntries
  <2>4. Story(Append(<<e0>>, e1), c1, available, now)
    BY <1>6, <1>11, <2>2, StoryOn
  <2> QED
    BY <2>3, <2>4
<1> DEFINE h1 == <<e0, e1>>
           h2 == h1 \o s2
           h3 == h2 \o s3
           h4 == h3 \o s4
<1> HIDE DEF h1, s2, s3
<1>13. h2 \in Seq(Event) /\ Story(h2, c2, available, now)
  <2>1. Follows(Entry("AGENT_ASSIGNED", NONE, c1.agent, c2.agent), c1, c2, now)
    BY <1>7, ColumnEntryFollows DEF AgentActions
  <2>2. Follows(e2, c1, c2, now)
    BY <1>7, <2>1 DEF e2
  <2>3. ~b2 => SameColumns(c1, c2)
    BY <1>7 DEF SameColumns, b2
  <2>4. b2 \in BOOLEAN
    BY DEF b2
  <2> QED
    BY <1>6, <1>12, <2>2, <2>3, <2>4, WhenOn DEF h1, s2
<1> HIDE DEF h2
<1>14. h3 \in Seq(Event) /\ Story(h3, row, available, now)
  <2>1. c2.status \in Statuses /\ row.status \in Statuses
    BY <1>1, <1>7 DEF Row, Statuses
  <2>2. /\ h2 \o StatusEntry(NONE, c2.status, row.status) \in Seq(Event)
        /\ Story(h2 \o StatusEntry(NONE, c2.status, row.status), row, available, now)
    BY <1>3, <1>4, <1>7, <1>13, <2>1, StatusEntryOn
  <2>3. s3 = StatusEntry(NONE, c2.status, row.status)
    BY <1>7 DEF s3
  <2> QED
    BY <2>2, <2>3
<1> HIDE DEF h3
<1>15. h4 \in Seq(Event) /\ Story(h4, row, available, now)
  BY <1>9, <1>10, <1>14, PhotosOn
<1>16. Late(h4, row)
  BY <1>4 DEF Late, SLA_FREEZE_STATUSES
<1>17. history' = [history EXCEPT ![i] = h4]
  <2>1. history[i] = <<>>
    BY <1>2 DEF HistoryInv
  <2>2. <<e0, e1>> \o s2 \o s3 \o s4 = h4
    BY DEF h1, h2, h3
  <2>3. history[i] \o h4 = h4
    BY <1>15, <2>1
  <2> HIDE DEF h4
  <2> QED
    BY <1>2, <2>2, <2>3
<1> HIDE DEF h4
<1>18. row # NONE
  BY <1>1, NullIsNoRow
<1> QED
  BY <1>2, <1>15, <1>16, <1>17, <1>18, OthersTold

LEMMA SetAvailabilityTold ==
    ASSUME TypeInv, HistoryInv, NEW u \in Users, NEW a \in Users, NEW f \in BOOLEAN,
           SetAvailability(u, a, f)
    PROVE  HistoryInv'
<1> DEFINE e == Entry("AGENT_AVAILABILITY_CHANGED", u,
                      AvailabilityWord(~f), AvailabilityWord(f))
<1>1. e \in Event
  <2>1. Signer(u)
    BY DEF SetAvailability, Authenticated, Signer
  <2>2. AvailabilityWord(~f) \in EntryValues /\ AvailabilityWord(f) \in EntryValues
    BY DEF AvailabilityWord, EntryValues
  <2> QED
    BY <2>1, <2>2, OtherEntries DEF OtherActions
<1>2. e.action \in Notes /\ e.at <= now /\ e.new = AvailabilityWord(f) /\ ~Finishes(e)
  BY WorkflowAssumption DEF Entry, Notes, TypeInv, Finishes, MoveActions, StatusActions
<1>3. /\ history' = [i \in Incidents |-> IF i \in OpenOnPlate(a) THEN Append(history[i], e)
                                                              ELSE history[i]]
      /\ incident' = incident /\ now' = now
      /\ available' = [available EXCEPT ![a] = f]
  BY DEF SetAvailability
<1> HIDE DEF e
<1>4. available'[a] = f /\ \A b \in Users : b # a => available'[b] = available[b]
  BY <1>3 DEF TypeInv
<1> SUFFICES ASSUME NEW j \in Incidents
             PROVE  IF incident[j] # NONE
                    THEN Story(history'[j], incident[j], available', now)
                         /\ Late(history'[j], incident[j])
                    ELSE history'[j] = <<>>
  BY <1>3 DEF HistoryInv, Filed
<1> DEFINE h == history[j]
           c == incident[j]
<1>5. CASE ~Filed(j)
  BY <1>3, <1>5 DEF HistoryInv, Filed, OpenOnPlate
<1>6. CASE Filed(j)
  <2>1. /\ h \in Seq(Event) /\ Story(h, c, available, now) /\ Late(h, c)
        /\ c.agent \in Users \cup {NONE}
    BY <1>6 DEF HistoryInv, TypeInv, Filed, Row
  <2>2. CASE j \in OpenOnPlate(a)
    <3>1. history'[j] = Append(h, e) /\ c.agent = a
      BY <1>3, <2>2 DEF OpenOnPlate
    <3>2. e.new = AvailabilityWord(available'[c.agent])
      BY <1>2, <1>4, <3>1
    <3> DEFINE g == available'
    <3> HIDE DEF g
    <3>3. Story(Append(h, e), c, g, now)
      <4>1. e.new = AvailabilityWord(g[c.agent])
        BY <3>2 DEF g
      <4> HIDE DEF h, c
      <4> QED
        BY <1>1, <1>2, <2>1, <4>1, NoteOn
    <3>4. Late(Append(h, e), c)
      <4>1. SameFinishes(h, Append(h, e))
        BY <1>1, <1>2, <2>1, AppendedFinish, AppendedEntry DEF SameFinishes
      <4> HIDE DEF h, c
      <4> QED
        BY <2>1, <4>1, LateKept
    <3> QED
      BY <1>6, <3>1, <3>3, <3>4 DEF g, Filed
  <2>3. CASE j \notin OpenOnPlate(a)
    <3>1. history'[j] = h
      BY <1>3, <2>3
    <3>2. (c.status \notin SLA_FREEZE_STATUSES /\ c.agent # NONE)
             => available'[c.agent] = available[c.agent]
      BY <1>4, <1>6, <2>1, <2>3 DEF OpenOnPlate
    <3>3. Noted(h, c, available')
      <4>1. Noted(h, c, available)
        BY <2>1 DEF Story
      <4> HIDE DEF h, c
      <4> QED
        BY <3>2, <4>1 DEF Noted
    <3>4. Story(h, c, available', now)
      <4> HIDE DEF h, c
      <4> QED
        BY <2>1, <3>3 DEF Story
    <3> QED
      BY <1>6, <2>1, <3>1, <3>4 DEF Filed
  <2> QED
    BY <2>2, <2>3
<1> QED
  BY <1>5, <1>6

LEMMA TickTold ==
    ASSUME TypeInv, HistoryInv, Tick
    PROVE  HistoryInv'
<1>1. /\ history' = history /\ incident' = incident /\ available' = available
      /\ now \in Nat /\ now' \in Nat /\ now < now'
  BY WorkflowAssumption DEF Tick, agentVars, TypeInv
<1>2. ASSUME NEW j \in Incidents, Dated(history[j], now)
      PROVE  Dated(history[j], now')
  <2>1. ASSUME NEW k \in DOMAIN history[j] PROVE history[j][k].at \in Nat
    <3>1. history[j][k] \in Event
      BY DEF TypeInv
    <3> QED
      BY <3>1, WorkflowAssumption DEF Event
  <2> QED
    BY <1>1, <1>2, <2>1 DEF Dated
<1>3. ASSUME NEW j \in Incidents, Story(history[j], incident[j], available, now)
      PROVE  Story(history[j], incident[j], available, now')
  BY <1>2, <1>3 DEF Story
<1> QED
  BY <1>1, <1>3 DEF HistoryInv, Filed

LEMMA UntouchedTold ==
    ASSUME HistoryInv, UNCHANGED <<available, incident, history, now>>
    PROVE  HistoryInv'
  BY DEF HistoryInv, Filed

\* A request that finds row i and carries out a plan of its own.
LEMMA RequestTold ==
    ASSUME TypeInv, WindowAnchored, HistoryInv, UNCHANGED <<available, now>>,
           NEW i \in Incidents, Filed(i), NEW plan, CarryOut(i, plan),
           \A r \in Row :
              \A g \in Seq(Event) :
                 (/\ r = Enriched(incident[i])
                  /\ r.hours # NONE => r.deadline # NONE
                  /\ Story(g, r, available, now) /\ Late(g, r))
                 => Sound(r, plan) /\ Told(g, r, plan)
    PROVE  HistoryInv'
<1> DEFINE row == Enriched(incident[i])
           h   == history[i]
<1>1. /\ row \in Row /\ h \in Seq(Event)
      /\ row.hours # NONE => row.deadline # NONE
      /\ Story(h, row, available, now) /\ Late(h, row)
  BY LoadedRow
<1>2. row = Enriched(incident[i])
  OBVIOUS
<1> HIDE DEF row, h
<1>3. Sound(row, plan) /\ Told(h, row, plan)
  BY <1>1, <1>2
<1> USE DEF h
<1> QED
  BY <1>3, CarryOutTold

-----------------------------------------------------------------------------
(***************************************************************************)
(* Every step of the system leaves histories that tell of their rows.      *)
(***************************************************************************)
LEMMA HistoryStep ==
    ASSUME TypeInv, WindowAnchored, HistoryInv, [WorkflowNext]_workflowVars
    PROVE  HistoryInv'
<1>0. ASSUME NEW u \in Users, RequireAdmin(u)
      PROVE  Exists(u) /\ role[u] = "ADMIN"
  BY <1>0 DEF RequireAdmin, Authenticated
<1>1. ASSUME NEW u \in Users, NEW i \in Incidents, NEW c \in CategoryChoices,
             NEW a \in Users \cup {NONE}, NEW n \in 0 .. MaxPhotos,
             CreateIncident(u, i, c, a, n)
      PROVE  HistoryInv'
  BY <1>1, CreateIncidentTold
<1>2. ASSUME NEW u \in Users, NEW i \in Incidents, NEW s \in Statuses, UpdateStatus(u, i, s)
      PROVE  HistoryInv'
  <2> DEFINE row == Enriched(incident[i])
             plan == StatusPlan(u, row, s)
  <2>1. /\ Exists(u) /\ Filed(i) /\ MayMove(u, row, s) /\ CarryOut(i, plan)
        /\ UNCHANGED <<available, now>>
    BY <1>2 DEF UpdateStatus, Authenticated, agentVars
  <2>2. ASSUME NEW r \in Row, NEW h \in Seq(Event), r = row,
               r.hours # NONE => r.deadline # NONE, Story(h, r, available, now)
        PROVE  Sound(r, StatusPlan(u, r, s)) /\ Told(h, r, StatusPlan(u, r, s))
    BY <2>1, <2>2, StatusPlanSound, StatusPlanTold
  <2> QED
    BY <2>1, <2>2, RequestTold
<1>3. ASSUME NEW u \in Users, NEW a \in Users, NEW i \in Incidents, NEW f \in BOOLEAN,
             AssignAgent(u, i, a, f)
      PROVE  HistoryInv'
  <2> DEFINE row == Enriched(incident[i])
             plan == AssignPlan(u, row, a)
  <2>1. /\ Exists(u) /\ role[u] = "ADMIN" /\ Filed(i) /\ CarryOut(i, plan)
        /\ UNCHANGED <<available, now>>
    BY <1>0, <1>3 DEF AssignAgent
  <2>2. ASSUME NEW r \in Row, NEW h \in Seq(Event), Story(h, r, available, now), Late(h, r)
        PROVE  Sound(r, AssignPlan(u, r, a)) /\ Told(h, r, AssignPlan(u, r, a))
    BY <2>1, <2>2, AssignPlanSound, AssignPlanTold
  <2> QED
    BY <2>1, <2>2, RequestTold
<1>4. ASSUME NEW u \in Users, NEW i \in Incidents, UnassignAgent(u, i)
      PROVE  HistoryInv'
  <2> DEFINE row == Enriched(incident[i])
             plan == UnassignPlan(u, row)
  <2>1. /\ Exists(u) /\ role[u] = "ADMIN" /\ Filed(i) /\ CarryOut(i, plan)
        /\ UNCHANGED <<available, now>>
    BY <1>0, <1>4 DEF UnassignAgent, agentVars
  <2>2. ASSUME NEW r \in Row, NEW h \in Seq(Event), Story(h, r, available, now), Late(h, r)
        PROVE  Sound(r, UnassignPlan(u, r)) /\ Told(h, r, UnassignPlan(u, r))
    BY <2>1, <2>2, UnassignPlanSound, UnassignPlanTold
  <2> QED
    BY <2>1, <2>2, RequestTold
<1>5. ASSUME NEW u \in Users, NEW i \in Incidents, NEW w \in SlaChoices \cup {NONE},
             UpdateSla(u, i, w)
      PROVE  HistoryInv'
  <2> DEFINE row == Enriched(incident[i])
             plan == SlaPlan(u, row, w)
  <2>1. /\ Exists(u) /\ role[u] = "ADMIN" /\ Filed(i) /\ CarryOut(i, plan)
        /\ UNCHANGED <<available, now>> /\ w \in SlaHours \cup {NONE}
    BY <1>0, <1>5, WorkflowAssumption DEF UpdateSla, agentVars
  <2>2. ASSUME NEW r \in Row, NEW h \in Seq(Event), Story(h, r, available, now)
        PROVE  Sound(r, SlaPlan(u, r, w)) /\ Told(h, r, SlaPlan(u, r, w))
    BY <2>1, <2>2, SlaPlanSound, SlaPlanTold
  <2> QED
    BY <2>1, <2>2, RequestTold
<1>6. ASSUME NEW u \in Users, NEW i \in Incidents, NEW p \in PriorityChoices,
             UpdatePriority(u, i, p)
      PROVE  HistoryInv'
  <2> DEFINE row == Enriched(incident[i])
             plan == PriorityPlan(u, row, p)
  <2>1. /\ Exists(u) /\ role[u] = "ADMIN" /\ Filed(i) /\ CarryOut(i, plan)
        /\ UNCHANGED <<available, now>> /\ p \in Priorities
    BY <1>0, <1>6, WorkflowAssumption DEF UpdatePriority, agentVars
  <2>2. ASSUME NEW r \in Row, NEW h \in Seq(Event), Story(h, r, available, now)
        PROVE  Sound(r, PriorityPlan(u, r, p)) /\ Told(h, r, PriorityPlan(u, r, p))
    BY <2>1, <2>2, PriorityPlanSound, PriorityPlanTold
  <2> QED
    BY <2>1, <2>2, RequestTold
<1>7. ASSUME NEW u \in Users, NEW i \in Incidents, UploadResolutionImage(u, i)
      PROVE  HistoryInv'
  <2> DEFINE row == Enriched(incident[i])
             plan == ProofPlan(u, row)
  <2>1. /\ Exists(u) /\ Filed(i) /\ MayProve(u, row) /\ CarryOut(i, plan)
        /\ UNCHANGED <<available, now>>
    BY <1>7 DEF UploadResolutionImage, Authenticated, agentVars
  <2>2. ASSUME NEW r \in Row, NEW h \in Seq(Event), r = row,
               Story(h, r, available, now), Late(h, r)
        PROVE  Sound(r, ProofPlan(u, r)) /\ Told(h, r, ProofPlan(u, r))
    BY <2>1, <2>2, ProofPlanSound, ProofPlanTold
  <2> QED
    BY <2>1, <2>2, RequestTold
<1>8. ASSUME NEW u \in Users, NEW a \in Users, NEW f \in BOOLEAN, SetAvailability(u, a, f)
      PROVE  HistoryInv'
  BY <1>8, SetAvailabilityTold
<1>9. ASSUME AccountStep PROVE HistoryInv'
  BY <1>9, UntouchedTold DEF AccountStep, agentVars
<1>10. ASSUME Tick PROVE HistoryInv'
  BY <1>10, TickTold
<1>11. ASSUME UNCHANGED workflowVars PROVE HistoryInv'
  BY <1>11, UntouchedTold DEF workflowVars
<1> QED
  BY <1>1, <1>2, <1>3, <1>4, <1>5, <1>6, <1>7, <1>8, <1>9, <1>10, <1>11 DEF WorkflowNext

LEMMA HistoryAlways == WorkflowSpec => []HistoryInv
<1>1. WorkflowInit => HistoryInv
  BY DEF WorkflowInit, HistoryInv, Filed
<1>2. TypeInv /\ WindowAnchored /\ HistoryInv /\ [WorkflowNext]_workflowVars => HistoryInv'
  BY HistoryStep
<1> QED
  BY <1>1, <1>2, WorkflowTypeInv, WindowStaysAnchored, PTL DEF WorkflowSpec

-----------------------------------------------------------------------------
(***************************************************************************)
(* What the stories say of the properties of IncidentWorkflow.  An absent  *)
(* incident has no history.                                                *)
(***************************************************************************)
LEMMA SameReading ==
    ASSUME NEW i \in Incidents
    PROVE  /\ \A A : Rows(i, A) = Positions(history[i], A)
           /\ FinishRows(i) = FinishPositions(history[i])
<1>1. \A A : Rows(i, A) = Positions(history[i], A)
  BY DEF Rows, Positions
<1>2. FinishRows(i) = FinishPositions(history[i])
  BY DEF FinishRows, FinishPositions, Rows, Finishes, MoveActions
<1> QED
  BY <1>1, <1>2

LEMMA NoHistoryNoRows ==
    ASSUME HistoryInv, NEW i \in Incidents, ~Filed(i)
    PROVE  DOMAIN history[i] = {}
  BY DEF HistoryInv

LEMMA ExplainsOfInv == HistoryInv => TrailExplainsRow
<1> SUFFICES ASSUME HistoryInv, NEW i \in Incidents, Filed(i)
             PROVE  /\ LastSays(i, StatusActions, incident[i].status)
                    /\ LastSays(i, AgentActions, incident[i].agent)
                    /\ LastSays(i, SlaActions, incident[i].hours)
                    /\ LastSays(i, PriorityActions, incident[i].priority)
                    /\ Rows(i, AgentActions) = {} => incident[i].agent = NONE
  BY DEF TrailExplainsRow
<1>1. Story(history[i], incident[i], available, now)
  BY DEF HistoryInv
<1>2. ASSUME NEW A, NEW v, LastTells(history[i], A, v) PROVE LastSays(i, A, v)
  BY <1>2, SameReading DEF LastSays, LastTells
<1>3. /\ LastTells(history[i], StatusActions, incident[i].status)
      /\ LastTells(history[i], AgentActions, incident[i].agent)
      /\ LastTells(history[i], SlaActions, incident[i].hours)
      /\ LastTells(history[i], PriorityActions, incident[i].priority)
      /\ Named(history[i], incident[i].agent)
  BY <1>1 DEF Story, Tells
<1> QED
  BY <1>2, <1>3, SameReading DEF Named

LEMMA ChainOfInv == HistoryInv => TrailIsAChain
<1> SUFFICES ASSUME HistoryInv, NEW i \in Incidents,
                    NEW A \in {StatusActions, AgentActions, SlaActions, PriorityActions}
             PROVE  \A j, k \in Rows(i, A) :
                       IsLastBefore(j, Rows(i, A), k) => history[i][k].old = history[i][j].new
  BY DEF TrailIsAChain
<1>1. CASE ~Filed(i)
  BY <1>1, NoHistoryNoRows DEF Rows
<1>2. CASE Filed(i)
  <2>1. Gapless(history[i], A)
    BY <1>2 DEF HistoryInv, Story, Tells
  <2> QED
    BY <2>1, SameReading DEF Gapless
<1> QED
  BY <1>1, <1>2

LEMMA AccountableOfInv == HistoryInv => AgentsMoveOnlyTheirOwnWork
<1> SUFFICES ASSUME HistoryInv, NEW i \in Incidents,
                    NEW k \in Rows(i, MoveActions), history[i][k].by = "AGENT"
             PROVE  /\ AgentMove(history[i][k].old, history[i][k].new)
                    /\ \E j \in Rows(i, AgentActions) :
                          /\ IsLastBefore(j, Rows(i, AgentActions), k)
                          /\ history[i][j].new = history[i][k].actor
  BY DEF AgentsMoveOnlyTheirOwnWork, MoveActions, AgentMove
<1>1. Filed(i)
  BY NoHistoryNoRows DEF Rows
<1>2. Accountable(history[i])
  BY <1>1 DEF HistoryInv, Story
<1> QED
  BY <1>2, SameReading DEF Accountable

LEMMA ReworkOfInv == HistoryInv => ReworkIsRecorded
<1> SUFFICES ASSUME HistoryInv, NEW i \in Incidents,
                    NEW j \in FinishRows(i), NEW k \in FinishRows(i), j < k
             PROVE  \E m \in Rows(i, {"INCIDENT_REOPENED"}) : j < m /\ m < k
  BY DEF ReworkIsRecorded
<1>1. Filed(i)
  BY NoHistoryNoRows DEF FinishRows, Rows
<1>2. Reworked(history[i], incident[i].status)
  BY <1>1 DEF HistoryInv, Story
<1> QED
  BY <1>2, SameReading DEF Reworked

LEMMA ProvenOfInv == HistoryInv => ProofFollowsResolution
<1> SUFFICES ASSUME HistoryInv, NEW i \in Incidents, NEW k \in Rows(i, {"IMAGE_ADDED"}),
                    history[i][k].new = "RESOLUTION", NEW j \in Rows(i, StatusActions),
                    IsLastBefore(j, Rows(i, StatusActions), k)
             PROVE  history[i][j].new = "RESOLVED"
  BY DEF ProofFollowsResolution
<1>1. Filed(i)
  BY NoHistoryNoRows DEF Rows
<1>2. Proven(history[i])
  BY <1>1 DEF HistoryInv, Story
<1>3. k \in DOMAIN history[i] /\ IsProof(history[i][k])
  BY DEF Rows, IsProof
<1> QED
  BY <1>2, <1>3, SameReading DEF Proven

LEMMA LateOfInv == TypeInv /\ HistoryInv => LateIsBreached
<1> SUFFICES ASSUME TypeInv, HistoryInv, NEW i \in Incidents, Frozen(i),
                    incident[i].hours # NONE, FinishedAt(i) >= incident[i].deadline
             PROVE  incident[i].verdict = "BREACHED"
  BY DEF LateIsBreached
<1> DEFINE S == FinishRows(i)
           k == CHOOSE k \in S : \A m \in S : m <= k
<1>1. Filed(i) /\ incident[i].status \in SLA_FREEZE_STATUSES
  BY DEF Frozen
<1>2. Late(history[i], incident[i]) /\ FinishKnown(history[i], incident[i].status)
  BY <1>1 DEF HistoryInv, Story
<1>3. S = FinishPositions(history[i])
  BY SameReading
<1> HIDE DEF S
<1>4. \E n \in S : \A m \in S : m <= n
  BY <1>1, <1>2, <1>3 DEF FinishKnown
<1>5. k \in S
  BY <1>4
<1>6. FinishedAt(i) = history[i][k].at
  BY DEF FinishedAt, S
<1> HIDE DEF k
<1> QED
  BY <1>1, <1>2, <1>3, <1>5, <1>6 DEF Late

LEMMA NotedOfInv == HistoryInv => AvailabilityTrailCurrent
<1> SUFFICES ASSUME HistoryInv, NEW i \in Incidents, Filed(i), ~Frozen(i),
                    incident[i].agent # NONE, NEW k \in Rows(i, Notes),
                    IsLastBefore(k, Rows(i, Notes), Len(history[i]) + 1),
                    \A m \in Rows(i, Resets) : m < k
             PROVE  history[i][k].new = AvailabilityWord(available[incident[i].agent])
  BY DEF AvailabilityTrailCurrent, Notes, Resets
<1>1. Noted(history[i], incident[i], available) /\ incident[i].status \notin SLA_FREEZE_STATUSES
  BY DEF HistoryInv, Story, Frozen
<1> QED
  BY <1>1, SameReading DEF Noted

-----------------------------------------------------------------------------
(***************************************************************************)
(* Replaying a history gives the row, after any number of requests: its    *)
(* last status, agent, SLA and priority entries carry what the row shows.  *)
(***************************************************************************)
THEOREM TrailAlwaysExplainsRow == WorkflowSpec => []TrailExplainsRow
  BY HistoryAlways, ExplainsOfInv, PTL

(***************************************************************************)
(* No change of status, agent, window or priority ever goes unrecorded:    *)
(* the entries of each family chain from old value to new value.           *)
(***************************************************************************)
THEOREM TrailAlwaysAChain == WorkflowSpec => []TrailIsAChain
  BY HistoryAlways, ChainOfInv, PTL

(***************************************************************************)
(* Every status entry an agent signed is a move agents may make, on an     *)
(* incident that an earlier entry had given to that very agent.            *)
(***************************************************************************)
THEOREM AgentsAlwaysAccountable == WorkflowSpec => []AgentsMoveOnlyTheirOwnWork
  BY HistoryAlways, AccountableOfInv, PTL

(***************************************************************************)
(* Between two entries that finish an incident there is a reopening.       *)
(***************************************************************************)
THEOREM ReworkAlwaysRecorded == WorkflowSpec => []ReworkIsRecorded
  BY HistoryAlways, ReworkOfInv, PTL

(***************************************************************************)
(* Proof of work is only ever attached to an incident that was RESOLVED.   *)
(***************************************************************************)
THEOREM ProofAlwaysFollowsResolution == WorkflowSpec => []ProofFollowsResolution
  BY HistoryAlways, ProvenOfInv, PTL

(***************************************************************************)
(* Late work is never excused, whatever is edited and whenever.            *)
(***************************************************************************)
THEOREM LateAlwaysBreached == WorkflowSpec => []LateIsBreached
  BY HistoryAlways, LateOfInv, WorkflowTypeInv, PTL

(***************************************************************************)
(* The last word of an open incident's trail on its agent's availability   *)
(* is still true, unless the agent or the work was changed since.          *)
(***************************************************************************)
THEOREM AvailabilityAlwaysCurrent == WorkflowSpec => []AvailabilityTrailCurrent
  BY HistoryAlways, NotedOfInv, PTL
=============================================================================
