---------------------------- MODULE Predictions ----------------------------
(***************************************************************************)
(* The prediction layer over a growing incident table: app/ml/service.py,  *)
(* the model registry, and the log ml_predictions.                         *)
(*                                                                         *)
(* A report or a closure is stamped when its transaction begins and is     *)
(* visible when it commits; `open` holds the stamped ones that are not     *)
(* visible yet.  Nothing in the code orders the two: a transaction may     *)
(* commit however late, in whatever order, and two closures of one         *)
(* incident may overlap.                                                   *)
(***************************************************************************)
EXTENDS PredictionRules, Sequences

CONSTANTS
    Ids,             \* incident ids
    Predicted,       \* bound: the incidents that are looked at
    Times,           \* bound: the minutes at which things happen
    Places,          \* squares of the service areas, and outside of them
    Reports,         \* bound: <<id, category, place, SLA>> that may be reported
    SlaChoices,      \* bound: SLA windows
    MaxOpen,         \* bound: transactions in flight
    MaxLog,          \* bound: rows of ml_predictions about one incident
    Bundles          \* bound: <<enabled, version, disk>> the back end starts with

Row == [category : Categories, place : Places, created : Times, sla : SlaHours \cup {NONE},
        closed : Times \cup {NONE}]     \* the first closure event in the history

ASSUME PredictionsAssumption ==
    /\ IsFiniteSet(Ids) /\ Predicted \subseteq Ids
    /\ Times \subseteq Nat /\ 0 \in Times
    /\ \A t \in Times : t <= MaxRes          \* the service is younger than ten years
    /\ {MaxOpen, MaxLog} \subseteq Nat
    /\ \A p \in Places : p.ix \in Nat /\ p.iy \in Nat
    /\ SlaChoices \subseteq SlaHours \cup {NONE}
    /\ Reports \subseteq Ids \X Categories \X Places \X (SlaHours \cup {NONE})
    /\ Bundles \subseteq BOOLEAN \X STRING \X Disks /\ Bundles # {}
    /\ NONE \notin Nat \cup Row \cup Categories \cup Methods   \* a NULL is no value

VARIABLES
    now,        \* the wall clock of the database and of the back end
    filed,      \* the committed incidents, NONE while the id is unused
    open,       \* reports and closures stamped and not committed
    registry,   \* the bundle the back end loaded
    log         \* the rows of ml_predictions of each incident, in id order

predictionVars == <<now, filed, open, registry, log>>

Filed(i) == filed[i] # NONE

\* Types, and the unique constraint on incident and dedupe_key.
PredictionsTypeOK ==
    /\ now \in Times
    /\ filed \in [Ids -> Row \cup {NONE}]
    /\ \A w \in open : w.id \in Ids /\ w.at \in Times
    /\ registry.ready \subseteq Components
    /\ \A i \in Ids : \A j, k \in DOMAIN log[i] :
          Key(log[i][j]) = Key(log[i][k]) => j = k

PredictionsInit ==
    /\ now = 0
    /\ filed = [i \in Ids |-> NONE]
    /\ open = {}
    /\ \E b \in Bundles : registry = BuildRegistry(b[1], b[2], b[3])
    /\ log = [i \in Ids |-> <<>>]

-----------------------------------------------------------------------------
\* MUTANT: a later closure replaces the first one
FirstClosed_Latest(closed, stamp) == stamp

\* min(created_at) over the closure events, one of them at `stamp`: a reopening
\* does not undo the first closure.
FirstClosed(closed, stamp) == IF closed = NONE \/ stamp < closed THEN stamp ELSE closed

(***************************************************************************)
(* What is read of the incidents f: the committed ones, or those of the    *)
(* next state.                                                             *)
(***************************************************************************)
\* fetch_records for the incidents of an area (NONE: of everywhere)
InArea(f, area) == {i \in Ids : f[i] # NONE /\ (area = NONE \/ f[i].place.area = area)}

\* predict_incident reads what was reported up to the incident's own report.
Known(f, i) == {j \in InArea(f, f[i].place.area) : f[j].created <= f[i].created}

Table(f, ids) == [i \in ids |-> f[i]]

PredictFor(reg, f, i, sla) ==
    LET T == Table(f, Known(f, i)) IN
    <<PredictResolution(reg, T, i), PredictSla(reg, T, i, sla)>>

Predict(reg, f, i) == PredictFor(reg, f, i, f[i].sla)

Hotspots(reg, f, area, category, t) == Forecast(reg, Table(f, InArea(f, area)), category, t)

-----------------------------------------------------------------------------
InFlight(i) == \E w \in open : w.id = i

BeginReport(i, category, place, sla) ==
    /\ ~ Filed(i) /\ ~ InFlight(i) /\ Cardinality(open) < MaxOpen
    /\ open' = open \cup {[id |-> i, at |-> now,
                           row |-> [category |-> category, place |-> place,
                                    created |-> now, sla |-> sla, closed |-> NONE]]}
    /\ UNCHANGED <<now, filed, registry, log>>

\* The incident is resolved or closed; after a reopening this happens again.
\* Closures stamped in one minute are not told apart.
BeginClosure(i) ==
    /\ Filed(i) /\ Cardinality(open) < MaxOpen
    /\ open' = open \cup {[id |-> i, at |-> now, row |-> NONE]}
    /\ UNCHANGED <<now, filed, registry, log>>

Commit(w) ==
    /\ open' = open \ {w}
    /\ IF w.row = NONE
       THEN filed' = [filed EXCEPT ![w.id].closed = FirstClosed(@, w.at)]
       ELSE filed' = [filed EXCEPT ![w.id] = w.row]
    /\ UNCHANGED <<now, registry, log>>

Rollback(w) ==
    /\ open' = open \ {w}
    /\ UNCHANGED <<now, filed, registry, log>>

\* update_sla, or update_priority, which resets the window
UpdateSla(i, sla) ==
    /\ Filed(i)
    /\ filed' = [filed EXCEPT ![i].sla = sla]
    /\ UNCHANGED <<now, open, registry, log>>

\* INSERT ... ON CONFLICT DO NOTHING
Insert(rows, new) ==
    IF \E k \in DOMAIN rows : Key(rows[k]) = Key(new) THEN rows ELSE Append(rows, new)

(***************************************************************************)
(* predict_incident, for a view of the incident, after a write or from the *)
(* backfill script: both rows are inserted together.  When anything fails  *)
(* in the computation the answer is INTERNAL_ERROR, which is logged too;   *)
(* when the log fails nothing happens.                                     *)
(***************************************************************************)
RecordPredictions(i, failed) ==
    LET answer == IF failed THEN <<InternalError(registry, "resolution"),
                                   InternalError(registry, "sla")>>
                  ELSE Predict(registry, filed, i)
    IN
    /\ Filed(i)
    /\ log' = [log EXCEPT ![i] = Insert(Insert(@, answer[1]), answer[2])]
    /\ Len(log'[i]) <= MaxLog
    /\ UNCHANGED <<now, filed, open, registry>>

\* A restart loads what the disk holds by then, and ends every transaction.
Restart(b) ==
    /\ registry' = BuildRegistry(b[1], b[2], b[3])
    /\ open' = {}
    /\ UNCHANGED <<now, filed, log>>

Tick ==
    /\ now + 1 \in Times
    /\ now' = now + 1
    /\ UNCHANGED <<filed, open, registry, log>>

PredictionsNext ==
    \/ \E r \in Reports : BeginReport(r[1], r[2], r[3], r[4])
    \/ \E i \in Ids : BeginClosure(i)
    \/ \E w \in open : Commit(w) \/ Rollback(w)
    \/ \E i \in Predicted, x \in SlaChoices : UpdateSla(i, x)
    \/ \E i \in Predicted, failed \in BOOLEAN : RecordPredictions(i, failed)
    \/ \E b \in Bundles : Restart(b)
    \/ Tick

PredictionsSpec == PredictionsInit /\ [][PredictionsNext]_predictionVars

-----------------------------------------------------------------------------
\* What a step that changes `filed` commits.
Committed == open \ open'

\* The step commits something that was stamped before the minute t.
LateCommit(t) == \E w \in Committed : w.at < t

(***************************************************************************)
(* "Predictions are computed as of the incident's created_at, so the same  *)
(* incident, bundle, method and SLA window always give the same result"    *)
(* (models/ml_prediction.py).  What is reported, resolved, reopened or     *)
(* resolved again later never changes the answer for an incident whose     *)
(* window and bundle stay; the one thing that does is a transaction older  *)
(* than its report that commits after it, which the sentence overlooks.    *)
(***************************************************************************)
SameAnswer ==
    [][\A i \in Predicted :
          filed' # filed /\ Filed(i) /\ filed'[i].sla = filed[i].sla /\ registry' = registry
              => \/ Predict(registry', filed', i) = Predict(registry, filed, i)
                 \/ LateCommit(filed[i].created)]_filed

\* What would be answered about i for a task, with this bundle and SLA window.
Answer(f, i, task, b, sla) ==
    LET T   == Table(f, Known(f, i))
        reg == BuildRegistry(b[1], b[2], b[3])
    IN IF task = "sla" THEN PredictSla(reg, T, i, sla) ELSE PredictResolution(reg, T, i)

\* A row of the log is such an answer, and no other value could come under its key.
RowCurrent(f, i, row) ==
    /\ row.reasons # {"INTERNAL_ERROR"} =>
          \E b \in Bundles : LET answer == Answer(f, i, row.task, b, row.sla) IN
              Key(answer) = Key(row) /\ answer = row
    /\ \A b \in Bundles, sla \in IF row.task = "sla" THEN SlaChoices ELSE {NONE} :
          LET answer == Answer(f, i, row.task, b, sla) IN
              Key(answer) = Key(row) => answer.value = row.value

(***************************************************************************)
(* The deduplicated log is current: a row, with all its fields, is what    *)
(* would be answered now in the state of the bundle and for the window it  *)
(* was asked for, and any answer with its key has its value, so that ON    *)
(* CONFLICT DO NOTHING drops no other one.  Every new row is current, and  *)
(* a row stops being so only by a late commit.                             *)
(***************************************************************************)
LogStaysCurrent ==
    [][\A i \in Predicted : \A k \in DOMAIN log'[i] :
          \/ filed' = filed /\ k \in DOMAIN log[i] /\ log'[i][k] = log[i][k]
          \/ LateCommit(filed[i].created)
          \/ RowCurrent(filed', i, log'[i][k])
          \/ k \in DOMAIN log[i] /\ ~ RowCurrent(filed, i, log[i][k])]_<<filed, log>>

(***************************************************************************)
(* The breach rate the SLA model reads, the breach baselines and the       *)
(* shadow evaluation agree about every incident that counts: what the      *)
(* first two take for a breach at the time of the report is what the       *)
(* evaluation says now, although they never see the present.  And the      *)
(* state is typed, no key of the log there twice.                          *)
(***************************************************************************)
EvidenceIsTheOutcome ==
    /\ PredictionsTypeOK
    /\ \A i \in Predicted : Filed(i) => \A x \in SlaChoices \ {NONE} :
          LET T == Table(filed, Known(filed, i)) IN
          /\ \A j \in RateWindow(T, i, x) \cup LocalOutcomes(T, i, x, NONE) :
                Outcome("sla", T[j], x, now) = IF Breached(T[j], x) THEN "BREACHED" ELSE "MET"
          /\ RateWindow(T, i, x) = LocalOutcomes(T, i, x, Month)

(***************************************************************************)
(* A scored prediction keeps its score: once the evaluation calls an       *)
(* incident BREACHED or MET for a window, or OBSERVED, it says so for ever, *)
(* although incidents are reopened and resolved again.  Only a closure of  *)
(* the incident that commits in a later minute than its own moves it.      *)
(***************************************************************************)
OutcomesAreFinal ==
    [][<<now', filed'>> # <<now, filed>> =>
          \A i \in Ids : Filed(i) => \A task \in Tasks, x \in SlaChoices :
              LET outcome == Outcome(task, filed[i], x, now) IN
              outcome \notin {"PENDING", "CENSORED"}
                  => \/ Outcome(task, filed'[i], x, now') = outcome
                     \/ \E w \in Committed : w.id = i /\ w.at < now]_<<now, filed>>

(***************************************************************************)
(* The forecast for a week does not change while the week runs, whatever   *)
(* is reported in it, unless a report of an earlier week commits.          *)
(***************************************************************************)
ForecastIsSettled ==
    [][<<now', filed'>> # <<now, filed>> /\ WeekOf(now') = WeekOf(now) /\ registry' = registry =>
          \A r \in Reports : r[3].area # NONE =>
              \/ Hotspots(registry', filed', r[3].area, r[2], now')
                     = Hotspots(registry, filed, r[3].area, r[2], now)
              \/ \E w \in Committed : w.row # NONE /\ WeekOf(w.at) < WeekOf(now)]_<<now, filed>>
=============================================================================
