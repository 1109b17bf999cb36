-------------------------- MODULE PredictionRules --------------------------
(***************************************************************************)
(* What the prediction layer computes, as functions of the rows it reads:  *)
(* app/ml/features.py, predictors.py, hotspot.py, build_registry of        *)
(* registry.py and outcome of evaluation.py.                               *)
(*                                                                         *)
(* Time is counted in whole minutes: the features floor every time stamp   *)
(* to the minute before they compare it.                                   *)
(*                                                                         *)
(* A table maps incident ids to [category, place, created, closed], closed *)
(* being the first closure or NONE.  A place is a square of the 250 m grid *)
(* of a service area; outside every area its area is NONE.                 *)
(*                                                                         *)
(* The arithmetic of a statistic or a model is left out: its value stands  *)
(* for the data it is computed from, so equal values here are equal values *)
(* there.                                                                  *)
(***************************************************************************)
EXTENDS IncidentRules, FiniteSets, TLC

CONSTANTS
    Hour, Day, Week, Month, Quarter,    \* minutes in 1 h, 1, 7, 30 and 90 days
    MaxRes,           \* MAX_RES_H in minutes: ten years
    MinStat,          \* MIN_EVENTS_FOR_STAT
    MinRate,          \* MIN_EVENTS_FOR_RATE
    MinDurations,     \* MIN_LOCAL_DURATIONS
    MinOutcomes,      \* MIN_LOCAL_OUTCOMES
    MinWeeks,         \* min_history_weeks of the hotspot settings
    TrainedHours,     \* the SLA windows the model was trained on
    TrainingRange,    \* per feature, the values between p01 and p99 in training
    WildOutputs       \* <<bundle, task>> whose model returns no valid number

ASSUME PeriodsAssumption ==
    /\ {Hour, Day, Week, Month, Quarter, MaxRes} \subseteq Nat \ {0}
    /\ Month <= Quarter
    /\ {MinStat, MinRate, MinDurations, MinOutcomes, MinWeeks} \subseteq Nat \ {0}
    /\ IsFiniteSet(TrainedHours) /\ TrainedHours # {} /\ TrainedHours \subseteq SlaHours

Tasks      == {"resolution", "sla"}
Components == {"resolution", "sla", "hotspot", "baselines", "feature_ranges"}
SUPPORTED  == {"POTHOLE", "FLOOD", "GARBAGE", "STREETLIGHT"}

\* METHOD_TEXT: what an answer can come from
Methods ==
    {"ML_MODEL", "BASELINE_LOCAL_CATEGORY_MEDIAN", "BASELINE_LOCAL_GLOBAL_MEDIAN",
     "BASELINE_TRAINING_CATEGORY_MEDIAN", "BASELINE_LOCAL_RECENT_BREACH_RATE",
     "BASELINE_LOCAL_CATEGORY_BREACH_RATE", "BASELINE_TRAINING_CATEGORY_BREACH_RATE"}

-----------------------------------------------------------------------------
(***************************************************************************)
(* History features (features.py).                                         *)
(***************************************************************************)
Duration(r) == r.closed - r.created

\* A closure that is long enough after the report, and not absurdly long.
Valid(r) == r.closed # NONE /\ Duration(r) >= 1 /\ Duration(r) <= MaxRes

Between(x, lo, hi) == lo <= x /\ x < hi

ReportedIn(T, S, lo, hi) == {i \in S : Between(T[i].created, lo, hi)}

ClosedIn(T, S, lo, hi) == {i \in S : T[i].closed # NONE /\ Between(T[i].closed, lo, hi)}

\* Out of the backlog at t: closed, or too old to be still counted.
LeftBy(r, t) == (r.closed # NONE /\ r.closed < t) \/ r.created + Quarter < t

OpenAt(T, S, t) == {i \in S : T[i].created < t /\ ~ LeftBy(T[i], t)}

\* The closures a duration statistic over [lo, hi) is computed from.
ResolvedIn(T, S, lo, hi) == {i \in ClosedIn(T, S, lo, hi) : Valid(T[i])}

Sample(T, S) == {<<i, Duration(T[i])>> : i \in S}

Statistic(T, S) == IF Cardinality(S) >= MinStat THEN Sample(T, S) ELSE NONE

SameCategory(T, q) == {i \in DOMAIN T : T[i].category = T[q].category}

\* The 3 x 3 squares around the query.
Block(T, q) ==
    {i \in DOMAIN T : /\ T[i].place.ix - T[q].place.ix \in -1 .. 1
                      /\ T[i].place.iy - T[q].place.iy \in -1 .. 1}

\* UTC midnight at which the day of t started
Midnight(t) == t - (t % Day)

\* The oldest report is younger than `period`: counts over it would be cut short.
WarmingUp(T, t, period) == \A i \in DOMAIN T : t - T[i].created < period

HISTORY_FEATURES ==
    {"wl_backlog_open", "wl_intake_7d", "wl_intake_30d", "wl_closed_7d", "wl_backlog_days",
     "wl_recent_closures_30d", "wl_recent_mean_log_res", "wl_recent_median_res_h",
     "wl_city_backlog_open", "wl_city_intake_7d", "sp_samecat_box750_7d",
     "sp_samecat_box750_30d", "sp_samecat_box750_90d", "sp_samecat_box750_open_now",
     "sp_all_box750_30d"}

(***************************************************************************)
(* history_features: the features of q at its report, NONE where missing.  *)
(***************************************************************************)
HistoryFeatures(T, q) ==
    LET t       == T[q].created
        same    == SameCategory(T, q)
        near    == Block(T, q)
        intake  == ReportedIn(T, same, t - Month, t)
        closed  == ResolvedIn(T, same, t - Month, t)
        settled == ResolvedIn(T, same, Midnight(t) - Month, Midnight(t))
    IN  IF T[q].place.area = NONE \/ WarmingUp(T, t, Month)
        THEN [f \in HISTORY_FEATURES |-> NONE]
        ELSE [wl_backlog_open            |-> Cardinality(OpenAt(T, same, t)),
              wl_intake_7d               |-> Cardinality(ReportedIn(T, same, t - Week, t)),
              wl_intake_30d              |-> Cardinality(intake),
              wl_closed_7d               |-> Cardinality(ClosedIn(T, same, t - Week, t)),
              wl_backlog_days            |-> IF intake = {} THEN NONE
                                             ELSE <<Cardinality(OpenAt(T, same, t)),
                                                    Cardinality(intake)>>,
              wl_recent_closures_30d     |-> Cardinality(closed),
              wl_recent_mean_log_res     |-> Statistic(T, closed),
              wl_recent_median_res_h     |-> Statistic(T, settled),
              wl_city_backlog_open       |-> Cardinality(OpenAt(T, DOMAIN T, t)),
              wl_city_intake_7d          |-> Cardinality(ReportedIn(T, DOMAIN T, t - Week, t)),
              sp_samecat_box750_7d       |-> Cardinality(ReportedIn(T, same \cap near, t - Week, t)),
              sp_samecat_box750_30d      |-> Cardinality(ReportedIn(T, same \cap near, t - Month, t)),
              sp_samecat_box750_90d      |-> IF WarmingUp(T, t, Quarter) THEN NONE
                                             ELSE Cardinality(ReportedIn(T, same \cap near,
                                                                         t - Quarter, t)),
              sp_samecat_box750_open_now |-> Cardinality(OpenAt(T, same \cap near, t)),
              sp_all_box750_30d          |-> Cardinality(ReportedIn(T, near, t - Month, t))]

\* MUTANT: a closure at the deadline still met it
Breached_AfterOnly(r, x) == r.closed = NONE \/ Duration(r) > x * Hour

\* Not resolved within x hours.
Breached(r, x) == r.closed = NONE \/ Duration(r) >= x * Hour

(***************************************************************************)
(* The incidents of a category reported in [t - x - 30 d, t - x): their    *)
(* deadline of x hours has passed by t.                                    *)
(***************************************************************************)
RateWindow(T, q, x) ==
    LET t == T[q].created IN
    {i \in ReportedIn(T, SameCategory(T, q), t - x * Hour - Month, t - x * Hour) :
        T[i].closed = NONE \/ Valid(T[i])}

\* breach_rate: a share, as <<breached, of>>
BreachRate(T, q, x) ==
    LET window == RateWindow(T, q, x) IN
    IF T[q].place.area = NONE \/ Cardinality(window) < MinRate THEN NONE
    ELSE <<Cardinality({i \in window : Breached(T[i], x)}), Cardinality(window)>>

Like(T, q, category) ==
    {i \in DOMAIN T \ {q} : category = NONE \/ T[i].category = category}

\* local_closed_durations: what was resolved before the report of q
LocalClosed(T, q, category) ==
    {i \in Like(T, q, category) : Valid(T[i]) /\ T[i].closed < T[q].created}

\* MUTANT: outcomes are used before the deadline has passed
LocalOutcomes_NoWait(T, q, x, window) ==
    {i \in Like(T, q, T[q].category) :
        /\ T[i].created < T[q].created
        /\ window # NONE => T[i].created >= T[q].created - x * Hour - window
        /\ T[i].closed # NONE => Duration(T[i]) >= 1}

\* local_breach_outcomes: whose deadline of x hours passed before the report of q
LocalOutcomes(T, q, x, window) ==
    {i \in Like(T, q, T[q].category) :
        /\ T[i].created < T[q].created - x * Hour
        /\ window # NONE => T[i].created >= T[q].created - x * Hour - window
        /\ T[i].closed # NONE => Duration(T[i]) >= 1}

OutcomeSample(T, S, x) == {<<i, Breached(T[i], x)>> : i \in S}

-----------------------------------------------------------------------------
(***************************************************************************)
(* build_registry: which components of the bundle on `disk` may serve.     *)
(* The manifest is trusted or nothing is; a component needs its files      *)
(* unaltered and loadable, and a pickled model the runtime it was made     *)
(* with.                                                                   *)
(***************************************************************************)
Disks == [trusted : BOOLEAN, altered : SUBSET Components, broken : SUBSET Components,
          runtime : BOOLEAN]

BuildRegistry(enabled, version, disk) ==
    LET open == enabled /\ disk.trusted IN
    [enabled |-> enabled,
     version |-> IF open THEN version ELSE NONE,
     ready   |-> {c \in Components : /\ open
                                     /\ c \notin disk.altered \cup disk.broken
                                     /\ c \in Tasks => disk.runtime}]

\* Why the model is not used, the first reason that applies; NONE: it is used.
Blocker(reg, task, category, x) ==
    IF ~ reg.enabled THEN "ML_DISABLED"
    ELSE IF task \notin reg.ready THEN "ARTIFACT_UNAVAILABLE"
    ELSE IF category \notin SUPPORTED THEN "UNSUPPORTED_CATEGORY"
    ELSE IF task = "sla" /\ ~ \E lo, hi \in TrainedHours : lo <= x /\ x <= hi
         THEN "SLA_OUT_OF_RANGE"
    ELSE IF <<reg.version, task>> \in WildOutputs THEN "INVALID_MODEL_OUTPUT"
    ELSE NONE

\* The inputs of a model that may be missing.
Inputs(T, q, task, x) ==
    IF task = "resolution" THEN HistoryFeatures(T, q)
    ELSE HistoryFeatures(T, q) @@ ("hist_breach_rate_own" :> BreachRate(T, q, x))

Unseen(inputs) ==
    {f \in DOMAIN inputs \cap DOMAIN TrainingRange :
        inputs[f] # NONE /\ inputs[f] \notin TrainingRange[f]}

\* _regime_reasons and the test for a window the model was not trained on
RegimeReasons(reg, task, area, inputs, x) ==
    {why \in {"OUTSIDE_SERVICE_AREA", "INSUFFICIENT_LOCAL_HISTORY",
              "FEATURES_OUTSIDE_TRAINING_RANGE"} :
        CASE why = "OUTSIDE_SERVICE_AREA"       -> area = NONE
          [] why = "INSUFFICIENT_LOCAL_HISTORY" -> \E f \in DOMAIN inputs : inputs[f] = NONE
          [] OTHER -> \/ "feature_ranges" \in reg.ready /\ Unseen(inputs) # {}
                      \/ task = "sla" /\ x \notin TrainedHours}

Result(reg, task, x, status, method, reasons, value) ==
    [task |-> task, bundle |-> reg.version, sla |-> IF task = "sla" THEN x ELSE NONE,
     status |-> status, method |-> method, reasons |-> reasons, value |-> value]

\* What a model answers is a function of its inputs.
ModelResult(reg, T, q, task, x) ==
    LET inputs  == Inputs(T, q, task, x)
        reasons == RegimeReasons(reg, task, T[q].place.area, inputs, x)
    IN  Result(reg, task, x, IF reasons = {} THEN "AVAILABLE" ELSE "EXPERIMENTAL", "ML_MODEL",
               reasons, inputs)

(***************************************************************************)
(* The baselines of each task, strongest first: name, whether it applies,  *)
(* and the data its number is computed from.                               *)
(***************************************************************************)
ResolutionBaselines(reg, T, q) ==
    LET own == LocalClosed(T, q, T[q].category)
        all == LocalClosed(T, q, NONE)
    IN  <<[name |-> "BASELINE_LOCAL_CATEGORY_MEDIAN",
           applies |-> Cardinality(own) >= MinDurations, data |-> Sample(T, own)],
          [name |-> "BASELINE_LOCAL_GLOBAL_MEDIAN",
           applies |-> Cardinality(all) >= MinDurations, data |-> Sample(T, all)],
          [name |-> "BASELINE_TRAINING_CATEGORY_MEDIAN",
           applies |-> T[q].category \in SUPPORTED /\ "baselines" \in reg.ready,
           data |-> {}]>>

SlaBaselines(reg, T, q, x) ==
    LET recent == LocalOutcomes(T, q, x, Month)
        any    == LocalOutcomes(T, q, x, NONE)
    IN  <<[name |-> "BASELINE_LOCAL_RECENT_BREACH_RATE",
           applies |-> Cardinality(recent) >= MinOutcomes, data |-> OutcomeSample(T, recent, x)],
          [name |-> "BASELINE_LOCAL_CATEGORY_BREACH_RATE",
           applies |-> Cardinality(any) >= MinOutcomes, data |-> OutcomeSample(T, any, x)],
          [name |-> "BASELINE_TRAINING_CATEGORY_BREACH_RATE",
           applies |-> /\ T[q].category \in SUPPORTED /\ x \in TrainedHours
                       /\ "baselines" \in reg.ready,
           data |-> {}]>>

\* The first baseline that applies, UNAVAILABLE when none does.
BaselineResult(reg, task, x, blocker, baselines) ==
    LET usable == {k \in DOMAIN baselines : baselines[k].applies}
        best   == CHOOSE k \in usable : \A j \in usable : k <= j
    IN  IF blocker = "ML_DISABLED"
        THEN Result(reg, task, x, "UNAVAILABLE", NONE, {blocker}, NONE)
        ELSE IF usable = {}
        THEN Result(reg, task, x, "UNAVAILABLE", NONE, {blocker, "NO_APPLICABLE_BASELINE"}, NONE)
        ELSE Result(reg, task, x, "FALLBACK", baselines[best].name, {blocker},
                    baselines[best].data)

PredictResolution(reg, T, q) ==
    LET blocker == Blocker(reg, "resolution", T[q].category, NONE) IN
    IF blocker = NONE THEN ModelResult(reg, T, q, "resolution", NONE)
    ELSE BaselineResult(reg, "resolution", NONE, blocker, ResolutionBaselines(reg, T, q))

PredictSla(reg, T, q, x) ==
    LET blocker == Blocker(reg, "sla", T[q].category, x) IN
    IF x = NONE THEN Result(reg, "sla", NONE, "UNAVAILABLE", NONE, {"NO_SLA"}, NONE)
    ELSE IF blocker = NONE THEN ModelResult(reg, T, q, "sla", x)
    ELSE BaselineResult(reg, "sla", x, blocker, SlaBaselines(reg, T, q, x))

\* What predict_incident answers when it cannot compute.
InternalError(reg, task) ==
    Result(reg, task, NONE, "UNAVAILABLE", NONE, {"INTERNAL_ERROR"}, NONE)

\* MUTANT: the window is not part of the key
Key_NoWindow(r) == <<r.task, r.bundle, r.method, r.status>>

\* dedupe_key
Key(r) == <<r.task, r.bundle, r.method, r.sla, r.status>>

-----------------------------------------------------------------------------
\* evaluation.outcome: what is known at `t` of an incident's deadline or resolution
Outcome(task, r, x, t) ==
    IF task = "resolution" THEN IF r.closed # NONE THEN "OBSERVED" ELSE "CENSORED"
    ELSE IF x = NONE THEN "NO_SLA"
    ELSE IF r.closed # NONE THEN IF r.closed >= r.created + x * Hour THEN "BREACHED" ELSE "MET"
    ELSE IF t >= r.created + x * Hour THEN "BREACHED" ELSE "PENDING"

(***************************************************************************)
(* Hotspot forecast: the weekly counts of each 1 km cell.  The week of the *)
(* area's first report is dropped, the current one is not counted.         *)
(***************************************************************************)
WeekOf(t) == t \div Week

\* MUTANT: the week that is still running is counted
CountedWeeks_Current(T, t) ==
    {w \in 0 .. WeekOf(t) : \E i \in DOMAIN T : WeekOf(T[i].created) < w}

CountedWeeks(T, t) ==
    {w \in 0 .. WeekOf(t) - 1 : \E i \in DOMAIN T : WeekOf(T[i].created) < w}

Cell(r) == <<r.place.ix \div 4, r.place.iy \div 4>>

Forecast(reg, T, category, t) ==
    LET weeks   == CountedWeeks(T, t)
        counted == {i \in DOMAIN T : T[i].category = category /\ WeekOf(T[i].created) \in weeks}
        enough  == Cardinality(weeks) >= MinWeeks /\ category \in SUPPORTED
    IN  IF "hotspot" \notin reg.ready \/ weeks = {}
        THEN [status |-> "UNAVAILABLE", cells |-> <<>>]
        ELSE [status |-> IF enough THEN "AVAILABLE" ELSE "EXPERIMENTAL",
              cells  |-> [c \in {Cell(T[i]) : i \in counted} |->
                            [w \in weeks |-> Cardinality({i \in counted :
                                Cell(T[i]) = c /\ WeekOf(T[i].created) = w})]]]
=============================================================================
