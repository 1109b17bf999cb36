------------------------- MODULE PredictionsProofs -------------------------
(***************************************************************************)
(* No look-ahead: what is predicted for an incident reads nothing that     *)
(* happened from its report on, for any periods, thresholds, tables and    *)
(* bundles; and what follows from it for the prediction layer, whose       *)
(* transactions commit in any order and as late as they like.              *)
(***************************************************************************)
EXTENDS Predictions, TLAPS

(***************************************************************************)
(* U is what the table T, read for a prediction about q, may have become:  *)
(* nothing is new but reports of the minute of q and closures from then on,*)
(* which may also replace a closure that was itself stamped from then on.  *)
(***************************************************************************)
Stamped(r) ==
    /\ r.created \in Nat /\ r.closed \in Nat \cup {NONE}
    /\ r.closed # NONE => r.created <= r.closed /\ r.closed - r.created <= MaxRes

SameReport(r, s) == r.category = s.category /\ r.place = s.place /\ r.created = s.created

ClosedSince(t, r, s) ==
    /\ r.closed = NONE \/ r.closed >= t
    /\ s.closed # NONE /\ s.closed >= t

Later(T, U, q) ==
    /\ q \in DOMAIN T /\ DOMAIN T \subseteq DOMAIN U
    /\ \A j \in DOMAIN T : /\ Stamped(T[j]) /\ Stamped(U[j]) /\ SameReport(T[j], U[j])
                           /\ T[j].created <= T[q].created
                           /\ U[j].closed = T[j].closed \/ ClosedSince(T[q].created, T[j], U[j])
    /\ \A j \in DOMAIN U \ DOMAIN T : Stamped(U[j]) /\ U[j].created = T[q].created

LEMMA Periods ==
    /\ Hour \in Nat /\ Day \in Nat /\ Week \in Nat /\ Month \in Nat /\ Quarter \in Nat
    /\ MaxRes \in Nat /\ Hour > 0 /\ Day > 0 /\ Week > 0 /\ Month > 0 /\ Quarter > 0
    /\ MaxRes > 0 /\ NONE \notin Nat
  BY PeriodsAssumption, PredictionsAssumption

-----------------------------------------------------------------------------
(***************************************************************************)
(* The same rows are counted: S is a set of incidents of T, V the same set *)
(* with what is new in U.                                                  *)
(***************************************************************************)
LEMMA SameReported ==
    ASSUME NEW T, NEW U, NEW q, Later(T, U, q), NEW S, NEW V, V \subseteq DOMAIN U,
           S = V \cap DOMAIN T, NEW lo \in Int, NEW hi \in Int, hi <= T[q].created
    PROVE  ReportedIn(U, V, lo, hi) = ReportedIn(T, S, lo, hi)
  BY Periods DEF Later, ReportedIn, Between, Stamped, SameReport

LEMMA SameClosed ==
    ASSUME NEW T, NEW U, NEW q, Later(T, U, q), NEW S, NEW V, V \subseteq DOMAIN U,
           S = V \cap DOMAIN T, NEW lo \in Int, NEW hi \in Int, hi <= T[q].created
    PROVE  /\ ClosedIn(U, V, lo, hi) = ClosedIn(T, S, lo, hi)
           /\ \A j \in ClosedIn(T, S, lo, hi) : U[j].closed = T[j].closed /\ U[j].created = T[j].created
<1>1. ASSUME NEW j \in DOMAIN U, U[j].closed # NONE, Between(U[j].closed, lo, hi)
      PROVE  j \in DOMAIN T /\ T[j].closed = U[j].closed
  BY <1>1, Periods DEF Later, Between, Stamped, SameReport, ClosedSince
<1>2. ASSUME NEW j \in DOMAIN T, T[j].closed # NONE, Between(T[j].closed, lo, hi)
      PROVE  U[j].closed = T[j].closed /\ U[j].created = T[j].created
  BY <1>2, Periods DEF Later, Between, Stamped, ClosedSince, SameReport
<1> QED
  BY <1>1, <1>2 DEF ClosedIn, Later

LEMMA SameResolved ==
    ASSUME NEW T, NEW U, NEW q, Later(T, U, q), NEW S, NEW V, V \subseteq DOMAIN U,
           S = V \cap DOMAIN T, NEW lo \in Int, NEW hi \in Int, hi <= T[q].created
    PROVE  /\ ResolvedIn(U, V, lo, hi) = ResolvedIn(T, S, lo, hi)
           /\ Statistic(U, ResolvedIn(U, V, lo, hi)) = Statistic(T, ResolvedIn(T, S, lo, hi))
<1>1. /\ ClosedIn(U, V, lo, hi) = ClosedIn(T, S, lo, hi)
      /\ \A j \in ClosedIn(T, S, lo, hi) : U[j].closed = T[j].closed /\ U[j].created = T[j].created
  BY SameClosed
<1>2. \A j \in ClosedIn(T, S, lo, hi) : Duration(U[j]) = Duration(T[j]) /\ Valid(U[j]) = Valid(T[j])
  BY <1>1 DEF Duration, Valid
<1>3. ResolvedIn(U, V, lo, hi) = ResolvedIn(T, S, lo, hi)
  BY <1>1, <1>2 DEF ResolvedIn
<1>4. \A j \in ResolvedIn(T, S, lo, hi) : Duration(U[j]) = Duration(T[j])
  BY <1>2 DEF ResolvedIn
<1>5. Sample(U, ResolvedIn(T, S, lo, hi)) = Sample(T, ResolvedIn(T, S, lo, hi))
  BY <1>4 DEF Sample
<1> QED
  BY <1>3, <1>5 DEF Statistic

LEMMA SameOpenAt ==
    ASSUME NEW T, NEW U, NEW q, Later(T, U, q), NEW S, NEW V, V \subseteq DOMAIN U,
           S = V \cap DOMAIN T
    PROVE  OpenAt(U, V, T[q].created) = OpenAt(T, S, T[q].created)
<1> DEFINE t == T[q].created
<1>1. t \in Nat
  BY DEF Later, Stamped
<1>2. ASSUME NEW j \in DOMAIN T PROVE LeftBy(U[j], t) = LeftBy(T[j], t)
  BY <1>1, <1>2, Periods DEF Later, LeftBy, Stamped, SameReport, ClosedSince
<1>3. ASSUME NEW j \in DOMAIN U, U[j].created < t PROVE j \in DOMAIN T
  BY <1>1, <1>3 DEF Later
<1>4. ASSUME NEW j \in DOMAIN T PROVE U[j].created = T[j].created /\ j \in DOMAIN U
  BY <1>4 DEF Later, SameReport
<1> QED
  BY <1>2, <1>3, <1>4 DEF OpenAt

LEMMA SamePoint ==
    ASSUME NEW T, NEW U, NEW q, Later(T, U, q)
    PROVE  /\ U[q].created = T[q].created /\ U[q].category = T[q].category
           /\ U[q].place = T[q].place /\ T[q].created \in Nat
  BY DEF Later, SameReport, Stamped

\* V, a set of incidents of U, holds those that S holds of T
Part(T, U, S, V) == V \subseteq DOMAIN U /\ S = V \cap DOMAIN T

LEMMA SameGroups ==
    ASSUME NEW T, NEW U, NEW q, Later(T, U, q)
    PROVE  /\ Part(T, U, SameCategory(T, q), SameCategory(U, q))
           /\ Part(T, U, Block(T, q), Block(U, q))
           /\ Part(T, U, DOMAIN T, DOMAIN U)
<1>1. \A j \in DOMAIN T : j \in DOMAIN U /\ SameReport(T[j], U[j])
  BY DEF Later
<1>2. q \in DOMAIN T
  BY DEF Later
<1>3. Part(T, U, SameCategory(T, q), SameCategory(U, q))
  BY <1>1, <1>2 DEF Part, SameCategory, SameReport
<1>4. Part(T, U, Block(T, q), Block(U, q))
  BY <1>1, <1>2 DEF Part, Block, SameReport
<1> QED
  BY <1>1, <1>3, <1>4 DEF Part

LEMMA SameWarmUp ==
    ASSUME NEW T, NEW U, NEW q, Later(T, U, q), NEW p \in Nat \ {0}
    PROVE  WarmingUp(U, T[q].created, p) <=> WarmingUp(T, T[q].created, p)
<1> DEFINE t == T[q].created
<1>1. t \in Nat /\ t - t < p
  BY DEF Later, Stamped
<1>2. ASSUME NEW j \in DOMAIN U, j \notin DOMAIN T PROVE t - U[j].created < p
  BY <1>1, <1>2 DEF Later
<1>3. ASSUME NEW j \in DOMAIN T PROVE U[j].created = T[j].created /\ j \in DOMAIN U
  BY <1>3 DEF Later, SameReport
<1> QED
  BY <1>2, <1>3 DEF WarmingUp

-----------------------------------------------------------------------------
(***************************************************************************)
(* The features, the breach rate and the evidence of the baselines.        *)
(***************************************************************************)
LEMMA SameFeatures ==
    ASSUME NEW T, NEW U, NEW q, Later(T, U, q)
    PROVE  HistoryFeatures(U, q) = HistoryFeatures(T, q)
<1> DEFINE t  == T[q].created
           m  == Midnight(t)
           C  == SameCategory(T, q)
           D  == SameCategory(U, q)
           B  == Block(T, q)
           E  == Block(U, q)
<1>1. /\ U[q].created = t /\ U[q].place = T[q].place
      /\ t \in Int /\ t - Week \in Int /\ t - Month \in Int /\ t - Quarter \in Int
      /\ t <= T[q].created
  BY SamePoint, Periods
<1>2. m \in Int /\ m - Month \in Int /\ m <= T[q].created
  <2>1. t % Day \in Nat
    BY SamePoint, Periods
  <2> QED
    BY <1>1, <2>1, Periods DEF Midnight
<1>3. /\ WarmingUp(U, t, Month) <=> WarmingUp(T, t, Month)
      /\ WarmingUp(U, t, Quarter) <=> WarmingUp(T, t, Quarter)
  <2>1. Month \in Nat \ {0} /\ Quarter \in Nat \ {0}
    BY Periods
  <2> QED
    BY <2>1, SameWarmUp
<1>4. /\ D \subseteq DOMAIN U /\ C = D \cap DOMAIN T
      /\ E \subseteq DOMAIN U /\ B = E \cap DOMAIN T
      /\ D \cap E \subseteq DOMAIN U /\ C \cap B = (D \cap E) \cap DOMAIN T
      /\ DOMAIN U \subseteq DOMAIN U /\ DOMAIN T = DOMAIN U \cap DOMAIN T
  <2>1. Part(T, U, C, D) /\ Part(T, U, B, E) /\ Part(T, U, DOMAIN T, DOMAIN U)
    BY SameGroups
  <2> HIDE DEF C, D, B, E
  <2> QED
    BY <2>1 DEF Part
<1> HIDE DEF t, m, C, D, B, E
<1>5. /\ ReportedIn(U, D, t - Week, t) = ReportedIn(T, C, t - Week, t)
      /\ ReportedIn(U, D, t - Month, t) = ReportedIn(T, C, t - Month, t)
      /\ ReportedIn(U, DOMAIN U, t - Week, t) = ReportedIn(T, DOMAIN T, t - Week, t)
      /\ ReportedIn(U, E, t - Month, t) = ReportedIn(T, B, t - Month, t)
  BY <1>1, <1>4, SameReported
<1>6. /\ ReportedIn(U, D \cap E, t - Week, t) = ReportedIn(T, C \cap B, t - Week, t)
      /\ ReportedIn(U, D \cap E, t - Month, t) = ReportedIn(T, C \cap B, t - Month, t)
      /\ ReportedIn(U, D \cap E, t - Quarter, t) = ReportedIn(T, C \cap B, t - Quarter, t)
  BY <1>1, <1>4, SameReported
<1>7. /\ OpenAt(U, D, t) = OpenAt(T, C, t)
      /\ OpenAt(U, DOMAIN U, t) = OpenAt(T, DOMAIN T, t)
      /\ OpenAt(U, D \cap E, t) = OpenAt(T, C \cap B, t)
  BY <1>4, SameOpenAt DEF t
<1>8. ClosedIn(U, D, t - Week, t) = ClosedIn(T, C, t - Week, t)
  BY <1>1, <1>4, SameClosed
<1>9. /\ ResolvedIn(U, D, t - Month, t) = ResolvedIn(T, C, t - Month, t)
      /\ Statistic(U, ResolvedIn(U, D, t - Month, t)) = Statistic(T, ResolvedIn(T, C, t - Month, t))
      /\ Statistic(U, ResolvedIn(U, D, m - Month, m)) = Statistic(T, ResolvedIn(T, C, m - Month, m))
  BY <1>1, <1>2, <1>4, SameResolved
<1> QED
  BY <1>1, <1>3, <1>5, <1>6, <1>7, <1>8, <1>9 DEF HistoryFeatures, t, m, C, D, B, E

\* A deadline of d minutes that has passed by t was missed, or not, by then.
LEMMA SettledByDeadline ==
    ASSUME NEW t \in Nat, NEW d \in Nat, NEW r, NEW s, Stamped(r), Stamped(s), SameReport(r, s),
           s.closed = r.closed \/ ClosedSince(t, r, s), r.created < t - d
    PROVE  /\ (r.closed = NONE \/ Valid(r)) <=> (s.closed = NONE \/ Valid(s))
           /\ (r.closed # NONE => Duration(r) >= 1) <=> (s.closed # NONE => Duration(s) >= 1)
           /\ (r.closed = NONE \/ Duration(r) >= d) <=> (s.closed = NONE \/ Duration(s) >= d)
<1>1. CASE s.closed = r.closed
  BY <1>1 DEF SameReport, Valid, Duration
<1>2. CASE ClosedSince(t, r, s)
  <2>1. ASSUME NEW p, Stamped(p), p.created < t - d, p.closed # NONE, p.closed >= t
        PROVE  Duration(p) >= 1 /\ Duration(p) >= d /\ Valid(p)
    BY <2>1, Periods DEF Duration, Valid, Stamped
  <2>2. Duration(s) >= 1 /\ Duration(s) >= d /\ Valid(s) /\ s.closed # NONE
    BY <1>2, <2>1 DEF ClosedSince, SameReport
  <2>3. r.closed # NONE => Duration(r) >= 1 /\ Duration(r) >= d /\ Valid(r)
    BY <1>2, <2>1 DEF ClosedSince
  <2> QED
    BY <2>2, <2>3
<1> QED
  BY <1>1, <1>2

LEMMA HoursInMinutes ==
    ASSUME NEW x \in SlaHours
    PROVE  x * Hour \in Nat
<1>1. x \in Nat
  BY DEF SlaHours
<1> QED
  BY <1>1, Periods

LEMMA SameRate ==
    ASSUME NEW T, NEW U, NEW q, Later(T, U, q), NEW x \in SlaHours
    PROVE  BreachRate(U, q, x) = BreachRate(T, q, x)
<1> DEFINE t == T[q].created
           d == x * Hour
           C == SameCategory(T, q)
           D == SameCategory(U, q)
           R == ReportedIn(T, C, t - d - Month, t - d)
<1>1. /\ d \in Nat /\ t \in Nat /\ t - d - Month \in Int /\ t - d \in Int /\ t - d <= T[q].created
      /\ U[q].created = t /\ U[q].place = T[q].place
  BY SamePoint, HoursInMinutes, Periods
<1>2. D \subseteq DOMAIN U /\ C = D \cap DOMAIN T
  <2>1. Part(T, U, C, D)
    BY SameGroups
  <2> QED
    BY <2>1 DEF Part
<1> HIDE DEF d, C, D
<1>3. ReportedIn(U, D, t - d - Month, t - d) = R
  BY <1>1, <1>2, SameReported
<1>4. ASSUME NEW j \in R
      PROVE  /\ (T[j].closed = NONE \/ Valid(T[j])) <=> (U[j].closed = NONE \/ Valid(U[j]))
             /\ (T[j].closed = NONE \/ Duration(T[j]) >= d)
                   <=> (U[j].closed = NONE \/ Duration(U[j]) >= d)
  <2>1. j \in DOMAIN T /\ T[j].created < t - d
    BY <1>1, <1>2, <1>4 DEF ReportedIn, Between
  <2>2. /\ Stamped(T[j]) /\ Stamped(U[j]) /\ SameReport(T[j], U[j])
        /\ U[j].closed = T[j].closed \/ ClosedSince(t, T[j], U[j])
    BY <2>1 DEF Later
  <2> HIDE DEF t, R
  <2> QED
    BY <1>1, <2>1, <2>2, SettledByDeadline
<1>5. RateWindow(U, q, x) = RateWindow(T, q, x) /\ RateWindow(T, q, x) \subseteq R
  <2>1. /\ RateWindow(T, q, x) = {j \in R : T[j].closed = NONE \/ Valid(T[j])}
        /\ RateWindow(U, q, x) = {j \in R : U[j].closed = NONE \/ Valid(U[j])}
    BY <1>1, <1>3 DEF RateWindow, d, C, D
  <2> QED
    BY <1>4, <2>1
<1>6. {j \in RateWindow(U, q, x) : Breached(U[j], x)} = {j \in RateWindow(T, q, x) : Breached(T[j], x)}
  BY <1>4, <1>5 DEF Breached, d
<1> QED
  BY <1>1, <1>5, <1>6 DEF BreachRate

LEMMA SameLocalClosed ==
    ASSUME NEW T, NEW U, NEW q, Later(T, U, q), NEW c
    PROVE  /\ LocalClosed(U, q, c) = LocalClosed(T, q, c)
           /\ Sample(U, LocalClosed(U, q, c)) = Sample(T, LocalClosed(T, q, c))
<1> DEFINE t == T[q].created
<1>1. U[q].created = t /\ t \in Nat /\ NONE \notin Nat
  BY SamePoint, Periods
<1>2. ASSUME NEW j \in DOMAIN U, j \notin DOMAIN T PROVE ~ (Valid(U[j]) /\ U[j].closed < t)
  BY <1>1, <1>2 DEF Later, Stamped, Valid
<1>3. ASSUME NEW j \in DOMAIN T
      PROVE  /\ Valid(U[j]) /\ U[j].closed < t <=> Valid(T[j]) /\ T[j].closed < t
             /\ Valid(T[j]) /\ T[j].closed < t => Duration(U[j]) = Duration(T[j])
             /\ U[j].category = T[j].category /\ j \in DOMAIN U
  <2>1. CASE U[j].closed = T[j].closed
    BY <1>3, <2>1 DEF Later, SameReport, Valid, Duration
  <2>2. CASE ClosedSince(t, T[j], U[j])
    BY <1>1, <1>3, <2>2 DEF Later, SameReport, ClosedSince, Stamped, Valid
  <2> QED
    BY <1>3, <2>1, <2>2 DEF Later
<1>4. LocalClosed(U, q, c) = LocalClosed(T, q, c)
  BY <1>1, <1>2, <1>3 DEF LocalClosed, Like
<1>5. \A j \in LocalClosed(T, q, c) : Duration(U[j]) = Duration(T[j])
  BY <1>3 DEF LocalClosed, Like
<1> QED
  BY <1>4, <1>5 DEF Sample

LEMMA SameLocalOutcomes ==
    ASSUME NEW T, NEW U, NEW q, Later(T, U, q), NEW x \in SlaHours, NEW window
    PROVE  /\ LocalOutcomes(U, q, x, window) = LocalOutcomes(T, q, x, window)
           /\ OutcomeSample(U, LocalOutcomes(U, q, x, window), x)
                = OutcomeSample(T, LocalOutcomes(T, q, x, window), x)
<1> DEFINE t == T[q].created
           d == x * Hour
<1>1. U[q].created = t /\ U[q].category = T[q].category /\ t \in Nat /\ d \in Nat
  BY SamePoint, HoursInMinutes
<1> HIDE DEF d
<1>2. ASSUME NEW j \in DOMAIN U, j \notin DOMAIN T PROVE ~ (U[j].created < t - d)
  BY <1>1, <1>2 DEF Later
<1>3. ASSUME NEW j \in DOMAIN T
      PROVE  U[j].created = T[j].created /\ U[j].category = T[j].category /\ j \in DOMAIN U
  BY <1>3 DEF Later, SameReport
<1>4. ASSUME NEW j \in DOMAIN T, T[j].created < t - d
      PROVE  /\ (T[j].closed # NONE => Duration(T[j]) >= 1) <=> (U[j].closed # NONE => Duration(U[j]) >= 1)
             /\ Breached(T[j], x) = Breached(U[j], x)
  <2>1. /\ Stamped(T[j]) /\ Stamped(U[j]) /\ SameReport(T[j], U[j])
        /\ U[j].closed = T[j].closed \/ ClosedSince(t, T[j], U[j])
    BY <1>4 DEF Later
  <2> HIDE DEF t
  <2>2. /\ (T[j].closed # NONE => Duration(T[j]) >= 1) <=> (U[j].closed # NONE => Duration(U[j]) >= 1)
        /\ (T[j].closed = NONE \/ Duration(T[j]) >= d) <=> (U[j].closed = NONE \/ Duration(U[j]) >= d)
    BY <1>1, <1>4, <2>1, SettledByDeadline
  <2> QED
    BY <2>2 DEF Breached, d
<1>5. LocalOutcomes(U, q, x, window) = LocalOutcomes(T, q, x, window)
  BY <1>1, <1>2, <1>3, <1>4 DEF LocalOutcomes, Like, d
<1>6. \A j \in LocalOutcomes(T, q, x, window) : Breached(U[j], x) = Breached(T[j], x)
  BY <1>1, <1>4 DEF LocalOutcomes, Like, d
<1> QED
  BY <1>5, <1>6 DEF OutcomeSample

-----------------------------------------------------------------------------
(***************************************************************************)
(* Whatever was predicted for q from the table T is what the same bundle   *)
(* predicts from U: no operator of features.py, and no baseline or model   *)
(* of predictors.py, looks past the minute of the report.                  *)
(***************************************************************************)
THEOREM NoLookAhead ==
    ASSUME NEW T, NEW U, NEW q, Later(T, U, q), NEW reg, NEW x \in SlaHours \cup {NONE}
    PROVE  /\ PredictResolution(reg, U, q) = PredictResolution(reg, T, q)
           /\ PredictSla(reg, U, q, x) = PredictSla(reg, T, q, x)
<1>1. U[q].category = T[q].category /\ U[q].place = T[q].place
  BY SamePoint
<1>2. HistoryFeatures(U, q) = HistoryFeatures(T, q)
  BY SameFeatures
<1>3. ModelResult(reg, U, q, "resolution", NONE) = ModelResult(reg, T, q, "resolution", NONE)
  <2>1. Inputs(U, q, "resolution", NONE) = Inputs(T, q, "resolution", NONE)
    BY <1>2 DEF Inputs
  <2> QED
    BY <1>1, <2>1 DEF ModelResult
<1>4. ResolutionBaselines(reg, U, q) = ResolutionBaselines(reg, T, q)
  <2>1. /\ LocalClosed(U, q, T[q].category) = LocalClosed(T, q, T[q].category)
        /\ Sample(U, LocalClosed(U, q, T[q].category)) = Sample(T, LocalClosed(T, q, T[q].category))
        /\ LocalClosed(U, q, NONE) = LocalClosed(T, q, NONE)
        /\ Sample(U, LocalClosed(U, q, NONE)) = Sample(T, LocalClosed(T, q, NONE))
    BY SameLocalClosed
  <2> QED
    BY <1>1, <2>1 DEF ResolutionBaselines
<1>5. PredictResolution(reg, U, q) = PredictResolution(reg, T, q)
  BY <1>1, <1>3, <1>4 DEF PredictResolution
<1>6. PredictSla(reg, U, q, x) = PredictSla(reg, T, q, x)
  <2>1. CASE x = NONE
    BY <2>1 DEF PredictSla
  <2>2. CASE x \in SlaHours
    <3>1. BreachRate(U, q, x) = BreachRate(T, q, x)
      BY <2>2, SameRate
    <3>2. Inputs(U, q, "sla", x) = Inputs(T, q, "sla", x)
      BY <1>2, <3>1 DEF Inputs
    <3>3. ModelResult(reg, U, q, "sla", x) = ModelResult(reg, T, q, "sla", x)
      BY <1>1, <3>2 DEF ModelResult
    <3>4. \A window : /\ LocalOutcomes(U, q, x, window) = LocalOutcomes(T, q, x, window)
                      /\ OutcomeSample(U, LocalOutcomes(U, q, x, window), x)
                           = OutcomeSample(T, LocalOutcomes(T, q, x, window), x)
      BY <2>2, SameLocalOutcomes
    <3>5. SlaBaselines(reg, U, q, x) = SlaBaselines(reg, T, q, x)
      BY <1>1, <3>4 DEF SlaBaselines
    <3> QED
      BY <1>1, <3>3, <3>5 DEF PredictSla
  <2> QED
    BY <2>1, <2>2
<1> QED
  BY <1>5, <1>6

-----------------------------------------------------------------------------
(***************************************************************************)
(* The table over time: no row is dated after now, what is in flight is    *)
(* stamped not after it, a closure not before its report, and an incident  *)
(* is filed once.                                                          *)
(***************************************************************************)
Dated(r, t) ==
    /\ r.created <= t
    /\ r.closed # NONE => r.created <= r.closed /\ r.closed <= t

Stamp(w) ==
    /\ w.id \in Ids /\ w.at \in Times /\ w.at <= now
    /\ w.row = NONE => Filed(w.id) /\ filed[w.id].created <= w.at
    /\ w.row # NONE => /\ ~ Filed(w.id) /\ w.row \in Row
                       /\ w.row.created = w.at /\ w.row.closed = NONE

ReportsApart == \A v, w \in open : v.row # NONE /\ v.id = w.id => v = w

TimedInv ==
    /\ now \in Times
    /\ filed \in [Ids -> Row \cup {NONE}]
    /\ \A i \in Ids : Filed(i) => Dated(filed[i], now)
    /\ \A w \in open : Stamp(w)
    /\ ReportsApart

LEMMA RowFacts ==
    /\ \A r \in Row : /\ r # NONE /\ r.created \in Nat /\ r.created \in Times
                       /\ r.closed \in Times \cup {NONE}
    /\ Times \subseteq Nat /\ NONE \notin Times /\ \A t \in Times : t <= MaxRes
  BY PredictionsAssumption DEF Row

\* What a step may do to the row of an incident: a transaction w closes it earlier.
ClosedBy(w, r, s) == s.closed = w.at /\ (r.closed = NONE \/ w.at < r.closed)

Kept(i, r, s) ==
    /\ s # NONE /\ SameReport(r, s)
    /\ \/ s.closed = r.closed
       \/ \E w \in Committed : w.row = NONE /\ w.id = i /\ ClosedBy(w, r, s)

\* What a step does to the table.
Changes ==
    /\ now' \in Times /\ now <= now'
    /\ filed' \in [Ids -> Row \cup {NONE}]
    /\ \A i \in Ids : filed[i] # NONE => Kept(i, filed[i], filed'[i])
    /\ \A i \in Ids : filed[i] = NONE /\ filed'[i] # NONE
                        => \E w \in Committed : w.row = filed'[i] /\ w.row # NONE /\ w.id = i

LEMMA StepChanges ==
    ASSUME TimedInv, [PredictionsNext]_predictionVars
    PROVE  Changes
<1> USE DEF TimedInv
<1>0. ASSUME now' = now \/ (now' = now + 1 /\ now' \in Times), filed' = filed
      PROVE  Changes
  <2>1. now \in Nat /\ now' \in Times /\ now <= now'
    BY <1>0, RowFacts
  <2> QED
    BY <1>0, <2>1 DEF Changes, Kept, SameReport
<1>1. ASSUME NEW r \in Reports, BeginReport(r[1], r[2], r[3], r[4]) PROVE Changes
  BY <1>0, <1>1 DEF BeginReport
<1>2. ASSUME NEW i \in Ids, BeginClosure(i) PROVE Changes
  BY <1>0, <1>2 DEF BeginClosure
<1>3. ASSUME NEW w \in open, Commit(w) PROVE Changes
  <2>1. Stamp(w) /\ now' = now /\ now \in Nat /\ now' \in Times
    BY <1>3, RowFacts DEF Commit
  <2>2. w \in Committed
    BY <1>3 DEF Commit, Committed
  <2>3. CASE w.row = NONE
    <3> DEFINE r == filed[w.id]
               c == FirstClosed(r.closed, w.at)
               s == [r EXCEPT !.closed = c]
    <3>1. w.id \in Ids /\ r \in Row /\ w.at \in Times
      BY <2>1, <2>3 DEF Stamp, Filed
    <3>2. c \in Times \cup {NONE} /\ (c = r.closed \/ (c = w.at /\ (r.closed = NONE \/ w.at < r.closed)))
      BY <3>1, RowFacts DEF FirstClosed
    <3>3. filed' = [filed EXCEPT ![w.id] = s]
      BY <1>3, <2>3 DEF Commit
    <3> HIDE DEF r, c
    <3>4. s \in Row /\ SameReport(r, s) /\ s.closed = c
      BY <3>1, <3>2 DEF Row, SameReport
    <3> HIDE DEF s
    <3>5. Kept(w.id, r, s)
      BY <2>2, <2>3, <3>1, <3>2, <3>4, RowFacts DEF Kept, ClosedBy
    <3>6. \A i \in Ids \ {w.id} : filed'[i] = filed[i]
      BY <3>3
    <3>7. filed'[w.id] = s /\ filed[w.id] = r
      BY <3>1, <3>3 DEF r
    <3>8. filed' \in [Ids -> Row \cup {NONE}]
      BY <3>1, <3>3, <3>4
    <3>9. \A i \in Ids \ {w.id} : filed[i] # NONE => Kept(i, filed[i], filed'[i])
      BY <3>6 DEF Kept, SameReport
    <3>10. r # NONE
      BY <3>1, RowFacts
    <3> QED
      BY <2>1, <3>1, <3>5, <3>6, <3>7, <3>8, <3>9, <3>10 DEF Changes
  <2>4. CASE w.row # NONE
    <3>1. w.id \in Ids /\ filed[w.id] = NONE /\ w.row \in Row
      BY <2>1, <2>4 DEF Stamp, Filed
    <3>2. filed' = [filed EXCEPT ![w.id] = w.row]
      BY <1>3, <2>4 DEF Commit
    <3>3. /\ filed'[w.id] = w.row /\ filed' \in [Ids -> Row \cup {NONE}]
          /\ \A i \in Ids \ {w.id} : filed'[i] = filed[i]
      BY <3>1, <3>2
    <3> QED
      BY <2>1, <2>2, <2>4, <3>1, <3>3 DEF Changes, Kept, SameReport
  <2> QED
    BY <2>3, <2>4
<1>4. ASSUME NEW w \in open, Rollback(w) PROVE Changes
  BY <1>0, <1>4 DEF Rollback
<1>5. ASSUME NEW i \in Predicted, NEW x \in SlaChoices, UpdateSla(i, x) PROVE Changes
  <2> DEFINE s == [filed[i] EXCEPT !.sla = x]
  <2>1. i \in Ids /\ filed[i] \in Row /\ x \in SlaHours \cup {NONE} /\ now' = now /\ now \in Nat
    BY <1>5, RowFacts, PredictionsAssumption DEF UpdateSla, Filed
  <2>2. filed' = [filed EXCEPT ![i] = s]
    BY <1>5 DEF UpdateSla
  <2>3. s \in Row /\ SameReport(filed[i], s) /\ s.closed = filed[i].closed
    BY <2>1 DEF Row, SameReport
  <2> HIDE DEF s
  <2>4. /\ filed'[i] = s /\ filed' \in [Ids -> Row \cup {NONE}] /\ s # NONE /\ filed[i] # NONE
        /\ \A j \in Ids \ {i} : filed'[j] = filed[j]
    BY <2>1, <2>2, <2>3, RowFacts
  <2> QED
    BY <2>1, <2>3, <2>4 DEF Changes, Kept, SameReport
<1>6. ASSUME NEW i \in Predicted, NEW failed \in BOOLEAN, RecordPredictions(i, failed)
      PROVE  Changes
  BY <1>0, <1>6 DEF RecordPredictions
<1>7. ASSUME NEW b \in Bundles, Restart(b) PROVE Changes
  BY <1>0, <1>7 DEF Restart
<1>8. CASE Tick
  BY <1>0, <1>8 DEF Tick
<1>9. CASE UNCHANGED predictionVars
  BY <1>0, <1>9 DEF predictionVars
<1> QED
  BY <1>1, <1>2, <1>3, <1>4, <1>5, <1>6, <1>7, <1>8, <1>9 DEF PredictionsNext

\* A row stays dated: a closure that commits is stamped between the report and now.
LEMMA DatedStep ==
    ASSUME TimedInv, Changes, NEW i \in Ids, filed'[i] # NONE
    PROVE  Dated(filed'[i], now')
<1>1. now \in Nat /\ now' \in Nat /\ now <= now'
  BY RowFacts DEF TimedInv, Changes
<1>2. \A w \in Committed : Stamp(w)
  BY DEF TimedInv, Committed
<1>3. CASE filed[i] # NONE
  <2> DEFINE r == filed[i]
             s == filed'[i]
  <2>1. r \in Row /\ Dated(r, now) /\ Kept(i, r, s)
    BY <1>3 DEF TimedInv, Changes, Filed
  <2>2. r.created \in Nat /\ r.closed \in Nat \cup {NONE}
    BY <2>1, RowFacts
  <2> SUFFICES Dated(s, now')
    OBVIOUS
  <2> HIDE DEF r, s
  <2>3. CASE s.closed = r.closed
    BY <1>1, <2>1, <2>2, <2>3 DEF Dated, Kept, SameReport
  <2>4. CASE s.closed # r.closed
    <3>1. PICK w \in Committed : w.row = NONE /\ w.id = i /\ s.closed = w.at
      BY <2>1, <2>4 DEF Kept, ClosedBy
    <3>2. r.created <= w.at /\ w.at <= now /\ w.at \in Nat
      BY <1>2, <3>1, RowFacts DEF Stamp, r
    <3> QED
      BY <1>1, <2>1, <2>2, <3>1, <3>2 DEF Dated, Kept, SameReport
  <2> QED
    BY <2>3, <2>4
<1>4. CASE filed[i] = NONE
  <2>1. PICK w \in Committed : w.row = filed'[i] /\ w.row # NONE
    BY <1>4 DEF Changes
  <2>2. filed'[i].created = w.at /\ filed'[i].closed = NONE /\ w.at <= now /\ w.at \in Nat
    BY <1>2, <2>1, RowFacts DEF Stamp
  <2> QED
    BY <1>1, <2>2 DEF Dated
<1> QED
  BY <1>3, <1>4

\* What is in flight.
InFlightOK == (\A w \in open : Stamp(w)) /\ ReportsApart

LEMMA InFlightStep ==
    ASSUME TimedInv, Changes, [PredictionsNext]_predictionVars
    PROVE  InFlightOK'
<1> USE DEF TimedInv
<1>0. now \in Nat /\ now' \in Nat /\ now <= now' /\ now <= now
  BY RowFacts DEF Changes
<1>1. ASSUME NEW w \in open, w.row = NONE \/ filed'[w.id] = filed[w.id]
      PROVE  Stamp(w)'
  <2>1. w.at \in Nat /\ w.at <= now /\ w.at <= now' /\ Stamp(w)
    <3>1. Stamp(w) /\ w.at \in Times /\ w.at <= now
      BY DEF Stamp
    <3>2. w.at \in Nat
      BY <3>1, RowFacts
    <3> QED
      BY <1>0, <3>1, <3>2
  <2>2. w.row = NONE => filed'[w.id] # NONE /\ filed'[w.id].created <= w.at
    BY <2>1 DEF Stamp, Filed, Changes, Kept, SameReport
  <2> QED
    BY <1>1, <2>1, <2>2 DEF Stamp, Filed
<1>2. ASSUME open' \subseteq open,
             \A w \in open' : w.row = NONE \/ filed'[w.id] = filed[w.id]
      PROVE  InFlightOK'
  BY <1>1, <1>2 DEF InFlightOK, ReportsApart
<1>3. ASSUME NEW r \in Reports, BeginReport(r[1], r[2], r[3], r[4]) PROVE InFlightOK'
  <2> DEFINE row == [category |-> r[2], place |-> r[3], created |-> now, sla |-> r[4],
                     closed |-> NONE]
             w == [id |-> r[1], at |-> now, row |-> row]
  <2>1. r[1] \in Ids /\ row \in Row
    <3>1. /\ r[1] \in Ids /\ r[2] \in Categories /\ r[3] \in Places
          /\ r[4] \in SlaHours \cup {NONE}
      BY PredictionsAssumption
    <3> QED
      BY <3>1 DEF Row
  <2>2. /\ open' = open \cup {w} /\ now' = now /\ filed' = filed /\ ~ Filed(r[1])
        /\ \A v \in open : v.id # r[1]
    BY <1>3 DEF BeginReport, InFlight
  <2>3. /\ w.id = r[1] /\ w.at = now /\ w.row = row /\ row # NONE
        /\ row.created = now /\ row.closed = NONE
    BY <2>1, RowFacts
  <2> HIDE DEF w, row
  <2>4. ASSUME NEW v \in open' PROVE Stamp(v)'
    <3>1. CASE v \in open
      BY <1>1, <2>2, <3>1
    <3>2. CASE v = w
      BY <1>0, <2>1, <2>2, <2>3, <3>2 DEF Stamp, Filed
    <3> QED
      BY <2>2, <2>4, <3>1, <3>2
  <2>5. ASSUME NEW u \in open', NEW v \in open', u.row # NONE, u.id = v.id PROVE u = v
    BY <2>2, <2>3, <2>5 DEF ReportsApart
  <2> QED
    BY <2>4, <2>5 DEF InFlightOK, ReportsApart
<1>4. ASSUME NEW i \in Ids, BeginClosure(i) PROVE InFlightOK'
  <2> DEFINE w == [id |-> i, at |-> now, row |-> NONE]
  <2>1. open' = open \cup {w} /\ now' = now /\ filed' = filed /\ Filed(i)
    BY <1>4 DEF BeginClosure
  <2>2. w.id = i /\ w.at = now /\ w.row = NONE /\ filed[i].created <= now
    BY <2>1 DEF Dated
  <2> HIDE DEF w
  <2>3. ASSUME NEW v \in open' PROVE Stamp(v)'
    <3>1. CASE v \in open
      BY <1>1, <2>1, <3>1
    <3>2. CASE v = w
      BY <1>0, <2>1, <2>2, <3>2 DEF Stamp, Filed
    <3> QED
      BY <2>1, <2>3, <3>1, <3>2
  <2>4. \A v \in open : v.row # NONE => v.id # i
    BY <2>1 DEF Stamp
  <2>5. ASSUME NEW u \in open', NEW v \in open', u.row # NONE, u.id = v.id PROVE u = v
    BY <2>1, <2>2, <2>4, <2>5 DEF ReportsApart
  <2> QED
    BY <2>3, <2>5 DEF InFlightOK, ReportsApart
<1>5. ASSUME NEW w \in open, Commit(w) PROVE InFlightOK'
  <2>1. /\ open' = open \ {w}
        /\ \A i \in Ids \ {w.id} : filed'[i] = filed[i]
    BY <1>5 DEF Commit
  <2>2. \A v \in open' : v \in open /\ v.id \in Ids /\ (v.row # NONE => v.id # w.id)
    BY <2>1 DEF Stamp, ReportsApart
  <2> QED
    BY <1>2, <2>1, <2>2
<1>6. ASSUME NEW w \in open, Rollback(w) PROVE InFlightOK'
  BY <1>2, <1>6 DEF Rollback
<1>7. ASSUME NEW i \in Predicted, NEW x \in SlaChoices, UpdateSla(i, x) PROVE InFlightOK'
  <2>1. /\ open' = open /\ filed[i] # NONE
        /\ \A j \in Ids \ {i} : filed'[j] = filed[j]
    BY <1>7 DEF UpdateSla, Filed
  <2>2. \A w \in open : w.row # NONE => w.id \in Ids \ {i}
    BY <2>1 DEF Stamp, Filed
  <2> QED
    BY <1>2, <2>1, <2>2
<1>8. ASSUME NEW i \in Predicted, NEW failed \in BOOLEAN, RecordPredictions(i, failed)
      PROVE  InFlightOK'
  BY <1>2, <1>8 DEF RecordPredictions
<1>9. ASSUME NEW b \in Bundles, Restart(b) PROVE InFlightOK'
  BY <1>2, <1>9 DEF Restart
<1>10. CASE Tick
  BY <1>2, <1>10 DEF Tick
<1>11. CASE UNCHANGED predictionVars
  BY <1>2, <1>11 DEF predictionVars
<1> QED
  BY <1>3, <1>4, <1>5, <1>6, <1>7, <1>8, <1>9, <1>10, <1>11 DEF PredictionsNext

LEMMA TimedStep ==
    ASSUME TimedInv, [PredictionsNext]_predictionVars
    PROVE  TimedInv'
<1>1. Changes
  BY StepChanges
<1>2. \A i \in Ids : filed'[i] # NONE => Dated(filed'[i], now')
  BY <1>1, DatedStep
<1>3. InFlightOK'
  BY <1>1, InFlightStep
<1> QED
  BY <1>1, <1>2, <1>3 DEF TimedInv, Changes, InFlightOK, Filed

LEMMA AlwaysTimed == PredictionsSpec => []TimedInv
<1>1. PredictionsInit => TimedInv
  BY PredictionsAssumption DEF PredictionsInit, TimedInv, Filed, ReportsApart
<1> QED
  BY <1>1, TimedStep, PTL DEF PredictionsSpec

-----------------------------------------------------------------------------
(***************************************************************************)
(* After a step that commits nothing older than the report of i, the table *)
(* read for i is Later than the one read before it.                        *)
(***************************************************************************)
LEMMA LaterStep ==
    ASSUME TimedInv, TimedInv', Changes, NEW i \in Ids, filed[i] # NONE,
           ~ LateCommit(filed[i].created)
    PROVE  Later(Table(filed, Known(filed, i)), Table(filed', Known(filed', i)), i)
<1> DEFINE T == Table(filed, Known(filed, i))
           U == Table(filed', Known(filed', i))
           t == filed[i].created
<1>1. ASSUME NEW f, NEW u \in Times, f \in [Ids -> Row \cup {NONE}], NEW j \in Ids,
             f[j] # NONE, Dated(f[j], u)
      PROVE  Stamped(f[j])
  <2>1. /\ f[j].created \in Nat /\ f[j].closed \in Nat \cup {NONE}
        /\ u \in Nat /\ u <= MaxRes /\ MaxRes \in Nat
    BY <1>1, RowFacts, Periods
  <2> QED
    BY <1>1, <2>1 DEF Dated, Stamped
<1>2. ASSUME NEW j \in Ids
      PROVE  /\ filed[j] # NONE => Stamped(filed[j]) /\ Dated(filed[j], now)
             /\ filed'[j] # NONE => Stamped(filed'[j]) /\ Dated(filed'[j], now')
             /\ filed[j] # NONE => Kept(j, filed[j], filed'[j])
  BY <1>1, <1>2 DEF TimedInv, Changes, Filed
<1>3. t \in Nat
  BY <1>2 DEF Stamped
<1>4. ASSUME NEW w \in Committed PROVE w.at >= t /\ w.at \in Nat /\ Stamp(w)
  <2>1. Stamp(w) /\ w.at \in Nat /\ ~ (w.at < t)
    BY <1>4, RowFacts DEF TimedInv, Committed, LateCommit, Stamp
  <2> HIDE DEF t
  <2> QED
    BY <1>3, <2>1
<1>5. ASSUME NEW j \in Ids, filed[j] # NONE
      PROVE  /\ filed'[j] # NONE /\ SameReport(filed[j], filed'[j])
             /\ filed'[j].closed = filed[j].closed \/ ClosedSince(t, filed[j], filed'[j])
  <2> DEFINE r == filed[j]
             s == filed'[j]
  <2>1. Kept(j, r, s) /\ Stamped(r)
    BY <1>2, <1>5
  <2>2. ASSUME s.closed # r.closed PROVE ClosedSince(t, r, s)
    <3>1. PICK w \in Committed : ClosedBy(w, r, s)
      BY <2>1, <2>2 DEF Kept
    <3>2. w.at >= t /\ w.at \in Nat /\ w.at # NONE
      BY <1>4, RowFacts DEF Stamp
    <3> HIDE DEF r, s, t
    <3> QED
      BY <1>3, <2>1, <3>1, <3>2 DEF ClosedBy, ClosedSince, Stamped
  <2> QED
    BY <2>1, <2>2 DEF Kept
<1>6. ASSUME NEW j \in Ids, filed[j] = NONE, filed'[j] # NONE PROVE filed'[j].created >= t
  <2>1. PICK w \in Committed : w.row = filed'[j] /\ w.row # NONE
    BY <1>6 DEF Changes
  <2>2. Stamp(w) /\ w.at >= t
    BY <1>4
  <2> QED
    BY <2>1, <2>2 DEF Stamp
<1>7. /\ DOMAIN T = Known(filed, i) /\ DOMAIN U = Known(filed', i)
      /\ \A j \in DOMAIN T : T[j] = filed[j]
      /\ \A j \in DOMAIN U : U[j] = filed'[j]
  BY DEF Table
<1>8. i \in Known(filed, i) /\ filed'[i].created = t /\ filed'[i].place = filed[i].place
  BY <1>3, <1>5 DEF Known, InArea, SameReport
<1>9. ASSUME NEW j \in Known(filed, i)
      PROVE  j \in Ids /\ filed[j] # NONE /\ filed[j].created <= t /\ j \in Known(filed', i)
  <2>1. j \in Ids /\ filed[j] # NONE /\ filed[j].created <= t
    BY <1>9 DEF Known, InArea
  <2>2. j \in Known(filed', i)
    BY <1>5, <1>8, <1>9, <2>1 DEF Known, InArea, SameReport
  <2> QED
    BY <2>1, <2>2
<1>10. ASSUME NEW j \in Known(filed', i), j \notin Known(filed, i)
       PROVE  j \in Ids /\ filed'[j] # NONE /\ filed'[j].created = t
  <2>1. j \in Ids /\ filed'[j] # NONE /\ filed'[j].created <= t
    BY <1>8, <1>10 DEF Known, InArea
  <2>2. filed[j] = NONE
    BY <1>5, <1>8, <1>10, <2>1 DEF Known, InArea, SameReport
  <2>3. filed'[j].created \in Nat /\ filed'[j].created >= t
    BY <1>2, <1>6, <2>1, <2>2 DEF Stamped
  <2> HIDE DEF t
  <2> QED
    BY <1>3, <2>1, <2>3
<1> HIDE DEF T, U
<1>11. /\ i \in DOMAIN T /\ DOMAIN T \subseteq DOMAIN U
  BY <1>7, <1>8, <1>9
<1>12. T[i].created = t
  BY <1>7, <1>11
<1>13. ASSUME NEW j \in DOMAIN T
       PROVE  /\ Stamped(T[j]) /\ Stamped(U[j]) /\ SameReport(T[j], U[j])
              /\ T[j].created <= T[i].created
              /\ U[j].closed = T[j].closed \/ ClosedSince(T[i].created, T[j], U[j])
  BY <1>2, <1>5, <1>7, <1>9, <1>11, <1>12, <1>13
<1>14. ASSUME NEW j \in DOMAIN U \ DOMAIN T
       PROVE  Stamped(U[j]) /\ U[j].created = T[i].created
  BY <1>2, <1>7, <1>10, <1>12, <1>14
<1> QED
  BY <1>11, <1>13, <1>14 DEF Later, T, U

\* Then any answer about i, of any bundle and for any window, is what it was.
LEMMA AnswersEqual ==
    ASSUME TimedInv, TimedInv', Changes, NEW i \in Ids, filed[i] # NONE,
           ~ LateCommit(filed[i].created), NEW task, NEW b, NEW x \in SlaHours \cup {NONE}
    PROVE  Answer(filed', i, task, b, x) = Answer(filed, i, task, b, x)
<1>1. Later(Table(filed, Known(filed, i)), Table(filed', Known(filed', i)), i)
  BY LaterStep
<1> QED
  BY <1>1, NoLookAhead DEF Answer

(***************************************************************************)
(* Predictions are computed as of the incident's created_at: for any       *)
(* incidents, windows and bundles, no step changes what would be answered  *)
(* for an incident whose SLA window and bundle stay, but the commit of a   *)
(* transaction that is older than the report.                              *)
(***************************************************************************)
THEOREM PredictionsStable == PredictionsSpec => SameAnswer
<1>1. ASSUME TimedInv, TimedInv', [PredictionsNext]_predictionVars,
             NEW i \in Predicted, Filed(i), filed'[i].sla = filed[i].sla, registry' = registry,
             ~ LateCommit(filed[i].created)
      PROVE  Predict(registry', filed', i) = Predict(registry, filed, i)
  <2>1. i \in Ids /\ filed[i] # NONE
    BY <1>1, PredictionsAssumption DEF Filed
  <2>2. filed[i].sla \in SlaHours \cup {NONE}
    BY <1>1, <2>1 DEF TimedInv, Row
  <2>3. Changes
    BY <1>1, StepChanges
  <2>4. Later(Table(filed, Known(filed, i)), Table(filed', Known(filed', i)), i)
    BY <1>1, <2>1, <2>3, LaterStep
  <2> QED
    BY <1>1, <2>2, <2>4, NoLookAhead DEF Predict, PredictFor
<1>2. TimedInv /\ TimedInv' /\ [PredictionsNext]_predictionVars
        => [\A i \in Predicted :
              filed' # filed /\ Filed(i) /\ filed'[i].sla = filed[i].sla /\ registry' = registry
                  => \/ Predict(registry', filed', i) = Predict(registry, filed, i)
                     \/ LateCommit(filed[i].created)]_filed
  BY <1>1
<1> QED
  BY <1>2, AlwaysTimed, PTL DEF PredictionsSpec, SameAnswer

(***************************************************************************)
(* A scored prediction keeps its score: what the evaluation calls BREACHED,*)
(* MET or OBSERVED it calls so for ever, for any incidents and windows,    *)
(* but for a closure that commits in a later minute than its own.          *)
(***************************************************************************)
THEOREM PredictionsOutcomesAreFinal == PredictionsSpec => OutcomesAreFinal
<1> DEFINE Final ==
      <<now', filed'>> # <<now, filed>> =>
          \A i \in Ids : Filed(i) => \A task \in Tasks, x \in SlaChoices :
              LET outcome == Outcome(task, filed[i], x, now) IN
              outcome \notin {"PENDING", "CENSORED"}
                  => \/ Outcome(task, filed'[i], x, now') = outcome
                     \/ \E w \in Committed : w.id = i /\ w.at < now
<1>1. ASSUME TimedInv, [PredictionsNext]_predictionVars,
             NEW i \in Ids, Filed(i), NEW task \in Tasks, NEW x \in SlaChoices,
             Outcome(task, filed[i], x, now) \notin {"PENDING", "CENSORED"},
             ~ \E w \in Committed : w.id = i /\ w.at < now
      PROVE  Outcome(task, filed'[i], x, now') = Outcome(task, filed[i], x, now)
  <2> DEFINE r == filed[i]
             s == filed'[i]
  <2>1. Kept(i, r, s) /\ Dated(r, now) /\ now \in Nat /\ now' \in Nat /\ now <= now'
    BY <1>1, StepChanges, RowFacts DEF Changes, TimedInv, Filed
  <2>2. r.created \in Nat /\ r.closed \in Nat \cup {NONE} /\ NONE \notin Nat
    BY <1>1, RowFacts, Periods DEF TimedInv, Filed
  <2>3. s.closed = r.closed \/ (r.closed = NONE /\ s.closed = now)
    <3>1. ASSUME s.closed # r.closed PROVE r.closed = NONE /\ s.closed = now
      <4>1. PICK w \in Committed : w.row = NONE /\ w.id = i /\ ClosedBy(w, r, s)
        BY <2>1, <3>1 DEF Kept
      <4>2. w.at \in Nat /\ w.at <= now /\ ~ (w.at < now)
        BY <1>1, <4>1, RowFacts DEF TimedInv, Committed, Stamp
      <4> HIDE DEF r, s
      <4> QED
        BY <2>1, <2>2, <4>1, <4>2 DEF ClosedBy, Dated
    <3> QED
      BY <3>1
  <2> HIDE DEF r, s
  <2>4. s.created = r.created
    BY <2>1 DEF Kept, SameReport
  <2>5. CASE task = "resolution"
    BY <1>1, <2>1, <2>2, <2>3, <2>5 DEF Outcome, r, s
  <2>6. CASE task = "sla" /\ x = NONE
    BY <2>6 DEF Outcome
  <2>7. CASE task = "sla" /\ x # NONE
    <3>1. x \in SlaHours
      BY <2>7, PredictionsAssumption
    <3>2. PICK d \in Nat : d = x * Hour
      BY <3>1, HoursInMinutes
    <3>3. CASE s.closed = r.closed
      BY <1>1, <2>1, <2>2, <2>4, <2>7, <3>2, <3>3 DEF Outcome, r, s
    <3>4. CASE r.closed = NONE /\ s.closed = now
      BY <1>1, <2>1, <2>2, <2>4, <2>7, <3>2, <3>4 DEF Outcome, r, s
    <3> QED
      BY <2>3, <3>3, <3>4
  <2> QED
    BY <2>5, <2>6, <2>7 DEF Tasks
<1>2. TimedInv /\ [PredictionsNext]_predictionVars => [Final]_<<now, filed>>
  BY <1>1
<1> QED
  BY <1>2, AlwaysTimed, PTL DEF PredictionsSpec, OutcomesAreFinal

-----------------------------------------------------------------------------
(***************************************************************************)
(* The log.  An answer's value is a function of its task, method and       *)
(* window, whatever bundle answered: ValueFor.  So answers with one key    *)
(* have one value.                                                         *)
(***************************************************************************)
LocalMethods == {"BASELINE_LOCAL_CATEGORY_MEDIAN", "BASELINE_LOCAL_GLOBAL_MEDIAN"}
RateMethods  == {"BASELINE_LOCAL_RECENT_BREACH_RATE", "BASELINE_LOCAL_CATEGORY_BREACH_RATE"}
TrainingMethods ==
    {"BASELINE_TRAINING_CATEGORY_MEDIAN", "BASELINE_TRAINING_CATEGORY_BREACH_RATE"}

ValueFor(T, q, task, method, x) ==
    IF method = "ML_MODEL" THEN Inputs(T, q, task, x)
    ELSE IF method = "BASELINE_LOCAL_CATEGORY_MEDIAN"
         THEN Sample(T, LocalClosed(T, q, T[q].category))
    ELSE IF method = "BASELINE_LOCAL_GLOBAL_MEDIAN" THEN Sample(T, LocalClosed(T, q, NONE))
    ELSE IF method = "BASELINE_LOCAL_RECENT_BREACH_RATE"
         THEN OutcomeSample(T, LocalOutcomes(T, q, x, Month), x)
    ELSE IF method = "BASELINE_LOCAL_CATEGORY_BREACH_RATE"
         THEN OutcomeSample(T, LocalOutcomes(T, q, x, NONE), x)
    ELSE IF method \in TrainingMethods THEN {} ELSE NONE

Explained(T, q, r) ==
    /\ r.value = ValueFor(T, q, r.task, r.method, r.sla)
    /\ r.method \in {NONE, "ML_MODEL"} \cup LocalMethods \cup RateMethods \cup TrainingMethods
    /\ r.method = "ML_MODEL" => r.task = "resolution" \/ r.sla \in SlaHours
    /\ r.method \in RateMethods => r.sla \in SlaHours

\* The first baseline that applies exists when any does.
LEMMA FirstApplies ==
    ASSUME NEW b1, NEW b2, NEW b3
    PROVE  LET baselines == <<b1, b2, b3>>
               usable == {k \in DOMAIN baselines : baselines[k].applies}
               best   == CHOOSE k \in usable : \A j \in usable : k <= j
           IN  usable # {} => baselines[best] \in {b1, b2, b3}
<1> DEFINE baselines == <<b1, b2, b3>>
           usable == {k \in DOMAIN baselines : baselines[k].applies}
           best   == CHOOSE k \in usable : \A j \in usable : k <= j
<1> SUFFICES ASSUME usable # {} PROVE baselines[best] \in {b1, b2, b3}
  OBVIOUS
<1>1. usable \subseteq 1 .. 3
  OBVIOUS
<1>2. \A k \in 1 .. 3 : baselines[k] \in {b1, b2, b3}
  OBVIOUS
<1> HIDE DEF baselines
<1>3. \E k \in usable : \A j \in usable : k <= j
  <2> HIDE DEF usable
  <2>1. CASE 1 \in usable
    BY <1>1, <2>1
  <2>2. CASE 1 \notin usable /\ 2 \in usable
    BY <1>1, <2>2
  <2>3. CASE usable = {3}
    BY <2>3
  <2>4. ASSUME 1 \notin usable, 2 \notin usable PROVE usable = {3}
    <3>1. \A k \in usable : k = 3
      BY <1>1, <2>4
    <3> QED
      BY <3>1
  <2> QED
    BY <2>1, <2>2, <2>3, <2>4
<1> HIDE DEF usable
<1>4. best \in usable
  BY <1>3
<1> QED
  BY <1>1, <1>2, <1>4

LEMMA ModelExplained ==
    ASSUME NEW T, NEW q, NEW reg, NEW task, NEW x, task = "resolution" \/ x \in SlaHours,
           task \in Tasks
    PROVE  Explained(T, q, ModelResult(reg, T, q, task, x))
<1> DEFINE r == ModelResult(reg, T, q, task, x)
<1>1. /\ r.task = task /\ r.method = "ML_MODEL" /\ r.value = Inputs(T, q, task, x)
      /\ r.sla = IF task = "sla" THEN x ELSE NONE
  BY DEF ModelResult, Result
<1> HIDE DEF r
<1>2. Inputs(T, q, r.task, r.sla) = Inputs(T, q, task, x)
  <2>1. CASE task = "sla"
    BY <1>1, <2>1
  <2>2. CASE task = "resolution"
    BY <1>1, <2>2 DEF Inputs
  <2> QED
    BY <2>1, <2>2 DEF Tasks
<1>3. ValueFor(T, q, r.task, r.method, r.sla) = Inputs(T, q, r.task, r.sla)
  BY <1>1 DEF ValueFor
<1>4. r.method = "ML_MODEL" => r.task = "resolution" \/ r.sla \in SlaHours
  BY <1>1 DEF Tasks
<1>5. r.method \notin RateMethods
  BY <1>1 DEF RateMethods
<1> QED
  BY <1>1, <1>2, <1>3, <1>4, <1>5 DEF Explained, r

LEMMA UnavailableExplained ==
    ASSUME NEW T, NEW q, NEW r, r.method = NONE, r.value = NONE
    PROVE  Explained(T, q, r)
  BY PredictionsAssumption DEF Explained, ValueFor, TrainingMethods, RateMethods, Methods

\* A baseline's data is the value of its name.
Sound(T, q, task, x, b) ==
    /\ b.data = ValueFor(T, q, task, b.name, IF task = "sla" THEN x ELSE NONE)
    /\ b.name \in LocalMethods \cup TrainingMethods \/ (b.name \in RateMethods /\ task = "sla")

LEMMA BaselineExplained ==
    ASSUME NEW T, NEW q, NEW reg, NEW task, NEW x, NEW blocker, NEW b1, NEW b2, NEW b3,
           task = "sla" => x \in SlaHours,
           \A b \in {b1, b2, b3} : Sound(T, q, task, x, b)
    PROVE  Explained(T, q, BaselineResult(reg, task, x, blocker, <<b1, b2, b3>>))
<1> DEFINE baselines == <<b1, b2, b3>>
           usable == {k \in DOMAIN baselines : baselines[k].applies}
           best   == CHOOSE k \in usable : \A j \in usable : k <= j
           r == BaselineResult(reg, task, x, blocker, baselines)
<1>1. CASE usable = {} \/ blocker = "ML_DISABLED"
  <2>1. r.method = NONE /\ r.value = NONE
    BY <1>1 DEF BaselineResult, Result
  <2> HIDE DEF r
  <2>2. Explained(T, q, r)
    BY <2>1, UnavailableExplained
  <2> QED
    BY <2>2 DEF r
<1>2. CASE usable # {} /\ blocker # "ML_DISABLED"
  <2>1. baselines[best] \in {b1, b2, b3}
    BY <1>2, FirstApplies
  <2>2. r = Result(reg, task, x, "FALLBACK", baselines[best].name, {blocker}, baselines[best].data)
    BY <1>2 DEF BaselineResult
  <2> DEFINE b == baselines[best]
  <2>3. r = Result(reg, task, x, "FALLBACK", b.name, {blocker}, b.data)
    BY <2>2
  <2>4. /\ r.task = task /\ r.method = b.name /\ r.value = b.data
        /\ r.sla = IF task = "sla" THEN x ELSE NONE
    <3> HIDE DEF r, b
    <3> QED
      BY <2>3 DEF Result
  <2>5. Sound(T, q, task, x, b)
    <3> HIDE DEF b
    <3> QED
      BY <2>1 DEF b
  <2> HIDE DEF r, b
  <2>6. r.value = ValueFor(T, q, r.task, r.method, r.sla)
    BY <2>4, <2>5 DEF Sound
  <2>7. /\ r.method \in {NONE, "ML_MODEL"} \cup LocalMethods \cup RateMethods \cup TrainingMethods
        /\ r.method # "ML_MODEL"
        /\ r.method \in RateMethods => r.sla \in SlaHours
    BY <2>4, <2>5 DEF Sound, LocalMethods, RateMethods, TrainingMethods
  <2>8. Explained(T, q, r)
    BY <2>6, <2>7 DEF Explained
  <2> QED
    BY <2>8 DEF r
<1> QED
  BY <1>1, <1>2

LEMMA AnswersExplained ==
    ASSUME NEW T, NEW q, NEW reg, NEW x \in SlaHours \cup {NONE}
    PROVE  /\ Explained(T, q, PredictResolution(reg, T, q))
           /\ Explained(T, q, PredictSla(reg, T, q, x))
<1>1. Explained(T, q, PredictResolution(reg, T, q))
  <2> DEFINE b == ResolutionBaselines(reg, T, q)
             blocker == Blocker(reg, "resolution", T[q].category, NONE)
  <2>1. Explained(T, q, ModelResult(reg, T, q, "resolution", NONE))
    BY ModelExplained DEF Tasks
  <2>2. /\ b = <<b[1], b[2], b[3]>>
        /\ \A c \in {b[1], b[2], b[3]} : Sound(T, q, "resolution", NONE, c)
    BY DEF ResolutionBaselines, Sound, ValueFor, LocalMethods, TrainingMethods
  <2> HIDE DEF b, blocker
  <2>3. Explained(T, q, BaselineResult(reg, "resolution", NONE, blocker, <<b[1], b[2], b[3]>>))
    BY <2>2, BaselineExplained
  <2> QED
    BY <2>1, <2>2, <2>3 DEF PredictResolution, b, blocker
<1>2. CASE x = NONE
  <2> DEFINE r == PredictSla(reg, T, q, x)
  <2>1. r.method = NONE /\ r.value = NONE
    BY <1>2 DEF PredictSla, Result
  <2> HIDE DEF r
  <2>2. Explained(T, q, r)
    BY <2>1, UnavailableExplained
  <2> QED
    BY <1>1, <2>2 DEF r
<1>3. CASE x # NONE
  <2> DEFINE b == SlaBaselines(reg, T, q, x)
             blocker == Blocker(reg, "sla", T[q].category, x)
  <2>1. Explained(T, q, ModelResult(reg, T, q, "sla", x))
    BY <1>3, ModelExplained DEF Tasks
  <2>2. /\ b = <<b[1], b[2], b[3]>>
        /\ \A c \in {b[1], b[2], b[3]} : Sound(T, q, "sla", x, c)
    BY DEF SlaBaselines, Sound, ValueFor, RateMethods, TrainingMethods
  <2> HIDE DEF b, blocker
  <2>3. Explained(T, q, BaselineResult(reg, "sla", x, blocker, <<b[1], b[2], b[3]>>))
    BY <1>3, <2>2, BaselineExplained
  <2> QED
    BY <1>1, <1>3, <2>1, <2>2, <2>3 DEF PredictSla, b, blocker
<1> QED
  BY <1>2, <1>3

-----------------------------------------------------------------------------
RowsOf(s) == {s[k] : k \in DOMAIN s}

KeysUnique(s) == \A j, k \in DOMAIN s : Key(s[j]) = Key(s[k]) => j = k

LogInv ==
    /\ DOMAIN log = Ids
    /\ \A i \in Ids :
        /\ log[i] \in Seq(RowsOf(log[i])) /\ KeysUnique(log[i])
        /\ log[i] # <<>> => Filed(i)
        /\ \A k \in DOMAIN log[i] : log[i][k].sla \in SlaHours \cup {NONE}

LEMMA InsertRow ==
    ASSUME NEW s, s \in Seq(RowsOf(s)), KeysUnique(s), NEW e
    PROVE  /\ Insert(s, e) \in Seq(RowsOf(Insert(s, e))) /\ KeysUnique(Insert(s, e))
           /\ \A k \in DOMAIN Insert(s, e) :
                Insert(s, e)[k] = e \/ (k \in DOMAIN s /\ Insert(s, e)[k] = s[k])
<1> DEFINE t == Append(s, e)
<1>1. CASE \E k \in DOMAIN s : Key(s[k]) = Key(e)
  <2>1. Insert(s, e) = s
    BY <1>1 DEF Insert
  <2> QED
    BY <2>1 DEF RowsOf
<1>2. CASE ~ \E k \in DOMAIN s : Key(s[k]) = Key(e)
  <2>1. Insert(s, e) = t
    BY <1>2 DEF Insert
  <2>2. s \in Seq(RowsOf(s) \cup {e})
    <3> DEFINE A == RowsOf(s)
    <3>1. s \in Seq(A)
      OBVIOUS
    <3> HIDE DEF A
    <3>2. s \in Seq(A \cup {e})
      BY <3>1
    <3> QED
      BY <3>2 DEF A
  <2>3. /\ Len(s) \in Nat /\ DOMAIN s = 1 .. Len(s)
        /\ DOMAIN t = 1 .. Len(s) + 1
        /\ \A k \in DOMAIN s : t[k] = s[k]
        /\ t[Len(s) + 1] = e
    <3> DEFINE A == RowsOf(s) \cup {e}
    <3>1. s \in Seq(A) /\ e \in A
      BY <2>2
    <3> HIDE DEF A
    <3> QED
      BY <3>1
  <2>4. t = [k \in 1 .. Len(s) + 1 |-> t[k]]
    <3> DEFINE A == RowsOf(s) \cup {e}
    <3>1. s \in Seq(A) /\ e \in A
      BY <2>2
    <3> HIDE DEF A
    <3>2. t \in Seq(A) /\ Len(t) = Len(s) + 1
      BY <3>1
    <3> HIDE DEF t
    <3> QED
      BY <3>2
  <2> HIDE DEF t
  <2>5. t \in Seq(RowsOf(t))
    <3> DEFINE A == RowsOf(t)
    <3>1. \A k \in 1 .. Len(s) + 1 : t[k] \in A
      BY <2>3 DEF RowsOf
    <3>2. Len(s) + 1 \in Nat
      BY <2>3
    <3> HIDE DEF A
    <3>3. [k \in 1 .. Len(s) + 1 |-> t[k]] \in Seq(A)
      BY <3>1, <3>2
    <3> QED
      BY <2>4, <3>3 DEF A
  <2>6. \A k \in DOMAIN t : k \in DOMAIN s \/ k = Len(s) + 1
    BY <2>3
  <2>7. KeysUnique(t)
    <3> SUFFICES ASSUME NEW j \in DOMAIN t, NEW k \in DOMAIN t, Key(t[j]) = Key(t[k])
                 PROVE  j = k
      BY DEF KeysUnique
    <3> HIDE DEF Key
    <3>1. CASE j \in DOMAIN s /\ k \in DOMAIN s
      BY <2>3, <3>1 DEF KeysUnique
    <3>2. CASE j \in DOMAIN s /\ k = Len(s) + 1
      BY <1>2, <2>3, <3>2
    <3>3. CASE j = Len(s) + 1 /\ k \in DOMAIN s
      BY <1>2, <2>3, <3>3
    <3> QED
      BY <2>6, <3>1, <3>2, <3>3
  <2>8. \A k \in DOMAIN t : t[k] = e \/ (k \in DOMAIN s /\ t[k] = s[k])
    BY <2>3, <2>6
  <2> QED
    BY <2>1, <2>5, <2>7, <2>8
<1> QED
  BY <1>1, <1>2

\* The registry holds one of the bundles.
RegistryInv == \E b \in Bundles : registry = BuildRegistry(b[1], b[2], b[3])

LEMMA RegistryStep ==
    /\ PredictionsInit => RegistryInv
    /\ RegistryInv /\ [PredictionsNext]_predictionVars => RegistryInv'
<1>1. ASSUME RegistryInv, [PredictionsNext]_predictionVars PROVE RegistryInv'
  <2>1. registry' = registry
          \/ \E b \in Bundles : registry' = BuildRegistry(b[1], b[2], b[3])
    BY <1>1 DEF PredictionsNext, predictionVars, BeginReport, BeginClosure, Commit, Rollback,
                UpdateSla, RecordPredictions, Restart, Tick
  <2> QED
    BY <1>1, <2>1 DEF RegistryInv
<1> QED
  BY <1>1 DEF PredictionsInit, RegistryInv

\* Every result is of the form Result(reg, task, x, ...) for its task.
LEMMA AnswerFields ==
    ASSUME NEW reg, NEW T, NEW q, NEW x
    PROVE  /\ PredictResolution(reg, T, q).task = "resolution"
           /\ PredictResolution(reg, T, q).sla = NONE
           /\ PredictSla(reg, T, q, x).task = "sla"
           /\ PredictSla(reg, T, q, x).sla = x
<1>1. ASSUME NEW task, NEW y, NEW blocker, NEW baselines
      PROVE  /\ BaselineResult(reg, task, y, blocker, baselines).task = task
             /\ BaselineResult(reg, task, y, blocker, baselines).sla
                  = IF task = "sla" THEN y ELSE NONE
  BY DEF BaselineResult, Result
<1>2. ASSUME NEW task, NEW y
      PROVE  /\ ModelResult(reg, T, q, task, y).task = task
             /\ ModelResult(reg, T, q, task, y).sla = IF task = "sla" THEN y ELSE NONE
  BY DEF ModelResult, Result
<1>3. /\ PredictResolution(reg, T, q).task = "resolution"
      /\ PredictResolution(reg, T, q).sla = NONE
  BY <1>1, <1>2 DEF PredictResolution
<1>4. CASE x = NONE
  BY <1>3, <1>4 DEF PredictSla, Result
<1>5. CASE x # NONE
  BY <1>1, <1>2, <1>3, <1>5 DEF PredictSla
<1> QED
  BY <1>4, <1>5

\* A row that is explained has the value of every answer with its key.
OneValue(f, i, row) ==
    \A b \in Bundles, x \in IF row.task = "sla" THEN SlaChoices ELSE {NONE} :
        Key(Answer(f, i, row.task, b, x)) = Key(row)
            => Answer(f, i, row.task, b, x).value = row.value

LEMMA ExplainedOneValue ==
    ASSUME NEW f, NEW i, NEW row, Explained(Table(f, Known(f, i)), i, row)
    PROVE  OneValue(f, i, row)
<1> DEFINE T == Table(f, Known(f, i))
<1>1. ASSUME NEW b \in Bundles, NEW x \in IF row.task = "sla" THEN SlaChoices ELSE {NONE},
             NEW a, a = Answer(f, i, row.task, b, x), Key(a) = Key(row)
      PROVE  a.value = row.value
  <2> DEFINE reg == BuildRegistry(b[1], b[2], b[3])
  <2>1. x \in SlaHours \cup {NONE}
    BY PredictionsAssumption
  <2>2. Explained(T, i, PredictResolution(reg, T, i)) /\ Explained(T, i, PredictSla(reg, T, i, x))
    BY <2>1, AnswersExplained
  <2>3. a = PredictResolution(reg, T, i) \/ a = PredictSla(reg, T, i, x)
    BY <1>1 DEF Answer
  <2> HIDE DEF T, reg
  <2>4. Explained(T, i, a)
    BY <2>2, <2>3
  <2>5. a.task = row.task /\ a.method = row.method /\ a.sla = row.sla
    BY <1>1 DEF Key
  <2> QED
    BY <2>4, <2>5 DEF Explained, T
<1> QED
  BY <1>1 DEF OneValue

\* What the service has just answered is current, a failure too.
LEMMA AnswerCurrent ==
    ASSUME NEW f, NEW i, NEW b \in Bundles, f[i].sla \in SlaHours \cup {NONE}, NEW n \in 1 .. 2
    PROVE  /\ RowCurrent(f, i, Predict(BuildRegistry(b[1], b[2], b[3]), f, i)[n])
           /\ Predict(BuildRegistry(b[1], b[2], b[3]), f, i)[n].sla \in SlaHours \cup {NONE}
<1> DEFINE T   == Table(f, Known(f, i))
           reg == BuildRegistry(b[1], b[2], b[3])
           x   == f[i].sla
           res == PredictResolution(reg, T, i)
           sla == PredictSla(reg, T, i, x)
<1>1. Predict(reg, f, i) = <<res, sla>>
  BY DEF Predict, PredictFor
<1>2. res.task = "resolution" /\ res.sla = NONE /\ sla.task = "sla" /\ sla.sla = x
  BY AnswerFields
<1>3. OneValue(f, i, res) /\ OneValue(f, i, sla)
  <2>1. Explained(T, i, res) /\ Explained(T, i, sla)
    BY AnswersExplained
  <2> HIDE DEF res, sla
  <2> QED
    BY <2>1, ExplainedOneValue
<1>4. /\ Answer(f, i, "resolution", b, NONE) = res
      /\ Answer(f, i, "sla", b, x) = sla
  BY DEF Answer
<1> HIDE DEF T, reg, x, res, sla
<1>5. ASSUME NEW r, r = res \/ r = sla
      PROVE  /\ Answer(f, i, r.task, b, r.sla) = r
             /\ RowCurrent(f, i, r)
             /\ r.sla \in SlaHours \cup {NONE}
  <2>1. Answer(f, i, r.task, b, r.sla) = r
    BY <1>2, <1>4, <1>5
  <2>2. OneValue(f, i, r)
    BY <1>3, <1>5
  <2>3. r.sla \in SlaHours \cup {NONE}
    BY <1>2, <1>5 DEF x
  <2> HIDE DEF Key
  <2> QED
    BY <2>1, <2>2, <2>3 DEF RowCurrent, OneValue
<1>6. <<res, sla>>[n] = res \/ <<res, sla>>[n] = sla
  OBVIOUS
<1> QED
  BY <1>1, <1>5, <1>6 DEF reg

LEMMA FailureCurrent ==
    ASSUME NEW f, NEW i, NEW reg, NEW task
    PROVE  /\ RowCurrent(f, i, InternalError(reg, task))
           /\ InternalError(reg, task).sla = NONE
<1> DEFINE r == InternalError(reg, task)
<1>1. /\ r.method = NONE /\ r.value = NONE /\ r.reasons = {"INTERNAL_ERROR"} /\ r.sla = NONE
  BY DEF InternalError, Result
<1> HIDE DEF r
<1>2. OneValue(f, i, r)
  <2>1. Explained(Table(f, Known(f, i)), i, r)
    BY <1>1, UnavailableExplained
  <2> QED
    BY <2>1, ExplainedOneValue
<1> QED
  BY <1>1, <1>2 DEF RowCurrent, OneValue, r

\* A row stays current when every answer stays what it was.
LEMMA CurrentStays ==
    ASSUME TimedInv, TimedInv', Changes, NEW i \in Ids, filed[i] # NONE,
           ~ LateCommit(filed[i].created),
           NEW row, row.sla \in SlaHours \cup {NONE}, RowCurrent(filed, i, row)
    PROVE  RowCurrent(filed', i, row)
<1>1. \A b, x : x \in SlaHours \cup {NONE} =>
          Answer(filed', i, row.task, b, x) = Answer(filed, i, row.task, b, x)
  BY AnswersEqual
<1>2. \A x \in IF row.task = "sla" THEN SlaChoices ELSE {NONE} : x \in SlaHours \cup {NONE}
  BY PredictionsAssumption
<1> HIDE DEF Key
<1> QED
  BY <1>1, <1>2 DEF RowCurrent

\* What a call of predict_incident does to the log of the incident.
LEMMA RecordedRows ==
    ASSUME TimedInv, LogInv, RegistryInv, NEW i \in Predicted, NEW failed \in BOOLEAN,
           RecordPredictions(i, failed)
    PROVE  /\ i \in Ids /\ filed[i] # NONE /\ filed' = filed
           /\ DOMAIN log' = Ids /\ \A j \in Ids \ {i} : log'[j] = log[j]
           /\ log'[i] \in Seq(RowsOf(log'[i])) /\ KeysUnique(log'[i])
           /\ \A k \in DOMAIN log'[i] :
                \/ k \in DOMAIN log[i] /\ log'[i][k] = log[i][k]
                \/ RowCurrent(filed, i, log'[i][k]) /\ log'[i][k].sla \in SlaHours \cup {NONE}
<1> DEFINE answer == IF failed THEN <<InternalError(registry, "resolution"),
                                      InternalError(registry, "sla")>>
                     ELSE Predict(registry, filed, i)
           s == Insert(log[i], answer[1])
           t == Insert(s, answer[2])
<1>1. i \in Ids /\ filed[i] # NONE /\ filed' = filed /\ log' = [log EXCEPT ![i] = t]
  BY PredictionsAssumption DEF RecordPredictions, Filed
<1>2. \A n \in 1 .. 2 : RowCurrent(filed, i, answer[n]) /\ answer[n].sla \in SlaHours \cup {NONE}
  <2>1. CASE failed
    <3>1. answer[1] = InternalError(registry, "resolution")
          /\ answer[2] = InternalError(registry, "sla")
      BY <2>1
    <3> HIDE DEF answer
    <3>2. RowCurrent(filed, i, answer[1]) /\ RowCurrent(filed, i, answer[2])
      BY <3>1, FailureCurrent
    <3>3. answer[1].sla = NONE /\ answer[2].sla = NONE
      BY <3>1, FailureCurrent
    <3>4. \A n \in 1 .. 2 : n = 1 \/ n = 2
      OBVIOUS
    <3> QED
      BY <3>2, <3>3, <3>4
  <2>2. CASE ~ failed
    <3>1. filed[i].sla \in SlaHours \cup {NONE}
      BY <1>1 DEF TimedInv, Row
    <3>2. PICK b \in Bundles : registry = BuildRegistry(b[1], b[2], b[3])
      BY DEF RegistryInv
    <3>3. answer = Predict(BuildRegistry(b[1], b[2], b[3]), filed, i)
      BY <2>2, <3>2
    <3> HIDE DEF answer
    <3> QED
      BY <3>1, <3>3, AnswerCurrent
  <2> QED
    BY <2>1, <2>2
<1> HIDE DEF answer
<1>3. log[i] \in Seq(RowsOf(log[i])) /\ KeysUnique(log[i])
  BY <1>1 DEF LogInv
<1>4. /\ s \in Seq(RowsOf(s)) /\ KeysUnique(s)
      /\ \A k \in DOMAIN s : s[k] = answer[1] \/ (k \in DOMAIN log[i] /\ s[k] = log[i][k])
  BY <1>3, InsertRow
<1> HIDE DEF s
<1>5. /\ t \in Seq(RowsOf(t)) /\ KeysUnique(t)
      /\ \A k \in DOMAIN t : t[k] = answer[2] \/ (k \in DOMAIN s /\ t[k] = s[k])
  BY <1>4, InsertRow
<1> HIDE DEF t
<1>6. \A k \in DOMAIN t : \/ t[k] = answer[1] \/ t[k] = answer[2]
                          \/ k \in DOMAIN log[i] /\ t[k] = log[i][k]
  BY <1>4, <1>5
<1>7. DOMAIN log' = Ids /\ log'[i] = t /\ \A j \in Ids \ {i} : log'[j] = log[j]
  BY <1>1 DEF LogInv
<1>8. 1 \in 1 .. 2 /\ 2 \in 1 .. 2
  OBVIOUS
<1> QED
  BY <1>1, <1>2, <1>5, <1>6, <1>7, <1>8

LEMMA LogChanges ==
    ASSUME [PredictionsNext]_predictionVars
    PROVE  log' = log \/ \E i \in Predicted, failed \in BOOLEAN : RecordPredictions(i, failed)
  BY DEF PredictionsNext, predictionVars, BeginReport, BeginClosure, Commit, Rollback, UpdateSla,
         Restart, Tick

LEMMA LogStep ==
    ASSUME TimedInv, LogInv, RegistryInv, [PredictionsNext]_predictionVars
    PROVE  LogInv'
<1>1. Changes
  BY StepChanges
<1>2. CASE log' = log
  <2>1. \A i \in Ids : Filed(i) => filed'[i] # NONE
    BY <1>1 DEF Changes, Kept, Filed
  <2> QED
    BY <1>2, <2>1 DEF LogInv, Filed
<1>3. ASSUME NEW i \in Predicted, NEW failed \in BOOLEAN, RecordPredictions(i, failed)
      PROVE  LogInv'
  <2>1. /\ i \in Ids /\ filed[i] # NONE /\ filed' = filed
        /\ DOMAIN log' = Ids /\ \A j \in Ids \ {i} : log'[j] = log[j]
        /\ log'[i] \in Seq(RowsOf(log'[i])) /\ KeysUnique(log'[i])
        /\ \A k \in DOMAIN log'[i] :
             \/ k \in DOMAIN log[i] /\ log'[i][k] = log[i][k]
             \/ RowCurrent(filed, i, log'[i][k]) /\ log'[i][k].sla \in SlaHours \cup {NONE}
    BY <1>3, RecordedRows
  <2>2. \A k \in DOMAIN log'[i] : log'[i][k].sla \in SlaHours \cup {NONE}
    BY <2>1 DEF LogInv
  <2> SUFFICES ASSUME NEW j \in Ids
               PROVE  /\ log'[j] \in Seq(RowsOf(log'[j])) /\ KeysUnique(log'[j])
                      /\ log'[j] # <<>> => filed[j] # NONE
                      /\ \A k \in DOMAIN log'[j] : log'[j][k].sla \in SlaHours \cup {NONE}
    BY <2>1 DEF LogInv, Filed
  <2>3. CASE j = i
    BY <2>1, <2>2, <2>3
  <2>4. CASE j # i
    BY <2>1, <2>4 DEF LogInv, Filed
  <2> QED
    BY <2>3, <2>4
<1> QED
  BY <1>2, <1>3, LogChanges

LEMMA AlwaysLogged == PredictionsSpec => [](TimedInv /\ LogInv /\ RegistryInv)
<1>1. PredictionsInit => LogInv
  BY DEF PredictionsInit, LogInv, RowsOf, KeysUnique
<1>2. ASSUME TimedInv, LogInv, RegistryInv, [PredictionsNext]_predictionVars PROVE LogInv'
  BY <1>2, LogStep
<1> QED
  BY <1>1, <1>2, AlwaysTimed, RegistryStep, PTL DEF PredictionsSpec

(***************************************************************************)
(* The deduplicated log of the prediction service is current: for any      *)
(* incidents, bundles, restarts and failures, every row that is inserted   *)
(* is, with all its fields, what would be answered in the state of its     *)
(* bundle and for its window, no other value could come under its key, and *)
(* only the commit of a transaction that is older than the report of the   *)
(* incident takes that away.                                               *)
(***************************************************************************)
THEOREM LogAlwaysCurrent == PredictionsSpec => LogStaysCurrent
<1> DEFINE StaysCurrent ==
      \A i \in Predicted : \A k \in DOMAIN log'[i] :
          \/ filed' = filed /\ k \in DOMAIN log[i] /\ log'[i][k] = log[i][k]
          \/ LateCommit(filed[i].created)
          \/ RowCurrent(filed', i, log'[i][k])
          \/ k \in DOMAIN log[i] /\ ~ RowCurrent(filed, i, log[i][k])
<1>1. ASSUME TimedInv, TimedInv', LogInv, RegistryInv, [PredictionsNext]_predictionVars,
             NEW i \in Predicted, NEW k \in DOMAIN log'[i], ~ LateCommit(filed[i].created)
      PROVE  \/ filed' = filed /\ k \in DOMAIN log[i] /\ log'[i][k] = log[i][k]
             \/ RowCurrent(filed', i, log'[i][k])
             \/ k \in DOMAIN log[i] /\ ~ RowCurrent(filed, i, log[i][k])
  <2>1. i \in Ids /\ Changes
    BY <1>1, StepChanges, PredictionsAssumption
  <2>2. CASE log' = log
    <3>1. k \in DOMAIN log[i] /\ log'[i][k] = log[i][k] /\ log[i][k].sla \in SlaHours \cup {NONE}
      BY <1>1, <2>1, <2>2 DEF LogInv
    <3>2. filed[i] # NONE
      <4>1. log[i] \in Seq(RowsOf(log[i])) /\ (log[i] # <<>> => filed[i] # NONE)
        BY <1>1, <2>1 DEF LogInv, Filed
      <4>2. log[i] # <<>>
        BY <3>1
      <4> QED
        BY <4>1, <4>2
    <3>3. ASSUME RowCurrent(filed, i, log[i][k]) PROVE RowCurrent(filed', i, log[i][k])
      BY <1>1, <2>1, <3>1, <3>2, <3>3, CurrentStays
    <3> QED
      BY <3>1, <3>3
  <2>3. ASSUME NEW j \in Predicted, NEW failed \in BOOLEAN, RecordPredictions(j, failed)
        PROVE  \/ filed' = filed /\ k \in DOMAIN log[i] /\ log'[i][k] = log[i][k]
               \/ RowCurrent(filed', i, log'[i][k])
    <3>1. /\ filed' = filed /\ \A m \in Ids \ {j} : log'[m] = log[m]
          /\ \A m \in DOMAIN log'[j] :
               \/ m \in DOMAIN log[j] /\ log'[j][m] = log[j][m]
               \/ RowCurrent(filed, j, log'[j][m])
      BY <1>1, <2>3, RecordedRows
    <3>2. CASE i = j
      BY <1>1, <3>1, <3>2
    <3>3. CASE i # j
      BY <1>1, <2>1, <3>1, <3>3
    <3> QED
      BY <3>2, <3>3
  <2> QED
    BY <1>1, <2>2, <2>3, LogChanges
<1>2. TimedInv /\ TimedInv' /\ LogInv /\ RegistryInv /\ [PredictionsNext]_predictionVars
        => [StaysCurrent]_<<filed, log>>
  BY <1>1
<1> QED
  BY <1>2, AlwaysLogged, PTL DEF PredictionsSpec, LogStaysCurrent

-----------------------------------------------------------------------------
(***************************************************************************)
(* The breach evidence agrees with the evaluation, however late the        *)
(* transactions commit: an incident that counts was reported before the    *)
(* deadline's window, and now is not before the report that counts it.     *)
(***************************************************************************)
THEOREM EvidenceAlwaysTheOutcome == PredictionsSpec => []EvidenceIsTheOutcome
<1>1. TimedInv /\ LogInv /\ RegistryInv => PredictionsTypeOK
  <2>1. \A enabled, version, disk : BuildRegistry(enabled, version, disk).ready \subseteq Components
    BY DEF BuildRegistry
  <2> HIDE DEF Key
  <2> QED
    BY <2>1 DEF PredictionsTypeOK, TimedInv, LogInv, RegistryInv, KeysUnique, Stamp
<1>2. ASSUME TimedInv, NEW i \in Predicted, Filed(i), NEW x \in SlaChoices \ {NONE}
      PROVE  LET T == Table(filed, Known(filed, i)) IN
             /\ \A j \in RateWindow(T, i, x) \cup LocalOutcomes(T, i, x, NONE) :
                   Outcome("sla", T[j], x, now) = IF Breached(T[j], x) THEN "BREACHED" ELSE "MET"
             /\ RateWindow(T, i, x) = LocalOutcomes(T, i, x, Month)
  <2> DEFINE T == Table(filed, Known(filed, i))
             t == T[i].created
             d == x * Hour
  <2>1. x \in SlaHours /\ i \in Ids /\ d \in Nat /\ Month \in Nat
    BY <1>2, PredictionsAssumption, HoursInMinutes, Periods
  <2>2. ASSUME NEW j \in DOMAIN T
        PROVE  /\ T[j] \in Row /\ Dated(T[j], now) /\ T[j].created \in Nat
               /\ T[j].closed \in Nat \cup {NONE} /\ T[j].category \in Categories
    <3>1. j \in Ids /\ T[j] = filed[j] /\ filed[j] # NONE
      BY <2>2 DEF Table, Known, InArea
    <3>2. T[j] \in Row /\ Dated(T[j], now)
      BY <1>2, <3>1 DEF TimedInv, Filed
    <3> HIDE DEF T
    <3> QED
      BY <3>2, RowFacts DEF Row
  <2>3. i \in DOMAIN T
    <3>1. filed[i].created <= filed[i].created
      BY <1>2, <2>1, RowFacts DEF TimedInv, Filed
    <3> QED
      BY <1>2, <2>1, <3>1 DEF Table, Known, InArea, Filed
  <2>4. now \in Nat /\ now <= MaxRes /\ t \in Nat /\ t <= now
    BY <1>2, <2>2, <2>3, RowFacts DEF TimedInv, Dated
  <2>5. MaxRes \in Nat /\ NONE \notin Nat /\ NONE \notin Categories
    BY Periods, PredictionsAssumption
  <2> HIDE DEF T, t, d
  <2>6. ASSUME NEW j \in DOMAIN T, T[j].created < t - d
        PROVE  Outcome("sla", T[j], x, now) = IF Breached(T[j], x) THEN "BREACHED" ELSE "MET"
    <3> DEFINE r == T[j]
    <3>1. r.created \in Nat /\ r.closed \in Nat \cup {NONE} /\ now >= r.created + d /\ x # NONE
      BY <1>2, <2>1, <2>2, <2>4, <2>6
    <3> HIDE DEF r
    <3>2. r.closed # NONE => (r.closed >= r.created + d <=> r.closed - r.created >= d)
      BY <2>1, <3>1
    <3> QED
      BY <3>1, <3>2 DEF Outcome, Breached, Duration, d, r
  <2>7. ASSUME NEW j \in RateWindow(T, i, x) \cup LocalOutcomes(T, i, x, NONE)
        PROVE  j \in DOMAIN T /\ T[j].created < t - d
    BY <2>7 DEF RateWindow, LocalOutcomes, ReportedIn, SameCategory, Between, Like, t, d
  <2>8. RateWindow(T, i, x) = LocalOutcomes(T, i, x, Month)
    <3>1. RateWindow(T, i, x) =
            {j \in DOMAIN T : /\ T[j].category = T[i].category
                              /\ t - d - Month <= T[j].created /\ T[j].created < t - d
                              /\ T[j].closed = NONE \/ Valid(T[j])}
      BY DEF RateWindow, ReportedIn, SameCategory, Between, t, d
    <3>2. LocalOutcomes(T, i, x, Month) =
            {j \in DOMAIN T \ {i} : /\ T[j].category = T[i].category
                                    /\ T[j].created < t - d
                                    /\ T[j].created >= t - d - Month
                                    /\ T[j].closed # NONE => Duration(T[j]) >= 1}
      <4>1. T[i].category # NONE /\ Month # NONE
        BY <2>1, <2>2, <2>3, <2>5
      <4> QED
        BY <4>1 DEF LocalOutcomes, Like, t, d
    <3>3. ASSUME NEW j \in DOMAIN T
          PROVE  /\ (T[j].closed = NONE \/ Valid(T[j]))
                       <=> (T[j].closed # NONE => Duration(T[j]) >= 1)
                 /\ T[j].created < t - d => j # i
                 /\ t - d - Month <= T[j].created <=> T[j].created >= t - d - Month
      <4>1. T[j].closed # NONE => Duration(T[j]) <= MaxRes
        BY <2>2, <2>4, <2>5 DEF Duration, Dated
      <4>2. T[i].created = t
        BY DEF t
      <4> QED
        BY <2>1, <2>2, <2>4, <4>1, <4>2 DEF Valid
    <3> QED
      BY <3>1, <3>2, <3>3
  <2> QED
    BY <2>6, <2>7, <2>8 DEF T
<1>3. TimedInv /\ LogInv /\ RegistryInv => EvidenceIsTheOutcome
  BY <1>1, <1>2 DEF EvidenceIsTheOutcome
<1> QED
  BY <1>3, AlwaysLogged, PTL

-----------------------------------------------------------------------------
(***************************************************************************)
(* The forecast counts whole weeks before the one that runs, and what is   *)
(* new is reported in that one.                                            *)
(***************************************************************************)
NewThisWeek(T, U, t) ==
    /\ DOMAIN T \subseteq DOMAIN U
    /\ \A j \in DOMAIN T : SameReport(T[j], U[j]) /\ T[j].created \in Nat
    /\ \A j \in DOMAIN U \ DOMAIN T : /\ WeekOf(U[j].created) \in Int
                                      /\ WeekOf(U[j].created) >= WeekOf(t)

LEMMA SameForecast ==
    ASSUME NEW T, NEW U, NEW t \in Nat, NEW u \in Nat, WeekOf(u) = WeekOf(t),
           NewThisWeek(T, U, t), NEW reg, NEW category
    PROVE  Forecast(reg, U, category, u) = Forecast(reg, T, category, t)
<1> DEFINE weeks == CountedWeeks(T, t)
           counted == {i \in DOMAIN T : T[i].category = category /\ WeekOf(T[i].created) \in weeks}
           cells(V) == {Cell(V[i]) : i \in counted}
           count(V, c, w) == {i \in counted : Cell(V[i]) = c /\ WeekOf(V[i].created) = w}
<1>1. WeekOf(t) \in Int
  BY Periods DEF WeekOf
<1>2. \A w \in 0 .. WeekOf(t) - 1 : w \in Int /\ w < WeekOf(t)
  BY <1>1
<1>3. \A j \in DOMAIN T : /\ U[j].created = T[j].created /\ U[j].category = T[j].category
                          /\ U[j].place = T[j].place /\ j \in DOMAIN U
  BY DEF SameReport, NewThisWeek
<1>4. CountedWeeks(U, u) = weeks
  <2>1. ASSUME NEW j \in DOMAIN U \ DOMAIN T, NEW w \in 0 .. WeekOf(t) - 1
        PROVE  ~ (WeekOf(U[j].created) < w) /\ WeekOf(U[j].created) # w
    <3>1. WeekOf(U[j].created) \in Int /\ WeekOf(U[j].created) >= WeekOf(t)
      BY DEF NewThisWeek
    <3> HIDE DEF WeekOf
    <3> QED
      BY <1>1, <3>1
  <2> HIDE DEF WeekOf
  <2> QED
    BY <1>3, <2>1 DEF CountedWeeks
<1>5. weeks \subseteq 0 .. WeekOf(t) - 1
  BY DEF CountedWeeks
<1> HIDE DEF weeks
<1>6. {i \in DOMAIN U : U[i].category = category /\ WeekOf(U[i].created) \in weeks} = counted
  <2>1. ASSUME NEW j \in DOMAIN U \ DOMAIN T PROVE WeekOf(U[j].created) \notin weeks
    <3>1. WeekOf(U[j].created) \in Int /\ WeekOf(U[j].created) >= WeekOf(t)
      BY DEF NewThisWeek
    <3> HIDE DEF WeekOf
    <3> QED
      BY <1>1, <1>2, <1>5, <3>1
  <2> HIDE DEF WeekOf
  <2> QED
    BY <1>3, <2>1
<1>7. \A i \in counted : Cell(U[i]) = Cell(T[i]) /\ U[i].created = T[i].created
  BY <1>3 DEF Cell
<1> HIDE DEF counted
<1>8. cells(U) = cells(T) /\ \A c, w : count(U, c, w) = count(T, c, w)
  BY <1>7
<1>9. /\ Forecast(reg, T, category, t) =
            IF "hotspot" \notin reg.ready \/ weeks = {}
            THEN [status |-> "UNAVAILABLE", cells |-> <<>>]
            ELSE [status |-> IF Cardinality(weeks) >= MinWeeks /\ category \in SUPPORTED
                             THEN "AVAILABLE" ELSE "EXPERIMENTAL",
                  cells  |-> [c \in cells(T) |-> [w \in weeks |-> Cardinality(count(T, c, w))]]]
      /\ Forecast(reg, U, category, u) =
            IF "hotspot" \notin reg.ready \/ weeks = {}
            THEN [status |-> "UNAVAILABLE", cells |-> <<>>]
            ELSE [status |-> IF Cardinality(weeks) >= MinWeeks /\ category \in SUPPORTED
                             THEN "AVAILABLE" ELSE "EXPERIMENTAL",
                  cells  |-> [c \in cells(U) |-> [w \in weeks |-> Cardinality(count(U, c, w))]]]
  BY <1>4, <1>6 DEF Forecast, weeks, counted
<1> HIDE DEF cells, count
<1>10. [c \in cells(U) |-> [w \in weeks |-> Cardinality(count(U, c, w))]]
         = [c \in cells(T) |-> [w \in weeks |-> Cardinality(count(T, c, w))]]
  BY <1>8
<1> QED
  BY <1>9, <1>10

(***************************************************************************)
(* The forecast for a week does not change while the week runs, whatever   *)
(* is reported, resolved or reopened in it, for any areas and periods, but *)
(* by the commit of a report of an earlier week.                           *)
(***************************************************************************)
THEOREM ForecastAlwaysSettled == PredictionsSpec => ForecastIsSettled
<1> DEFINE Belated == \E w \in Committed : w.row # NONE /\ WeekOf(w.at) < WeekOf(now)
           Settled ==
      <<now', filed'>> # <<now, filed>> /\ WeekOf(now') = WeekOf(now) /\ registry' = registry =>
          \A r \in Reports : r[3].area # NONE =>
              \/ Hotspots(registry', filed', r[3].area, r[2], now')
                     = Hotspots(registry, filed, r[3].area, r[2], now)
              \/ Belated
<1>1. ASSUME TimedInv, [PredictionsNext]_predictionVars, WeekOf(now') = WeekOf(now),
             ~ Belated, NEW area, NEW category
      PROVE  Hotspots(registry, filed', area, category, now')
               = Hotspots(registry, filed, area, category, now)
  <2> DEFINE T == Table(filed, InArea(filed, area))
             U == Table(filed', InArea(filed', area))
  <2>1. Changes /\ now \in Nat /\ now' \in Nat
    BY <1>1, StepChanges, RowFacts DEF Changes, TimedInv
  <2>2. /\ DOMAIN T = InArea(filed, area) /\ DOMAIN U = InArea(filed', area)
        /\ \A j \in DOMAIN T : T[j] = filed[j]
        /\ \A j \in DOMAIN U : U[j] = filed'[j]
    BY DEF Table
  <2> HIDE DEF T, U
  <2>3. ASSUME NEW j \in DOMAIN T
        PROVE  j \in DOMAIN U /\ SameReport(T[j], U[j]) /\ T[j].created \in Nat
    <3>1. j \in Ids /\ filed[j] # NONE /\ filed[j] \in Row
      BY <1>1, <2>2, <2>3 DEF InArea, TimedInv
    <3>2. filed'[j] # NONE /\ SameReport(filed[j], filed'[j])
      BY <2>1, <3>1 DEF Changes, Kept
    <3>3. j \in DOMAIN U
      BY <2>2, <2>3, <3>1, <3>2 DEF InArea, SameReport
    <3> QED
      BY <2>2, <2>3, <3>1, <3>2, <3>3, RowFacts
  <2>4. ASSUME NEW j \in DOMAIN U \ DOMAIN T
        PROVE  WeekOf(U[j].created) \in Int /\ WeekOf(U[j].created) >= WeekOf(now)
    <3>1. j \in Ids /\ filed'[j] # NONE
      BY <2>2, <2>4 DEF InArea
    <3>2. filed[j] = NONE
      BY <2>1, <2>2, <2>4, <3>1 DEF InArea, Changes, Kept, SameReport
    <3>3. PICK w \in Committed : w.row = filed'[j] /\ w.row # NONE
      BY <2>1, <3>1, <3>2 DEF Changes
    <3>4. w.row.created = w.at /\ w.at \in Nat
      BY <1>1, <3>3, RowFacts DEF TimedInv, Committed, Stamp
    <3>5. U[j].created = w.at
      BY <2>2, <2>4, <3>3, <3>4
    <3>6. ~ (WeekOf(w.at) < WeekOf(now))
      BY <1>1, <3>3
    <3>7. WeekOf(w.at) \in Int /\ WeekOf(now) \in Int
      BY <2>1, <3>4, Periods DEF WeekOf
    <3> HIDE DEF WeekOf
    <3>8. WeekOf(w.at) >= WeekOf(now)
      BY <3>6, <3>7
    <3> QED
      BY <3>5, <3>7, <3>8
  <2>5. /\ DOMAIN T \subseteq DOMAIN U
        /\ \A j \in DOMAIN T : SameReport(T[j], U[j]) /\ T[j].created \in Nat
    BY <2>3
  <2>6. Forecast(registry, U, category, now') = Forecast(registry, T, category, now)
    <3>1. WeekOf(now') = WeekOf(now) /\ now \in Nat /\ now' \in Nat
      BY <1>1, <2>1
    <3>2. NewThisWeek(T, U, now)
      BY <2>4, <2>5 DEF NewThisWeek
    <3> QED
      BY <3>1, <3>2, SameForecast
  <2> QED
    BY <2>6 DEF Hotspots, T, U
<1>2. TimedInv /\ [PredictionsNext]_predictionVars => [Settled]_<<now, filed>>
  BY <1>1
<1> QED
  BY <1>2, AlwaysTimed, PTL DEF PredictionsSpec, ForecastIsSettled
=============================================================================
