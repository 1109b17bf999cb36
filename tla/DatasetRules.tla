---------------------------- MODULE DatasetRules ----------------------------
(***************************************************************************)
(* The rules by which the ML pipeline turns cleaned 311 records into       *)
(* datasets: what cleaning keeps, the chronological split, the weekly      *)
(* hotspot panel, the backward-looking density features, the baseline      *)
(* priority policy, and the duplicate pairs.  Pipeline.tla uses them as    *)
(* the contents its steps write.                                           *)
(*                                                                         *)
(* A record is an element of Records and Facts gives its published         *)
(* columns.  Times are hours.  A place is a number of metres eastwards along *)
(* the row of grid cells it lies in: a row is a range of latitudes, and the *)
(* further it is from the equator the narrower are its cells.  Rows of     *)
(* places are further apart than any radius below.  Fractions are integers *)
(* over the denominators named below; where the code adds floats the sums  *)
(* here are exact.                                                         *)
(***************************************************************************)
EXTENDS Integers, FiniteSets, FiniteSetsExt, Functions

CONSTANTS
  Records,     \* what the publishers' files can hold
  Facts,       \* Facts[r]: src, at, closed, due, row, place, zone, category, parent
  BaseScore,   \* category_base_score in percent: its domain is the canonical taxonomy
  AbsoluteP1,  \* category_absolute_p1
  Excluded,    \* categories of the service request types Chicago leaves out (exclude_sr_types)
  TrainEnd,    \* splits.tabular.train_end and val_end
  ValEnd,
  CellWidth,   \* CellWidth[row]: the least width in metres of a density grid cell of the row
  NONE         \* a null

ASSUME DatasetRulesAssumption ==
  /\ CellWidth \in [DOMAIN CellWidth -> Nat \ {0}]
  /\ TrainEnd \in Nat /\ ValEnd \in Nat /\ TrainEnd <= ValEnd
  /\ IsFiniteSet(Records) /\ NONE \notin Int
  /\ \A r \in Records : Facts[r].at \in Nat \cup {NONE} /\ Facts[r].place \in Int \cup {NONE}
                     /\ Facts[r].row \in DOMAIN CellWidth
  /\ \A c \in DOMAIN BaseScore : BaseScore[c] \in 0..100
  /\ AbsoluteP1 \subseteq DOMAIN BaseScore

At == [r \in Records |-> Facts[r].at]
Source == [r \in Records |-> Facts[r].src]
Category(r) == Facts[r].category

-----------------------------------------------------------------------------
(* Cleaning and scope. *)

MAX_HOURS == 87600

\* A duration that is negative, unmeasurably short or absurd is no duration.
ResolutionHours(r) ==
  LET opened == Facts[r].at
      closed == Facts[r].closed
      hours == closed - opened
  IN IF opened = NONE \/ closed = NONE THEN NONE
     ELSE IF hours \in 1..MAX_HOURS THEN hours ELSE NONE

\* What the files of a publisher say of a report beyond the common columns.
ChicagoRow(r) == [due |-> NONE, parent |-> Facts[r].parent]
BostonRow(r) == [due |-> Facts[r].due, parent |-> NONE]
NewYorkRow(r) == [due |-> Facts[r].due, parent |-> NONE]
SanFranciscoRow(r) == [due |-> NONE, parent |-> NONE]

Published(r) ==
  CASE Source[r] = "chicago311" -> ChicagoRow(r)
    [] Source[r] = "boston311" -> BostonRow(r)
    [] Source[r] = "nyc311" -> NewYorkRow(r)
    [] Source[r] = "sf311" -> SanFranciscoRow(r)

SlaTarget(r) ==
  LET opened == Facts[r].at
      due == Published(r).due
  IN IF opened = NONE \/ due = NONE THEN NONE
     ELSE IF due >= opened THEN due - opened ELSE NONE

SlaBreach(r) ==
  IF ResolutionHours(r) = NONE \/ SlaTarget(r) = NONE THEN NONE
  ELSE ResolutionHours(r) > SlaTarget(r)

\* Chicago's rows of the types its download leaves out are removed.
Cleaned(rows) == {r \in rows : Source[r] = "chicago311" => Category(r) \notin Excluded}

InScope(rows) == {r \in rows : Category(r) \in DOMAIN BaseScore}
Closed(rows) == {r \in rows : ResolutionHours(r) # NONE}

-----------------------------------------------------------------------------
(* The chronological split.  T gives every row its time, cuts are in        *)
(* hundredths of an hour because quantiles interpolate.                     *)

TRAIN_PERCENT == 70
VAL_PERCENT == 85   \* 0.70 + 0.15
Folds == {"train", "val", "test"}

Known(rows, T) == {r \in rows : T[r] # NONE}

Fold(t, cut) ==
  IF t = NONE THEN "unassigned"
  ELSE IF 100 * t <= cut[1] THEN "train"
  ELSE IF 100 * t <= cut[2] THEN "val" ELSE "test"

EveryFoldHasRows(T, cut) ==
  \A f \in Folds : \E r \in DOMAIN T : Fold(T[r], cut) = f

\* The k-th smallest time, counting rows.
RowRank(T, k) ==
  CHOOSE t \in Range(T) :
    /\ Cardinality({r \in DOMAIN T : T[r] < t}) < k
    /\ k <= Cardinality({r \in DOMAIN T : T[r] <= t})

Quantile(T, percent) ==
  LET p == percent * (Cardinality(DOMAIN T) - 1)
      low == RowRank(T, p \div 100 + 1)
      high == IF p % 100 = 0 THEN low ELSE RowRank(T, p \div 100 + 2)
  IN 100 * low + (p % 100) * (high - low)

\* Python's round(): halves go to the even neighbour.
Round == [hundredths \in Nat |->
  LET k == hundredths \div 100
      f == hundredths % 100
  IN IF f > 50 \/ (f = 50 /\ k % 2 = 1) THEN k + 1 ELSE k]

Least(a, b) == IF a <= b THEN a ELSE b
Greatest(a, b) == IF a >= b THEN a ELSE b

DistinctIndices_NoClamp ==   \* MUTANT: the last distinct time may end val
  [n \in Nat |-> <<Round[TRAIN_PERCENT * n] - 1, Round[VAL_PERCENT * n] - 1>>]

\* The positions, among n distinct times, after which val and test begin.
DistinctIndices == [n \in Nat |->
  LET i1 == Least(Greatest(Round[TRAIN_PERCENT * n] - 1, 0), n - 3)
      i2 == Least(Greatest(Round[VAL_PERCENT * n] - 1, i1 + 1), n - 2)
  IN <<i1, i2>>]

DistinctValueCuts(T) ==
  LET nth(i) == CHOOSE t \in Range(T) : Cardinality({u \in Range(T) : u < t}) = i
      at == DistinctIndices[Cardinality(Range(T))]
  IN <<100 * nth(at[1]), 100 * nth(at[2])>>

\* Absolute cuts if they leave no fold empty, else quantiles of the rows, else
\* of the distinct times.  There is a row, and every row has a time.
CutPoints(T) ==
  LET absolute == <<100 * TrainEnd, 100 * ValEnd>>
      quantile == <<Quantile(T, TRAIN_PERCENT), Quantile(T, VAL_PERCENT)>>
      distinct == DistinctValueCuts(T)
  IN IF EveryFoldHasRows(T, absolute) THEN absolute
     ELSE IF EveryFoldHasRows(T, quantile) THEN quantile
     ELSE IF Cardinality(Range(T)) >= 3 /\ EveryFoldHasRows(T, distinct) THEN distinct
     ELSE quantile

\* The timeline of each group of G with its cuts
Cuts(T, G) ==
  LET dated == Known(DOMAIN T, T)
      timelines == {Restrict(T, {r \in dated : G[r] = g}) : g \in {G[r] : r \in dated}}
  IN {<<timeline, CutPoints(timeline)>> : timeline \in timelines}

\* Each group is cut on its own timeline.
ChronologicalSplit(T, G) ==
  LET cuts == Cuts(T, G)
      cut(r) == (CHOOSE c \in cuts : r \in DOMAIN c[1])[2]
  IN [r \in DOMAIN T |-> Fold(T[r], cut(r))]

OneGroup(rows) == [r \in rows |-> "ALL"]

-----------------------------------------------------------------------------
(* The hotspot panel: city x zone x category series over calendar weeks. *)

HOURS_PER_WEEK == 168
Week(r) == Facts[r].at \div HOURS_PER_WEEK
Series(r) == <<Facts[r].src, Facts[r].zone, Facts[r].category>>

Zoned(rows) == {r \in InScope(rows) : Facts[r].zone # NONE /\ Facts[r].at # NONE}

ReportsIn(rows, s, weeks) ==
  Cardinality({r \in rows : Series(r) = s /\ Week(r) \in weeks})

PanelWeeks_ObservedOnly(rows, city) ==   \* MUTANT: no complete calendar grid
  LET seen == {Week(r) : r \in {q \in rows : Facts[q].src = city}}
  IN IF Cardinality(seen) > 2 THEN seen \ {Min(seen), Max(seen)} ELSE seen

\* The city's calendar without its two partial boundary weeks.
PanelWeeks(rows, city) ==
  LET seen == {Week(r) : r \in {q \in rows : Facts[q].src = city}}
      full == Min(seen)..Max(seen)
  IN IF Cardinality(full) > 2 THEN full \ {Min(seen), Max(seen)} ELSE full

Calendar(rows) == [c \in {Facts[r].src : r \in rows} |-> PanelWeeks(rows, c)]

\* Every week of its city's calendar for every series, but the last.
PanelCells(rows) ==
  UNION {{<<s, w>> : w \in Calendar(rows)[s[1]] \ {Max(Calendar(rows)[s[1]])}} :
           s \in {Series(r) : r \in rows}}

\* Lags and rolling sums look at the panel's earlier weeks, the target at the
\* next one; the last week has no target and is dropped before the split.
HotspotPanel(incidents) ==
  LET rows == Zoned(incidents)
      weeks == Calendar(rows)
      cells == PanelCells(rows)
      count(s, w) == ReportsIn(rows, s, {w})
      back(s, w, n) ==
        LET last == {v \in weeks[s[1]] : v < w /\ Cardinality({u \in weeks[s[1]] : v <= u /\ u < w}) <= n}
        IN IF last = {} THEN NONE ELSE ReportsIn(rows, s, last)
      next(s, w) == Min({v \in weeks[s[1]] : v > w})
      start == [x \in cells |-> x[2] * HOURS_PER_WEEK]
      split == ChronologicalSplit(start, [x \in cells |-> x[1][1]])
      global == ChronologicalSplit(start, OneGroup(cells))
  IN [x \in cells |->
       [count |-> count(x[1], x[2]), previous |-> back(x[1], x[2], 1),
        rolling4 |-> back(x[1], x[2], 4), rolling12 |-> back(x[1], x[2], 12),
        future |-> count(x[1], next(x[1], x[2])),
        split |-> split[x], global |-> global[x]]]

-----------------------------------------------------------------------------
(* Historical density: how many earlier reports lie near this one. *)

RADIUS_M == 250
MAX_WINDOW == 720

FAR_M == 2000   \* the largest radius of any rule

\* Beyond every radius for places of two rows.
Distance(r, s) ==
  LET d == Facts[r].place - Facts[s].place
  IN IF Facts[r].row # Facts[s].row THEN FAR_M + 1 ELSE IF d < 0 THEN -d ELSE d

Cell(r) == Facts[r].place \div CellWidth[Facts[r].row]

Rings_Widest(row) ==   \* MUTANT: the ring does not follow from the latitude
  LET width == Max(Range(CellWidth)) IN Greatest(1, (RADIUS_M + width - 1) \div width)

\* How many cells away, in its row, a place within the radius can lie
Rings(row) == Greatest(1, (RADIUS_M + CellWidth[row] - 1) \div CellWidth[row])

Usable(rows) == {r \in rows : Facts[r].place # NONE /\ Facts[r].at # NONE}

\* The rows of the cell block, in the half-open window that ends before r.
Candidates(rows, r) ==
  {s \in Usable(rows) :
     /\ Facts[s].row = Facts[r].row
     /\ Cell(s) - Cell(r) \in (-Rings(Facts[r].row))..Rings(Facts[r].row)
     /\ Facts[r].at - MAX_WINDOW <= Facts[s].at
     /\ Facts[s].at < Facts[r].at}

NULLS == [similar24 |-> NONE, similar168 |-> NONE, similar720 |-> NONE,
          local |-> NONE, since |-> NONE]

HistoricalDensity(rows) ==
  LET near(r, hours) == {s \in Candidates(rows, r) :
                           Distance(r, s) <= RADIUS_M /\ Facts[r].at - Facts[s].at <= hours}
      similar(r, hours) == {s \in near(r, hours) : Category(s) = Category(r)}
      since(r) == IF similar(r, 720) = {} THEN NONE
                  ELSE Facts[r].at - Max({Facts[s].at : s \in similar(r, 720)})
  IN [r \in rows |->
       IF r \notin Usable(rows) THEN NULLS
       ELSE [similar24 |-> Cardinality(similar(r, 24)),
             similar168 |-> Cardinality(similar(r, 168)),
             similar720 |-> Cardinality(similar(r, 720)),
             local |-> Cardinality(near(r, 720)), since |-> since(r)]]

-----------------------------------------------------------------------------
(* The baseline priority policy over the inputs US data has: the category  *)
(* and two density counts.  A signal is an integer over 300.               *)

Weight == [category |-> 30, local |-> 3, similar720 |-> 3]   \* percent of the policy
Saturation == [local |-> 50, similar720 |-> 30]
OTHER_SCORE == 35
Bands == <<"P4", "P3", "P2", "P1">>
BandMin == [P1 |-> 75, P2 |-> 55, P3 |-> 30, P4 |-> 0]
Tiers == <<"LOW", "MEDIUM", "HIGH">>
TierMin == [HIGH |-> [inputs |-> 8, weight |-> 70],
            MEDIUM |-> [inputs |-> 3, weight |-> 30], LOW |-> [inputs |-> 0, weight |-> 0]]

Signals(r, density) ==
  [k \in DOMAIN Weight |->
     IF k = "category"
       THEN 3 * (IF Category(r) \in DOMAIN BaseScore THEN BaseScore[Category(r)] ELSE OTHER_SCORE)
     ELSE IF density[k] = NONE THEN NONE
     ELSE Least(density[k], Saturation[k]) * (300 \div Saturation[k])]

Available(signal) == {k \in DOMAIN signal : signal[k] # NONE}
WeightOf(inputs) == SumFunctionOnSet(Weight, inputs)
WeightedSum(signal) == SumFunction([k \in Available(signal) |-> Weight[k] * signal[k]])

ABSOLUTE_POLICY == [band |-> "P1", score |-> <<1, 1>>, tier |-> "HIGH", inputs |-> 1]

\* A score total/(300 * weight) reaches the minimum of a band.
Reaches(score, band) == 100 * score[1] >= BandMin[band] * score[2]
Deserves(inputs, weight, tier) ==
  inputs >= TierMin[tier].inputs /\ weight >= TierMin[tier].weight

\* The bands, and the tiers, are applied upwards, each over the ones before.
Overwrite(names, default, apply) ==
  LET kept == {i \in DOMAIN names : names[i] \in apply}
  IN IF kept = {} THEN default ELSE names[Max(kept)]

\* The block engine, which scores the tables.  Rows with an absolute category
\* are overwritten last.
ApplyBlock(r, density) ==
  LET signal == Signals(r, density)
      inputs == Available(signal)
      score == <<WeightedSum(signal), 300 * WeightOf(inputs)>>
      scored ==
        [band |-> Overwrite(Bands, "P4", {b \in Range(Bands) : Reaches(score, b)}), score |-> score,
         tier |-> Overwrite(Tiers, "LOW",
             {t \in Range(Tiers) : Deserves(Cardinality(inputs), WeightOf(inputs), t)}),
         inputs |-> Cardinality(inputs)]
  IN IF Category(r) \in AbsoluteP1 THEN ABSOLUTE_POLICY ELSE scored

\* A score as it is written, in ten-thousandths
Rounded(score) == (20000 * score[1] + score[2]) \div (2 * score[2])

-----------------------------------------------------------------------------
(* The duplicate pairs: positives from Chicago's parent pointers, a split  *)
(* of the connected components, and negatives drawn inside a fold.         *)

NEAR_M == 200
SHIFT_HOURS == 90 * 24
CO_LOCATED_HOURS == 7 * 24

Chicago(incidents) == {r \in incidents : Facts[r].src = "chicago311"}

Positives(incidents) ==
  LET children == {r \in Chicago(incidents) : Published(r).parent \in Chicago(incidents)}
  IN {<<Published(r).parent, r>> : r \in children}

Component_ByParent(pairs, r) ==   \* MUTANT: a child is grouped with its parent only
  {r} \cup {p[1] : p \in {x \in pairs : x[2] = r}}

\* The incidents that a chain of positive pairs links to r.
Component(pairs, r) ==
  LET linked == {p[1] : p \in pairs} \cup {p[2] : p \in pairs} \cup {r}
      closed(C) == \A p \in pairs : p[1] \in C <=> p[2] \in C
  IN {q \in linked : \A C \in SUBSET linked : (r \in C /\ closed(C)) => q \in C}

Earliest(rows) ==
  LET known == Known(rows, At) IN IF known = {} THEN NONE ELSE Min({At[r] : r \in known})

\* A component falls into the fold of its earliest report, under cuts that
\* give each positive pair one vote.
IncidentSplits(incidents) ==
  LET pairs == Positives(incidents)
      began == [r \in Chicago(incidents) |-> Earliest(Component(pairs, r))]
      vote == [p \in pairs |-> began[p[1]]]
      cuts == Cuts(vote, OneGroup(pairs))
  IN [r \in Chicago(incidents) |-> Fold(began[r], (CHOOSE c \in cuts : TRUE)[2])]

Hours(a, b) ==
  LET d == Facts[a].at - Facts[b].at IN IF d < 0 THEN -d ELSE d

Measured(a, b) == {a, b} \subseteq Usable({a, b})
SameGridCell(a, b) ==
  Facts[a].row = Facts[b].row /\ Facts[a].place \div NEAR_M = Facts[b].place \div NEAR_M

\* What each sampling strategy may draw.
MayDraw(strategy, a, b) ==
  CASE strategy = "N1_same_category_far_apart" ->
         Measured(a, b) /\ Category(a) = Category(b) /\ Distance(a, b) > FAR_M
    [] strategy = "N2_same_category_time_shifted" ->
         /\ Measured(a, b) /\ SameGridCell(a, b)
         /\ Category(a) = Category(b) /\ Distance(a, b) < NEAR_M /\ Hours(a, b) > SHIFT_HOURS
    [] strategy = "N3_different_category_nearby" ->
         /\ Measured(a, b) /\ SameGridCell(a, b)
         /\ Category(a) # Category(b) /\ Distance(a, b) < NEAR_M /\ Hours(a, b) < CO_LOCATED_HOURS
    [] strategy = "N4_random_unrelated" -> TRUE

Strategies == {"N1_same_category_far_apart", "N2_same_category_time_shifted",
               "N3_different_category_nearby", "N4_random_unrelated"}

\* Every pair a draw can contain: two incidents of one fold that has a positive
\* pair, never a known pair in either orientation.
Negatives(incidents, fold) ==
  LET pairs == Positives(incidents)
      members(f) == {r \in Chicago(incidents) : fold[r] = f}
  IN {x \in UNION {members(f) \X members(f) \X Strategies : f \in {fold[p[1]] : p \in pairs}} :
        /\ x[1] # x[2]
        /\ MayDraw(x[3], x[1], x[2])
        /\ <<x[1], x[2]>> \notin pairs /\ <<x[2], x[1]>> \notin pairs}

DuplicatePairs(incidents) ==
  LET fold == IncidentSplits(incidents)
  IN [positives |-> [p \in Positives(incidents) |-> fold[p[1]]],
      negatives |-> [x \in Negatives(incidents, fold) |-> fold[x[1]]]]

=============================================================================
