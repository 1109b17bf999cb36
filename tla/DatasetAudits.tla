--------------------------- MODULE DatasetAudits ---------------------------
(***************************************************************************)
(* What the scripts of scripts/validation check of the tables the steps    *)
(* wrote, by deriving the values again.  A script that samples rows may    *)
(* draw any of them, so a check here is over all rows.  An audit gives the *)
(* failures it may report.  Left out are the checks that no table of the   *)
(* right columns and keys fails (TF-2 to TF-4 pass over nulls, TF-6 asks   *)
(* that a local hour is not the UTC one, DN-7 follows from DN-6, TASK-2    *)
(* from the choice of predictors that vary on the training rows), DN-5,    *)
(* which is skipped below 5000 rows, and the comparisons of report times   *)
(* with the time of the audit (LK-2, LK-8).                                *)
(***************************************************************************)
EXTENDS DatasetRules

Flag(id, sound) == IF sound THEN {} ELSE {id}

-----------------------------------------------------------------------------
(* Splits *)

\* train, val and test follow each other within each group.
Ordered(rows, T, G, F) ==
  \A q, r \in rows :
    G[q] = G[r] /\ <<F[q], F[r]>> \in {<<"train", "val">>, <<"val", "test">>}
      => T[q] <= T[r]

FoldOf(table) == [r \in DOMAIN table |-> table[r].split.split]
OrderedRows(table) == Ordered(DOMAIN table, At, Source, FoldOf(table))

PanelStart(panel) == [x \in DOMAIN panel |-> x[2] * HOURS_PER_WEEK]
PanelCity(panel) == [x \in DOMAIN panel |-> x[1][1]]
PanelFold(panel) == [x \in DOMAIN panel |-> panel[x].split]
OrderedPanel(panel) ==
  Ordered(DOMAIN panel, PanelStart(panel), PanelCity(panel), PanelFold(panel))

\* audit_split: every fold has rows, and they follow each other.
AuditSplit(table) ==
  Flag("SPL-1", Folds \subseteq {table[r].split.split : r \in DOMAIN table})
  \cup Flag("SPL-2", OrderedRows(table))

AuditPanelSplit(panel) ==
  Flag("SPL-1", Folds \subseteq {panel[x].split : x \in DOMAIN panel})
  \cup Flag("SPL-2", OrderedPanel(panel))

-----------------------------------------------------------------------------
(* The hotspot panel: the neighbours of a row in the table itself *)

RowBefore(x, y) == x[1] = y[1] /\ x[2] < y[2]
Adjacent(panel, x, y) ==
  RowBefore(x, y) /\ ~ \E z \in DOMAIN panel : RowBefore(x, z) /\ RowBefore(z, y)

LagsAgree(panel) ==
  \A x, y \in DOMAIN panel : Adjacent(panel, x, y) => panel[y].previous = panel[x].count

TargetsAgree(panel) ==
  \A x, y \in DOMAIN panel : Adjacent(panel, x, y) => panel[x].future = panel[y].count

QuietWeek(panel) == \E x \in DOMAIN panel : panel[x].future = 0
BusyWeek(panel) == \E x \in DOMAIN panel : panel[x].future > 0

AuditHotspotCalendar(panel) ==
  Flag("TL-9", \A x, y \in DOMAIN panel : Adjacent(panel, x, y) => y[2] = x[2] + 1)
  \cup Flag("TL-9b", QuietWeek(panel))
  \cup Flag("TL-9c", QuietWeek(panel) /\ BusyWeek(panel))

-----------------------------------------------------------------------------
(* Feature tables against the incidents *)

\* The count of earlier reports near r, taken over all rows without any cells.
SameCategory(rows, r) == {s \in rows : Category(s) = Category(r)}

Recount(r, rows, hours) ==
  Cardinality({s \in Usable(rows) :
    /\ Distance(r, s) <= RADIUS_M
    /\ Facts[r].at - hours <= Facts[s].at /\ Facts[s].at < Facts[r].at})

\* LEAK-4: the 30 day count of a row that has one.
DensityAgrees(geo, incidents) ==
  \A r \in Usable(incidents) \cap DOMAIN geo :
    geo[r].similar720 # NONE => geo[r].similar720 = Recount(r, SameCategory(incidents, r), 720)

Zeroed(n) == IF n = NONE THEN 0 ELSE n

AuditDensity(geo, incidents) ==
  LET both == incidents \cap DOMAIN geo
      placed == {r \in both : Facts[r].place # NONE}
  IN Flag("DN-1", \A r \in both : (r \in placed) <=> (geo[r].similar24 # NONE))
     \cup Flag("DN-2", \A r \in DOMAIN geo :
                  /\ Zeroed(geo[r].similar24) <= Zeroed(geo[r].similar168)
                  /\ Zeroed(geo[r].similar168) <= Zeroed(geo[r].similar720))
     \cup Flag("DN-3", \A r \in DOMAIN geo : Zeroed(geo[r].similar720) <= Zeroed(geo[r].local))
     \cup Flag("DN-6", \A r \in Usable(both) :
                  /\ geo[r].similar24 = Recount(r, SameCategory(incidents, r), 24)
                  /\ geo[r].similar168 = Recount(r, SameCategory(incidents, r), 168)
                  /\ geo[r].similar720 = Recount(r, SameCategory(incidents, r), 720)
                  /\ geo[r].local = Recount(r, incidents, 720))
     \cup Flag("DN-8", \A r \in DOMAIN geo : geo[r].since # NONE => geo[r].since \in 0..MAX_WINDOW)
     \cup Flag("DN-9", \A r \in DOMAIN geo :
                  (geo[r].since # NONE) <=> (Zeroed(geo[r].similar720) > 0))

\* DS-1: sizes are those of the tables per source.  DS-5 is FeaturesCover.
AuditDataset(corpus, sizes) ==
  Flag("DS-1", Cardinality(corpus) = SumFunction(sizes))
FeaturesCover(id, rows, corpus) == Flag(id, rows = corpus)

\* The rows that have an hour after the join with the time table
WithHour(corpus, time) == Known(corpus, At) \cap time

\* TF-1: every row with a report time has its local hour.  TF-5: it is the one
\* derived again; a null is not equal to a null.
AuditTime(corpus, time) ==
  Flag("TF-1", Known(corpus, At) \subseteq time)
  \cup Flag("TF-5", WithHour(corpus, time) = corpus)

\* TG-5: some report has an observed duration.
AuditTarget(corpus) == Flag("TG-5", Closed(corpus) # {})

SeveralBands(policy) == \E q, r \in DOMAIN policy : policy[q].band # policy[r].band

\* In more than half of the categories the score is not the same for all rows.
ScoresVary(policy) ==
  LET rows(c) == {r \in DOMAIN policy : Category(r) = c}
      categories == {Category(r) : r \in DOMAIN policy}
      vary == {c \in categories : \E q, r \in rows(c) :
                 Rounded(policy[q].score) # Rounded(policy[r].score)}
  IN 2 * Cardinality(vary) > Cardinality(categories)

Policies(table) == [r \in DOMAIN table |-> table[r].policy]

\* Scores lie in [0, 1], and the tier is the one the available inputs deserve.
AuditPriority(table) ==
  LET policy(r) == table[r].policy
      weight(r) == WeightOf(Available(Signals(r, table[r].density)))
      expected(r) == Overwrite(Tiers, "LOW",
                     {t \in Range(Tiers) : Deserves(policy(r).inputs, weight(r), t)})
  IN Flag("PR-2", SeveralBands(Policies(table))) \cup Flag("PR-7", ScoresVary(Policies(table)))
     \cup Flag("PR-3", \A r \in DOMAIN table : policy(r).score[1] \in 0..policy(r).score[2])
     \cup Flag("PR-4", \A r \in DOMAIN table :
            \/ policy(r).tier = expected(r)
            \/ policy(r).score[1] = policy(r).score[2] /\ policy(r).band = "P1")

-----------------------------------------------------------------------------
(* The duplicate pairs and the task tables *)

\* LEAK-6: the pairs that begin with one incident.
FirstInOneFold(pairs) ==
  LET all == {<<p[1], pairs.positives[p]>> : p \in DOMAIN pairs.positives}
             \cup {<<x[1], pairs.negatives[x]>> : x \in DOMAIN pairs.negatives}
  IN \A x, y \in all : x[1] = y[1] => x[2] = y[2]

\* TL-8: the pairs an incident is in, on whichever side.
EntitiesInOneFold(pairs) ==
  LET all == (UNION {{<<p[1], pairs.positives[p]>>, <<p[2], pairs.positives[p]>>} :
                        p \in DOMAIN pairs.positives})
             \cup (UNION {{<<x[1], pairs.negatives[x]>>, <<x[2], pairs.negatives[x]>>} :
                        x \in DOMAIN pairs.negatives})
  IN \A x, y \in all : x[1] = y[1] => x[2] = y[2]

\* TASK-4, of the tasks that have a target: their rows all have one.
AuditPopulated(rows) == Flag("TASK-4", rows # {})

\* TL-5 looks for predictors with a value of their own per level of another one.
\* The levels are not modelled: it may find one in any table of four rows.
AuditEncodings(rows) == Flag("TL-5", Cardinality(rows) <= 3)

\* TL-5, TL-7, TL-11 and TL-11b of a task table whose rows are incidents.
AuditJoined(table, geo) ==
  Flag("TL-7", \A r \in DOMAIN table \cap DOMAIN geo : table[r].density = geo[r])
AuditTask(table) ==
  AuditEncodings(DOMAIN table)
  \cup Flag("TL-11", Folds \subseteq {table[r].split.split : r \in DOMAIN table})
  \cup Flag("TL-11b", OrderedRows(table))

\* TASK-4, TL-8 and TL-11 of the pairs, whose predictors are all numbers.
AuditPairs(pairs) ==
  AuditPopulated(DOMAIN pairs.positives \cup DOMAIN pairs.negatives)
  \cup Flag("TL-8", EntitiesInOneFold(pairs))
  \cup Flag("TL-11", Folds \subseteq {pairs.positives[p] : p \in DOMAIN pairs.positives}
                             \cup {pairs.negatives[x] : x \in DOMAIN pairs.negatives})

\* TASK-4, TL-5, TL-9, TL-11 and TL-11b of the hotspot panel, whose rows are weeks.
AuditPanel(panel) ==
  AuditPopulated(DOMAIN panel) \cup AuditEncodings(DOMAIN panel)
  \cup AuditHotspotCalendar(panel)
  \cup Flag("TL-11", Folds \subseteq {panel[x].split : x \in DOMAIN panel})
  \cup Flag("TL-11b", OrderedPanel(panel))
=============================================================================
