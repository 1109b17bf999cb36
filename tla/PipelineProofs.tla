--------------------------- MODULE PipelineProofs ---------------------------
(***************************************************************************)
(* Proofs about Pipeline, for any records, any publishers' files and any   *)
(* number of runs, deliveries and kills.                                   *)
(*                                                                         *)
(* First what the rules of DatasetRules compute, whatever the rows: the    *)
(* groups of duplicate reports and the chronological split.  Then that the tables on disk are made by these    *)
(* rules, whatever steps ran, failed or were killed (TablesInv), that a    *)
(* run that rebuilds them makes each of the ones before it (CorpusInv) of  *)
(* the incident table it has stacked (StackInv), that a run of all phases  *)
(* gets that far (FullInv), and that the checks find nothing in what it    *)
(* has built (CleanInv).                                                   *)
(***************************************************************************)
EXTENDS Pipeline, FiniteSetTheorems, TLAPS

-----------------------------------------------------------------------------
(***************************************************************************)
(* The least and the greatest of some integers.                            *)
(***************************************************************************)
LEMMA LeastIs ==
    ASSUME NEW S, NEW m \in S, S \subseteq Int, \A i \in S : m <= i
    PROVE  Min(S) = m
<1>1. Min(S) \in S /\ \A i \in S : Min(S) <= i
  BY DEF Min
<1>2. Min(S) \in Int /\ m \in Int /\ Min(S) <= m /\ m <= Min(S)
  BY <1>1
<1> HIDE DEF Min
<1> QED
  BY <1>2

LEMMA GreatestIs ==
    ASSUME NEW S, NEW m \in S, S \subseteq Int, \A i \in S : m >= i
    PROVE  Max(S) = m
<1>1. Max(S) \in S /\ \A i \in S : Max(S) >= i
  BY DEF Max
<1>2. Max(S) \in Int /\ m \in Int /\ Max(S) >= m /\ m >= Max(S)
  BY <1>1
<1> HIDE DEF Max
<1> QED
  BY <1>2

-----------------------------------------------------------------------------
(***************************************************************************)
(* The two incidents of a positive pair are linked to the same incidents,  *)
(* so the same report decides the fold of both.                            *)
(***************************************************************************)
LEMMA LinkedAlike ==
    ASSUME NEW X, NEW p \in Positives(X)
    PROVE  Component(Positives(X), p[1]) = Component(Positives(X), p[2])
<1> DEFINE pairs == Positives(X)
           linked == {y[1] : y \in pairs} \cup {y[2] : y \in pairs}
           closed(C) == \A y \in pairs : y[1] \in C <=> y[2] \in C
<1>1. p[1] \in linked /\ p[2] \in linked
  OBVIOUS
<1>2. /\ Component(pairs, p[1]) =
            {z \in linked : \A C \in SUBSET linked : (p[1] \in C /\ closed(C)) => z \in C}
      /\ Component(pairs, p[2]) =
            {z \in linked : \A C \in SUBSET linked : (p[2] \in C /\ closed(C)) => z \in C}
  <2>1. linked \cup {p[1]} = linked /\ linked \cup {p[2]} = linked
    BY <1>1
  <2> HIDE DEF pairs
  <2> QED
    BY <2>1 DEF Component
<1>3. \A C \in SUBSET linked : closed(C) => (p[1] \in C <=> p[2] \in C)
  OBVIOUS
<1> QED
  BY <1>2, <1>3

LEMMA PairsInOneFold ==
    ASSUME NEW X
    PROVE  EntitiesInOneFold(DuplicatePairs(X))
<1> DEFINE fold == IncidentSplits(X)
           table == DuplicatePairs(X)
<1>1. /\ DOMAIN table.positives = Positives(X)
      /\ \A p \in Positives(X) : table.positives[p] = fold[p[1]]
      /\ DOMAIN table.negatives = Negatives(X, fold)
      /\ \A x \in Negatives(X, fold) : table.negatives[x] = fold[x[1]]
  BY DEF DuplicatePairs
<1>2. ASSUME NEW p \in Positives(X) PROVE fold[p[1]] = fold[p[2]]
  <2>1. p[1] \in Chicago(X) /\ p[2] \in Chicago(X)
    BY DEF Positives
  <2>2. PICK cut : \A r \in Chicago(X) : fold[r] = Fold(Earliest(Component(Positives(X), r)), cut)
    BY DEF IncidentSplits
  <2> QED
    BY <2>1, <2>2, LinkedAlike
<1>3. ASSUME NEW x \in Negatives(X, fold) PROVE fold[x[1]] = fold[x[2]]
  BY DEF Negatives
<1> HIDE DEF fold, table
<1> DEFINE all == (UNION {{<<p[1], table.positives[p]>>, <<p[2], table.positives[p]>>} :
                             p \in DOMAIN table.positives})
                  \cup (UNION {{<<x[1], table.negatives[x]>>, <<x[2], table.negatives[x]>>} :
                             x \in DOMAIN table.negatives})
<1>4. \A y \in all : y[2] = fold[y[1]]
  <2>1. ASSUME NEW p \in Positives(X),
               NEW y \in {<<p[1], table.positives[p]>>, <<p[2], table.positives[p]>>}
        PROVE  y[2] = fold[y[1]]
    BY <1>1, <1>2, <2>1
  <2>2. ASSUME NEW x \in Negatives(X, fold),
               NEW y \in {<<x[1], table.negatives[x]>>, <<x[2], table.negatives[x]>>}
        PROVE  y[2] = fold[y[1]]
    BY <1>1, <1>3, <2>2
  <2> QED
    BY <1>1, <2>1, <2>2
<1>5. EntitiesInOneFold(table) = (\A x, y \in all : x[1] = y[1] => x[2] = y[2])
  BY Zenon DEF EntitiesInOneFold
<1> HIDE DEF all
<1> QED
  BY <1>4, <1>5 DEF table

-----------------------------------------------------------------------------
(***************************************************************************)
(* Finite sets of times: the number of smaller members ranks them from 0   *)
(* on without a gap.                                                       *)
(***************************************************************************)
Below(S, t) == {u \in S : u < t}

LEMMA RankBound ==
    ASSUME NEW S, IsFiniteSet(S), S \subseteq Int, NEW t \in S
    PROVE  /\ Cardinality(S) \in Nat /\ Cardinality(Below(S, t)) \in Nat
           /\ Cardinality(Below(S, t)) < Cardinality(S)
<1>1. Below(S, t) \in SUBSET S /\ t \notin Below(S, t)
  BY DEF Below
<1>2. Below(S, t) # S
  BY <1>1
<1>3. IsFiniteSet(Below(S, t)) /\ Cardinality(Below(S, t)) <= Cardinality(S)
      /\ Cardinality(Below(S, t)) # Cardinality(S)
  BY <1>1, <1>2, FS_Subset
<1> QED
  BY <1>3, FS_CardinalityType

LEMMA RankGrows ==
    ASSUME NEW S, IsFiniteSet(S), S \subseteq Int, NEW t \in S, NEW v \in S, t < v
    PROVE  Cardinality(Below(S, t)) < Cardinality(Below(S, v))
<1>1. Below(S, t) \in SUBSET Below(S, v) /\ t \in Below(S, v) /\ t \notin Below(S, t)
  <2>1. t \in Int /\ v \in Int /\ ~(t < t)
    OBVIOUS
  <2>2. \A u \in S : u < t => u < v
    BY <2>1
  <2> QED
    BY <2>1, <2>2 DEF Below
<1>2. Below(S, v) \in SUBSET S
  BY DEF Below
<1>3. IsFiniteSet(Below(S, v))
  BY <1>2, FS_Subset
<1>4. /\ Cardinality(Below(S, t)) <= Cardinality(Below(S, v))
      /\ Cardinality(Below(S, t)) # Cardinality(Below(S, v))
  BY <1>1, <1>3, FS_Subset
<1>5. Cardinality(Below(S, t)) \in Nat /\ Cardinality(Below(S, v)) \in Nat
  BY RankBound
<1> QED
  BY <1>4, <1>5

LEMMA RankOnto ==
    ASSUME NEW S, IsFiniteSet(S), S \subseteq Int, NEW i \in 0 .. (Cardinality(S) - 1)
    PROVE  \E t \in S : Cardinality(Below(S, t)) = i
<1> DEFINE n == Cardinality(S)
           ranks == 0 .. (n - 1)
           f == [t \in S |-> Cardinality(Below(S, t))]
<1>1. n \in Nat
  BY FS_CardinalityType
<1>2. f \in [S -> ranks]
  <2>1. ASSUME NEW t \in S PROVE Cardinality(Below(S, t)) \in ranks
    <3>1. Cardinality(Below(S, t)) \in Nat /\ Cardinality(Below(S, t)) < n
      BY RankBound
    <3> QED
      BY <1>1, <3>1
  <2> QED
    BY <2>1
<1>3. \A t, v \in S : f[t] = f[v] => t = v
  <2> SUFFICES ASSUME NEW t \in S, NEW v \in S, t # v PROVE f[t] # f[v]
    OBVIOUS
  <2>1. t < v \/ v < t
    OBVIOUS
  <2>2. CASE t < v
    <3>1. Cardinality(Below(S, t)) < Cardinality(Below(S, v))
      BY <2>2, RankGrows
    <3>2. Cardinality(Below(S, t)) \in Nat /\ Cardinality(Below(S, v)) \in Nat
      BY RankBound
    <3> QED
      BY <3>1, <3>2
  <2>3. CASE v < t
    <3>1. Cardinality(Below(S, v)) < Cardinality(Below(S, t))
      BY <2>3, RankGrows
    <3>2. Cardinality(Below(S, t)) \in Nat /\ Cardinality(Below(S, v)) \in Nat
      BY RankBound
    <3> QED
      BY <3>1, <3>2
  <2> QED
    BY <2>1, <2>2, <2>3
<1>4. f \in Injection(S, ranks)
  BY <1>2, <1>3 DEF Injection, IsInjective
<1>5. IsFiniteSet(ranks) /\ Cardinality(ranks) = n
  <2>1. 0 \in Int /\ n - 1 \in Int /\ (0 > n - 1 => n = 0) /\ n - 1 - 0 + 1 = n
    BY <1>1
  <2>2. IsFiniteSet(ranks) /\ Cardinality(ranks) = IF 0 > n - 1 THEN 0 ELSE n - 1 - 0 + 1
    BY <2>1, FS_Interval
  <2> QED
    BY <2>1, <2>2
<1>6. f \in Surjection(S, ranks)
  <2> HIDE DEF f, ranks
  <2> QED
    BY <1>4, <1>5, FS_Injection DEF n
<1> QED
  BY <1>6 DEF Surjection

LEMMA LeastOf ==
    ASSUME NEW S, IsFiniteSet(S), S \subseteq Int, S # {}
    PROVE  Min(S) \in S /\ \A u \in S : Min(S) <= u
<1>1. Cardinality(S) \in Nat /\ Cardinality(S) # 0
  BY FS_CardinalityType, FS_EmptySet
<1>2. 0 \in 0 .. (Cardinality(S) - 1)
  BY <1>1
<1>3. PICK t \in S : Cardinality(Below(S, t)) = 0
  BY <1>2, RankOnto
<1>4. Below(S, t) \in SUBSET S
  BY DEF Below
<1>5. Below(S, t) = {}
  BY <1>3, <1>4, FS_Subset, FS_EmptySet
<1>6. \A u \in S : t <= u
  BY <1>5 DEF Below
<1> QED
  BY <1>6 DEF Min

LEMMA GreatestOf ==
    ASSUME NEW S, IsFiniteSet(S), S \subseteq Int, S # {}
    PROVE  Max(S) \in S /\ \A u \in S : Max(S) >= u
<1>1. Cardinality(S) \in Nat /\ Cardinality(S) # 0
  BY FS_CardinalityType, FS_EmptySet
<1>2. Cardinality(S) - 1 \in 0 .. (Cardinality(S) - 1)
  BY <1>1
<1>3. PICK t \in S : Cardinality(Below(S, t)) = Cardinality(S) - 1
  BY <1>2, RankOnto
<1>4. \A u \in S : t >= u
  <2> SUFFICES ASSUME NEW u \in S, t < u PROVE FALSE
    OBVIOUS
  <2>1. Cardinality(Below(S, t)) < Cardinality(Below(S, u))
    BY RankGrows
  <2>2. Cardinality(Below(S, u)) < Cardinality(S) /\ Cardinality(Below(S, u)) \in Nat
    BY RankBound
  <2> QED
    BY <1>1, <1>3, <2>1, <2>2
<1> QED
  BY <1>4 DEF Max

LEMMA ImageFinite ==
    ASSUME NEW S, IsFiniteSet(S), NEW f
    PROVE  IsFiniteSet({f[x] : x \in S})
<1> DEFINE T == {f[x] : x \in S}
           g == [x \in S |-> f[x]]
<1>1. g \in Surjection(S, T)
  BY DEF Surjection
<1> HIDE DEF g, T
<1> QED
  BY <1>1, FS_Surjection DEF T

-----------------------------------------------------------------------------
(***************************************************************************)
(* The cut points of one timeline: a function from its rows, finitely many *)
(* and at least one, to times.                                             *)
(***************************************************************************)
Timeline(T) == /\ IsFiniteSet(DOMAIN T) /\ DOMAIN T # {}
               /\ \A r \in DOMAIN T : T[r] \in Int

LEMMA TimesFinite ==
    ASSUME NEW T, Timeline(T)
    PROVE  IsFiniteSet(Range(T)) /\ Range(T) \subseteq Int /\ Range(T) # {}
<1>1. Range(T) = {T[r] : r \in DOMAIN T}
  BY DEF Range
<1> QED
  BY <1>1, ImageFinite DEF Timeline

\* Counting rows in the order of their times, there is a time at each position.
LEMMA RowRankExists ==
    ASSUME NEW T, Timeline(T), NEW k \in 1 .. Cardinality(DOMAIN T)
    PROVE  RowRank(T, k) \in Int
<1> DEFINE before(t) == {r \in DOMAIN T : T[r] < t}
           upTo(t) == {r \in DOMAIN T : T[r] <= t}
           late == {t \in Range(T) : k <= Cardinality(upTo(t))}
<1>1. IsFiniteSet(Range(T)) /\ Range(T) \subseteq Int /\ Range(T) # {}
  BY TimesFinite
<1>2. ASSUME NEW t PROVE /\ IsFiniteSet(before(t)) /\ Cardinality(before(t)) \in Nat
                         /\ IsFiniteSet(upTo(t)) /\ Cardinality(upTo(t)) \in Nat
  <2>1. before(t) \in SUBSET DOMAIN T /\ upTo(t) \in SUBSET DOMAIN T
    OBVIOUS
  <2>2. IsFiniteSet(before(t)) /\ IsFiniteSet(upTo(t))
    BY <2>1, FS_Subset DEF Timeline
  <2> QED
    BY <2>2, FS_CardinalityType
<1>3. \A r \in DOMAIN T : T[r] \in Range(T) /\ T[r] \in Int
  BY DEF Range, Timeline
<1>4. Max(Range(T)) \in late
  <2>1. Max(Range(T)) \in Range(T) /\ \A u \in Range(T) : Max(Range(T)) >= u
    BY <1>1, GreatestOf
  <2>2. upTo(Max(Range(T))) = DOMAIN T
    BY <1>1, <1>3, <2>1
  <2>3. k <= Cardinality(DOMAIN T)
    BY FS_CardinalityType DEF Timeline
  <2> QED
    BY <2>1, <2>2, <2>3
<1>5. IsFiniteSet(late) /\ late \subseteq Int
  <2>1. late \in SUBSET Range(T)
    OBVIOUS
  <2> QED
    BY <1>1, <2>1, FS_Subset
<1>6. PICK t \in late : \A u \in late : t <= u
  BY <1>4, <1>5, LeastOf
<1>7. Cardinality(before(t)) < k
  <2> SUFFICES ASSUME Cardinality(before(t)) >= k PROVE FALSE
    <3>1. k \in Int
      OBVIOUS
    <3>2. Cardinality(before(t)) \in Int
      BY <1>2
    <3> HIDE DEF before
    <3> QED
      BY <3>1, <3>2
  <2> DEFINE sooner == {T[r] : r \in before(t)}
  <2>1. before(t) # {}
    <3>1. Cardinality(before(t)) # 0
      BY <1>2
    <3> QED
      BY <3>1, FS_EmptySet
  <2>2. IsFiniteSet(sooner) /\ sooner \subseteq Int /\ sooner # {}
    <3>1. IsFiniteSet(sooner)
      BY <1>2, ImageFinite
    <3> QED
      BY <1>3, <2>1, <3>1
  <2>3. Max(sooner) \in sooner /\ \A u \in sooner : Max(sooner) >= u
    BY <2>2, GreatestOf
  <2>4. t \in Int
    BY <1>5, <1>6
  <2>5. Max(sooner) \in Range(T) /\ Max(sooner) < t /\ Max(sooner) \in Int
    BY <1>3, <2>3
  <2>6. upTo(Max(sooner)) = before(t)
    BY <1>3, <2>3, <2>4, <2>5
  <2>7. Max(sooner) \in late
    BY <2>5, <2>6
  <2> QED
    BY <1>6, <2>4, <2>5, <2>7
<1>8. /\ t \in Range(T)
      /\ Cardinality({r \in DOMAIN T : T[r] < t}) < k
      /\ k <= Cardinality({r \in DOMAIN T : T[r] <= t})
  BY <1>6, <1>7
<1> HIDE DEF late, before, upTo
<1>9. RowRank(T, k) \in Range(T)
  BY <1>8 DEF RowRank
<1> QED
  BY <1>1, <1>9

LEMMA QuantileIsInt ==
    ASSUME NEW T, Timeline(T), NEW percent \in 0 .. 100
    PROVE  Quantile(T, percent) \in Int
<1> DEFINE n == Cardinality(DOMAIN T)
           p == percent * (n - 1)
           low == RowRank(T, p \div 100 + 1)
           high == IF p % 100 = 0 THEN low ELSE RowRank(T, p \div 100 + 2)
<1>1. n \in Nat /\ n # 0
  BY FS_CardinalityType, FS_EmptySet DEF Timeline
<1>2. p \in Nat /\ p <= 100 * (n - 1)
  <2>1. n - 1 \in Nat /\ percent \in Nat /\ percent <= 100
    BY <1>1
  <2> HIDE DEF n
  <2>2. \A a, b \in Nat : a <= 100 => a * b \in Nat /\ a * b <= 100 * b
    OBVIOUS
  <2> QED
    BY <2>1, <2>2
<1> HIDE DEF n, p
<1>3. p \div 100 \in Nat /\ p % 100 \in 0 .. 99
  BY <1>2
<1>4. p \div 100 + 1 \in 1 .. n /\ (p % 100 # 0 => p \div 100 + 2 \in 1 .. n)
  <2>1. \A x, m \in Nat : x <= 100 * m => x \div 100 <= m
    OBVIOUS
  <2>2. \A x, m \in Nat : x <= 100 * m /\ x % 100 # 0 => x \div 100 < m
    OBVIOUS
  <2>3. n - 1 \in Nat
    BY <1>1
  <2>4. p \div 100 <= n - 1 /\ (p % 100 # 0 => p \div 100 < n - 1)
    BY <1>2, <2>1, <2>2, <2>3
  <2> QED
    BY <1>1, <1>3, <2>4
<1>5. low \in Int
  BY <1>4, RowRankExists DEF n
<1>6. high \in Int
  BY <1>4, <1>5, RowRankExists DEF n
<1>7. Quantile(T, percent) = 100 * low + (p % 100) * (high - low)
  BY DEF Quantile, n, p
<1> HIDE DEF low, high
<1>8. \A a, b, c \in Int : 100 * a + b * (c - a) \in Int
  OBVIOUS
<1> QED
  BY <1>3, <1>5, <1>6, <1>7, <1>8

LEMMA RoundIsInt == \A h \in Nat : Round[h] \in Int
<1>1. \A h \in Nat : h \div 100 \in Int
  OBVIOUS
<1>2. \A h \in Nat : Round[h] \in {h \div 100, h \div 100 + 1}
  BY DEF Round
<1> QED
  BY <1>1, <1>2

\* Of n distinct times, val begins after one and test after a later one that
\* is not the last.
LEMMA IndicesInside ==
    ASSUME NEW n \in Nat, n >= 3
    PROVE  /\ DistinctIndices[n][1] \in 0 .. (n - 3)
           /\ DistinctIndices[n][2] \in (DistinctIndices[n][1] + 1) .. (n - 2)
<1> DEFINE a == Round[TRAIN_PERCENT * n] - 1
           b == Round[VAL_PERCENT * n] - 1
           i1 == Least(Greatest(a, 0), n - 3)
           i2 == Least(Greatest(b, i1 + 1), n - 2)
<1>1. a \in Int /\ b \in Int
  <2>1. TRAIN_PERCENT * n \in Nat /\ VAL_PERCENT * n \in Nat
    BY DEF TRAIN_PERCENT, VAL_PERCENT
  <2>2. Round[TRAIN_PERCENT * n] \in Int /\ Round[VAL_PERCENT * n] \in Int
    BY <2>1, RoundIsInt
  <2> QED
    BY <2>2
<1>2. DistinctIndices[n] = <<i1, i2>>
  BY DEF DistinctIndices
<1> HIDE DEF a, b
<1>3. i1 \in 0 .. (n - 3)
  BY <1>1 DEF Least, Greatest
<1> HIDE DEF i1
<1>4. i2 \in (i1 + 1) .. (n - 2)
  BY <1>1, <1>3 DEF Least, Greatest
<1> QED
  BY <1>2, <1>3, <1>4

\* Three distinct times are enough to leave no fold empty.
LEMMA DistinctCutsFill ==
    ASSUME NEW T, Timeline(T), Cardinality(Range(T)) >= 3
    PROVE  LET cut == DistinctValueCuts(T)
           IN  cut[1] \in Int /\ cut[2] \in Int /\ EveryFoldHasRows(T, cut)
<1> DEFINE S == Range(T)
           n == Cardinality(S)
           nth(i) == CHOOSE t \in S : Cardinality(Below(S, t)) = i
           i1 == DistinctIndices[n][1]
           i2 == DistinctIndices[n][2]
           cut == <<100 * nth(i1), 100 * nth(i2)>>
<1>1. DistinctValueCuts(T) = cut
  BY DEF DistinctValueCuts, Below
<1>2. IsFiniteSet(S) /\ S \subseteq Int
  BY TimesFinite
<1>3. n \in Nat /\ n >= 3
  BY <1>2, FS_CardinalityType
<1>4. \A i \in 0 .. (n - 1) : nth(i) \in S /\ Cardinality(Below(S, nth(i))) = i
  BY <1>2, RankOnto
<1>5. i1 \in 0 .. (n - 1) /\ i2 \in 0 .. (n - 1) /\ n - 1 \in 0 .. (n - 1)
      /\ i1 < i2 /\ i2 < n - 1
  BY <1>3, IndicesInside
<1> HIDE DEF S, n, i1, i2
<1>6. \A i, j \in 0 .. (n - 1) : i < j => nth(i) < nth(j)
  <2> SUFFICES ASSUME NEW i \in 0 .. (n - 1), NEW j \in 0 .. (n - 1), i < j, ~(nth(i) < nth(j))
               PROVE  FALSE
    OBVIOUS
  <2>1. nth(i) \in S /\ nth(j) \in S /\ Cardinality(Below(S, nth(i))) = i
        /\ Cardinality(Below(S, nth(j))) = j
    BY <1>4
  <2>2. i \in Int /\ j \in Int
    OBVIOUS
  <2> HIDE DEF nth
  <2>3. nth(i) # nth(j)
    BY <2>1, <2>2
  <2>4. nth(j) < nth(i)
    <3>1. nth(i) \in Int /\ nth(j) \in Int
      BY <1>2, <2>1
    <3> QED
      BY <2>3, <3>1
  <2>5. j < i
    BY <1>2, <2>1, <2>4, RankGrows
  <2> QED
    BY <2>2, <2>5
<1> HIDE DEF nth
<1>7. /\ nth(i1) \in S /\ nth(i2) \in S /\ nth(n - 1) \in S
      /\ nth(i1) < nth(i2) /\ nth(i2) < nth(n - 1)
  BY <1>4, <1>5, <1>6
<1>8. nth(i1) \in Int /\ nth(i2) \in Int /\ nth(n - 1) \in Int
  BY <1>2, <1>7
<1>9. PICK q, r, s \in DOMAIN T : T[q] = nth(i1) /\ T[r] = nth(i2) /\ T[s] = nth(n - 1)
  BY <1>7 DEF S, Range
<1>10. NONE \notin Int
  BY DatasetRulesAssumption
<1>11. Fold(T[q], cut) = "train" /\ Fold(T[r], cut) = "val" /\ Fold(T[s], cut) = "test"
  BY <1>7, <1>8, <1>9, <1>10 DEF Fold
<1>12. EveryFoldHasRows(T, cut)
  BY <1>11 DEF EveryFoldHasRows, Folds
<1> QED
  BY <1>1, <1>8, <1>12

LEMMA CutPointsSound ==
    ASSUME NEW T, Timeline(T)
    PROVE  LET cut == CutPoints(T)
           IN  /\ cut[1] \in Int /\ cut[2] \in Int
               /\ Cardinality(Range(T)) >= 3 => EveryFoldHasRows(T, cut)
<1> DEFINE absolute == <<100 * TrainEnd, 100 * ValEnd>>
           quantile == <<Quantile(T, TRAIN_PERCENT), Quantile(T, VAL_PERCENT)>>
           distinct == DistinctValueCuts(T)
<1>1. absolute[1] \in Int /\ absolute[2] \in Int
  BY DatasetRulesAssumption
<1>2. quantile[1] \in Int /\ quantile[2] \in Int
  BY QuantileIsInt DEF TRAIN_PERCENT, VAL_PERCENT
<1>3. Cardinality(Range(T)) >= 3 =>
        distinct[1] \in Int /\ distinct[2] \in Int /\ EveryFoldHasRows(T, distinct)
  BY DistinctCutsFill
<1>4. CutPoints(T) = IF EveryFoldHasRows(T, absolute) THEN absolute
                     ELSE IF EveryFoldHasRows(T, quantile) THEN quantile
                     ELSE IF Cardinality(Range(T)) >= 3 /\ EveryFoldHasRows(T, distinct) THEN distinct
                     ELSE quantile
  BY DEF CutPoints
<1> HIDE DEF absolute, quantile, distinct
<1> QED
  BY <1>1, <1>2, <1>3, <1>4

-----------------------------------------------------------------------------
(***************************************************************************)
(* The chronological split: rows without a time are in no fold, and the    *)
(* others of a group are cut on the timeline of that group.                *)
(***************************************************************************)
LineOf(T, G, g) == Restrict(T, {r \in Known(DOMAIN T, T) : G[r] = g})

Timetable(T) == IsFiniteSet(DOMAIN T) /\ \A r \in DOMAIN T : T[r] \in Int \cup {NONE}

LEMMA CutOnOwnLine ==
    ASSUME NEW T, NEW G, NEW r \in Known(DOMAIN T, T)
    PROVE  ChronologicalSplit(T, G)[r] = Fold(T[r], CutPoints(LineOf(T, G, G[r])))
<1> DEFINE dated == Known(DOMAIN T, T)
           line(g) == LineOf(T, G, g)
           lines == {line(g) : g \in {G[q] : q \in dated}}
           cuts == {<<t, CutPoints(t)>> : t \in lines}
           mine == <<line(G[r]), CutPoints(line(G[r]))>>
           cut == CHOOSE c \in cuts : r \in DOMAIN c[1]
<1>1. Cuts(T, G) = cuts
  BY DEF Cuts, LineOf
<1>2. \A g : DOMAIN line(g) = {q \in dated : G[q] = g}
  BY DEF LineOf, Restrict
<1>3. r \in dated /\ r \in DOMAIN T
  BY DEF Known
<1> HIDE DEF dated, line
<1>4. mine \in cuts /\ r \in DOMAIN mine[1]
  BY <1>2, <1>3
<1>5. \A c \in cuts : r \in DOMAIN c[1] => c = mine
  <2> SUFFICES ASSUME NEW c \in cuts, r \in DOMAIN c[1] PROVE c = mine
    OBVIOUS
  <2>1. PICK g : c = <<line(g), CutPoints(line(g))>>
    OBVIOUS
  <2>2. r \in DOMAIN line(g)
    BY <2>1
  <2>3. G[r] = g
    BY <1>2, <2>2
  <2> QED
    BY <2>1, <2>3
<1> HIDE DEF cuts, mine
<1>6. cut = mine
  BY <1>4, <1>5
<1>7. ChronologicalSplit(T, G)[r] = Fold(T[r], cut[2])
  BY <1>1, <1>3 DEF ChronologicalSplit
<1> HIDE DEF cut
<1> QED
  BY <1>6, <1>7 DEF mine, line

LEMMA LineIsTimeline ==
    ASSUME NEW T, Timetable(T), NEW G, NEW r \in Known(DOMAIN T, T)
    PROVE  Timeline(LineOf(T, G, G[r]))
<1> DEFINE line == LineOf(T, G, G[r])
           rows == {q \in Known(DOMAIN T, T) : G[q] = G[r]}
<1>1. DOMAIN line = rows /\ \A q \in rows : line[q] = T[q]
  BY DEF LineOf, Restrict
<1>2. rows \in SUBSET DOMAIN T /\ r \in rows
  BY DEF Known
<1>3. IsFiniteSet(rows)
  BY <1>2, FS_Subset DEF Timetable
<1>4. \A q \in rows : T[q] \in Int
  BY DEF Known, Timetable
<1> HIDE DEF line, rows
<1> QED
  BY <1>1, <1>2, <1>3, <1>4 DEF Timeline, line

\* No row of a fold is later than one of a later fold, in its group.
LEMMA SplitIsOrdered ==
    ASSUME NEW T, Timetable(T), NEW G
    PROVE  Ordered(DOMAIN T, T, G, ChronologicalSplit(T, G))
<1> DEFINE F == ChronologicalSplit(T, G)
<1> SUFFICES ASSUME NEW q \in DOMAIN T, NEW r \in DOMAIN T, G[q] = G[r],
                    <<F[q], F[r]>> \in {<<"train", "val">>, <<"val", "test">>}
             PROVE  T[q] <= T[r]
  BY DEF Ordered
<1>1. \A x \in DOMAIN T : T[x] = NONE => F[x] = "unassigned"
  BY DEF ChronologicalSplit, Fold
<1>2. \/ F[q] = "train" /\ F[r] = "val"
      \/ F[q] = "val" /\ F[r] = "test"
  OBVIOUS
<1>3. q \in Known(DOMAIN T, T) /\ r \in Known(DOMAIN T, T)
  BY <1>1, <1>2 DEF Known
<1> DEFINE cut == CutPoints(LineOf(T, G, G[r]))
<1>4. F[q] = Fold(T[q], cut) /\ F[r] = Fold(T[r], cut)
  BY <1>3, CutOnOwnLine
<1>5. cut[1] \in Int /\ cut[2] \in Int
  BY <1>3, LineIsTimeline, CutPointsSound
<1>6. T[q] \in Int /\ T[r] \in Int /\ T[q] # NONE /\ T[r] # NONE
  BY <1>3 DEF Known, Timetable
<1> HIDE DEF F, cut
<1> QED
  BY <1>2, <1>4, <1>5, <1>6 DEF Fold

\* A group with three distinct times has rows in every fold.
LEMMA SplitIsInhabited ==
    ASSUME NEW T, Timetable(T), NEW G, NEW g
    PROVE  Inhabited({r \in DOMAIN T : G[r] = g}, T, ChronologicalSplit(T, G))
<1> DEFINE F == ChronologicalSplit(T, G)
           rows == Known({r \in DOMAIN T : G[r] = g}, T)
           line == LineOf(T, G, g)
           cut == CutPoints(line)
<1>1. rows = {r \in Known(DOMAIN T, T) : G[r] = g}
  BY DEF Known
<1>2. DOMAIN line = rows /\ \A r \in rows : line[r] = T[r]
  BY <1>1 DEF LineOf, Restrict
<1>3. Range(line) = {T[r] : r \in rows}
  BY <1>2 DEF Range
<1> SUFFICES ASSUME Cardinality({T[r] : r \in rows}) >= 3 PROVE {F[r] : r \in rows} = Folds
  BY DEF Inhabited
<1>4. PICK r : r \in rows
  <2>1. rows # {}
    <3> SUFFICES ASSUME rows = {} PROVE FALSE
      OBVIOUS
    <3>1. {T[r] : r \in rows} = {}
      OBVIOUS
    <3>2. Cardinality({T[r] : r \in rows}) = 0
      BY <3>1, FS_EmptySet
    <3> QED
      BY <3>2
  <2> QED
    BY <2>1
<1>5. Timeline(line)
  BY <1>1, <1>4, LineIsTimeline
<1>6. cut[1] \in Int /\ cut[2] \in Int /\ EveryFoldHasRows(line, cut)
  BY <1>3, <1>5, CutPointsSound
<1>7. \A x \in rows : F[x] = Fold(T[x], cut)
  BY <1>1, CutOnOwnLine
<1>8. \A x \in rows : T[x] # NONE
  BY DEF Known
<1> HIDE DEF rows, line, cut, F
<1>9. \A x \in rows : F[x] \in Folds
  BY <1>7, <1>8 DEF Fold, Folds
<1>10. \A f \in Folds : \E x \in rows : F[x] = f
  BY <1>2, <1>6, <1>7 DEF EveryFoldHasRows
<1> QED
  BY <1>9, <1>10 DEF rows, F

-----------------------------------------------------------------------------
(***************************************************************************)
(* The tables with a split: each carries the folds of the rows it has.     *)
(***************************************************************************)
SplitTable(table) == /\ DOMAIN table \subseteq Records
                     /\ \A r \in DOMAIN table : table[r].split = Split(DOMAIN table)[r]

LEMMA OrderedAlike ==
    ASSUME NEW rows, NEW T, NEW U, NEW G, NEW F, NEW H,
           \A r \in rows : T[r] = U[r] /\ F[r] = H[r],
           Ordered(rows, T, G, F)
    PROVE  Ordered(rows, U, G, H)
  BY DEF Ordered

LEMMA InhabitedAlike ==
    ASSUME NEW rows, NEW T, NEW U, NEW F, NEW H,
           \A r \in rows : T[r] = U[r] /\ F[r] = H[r],
           Inhabited(rows, T, F)
    PROVE  Inhabited(rows, U, H)
<1>1. Known(rows, T) = Known(rows, U) /\ \A r \in Known(rows, T) : r \in rows
  BY DEF Known
<1>2. /\ {T[r] : r \in Known(rows, T)} = {U[r] : r \in Known(rows, U)}
      /\ {F[r] : r \in Known(rows, T)} = {H[r] : r \in Known(rows, U)}
  BY <1>1
<1> QED
  BY <1>2 DEF Inhabited

LEMMA RecordsTimetable ==
    ASSUME NEW rows \in SUBSET Records
    PROVE  /\ Timetable(Restrict(At, rows)) /\ DOMAIN Restrict(At, rows) = rows
           /\ \A r \in rows : Restrict(At, rows)[r] = At[r]
<1>1. DOMAIN Restrict(At, rows) = rows /\ \A r \in rows : Restrict(At, rows)[r] = At[r]
  BY DEF Restrict
<1>2. IsFiniteSet(rows)
  BY FS_Subset, DatasetRulesAssumption
<1>3. \A r \in rows : At[r] \in Int \cup {NONE}
  BY DatasetRulesAssumption DEF At
<1> QED
  BY <1>1, <1>2, <1>3 DEF Timetable

LEMMA SplitTableSound ==
    ASSUME NEW table, SplitTable(table)
    PROVE  /\ OrderedRows(table)
           /\ \A s : Inhabited({r \in DOMAIN table : Source[r] = s}, At, FoldOf(table))
           /\ Ordered(DOMAIN table, At, OneGroup(DOMAIN table), GlobalFold(table))
           /\ Inhabited(DOMAIN table, At, GlobalFold(table))
<1> DEFINE rows == DOMAIN table
           T == Restrict(At, rows)
           per == ChronologicalSplit(T, Source)
           global == ChronologicalSplit(T, OneGroup(rows))
<1>1. Timetable(T) /\ DOMAIN T = rows /\ \A r \in rows : T[r] = At[r]
  BY RecordsTimetable DEF SplitTable
<1>2. \A r \in rows : table[r].split.split = per[r] /\ table[r].split.global = global[r]
  <2>1. \A r \in rows : table[r].split = Split(rows)[r]
    BY DEF SplitTable
  <2>2. \A r \in rows : Split(rows)[r].split = per[r] /\ Split(rows)[r].global = global[r]
    BY DEF Split
  <2> HIDE DEF per, global, rows
  <2> QED
    BY <2>1, <2>2
<1>3. /\ \A r \in rows : FoldOf(table)[r] = per[r]
      /\ \A r \in rows : GlobalFold(table)[r] = global[r]
  BY <1>2 DEF FoldOf, GlobalFold
<1>4. /\ Ordered(rows, T, Source, per)
      /\ Ordered(rows, T, OneGroup(rows), global)
  <2> HIDE DEF T
  <2> QED
    BY <1>1, SplitIsOrdered
<1>5. \A s : Inhabited({r \in rows : Source[r] = s}, T, per)
  <2> SUFFICES ASSUME NEW s PROVE Inhabited({r \in rows : Source[r] = s}, T, per)
    OBVIOUS
  <2>1. Inhabited({r \in DOMAIN T : Source[r] = s}, T, per)
    <3> HIDE DEF T
    <3> QED
      BY <1>1, SplitIsInhabited
  <2> QED
    BY <1>1, <2>1
<1>6. Inhabited(rows, T, global)
  <2>1. Inhabited({r \in DOMAIN T : OneGroup(rows)[r] = "ALL"}, T, global)
    <3> HIDE DEF T
    <3> QED
      BY <1>1, SplitIsInhabited
  <2>2. {r \in DOMAIN T : OneGroup(rows)[r] = "ALL"} = rows
    BY <1>1 DEF OneGroup
  <2> QED
    BY <2>1, <2>2
<1> HIDE DEF T, per, global
<1>7. OrderedRows(table)
  BY <1>1, <1>3, <1>4, OrderedAlike DEF OrderedRows, rows
<1>8. Ordered(rows, At, OneGroup(rows), GlobalFold(table))
  BY <1>1, <1>3, <1>4, OrderedAlike
<1>9. ASSUME NEW s PROVE Inhabited({r \in rows : Source[r] = s}, At, FoldOf(table))
  <2> DEFINE some == {r \in rows : Source[r] = s}
  <2>1. \A r \in some : T[r] = At[r] /\ per[r] = FoldOf(table)[r]
    BY <1>1, <1>3
  <2>2. Inhabited(some, T, per)
    BY <1>5
  <2> HIDE DEF some
  <2> QED
    BY <2>1, <2>2, InhabitedAlike DEF some
<1>10. Inhabited(rows, At, GlobalFold(table))
  BY <1>1, <1>3, <1>6, InhabitedAlike
<1> QED
  BY <1>7, <1>8, <1>9, <1>10

(***************************************************************************)
(* The hotspot panel has finitely many cells, each in a week between the   *)
(* first and the last report's.                                            *)
(***************************************************************************)
LEMMA CellsFinite ==
    ASSUME NEW X \in SUBSET Records
    PROVE  IsFiniteSet(PanelCells(Zoned(X))) /\ \A x \in PanelCells(Zoned(X)) : x[2] \in Int
<1> DEFINE rows == Zoned(X)
           weeks == Calendar(rows)
           series == {Series(r) : r \in rows}
           all == {Week(r) : r \in rows}
           seen(c) == {Week(r) : r \in {q \in rows : Facts[q].src = c}}
           span == Min(all) .. Max(all)
<1>1. rows \in SUBSET Records /\ \A r \in rows : Facts[r].at \in Nat
  BY DatasetRulesAssumption DEF Zoned, InScope
<1>2. IsFiniteSet(rows)
  BY <1>1, FS_Subset, DatasetRulesAssumption
<1>3. \A r \in rows : Week(r) \in Int
  <2>1. \A n \in Nat : n \div 168 \in Int
    OBVIOUS
  <2> QED
    BY <1>1, <2>1 DEF Week, HOURS_PER_WEEK
<1> HIDE DEF rows
<1>4. CASE rows = {}
  <2>1. PanelCells(Zoned(X)) = {}
    BY <1>4 DEF PanelCells, rows
  <2> QED
    BY <2>1, FS_EmptySet
<1>5. CASE rows # {}
  <2>1. IsFiniteSet(all) /\ all \subseteq Int /\ all # {}
    <3> DEFINE f == [r \in rows |-> Week(r)]
    <3>1. {f[r] : r \in rows} = all
      OBVIOUS
    <3> HIDE DEF f
    <3>2. IsFiniteSet(all)
      BY <1>2, <3>1, ImageFinite
    <3> QED
      BY <1>3, <1>5, <3>2
  <2>2. /\ Min(all) \in all /\ \A u \in all : Min(all) <= u
        /\ Max(all) \in all /\ \A u \in all : Max(all) >= u
    BY <2>1, LeastOf, GreatestOf
  <2>3. IsFiniteSet(span) /\ span \subseteq Int
    <3>1. Min(all) \in Int /\ Max(all) \in Int
      BY <2>1, <2>2
    <3> HIDE DEF all
    <3> QED
      BY <3>1, FS_Interval
  <2>4. IsFiniteSet(series)
    <3> DEFINE f == [r \in rows |-> Series(r)]
    <3>1. {f[r] : r \in rows} = series
      OBVIOUS
    <3> HIDE DEF f
    <3> QED
      BY <1>2, <3>1, ImageFinite
  <2>5. ASSUME NEW c \in {Facts[r].src : r \in rows} PROVE PanelWeeks(rows, c) \subseteq span
    <3>1. seen(c) \in SUBSET all /\ seen(c) # {}
      OBVIOUS
    <3>2. IsFiniteSet(seen(c)) /\ seen(c) \subseteq Int
      BY <2>1, <3>1, FS_Subset
    <3>3. Min(seen(c)) \in seen(c) /\ Max(seen(c)) \in seen(c)
      <4> HIDE DEF seen
      <4> QED
        BY <3>1, <3>2, LeastOf, GreatestOf
    <3>4. /\ Min(seen(c)) \in Int /\ Min(all) <= Min(seen(c)) /\ Min(all) \in Int
          /\ Max(seen(c)) \in Int /\ Max(seen(c)) <= Max(all) /\ Max(all) \in Int
      <4> HIDE DEF seen, all
      <4> QED
        BY <2>1, <2>2, <3>1, <3>3
    <3>5. PanelWeeks(rows, c) \subseteq Min(seen(c)) .. Max(seen(c))
      BY DEF PanelWeeks
    <3> HIDE DEF seen, all
    <3>6. Min(seen(c)) .. Max(seen(c)) \subseteq span
      BY <3>4
    <3> QED
      BY <3>5, <3>6
  <2> HIDE DEF all, span
  <2>6. PanelCells(Zoned(X)) \in SUBSET (series \X span)
    <3> SUFFICES ASSUME NEW x \in PanelCells(Zoned(X)) PROVE x \in series \X span
      OBVIOUS
    <3>1. PICK s \in series : x \in {<<s, w>> : w \in weeks[s[1]] \ {Max(weeks[s[1]])}}
      BY DEF PanelCells, rows
    <3>2. s[1] \in {Facts[r].src : r \in rows}
      BY DEF Series
    <3>3. weeks[s[1]] \subseteq span
      BY <2>5, <3>2 DEF Calendar
    <3>4. PICK w \in weeks[s[1]] : x = <<s, w>>
      BY <3>1
    <3> HIDE DEF weeks, series
    <3> QED
      BY <3>3, <3>4
  <2> HIDE DEF series
  <2>7. IsFiniteSet(series \X span)
    BY <2>3, <2>4, FS_Product
  <2>8. IsFiniteSet(PanelCells(Zoned(X)))
    BY <2>6, <2>7, FS_Subset
  <2> QED
    BY <2>3, <2>6, <2>8
<1> QED
  BY <1>4, <1>5

LEMMA PanelSound ==
    ASSUME NEW X \in SUBSET Records
    PROVE  LET panel == HotspotPanel(X)
           IN  /\ OrderedPanel(panel)
               /\ \A s : Inhabited({x \in DOMAIN panel : x[1][1] = s}, PanelStart(panel),
                                   PanelFold(panel))
<1> DEFINE panel == HotspotPanel(X)
           cells == PanelCells(Zoned(X))
           start == [x \in cells |-> x[2] * HOURS_PER_WEEK]
           city == [x \in cells |-> x[1][1]]
           split == ChronologicalSplit(start, city)
<1>1. DOMAIN panel = cells /\ \A x \in cells : panel[x].split = split[x]
  BY SMTT(60) DEF HotspotPanel
<1> HIDE DEF cells, panel
<1>2. Timetable(start) /\ DOMAIN start = cells
  <2>1. IsFiniteSet(cells) /\ \A x \in cells : x[2] \in Int
    BY CellsFinite DEF cells
  <2> QED
    BY <2>1 DEF Timetable, HOURS_PER_WEEK
<1>3. PanelStart(panel) = start /\ PanelCity(panel) = city
  BY <1>1 DEF PanelStart, PanelCity
<1>4. \A x \in cells : PanelFold(panel)[x] = split[x]
  BY <1>1 DEF PanelFold
<1>5. \A s : {x \in cells : x[1][1] = s} = {x \in DOMAIN start : city[x] = s}
  OBVIOUS
<1> HIDE DEF start, city
<1>6. Ordered(cells, start, city, split)
  BY <1>2, SplitIsOrdered
<1>7. \A s : Inhabited({x \in DOMAIN start : city[x] = s}, start, split)
  BY <1>2, SplitIsInhabited
<1> HIDE DEF split
<1>8. OrderedPanel(panel)
  BY <1>1, <1>3, <1>4, <1>6, OrderedAlike DEF OrderedPanel
<1>9. ASSUME NEW s PROVE Inhabited({x \in cells : x[1][1] = s}, start, PanelFold(panel))
  <2> DEFINE some == {x \in cells : x[1][1] = s}
  <2>1. Inhabited(some, start, split)
    BY <1>5, <1>7
  <2>2. \A x \in some : start[x] = start[x] /\ split[x] = PanelFold(panel)[x]
    BY <1>4
  <2> HIDE DEF some
  <2> QED
    BY <2>1, <2>2, InhabitedAlike DEF some
<1> QED
  BY <1>1, <1>3, <1>8, <1>9 DEF panel

-----------------------------------------------------------------------------
(***************************************************************************)
(* What any run leaves on disk.  A file is missing, torn, or a table that  *)
(* the rules make of some records; which records, and of which run, is not *)
(* said here.                                                              *)
(***************************************************************************)
ResolutionTable(table) ==
  /\ SplitTable(table)
  /\ \A r \in DOMAIN table : table[r].breach = SlaBreach(r) /\ Category(r) \in DOMAIN BaseScore

Kind(f, table) ==
  /\ f \in Sources => table \subseteq {r \in Records : Source[r] = f}
  /\ f \in {"incidents", "time"} => table \subseteq Records
  /\ f = "prioritised" => DOMAIN table \subseteq Records
  /\ f \in {"priority", "ml"} => SplitTable(table)
  /\ f = "resolution" => ResolutionTable(table)
  /\ f = "sla_ml" => DOMAIN table # {} /\ \E t : ResolutionTable(t) /\ table = WithTarget(t)
  /\ f = "hotspot" => \E X \in SUBSET Records : table = HotspotPanel(X)
  /\ f = "duplicates" => \E X : Positives(X) # {} /\ table = DuplicatePairs(X)

RunFields == {"fixtures", "from", "only", "keep", "todo", "part", "failed", "alarms"}

RunInv ==
  run = NONE \/ /\ DOMAIN run = RunFields
                /\ run.todo \subseteq Places
                /\ run.failed \subseteq {StepAt(x) : x \in Places}
                /\ run.part \in Nat
                /\ run.todo # {} => run.part = 0 \/ run.part < Len(Writes(Step))

FilesInv ==
  /\ DOMAIN file \subseteq Files
  /\ torn \subseteq DOMAIN file
  /\ \A f \in Files : Readable(f) => Kind(f, file[f])

TablesInv == raw \in Deliveries /\ FilesInv /\ RunInv

LEMMA BuiltTables ==
    /\ DOMAIN Built = {"build_incidents", "build_time_features", "build_geo_features",
                       "build_priority_features", "build_resolution_dataset",
                       "build_hotspot_dataset", "build_duplicate_pairs", "build_ml_dataset",
                       "build_task_datasets"}
    /\ Built["build_incidents"] = <<"incidents">> /\ Built["build_time_features"] = <<"time">>
    /\ Built["build_geo_features"] = <<"geo">>
    /\ Built["build_priority_features"] = <<"prioritised", "priority">>
    /\ Built["build_resolution_dataset"] = <<"resolution">>
    /\ Built["build_hotspot_dataset"] = <<"hotspot">>
    /\ Built["build_duplicate_pairs"] = <<"duplicates">>
    /\ Built["build_ml_dataset"] = <<"ml">>
    /\ Built["build_task_datasets"] = <<"resolution_ml", "sla_ml", "hotspot_ml", "duplicate_ml",
                                        "priority_features">>
  BY DEF Built

LEMMA FourSources == Sources \subseteq {"sf311", "boston311", "chicago311", "nyc311"}
  BY PipelineAssumption DEF Sources

LEMMA SourceNames ==
    /\ Sources \cap DOMAIN Built = {}
    /\ Sources \cap DOMAIN Checks = {}
    /\ DOMAIN Built \cap DOMAIN Checks = {}
    /\ \A b \in DOMAIN Built : \A i \in DOMAIN Built[b] : Built[b][i] \notin Sources
    /\ \A b \in DOMAIN Built : \A i \in DOMAIN Built[b] : Built[b][i] \in Files
    /\ Sources \subseteq Files
<1>1. Sources \subseteq {"sf311", "boston311", "chicago311", "nyc311"}
  BY FourSources
<1>2. DOMAIN Checks = {"dataset_status", "validate_mappings", "data_quality_report",
                       "validate_provenance", "validate_leakage", "validate_outputs",
                       "audit_pipeline", "audit_task_datasets", "audit_statistics",
                       "report_category_candidates"}
  BY DEF Checks
<1>3. \A b \in DOMAIN Built : \A i \in DOMAIN Built[b] : Built[b][i] \notin Sources
  BY <1>1, BuiltTables
<1>4. /\ \A b \in DOMAIN Built : \A i \in DOMAIN Built[b] : Built[b][i] \in Files
      /\ Sources \subseteq Files
  BY DEF Files
<1>5. /\ Sources \cap DOMAIN Built = {}
      /\ Sources \cap DOMAIN Checks = {}
      /\ DOMAIN Built \cap DOMAIN Checks = {}
  BY <1>1, <1>2, BuiltTables
<1> QED
  BY <1>3, <1>4, <1>5

\* The output under way is one of the tables of the step.
LEMMA OutputNamed ==
    ASSUME TablesInv, Working, Writes(Step) # <<>>
    PROVE  /\ Output \in DOMAIN Writes(Step)
           /\ \/ Step \in Sources /\ Writes(Step)[Output] = Step
              \/ Step \in DOMAIN Built /\ Writes(Step)[Output] = Built[Step][Output]
                   /\ Output \in DOMAIN Built[Step]
           /\ Writes(Step)[Output] \in Files
<1>1. run # NONE /\ run.todo # {}
  BY DEF Working
<1>2. run.part \in Nat /\ (run.part = 0 \/ run.part < Len(Writes(Step)))
  BY <1>1 DEF TablesInv, RunInv
<1>3. CASE Step \in DOMAIN Built
  <2>1. Writes(Step) = Built[Step]
    BY <1>3 DEF Writes
  <2>2. DOMAIN Built[Step] = 1 .. Len(Built[Step]) /\ Len(Built[Step]) \in Nat
        /\ Len(Built[Step]) >= 1
    BY <1>3, BuiltTables
  <2>3. Output \in DOMAIN Built[Step]
    BY <1>2, <2>1, <2>2 DEF Output
  <2> QED
    BY <1>3, <2>1, <2>3, SourceNames
<1>4. CASE Step \notin DOMAIN Built
  <2>1. Step \in Sources /\ Writes(Step) = <<Step>>
    BY <1>4 DEF Writes
  <2>2. Output = 1
    BY <1>2, <2>1 DEF Output
  <2> QED
    BY <2>1, <2>2, SourceNames
<1> QED
  BY <1>3, <1>4

\* The incidents that a step finds are records.
LEMMA CorpusKnown ==
    ASSUME TablesInv, Readable(Corpus)
    PROVE  Rows(Corpus) \in SUBSET Records
<1>1. Corpus \in {"prioritised", "incidents"}
  BY DEF Corpus
<1>4. Kind(Corpus, file[Corpus])
  BY DEF TablesInv, FilesInv, Readable, On
<1>5. CASE Corpus = "prioritised"
  <2>1. Kind("prioritised", file["prioritised"])
    BY <1>4, <1>5
  <2>2. DOMAIN file["prioritised"] \subseteq Records
    BY <2>1 DEF Kind
  <2>3. Rows("prioritised") = DOMAIN file["prioritised"]
    BY DEF Rows
  <2> QED
    BY <1>5, <2>2, <2>3
<1>6. CASE Corpus = "incidents"
  <2>1. Kind("incidents", file["incidents"])
    BY <1>4, <1>6
  <2>2. file["incidents"] \subseteq Records
    BY <2>1 DEF Kind
  <2>3. Rows("incidents") = file["incidents"]
    BY DEF Rows
  <2> QED
    BY <1>6, <2>2, <2>3
<1> QED
  BY <1>1, <1>5, <1>6

LEMMA IncidentsKnown ==
    ASSUME TablesInv, Readable("incidents")
    PROVE  file["incidents"] \in SUBSET Records
<1>2. Kind("incidents", file["incidents"])
  BY DEF TablesInv, FilesInv, Readable, On
<1> QED
  BY <1>2 DEF Kind

\* Every table that takes its folds from the rows it is built of is a SplitTable.
LEMMA BuiltSplit ==
    ASSUME NEW rows \in SUBSET Records
    PROVE  SplitTable(PriorityRows(rows)) /\ ResolutionTable(ResolutionRows(rows))
<1>1. SplitTable(PriorityRows(rows))
  <2>1. /\ DOMAIN PriorityRows(rows) = rows
        /\ \A r \in rows : PriorityRows(rows)[r].split = Split(rows)[r]
    BY DEF PriorityRows
  <2> QED
    BY <2>1 DEF SplitTable
<1>2. ResolutionTable(ResolutionRows(rows))
  <2> DEFINE closed == Closed(InScope(rows))
  <2>1. /\ DOMAIN ResolutionRows(rows) = closed
        /\ \A r \in closed : /\ ResolutionRows(rows)[r].split = Split(closed)[r]
                              /\ ResolutionRows(rows)[r].breach = SlaBreach(r)
    BY DEF ResolutionRows
  <2>2. closed \subseteq Records /\ \A r \in closed : Category(r) \in DOMAIN BaseScore
    BY DEF InScope, Closed
  <2> HIDE DEF closed
  <2> QED
    BY <2>1, <2>2 DEF ResolutionTable, SplitTable
<1> QED
  BY <1>1, <1>2

LEMMA MlSplit ==
    ASSUME NEW f, Rows(f) \in SUBSET Records
    PROVE  SplitTable(MlRows(f))
<1>1. /\ DOMAIN MlRows(f) = Rows(f)
      /\ \A r \in Rows(f) : MlRows(f)[r].split = Split(Rows(f))[r]
  BY DEF MlRows
<1> QED
  BY <1>1 DEF SplitTable

\* What a preprocessing step writes.
LEMMA SourceWrites ==
    ASSUME TablesInv, Step \in Sources
    PROVE  Kind(Step, Table(Step, Output))
<1>1. Table(Step, Output) = SourceRows(Step)
  BY SourceNames, BuiltTables DEF Table
<1>2. SourceRows(Step) \subseteq {r \in Records : Source[r] = Step}
  <2>1. /\ raw[Step] \subseteq {r \in Records : Source[r] = Step}
        /\ Fixtures[Step] \subseteq {r \in Records : Source[r] = Step}
    BY PipelineAssumption DEF TablesInv
  <2> QED
    BY <2>1 DEF SourceRows, Cleaned
<1>3. Step \notin {"incidents", "time", "prioritised", "priority", "ml", "resolution", "sla_ml",
                  "hotspot", "duplicates"}
  BY FourSources
<1> QED
  BY <1>1, <1>2, <1>3 DEF Kind

LEMMA StepReads ==
    /\ \A i : Inputs("build_incidents", i) = Sources
    /\ \A i : /\ Inputs("build_time_features", i) = {"incidents"}
              /\ Inputs("build_geo_features", i) = {"incidents"}
              /\ Inputs("build_duplicate_pairs", i) = {"incidents"}
              /\ Inputs("build_priority_features", i) = {"incidents", "time", "geo"}
    /\ \A i : /\ Inputs("build_resolution_dataset", i) = {Corpus, "time", "geo"}
              /\ Inputs("build_hotspot_dataset", i) = {Corpus}
              /\ Inputs("build_ml_dataset", i) = {Corpus, "time", "geo"}
    /\ \A i : Inputs("build_task_datasets", i) = {TaskSource[i]}
    /\ Needs("build_time_features") = {"incidents"}
    /\ Needs("build_geo_features") = {"incidents"}
    /\ Needs("build_priority_features") = {"incidents"}
    /\ Needs("build_duplicate_pairs") = {"incidents"}
    /\ Needs("build_resolution_dataset") = {Corpus}
    /\ Needs("build_hotspot_dataset") = {Corpus}
    /\ Needs("build_ml_dataset") = {Corpus, "time", "geo"}
<1>1. \A b \in DOMAIN Built : b \notin DOMAIN Checks /\ b \notin Sources
  BY SourceNames
<1>2. /\ "build_incidents" \in DOMAIN Built /\ "build_time_features" \in DOMAIN Built
      /\ "build_geo_features" \in DOMAIN Built /\ "build_priority_features" \in DOMAIN Built
      /\ "build_resolution_dataset" \in DOMAIN Built /\ "build_hotspot_dataset" \in DOMAIN Built
      /\ "build_duplicate_pairs" \in DOMAIN Built /\ "build_ml_dataset" \in DOMAIN Built
      /\ "build_task_datasets" \in DOMAIN Built
  BY BuiltTables
<1>3. /\ \A i : Inputs("build_incidents", i) = Sources
      /\ \A i : /\ Inputs("build_time_features", i) = {"incidents"}
                /\ Inputs("build_geo_features", i) = {"incidents"}
                /\ Inputs("build_duplicate_pairs", i) = {"incidents"}
                /\ Inputs("build_priority_features", i) = {"incidents", "time", "geo"}
  BY <1>1, <1>2 DEF Inputs
<1>4. /\ \A i : /\ Inputs("build_resolution_dataset", i) = {Corpus, "time", "geo"}
                /\ Inputs("build_hotspot_dataset", i) = {Corpus}
                /\ Inputs("build_ml_dataset", i) = {Corpus, "time", "geo"}
      /\ \A i : Inputs("build_task_datasets", i) = {TaskSource[i]}
  BY <1>1, <1>2 DEF Inputs
<1>5. /\ Needs("build_time_features") = {"incidents"}
      /\ Needs("build_geo_features") = {"incidents"}
      /\ Needs("build_priority_features") = {"incidents"}
      /\ Needs("build_duplicate_pairs") = {"incidents"}
      /\ Needs("build_resolution_dataset") = {Corpus}
      /\ Needs("build_hotspot_dataset") = {Corpus}
      /\ Needs("build_ml_dataset") = {Corpus, "time", "geo"}
  BY <1>1, <1>2 DEF Needs
<1> QED
  BY <1>3, <1>4, <1>5

\* What a builder writes, of the tables it found.
LEMMA BuilderWrites ==
    ASSUME TablesInv, Step \in DOMAIN Built, Output \in DOMAIN Built[Step],
           Succeeds(Step, Output), ~LeftAlone(Step, Output)
    PROVE  Kind(Built[Step][Output], Table(Step, Output))
<1> DEFINE name == Built[Step][Output]
           table == Table(Step, Output)
<1>1. /\ \A f \in Inputs(Step, Output) : f \notin torn
      /\ \A f \in Needs(Step) : On(f)
  BY DEF Succeeds
<1>2. Step \notin Sources /\ name \notin Sources
  BY SourceNames
<1>3. CASE Step = "build_incidents"
  <2>1. name = "incidents" /\ table = AllIncidents
    BY <1>2, <1>3, BuiltTables DEF Table
  <2>2. AllIncidents \subseteq Records
    <3> SUFFICES ASSUME NEW s \in Sources, On(s) PROVE file[s] \subseteq Records
      BY DEF AllIncidents, Tables
    <3>1. s \notin torn
      BY <1>1, <1>3, StepReads
    <3>2. Kind(s, file[s])
      BY <3>1 DEF TablesInv, FilesInv, Readable, On
    <3> QED
      BY <3>2 DEF Kind
  <2> QED
    BY <1>2, <2>1, <2>2 DEF Kind
<1>4. CASE Step \in {"build_time_features", "build_geo_features", "build_priority_features",
                     "build_duplicate_pairs"}
  <2>1. Readable("incidents")
    BY <1>1, <1>4, StepReads DEF Readable
  <2>2. file["incidents"] \in SUBSET Records
    BY <2>1, IncidentsKnown
  <2>3. CASE Step = "build_time_features"
    <3>1. name = "time" /\ table = file["incidents"]
      BY <1>2, <2>3, BuiltTables DEF Table, TimeRows
    <3> QED
      BY <1>2, <2>2, <3>1 DEF Kind
  <2>4. CASE Step = "build_geo_features"
    <3>1. name = "geo"
      BY <2>4, BuiltTables
    <3> QED
      BY <1>2, <3>1 DEF Kind
  <2>5. CASE Step = "build_priority_features"
    <3>1. \/ Output = 1 /\ name = "prioritised" /\ table = Prioritised(file["incidents"])
          \/ Output = 2 /\ name = "priority" /\ table = PriorityRows(file["incidents"])
      BY <1>2, <2>5, BuiltTables DEF Table
    <3>2. DOMAIN Prioritised(file["incidents"]) = file["incidents"]
      BY DEF Prioritised
    <3>3. SplitTable(PriorityRows(file["incidents"]))
      BY <2>2, BuiltSplit
    <3> QED
      BY <1>2, <2>2, <3>1, <3>2, <3>3 DEF Kind
  <2>6. CASE Step = "build_duplicate_pairs"
    <3>1. name = "duplicates" /\ table = DuplicatePairs(file["incidents"])
      BY <1>2, <2>6, BuiltTables DEF Table
    <3>2. Positives(file["incidents"]) # {}
      BY <2>6 DEF Succeeds
    <3> QED
      BY <1>2, <3>1, <3>2 DEF Kind
  <2> QED
    BY <1>4, <2>3, <2>4, <2>5, <2>6
<1>5. CASE Step \in {"build_resolution_dataset", "build_hotspot_dataset", "build_ml_dataset"}
  <2>1. Readable(Corpus)
    BY <1>1, <1>5, StepReads DEF Readable
  <2>2. Rows(Corpus) \in SUBSET Records
    BY <2>1, CorpusKnown
  <2>3. CASE Step = "build_resolution_dataset"
    <3>1. name = "resolution" /\ table = ResolutionRows(Rows(Corpus))
      BY <1>2, <2>3, BuiltTables DEF Table
    <3>2. ResolutionTable(ResolutionRows(Rows(Corpus)))
      BY <2>2, BuiltSplit
    <3> QED
      BY <1>2, <3>1, <3>2 DEF Kind
  <2>4. CASE Step = "build_hotspot_dataset"
    <3>1. name = "hotspot" /\ table = HotspotPanel(Rows(Corpus))
      BY <1>2, <2>4, BuiltTables DEF Table
    <3> QED
      BY <1>2, <2>2, <3>1 DEF Kind
  <2>5. CASE Step = "build_ml_dataset"
    <3>1. name = "ml" /\ table = MlRows(Corpus)
      BY <1>2, <2>5, BuiltTables DEF Table
    <3>2. SplitTable(MlRows(Corpus))
      BY <2>2, MlSplit
    <3> QED
      BY <1>2, <3>1, <3>2 DEF Kind
  <2> QED
    BY <1>5, <2>3, <2>4, <2>5
<1>6. CASE Step = "build_task_datasets"
  <2>1. name \in {"resolution_ml", "sla_ml", "hotspot_ml", "duplicate_ml", "priority_features"}
    BY <1>6, BuiltTables
  <2>2. CASE name = "sla_ml"
    <3>1. Output = 2
      BY <1>6, <2>2, BuiltTables
    <3>2. Readable("resolution")
      BY <1>1, <1>6, <3>1, StepReads DEF TaskSource, Readable, LeftAlone
    <3>3. ResolutionTable(file["resolution"])
      <4>1. Kind("resolution", file["resolution"])
        BY <3>2 DEF TablesInv, FilesInv, Readable, On
      <4> QED
        BY <4>1 DEF Kind
    <3>4. table = WithTarget(file["resolution"])
      BY <1>2, <1>6, <3>1, BuiltTables DEF Table, TaskTable, SlaTask
    <3>5. DOMAIN SlaTask # {}
      BY <1>6, <3>1 DEF LeftAlone
    <3> QED
      BY <1>2, <2>2, <3>3, <3>4, <3>5 DEF Kind, SlaTask
  <2> QED
    BY <1>2, <2>1, <2>2 DEF Kind
<1> QED
  BY <1>3, <1>4, <1>5, <1>6, BuiltTables

-----------------------------------------------------------------------------
\* Writing a table of its kind, or tearing it, leaves the others alone.
LEMMA PutKeeps ==
    ASSUME FilesInv, NEW f \in Files, NEW v, Kind(f, v), Put(f, v)
    PROVE  FilesInv'
<1>1. /\ DOMAIN file' = DOMAIN file \cup {f} /\ torn' = torn \ {f}
      /\ \A g \in DOMAIN file' : file'[g] = IF g = f THEN v ELSE file[g]
  BY DEF Put
<1> QED
  BY <1>1 DEF FilesInv, Readable, On

LEMMA CutKeeps ==
    ASSUME FilesInv, NEW f \in Files, Cut(f)
    PROVE  FilesInv'
<1>1. /\ DOMAIN file' = DOMAIN file \cup {f} /\ torn' = torn \cup {f}
      /\ \A g \in DOMAIN file' : g # f => file'[g] = file[g]
  BY DEF Cut
<1> QED
  BY <1>1 DEF FilesInv, Readable, On

LEMMA PhaseDomains ==
    /\ DOMAIN Phases = 1 .. 7
    /\ \A k \in 1 .. 7 : \E n \in Nat : DOMAIN Phases[k] = 1 .. n
<1>1. DOMAIN Cities = 1 .. Len(Cities) /\ Len(Cities) \in Nat
  BY PipelineAssumption
<1>2. DOMAIN Phases = 1 .. 7
  BY DEF Phases
<1>3. /\ DOMAIN Phases[1] = 1 .. 2 /\ Phases[2] = Cities /\ DOMAIN Phases[3] = 1 .. 1
      /\ DOMAIN Phases[4] = 1 .. 2 /\ DOMAIN Phases[5] = 1 .. 1 /\ DOMAIN Phases[6] = 1 .. 5
      /\ DOMAIN Phases[7] = 1 .. 8
  BY DEF Phases
<1>4. ASSUME NEW k \in 1 .. 7 PROVE \E n \in Nat : DOMAIN Phases[k] = 1 .. n
  <2>1. k \in {1, 2, 3, 4, 5, 6, 7}
    OBVIOUS
  <2>2. 1 \in Nat /\ 2 \in Nat /\ 5 \in Nat /\ 8 \in Nat
    OBVIOUS
  <2> QED
    BY <1>1, <1>3, <2>1, <2>2
<1> QED
  BY <1>2, <1>4

\* The next step of a run is one of those it has left, and comes before the others.
LEMMA FirstPlace ==
    ASSUME NEW todo \in SUBSET Places, todo # {}
    PROVE  First(todo) \in todo /\ \A y \in todo : First(todo) = y \/ Before(First(todo), y)
<1> DEFINE rows == {x[1] : x \in todo}
           top == Min(rows)
           row == {x[2] : x \in {y \in todo : y[1] = top}}
           x0 == <<top, Min(row)>>
<1>1. \A x \in Places : /\ x = <<x[1], x[2]>> /\ x[1] \in 1 .. 7
                        /\ x[2] \in DOMAIN Phases[x[1]]
  BY PhaseDomains DEF Places
<1>2. IsFiniteSet(rows) /\ rows \subseteq Int /\ rows # {} /\ rows \subseteq 1 .. 7
  <2>1. rows \in SUBSET (1 .. 7) /\ rows # {}
    BY <1>1
  <2>2. \A n \in Nat : IsFiniteSet(1 .. n)
    BY FS_Interval
  <2>3. IsFiniteSet(rows)
    BY <2>1, <2>2, FS_Subset
  <2>4. 1 .. 7 \subseteq Int
    OBVIOUS
  <2> QED
    BY <2>1, <2>3, <2>4
<1> HIDE DEF rows
<1>3. top \in rows /\ \A u \in rows : top <= u
  BY <1>2, LeastOf
<1>4. top \in 1 .. 7
  BY <1>2, <1>3
<1> HIDE DEF top
<1>5. IsFiniteSet(row) /\ row \subseteq Int /\ row # {}
  <2>1. PICK n \in Nat : DOMAIN Phases[top] = 1 .. n
    BY <1>4, PhaseDomains
  <2>2. row \in SUBSET (1 .. n)
    BY <1>1, <2>1
  <2>3. row # {}
    BY <1>3 DEF rows
  <2>4. IsFiniteSet(1 .. n) /\ 1 .. n \subseteq Int
    BY FS_Interval
  <2>5. IsFiniteSet(row)
    BY <2>2, <2>4, FS_Subset
  <2> QED
    BY <2>2, <2>3, <2>4, <2>5
<1>6. Min(row) \in row /\ \A u \in row : Min(row) <= u
  <2> HIDE DEF row
  <2> QED
    BY <1>5, LeastOf
<1>7. PICK x \in todo : x[1] = top /\ x[2] = Min(row)
  BY <1>6
<1>8. \A y \in todo : x = y \/ Before(x, y)
  <2> SUFFICES ASSUME NEW y \in todo, x # y PROVE Before(x, y)
    OBVIOUS
  <2>1. y[1] \in Int /\ x[1] \in Int /\ x[1] <= y[1]
    BY <1>2, <1>3, <1>7 DEF rows
  <2>2. CASE y[1] = x[1]
    <3>1. y[2] \in row /\ x[2] \in row
      BY <1>7, <2>2
    <3>2. x[2] \in Int /\ y[2] \in Int /\ x[2] <= y[2]
      <4> HIDE DEF row
      <4> QED
        BY <1>5, <1>6, <1>7, <3>1
    <3>3. x[2] # y[2]
      BY <1>1, <2>2
    <3> QED
      BY <2>2, <3>2, <3>3 DEF Before
  <2> QED
    BY <2>1, <2>2 DEF Before
<1> HIDE DEF row
<1> QED
  BY <1>8 DEF First

\* Going on to the next output, or the next step.
LEMMA AdvanceKeeps ==
    ASSUME RunInv, Working, run' = Advance
    PROVE  RunInv'
<1>1. /\ DOMAIN run = RunFields /\ run.part \in Nat
      /\ run.todo \subseteq Places /\ run.failed \subseteq {StepAt(x) : x \in Places}
  BY DEF RunInv, Working
<1>2. CASE Output < Len(Writes(Step))
  <2>1. run' = [run EXCEPT !.part = Output]
    BY <1>2 DEF Advance
  <2>2. /\ DOMAIN run' = RunFields /\ run'.part = Output /\ run'.todo = run.todo
        /\ run'.failed = run.failed
    BY <1>1, <2>1 DEF RunFields
  <2>3. Step' = Step
    BY <2>2 DEF Step
  <2>4. Output \in Nat
    BY <1>1 DEF Output
  <2> QED
    BY <1>1, <1>2, <2>2, <2>3, <2>4 DEF RunInv, Writes
<1>3. CASE ~(Output < Len(Writes(Step)))
  <2>1. run' = [run EXCEPT !.todo = @ \ {First(@)}, !.part = 0, !.alarms = @ \cup Alarms(Step)]
    BY <1>3 DEF Advance
  <2>2. /\ DOMAIN run' = RunFields /\ run'.part = 0 /\ run'.todo \subseteq run.todo
        /\ run'.failed = run.failed
    BY <1>1, <2>1 DEF RunFields
  <2> QED
    BY <1>1, <2>2 DEF RunInv
<1> QED
  BY <1>2, <1>3

LEMMA TablesStep == TablesInv /\ [Next]_vars => TablesInv'
<1> SUFFICES ASSUME TablesInv, [Next]_vars PROVE TablesInv'
  OBVIOUS
<1>0. RunInv /\ FilesInv
  BY DEF TablesInv
<1>1. ASSUME NEW c \in Commands, Start(c) PROVE TablesInv'
  <2>1. /\ DOMAIN run' = RunFields /\ run'.part = 0 /\ run'.failed = {} /\ run'.todo = Asked(c)
        /\ UNCHANGED <<raw, file, torn>>
    BY <1>1 DEF Start, RunFields
  <2>2. Asked(c) \subseteq Places
    BY DEF Asked
  <2>3. RunInv'
    BY <2>1, <2>2 DEF RunInv
  <2> QED
    BY <2>1, <2>3 DEF TablesInv, FilesInv, Readable, On
<1>2. CASE WriteTable
  <2>1. Working /\ Writes(Step) # <<>> /\ Succeeds(Step, Output) /\ ~LeftAlone(Step, Output)
    BY <1>2 DEF WriteTable, Writing
  <2> DEFINE name == Writes(Step)[Output]
             table == Table(Step, Output)
  <2>2. name \in Files
    BY <2>1, OutputNamed
  <2>3. Kind(name, table)
    BY <2>1, OutputNamed, SourceWrites, BuilderWrites
  <2>4. Put(name, table) /\ run' = Advance /\ raw' = raw
    BY <1>2 DEF WriteTable
  <2> HIDE DEF name, table
  <2>5. FilesInv'
    BY <1>0, <2>2, <2>3, <2>4, PutKeeps
  <2>6. RunInv'
    BY <1>0, <2>1, <2>4, AdvanceKeeps
  <2> QED
    BY <2>4, <2>5, <2>6 DEF TablesInv
<1>3. CASE PassOn
  <2>1. Working /\ run' = Advance /\ UNCHANGED <<raw, file, torn>>
    BY <1>3 DEF PassOn
  <2>2. RunInv'
    BY <1>0, <2>1, AdvanceKeeps
  <2> QED
    BY <2>1, <2>2 DEF TablesInv, FilesInv, Readable, On
<1>4. CASE StepFails
  <2>1. /\ DOMAIN run = RunFields /\ run.todo \subseteq Places /\ run.todo # {}
        /\ run.failed \subseteq {StepAt(x) : x \in Places}
    BY <1>0, <1>4 DEF StepFails, Working, RunInv
  <2>2. /\ run' = [run EXCEPT !.failed = @ \cup {Step}, !.part = 0,
                              !.todo = IF run.keep THEN @ \ {First(@)} ELSE {}]
        /\ UNCHANGED <<raw, file, torn>>
    BY <1>4 DEF StepFails
  <2>3. /\ DOMAIN run' = RunFields /\ run'.part = 0
        /\ run'.todo \subseteq run.todo /\ run'.failed = run.failed \cup {Step}
    BY <2>1, <2>2 DEF RunFields
  <2>4. First(run.todo) \in Places
    BY <2>1, FirstPlace
  <2>5. RunInv'
    BY <2>1, <2>3, <2>4 DEF RunInv, Step
  <2> QED
    BY <2>2, <2>5 DEF TablesInv, FilesInv, Readable, On
<1>5. CASE Finish
  <2>1. run' = NONE /\ UNCHANGED <<raw, file, torn>>
    BY <1>5 DEF Finish
  <2> QED
    BY <2>1 DEF TablesInv, RunInv, FilesInv, Readable, On
<1>6. CASE Kill
  <2>1. Working /\ Writes(Step) # <<>>
    BY <1>6 DEF Kill, Writing
  <2> DEFINE name == Writes(Step)[Output]
  <2>2. name \in Files
    BY <2>1, OutputNamed
  <2>3. Cut(name) /\ run' = NONE /\ raw' = raw
    BY <1>6 DEF Kill
  <2> HIDE DEF name
  <2>4. FilesInv'
    BY <1>0, <2>2, <2>3, CutKeeps
  <2> QED
    BY <2>3, <2>4 DEF TablesInv, RunInv
<1>7. CASE Deliver
  <2>1. raw' \in Deliveries /\ run' = NONE /\ file' = file /\ torn' = torn
    BY <1>7 DEF Deliver
  <2> QED
    BY <2>1 DEF TablesInv, RunInv, FilesInv, Readable, On
<1>8. CASE DeleteProcessed
  <2>1. raw' = raw /\ run' = NONE /\ file' = <<>> /\ torn' = {}
    BY <1>8 DEF DeleteProcessed
  <2>2. DOMAIN file' = {}
    BY <2>1
  <2> QED
    BY <2>1, <2>2 DEF TablesInv, RunInv, FilesInv, Readable, On
<1>9. CASE UNCHANGED vars
  <2>1. UNCHANGED <<raw, file, torn, run>>
    BY <1>9 DEF vars
  <2> QED
    BY <2>1 DEF TablesInv, RunInv, FilesInv, Readable, On, Step
<1> QED
  BY <1>1, <1>2, <1>3, <1>4, <1>5, <1>6, <1>7, <1>8, <1>9 DEF Next

LEMMA TablesAlways == PipelineSpec => []TablesInv
<1>1. Init => TablesInv
  <2>1. file = <<>> => DOMAIN file = {}
    OBVIOUS
  <2> QED
    BY <2>1 DEF Init, TablesInv, RunInv, FilesInv, Readable, On
<1> QED
  BY <1>1, TablesStep, PTL DEF PipelineSpec

-----------------------------------------------------------------------------
(***************************************************************************)
(* However long the chains of duplicates are, and whatever pairs the       *)
(* negatives draw, no incident of the table of duplicate pairs is in pairs *)
(* of two folds.                                                           *)
(***************************************************************************)
THEOREM DuplicateGroupsAlwaysInOneFold == PipelineSpec => []DuplicateGroupsStayInOneFold
<1>1. TablesInv => DuplicateGroupsStayInOneFold
  <2> SUFFICES ASSUME TablesInv, Readable("duplicates")
               PROVE  EntitiesInOneFold(file["duplicates"])
    BY DEF DuplicateGroupsStayInOneFold
  <2>2. Kind("duplicates", file["duplicates"])
    BY DEF TablesInv, FilesInv, Readable, On
  <2>3. PICK X : file["duplicates"] = DuplicatePairs(X)
    BY <2>2 DEF Kind
  <2> QED
    BY <2>3, PairsInOneFold
<1> QED
  BY <1>1, TablesAlways, PTL

(***************************************************************************)
(* Every table with a split on disk is cut in time order, per city and as  *)
(* a whole, and no fold is empty that three distinct times could fill,     *)
(* whatever runs, kills and deliveries came before.                        *)
(***************************************************************************)
THEOREM FoldsAlwaysOrderedAndInhabited == PipelineSpec => []FoldsAreOrderedAndInhabited
<1>1. TablesInv => FoldsAreOrderedAndInhabited
  <2> SUFFICES ASSUME TablesInv PROVE FoldsAreOrderedAndInhabited
    OBVIOUS
  <2>2. ASSUME NEW f \in {"priority", "ml", "resolution"}, Readable(f)
        PROVE  /\ OrderedRows(file[f])
               /\ \A s \in Sources :
                    Inhabited({r \in DOMAIN file[f] : Source[r] = s}, At, FoldOf(file[f]))
               /\ Ordered(DOMAIN file[f], At, OneGroup(DOMAIN file[f]), GlobalFold(file[f]))
               /\ Inhabited(DOMAIN file[f], At, GlobalFold(file[f]))
    <3>1. Kind(f, file[f])
      BY <2>2 DEF TablesInv, FilesInv, Readable, On
    <3>2. SplitTable(file[f])
      BY <2>2, <3>1 DEF Kind, ResolutionTable
    <3> QED
      BY <3>2, SplitTableSound
  <2>3. ASSUME Readable("hotspot")
        PROVE  /\ OrderedPanel(file["hotspot"])
               /\ \A s \in Sources :
                    Inhabited({x \in DOMAIN file["hotspot"] : x[1][1] = s},
                              PanelStart(file["hotspot"]), PanelFold(file["hotspot"]))
    <3>1. Kind("hotspot", file["hotspot"])
      BY <2>3 DEF TablesInv, FilesInv, Readable, On
    <3>2. PICK X \in SUBSET Records : file["hotspot"] = HotspotPanel(X)
      BY <3>1 DEF Kind
    <3> QED
      BY <3>2, PanelSound
  <2> QED
    BY <2>2, <2>3 DEF FoldsAreOrderedAndInhabited
<1> QED
  BY <1>1, TablesAlways, PTL

-----------------------------------------------------------------------------
(***************************************************************************)
(* One corpus.  While a run that started at phase 4 or before it has not   *)
(* failed, what it has written so far describes the incident table: the    *)
(* outputs of phases 4 to 6 are ranked in the order in which they are      *)
(* written, and those up to the run's level are made of one another.       *)
(***************************************************************************)
Rank == [time |-> 1, geo |-> 2, prioritised |-> 3, priority |-> 4, resolution |-> 5,
         hotspot |-> 6, duplicates |-> 7, ml |-> 8, resolution_ml |-> 9, sla_ml |-> 10,
         hotspot_ml |-> 11, duplicate_ml |-> 12, priority_features |-> 13]

\* What a run that rebuilds has to say of each output
Resolved(rows) == Closed(InScope(rows))

Scored(f) ==
  LET rows == file["incidents"]
  IN /\ Readable(f) /\ DOMAIN file[f] = rows
     /\ \A r \in rows : /\ file[f][r].policy = file["prioritised"][r] /\ file[f][r].timed
                        /\ file[f][r].density = file["geo"][r]

Made(f) ==
  LET rows == file["incidents"] IN
  /\ f = "time" => Readable("incidents") /\ Readable("time") /\ file["time"] = rows
  /\ f = "geo" => Readable("geo") /\ file["geo"] = HistoricalDensity(rows)
  /\ f = "prioritised" => /\ Readable("prioritised")
                          /\ file["prioritised"] = [r \in rows |-> ApplyBlock(r, file["geo"][r])]
  /\ f = "priority" => Scored("priority")
  /\ f = "resolution" => /\ Readable("resolution") /\ DOMAIN file["resolution"] = Resolved(rows)
                         /\ \A r \in Resolved(rows) :
                              /\ file["resolution"][r].density = file["geo"][r]
                              /\ file["resolution"][r].timed
  /\ f = "hotspot" => Readable("hotspot") /\ file["hotspot"] = HotspotPanel(rows)
  /\ f = "duplicates" => Readable("duplicates") /\ file["duplicates"] = DuplicatePairs(rows)
  /\ f = "ml" => Scored("ml")
  /\ f = "resolution_ml" => Readable("resolution_ml") /\ file["resolution_ml"] = file["resolution"]
  /\ f = "sla_ml" => (DOMAIN SlaTask # {} => Readable("sla_ml") /\ file["sla_ml"] = SlaTask)
  /\ f = "hotspot_ml" => Readable("hotspot_ml") /\ file["hotspot_ml"] = file["hotspot"]
  /\ f = "duplicate_ml" => Readable("duplicate_ml") /\ file["duplicate_ml"] = file["duplicates"]
  /\ f = "priority_features" => /\ Readable("priority_features")
                                /\ file["priority_features"] = file["priority"]

UpTo(n) == \A f \in DOMAIN Rank : Rank[f] <= n => Made(f)

\* The outputs that precede a place
Base(x) == IF x[1] <= 3 THEN 0 ELSE IF x[1] = 4 THEN x[2] - 1 ELSE IF x[1] = 5 THEN 2
           ELSE IF x[1] = 6 THEN x[2] + 3 ELSE 13

Level == IF run.todo = {} THEN 13 ELSE Base(First(run.todo)) + run.part

\* The places of the steps that build the datasets
Mid == {<<4, 1>>, <<4, 2>>, <<5, 1>>, <<6, 1>>, <<6, 2>>, <<6, 3>>, <<6, 4>>, <<6, 5>>}

\* No step of phases 4 to 6 is passed over.
Whole(todo) == \A x \in todo, y \in Mid : Before(x, y) => y \in todo

Checkers == {"dataset_status", "validate_mappings", "data_quality_report", "validate_provenance",
             "validate_leakage", "validate_outputs", "audit_pipeline", "audit_task_datasets",
             "audit_statistics", "report_category_candidates"}

\* The runs that rebuild: of their steps, only some that check have failed.
Good ==
  /\ run # NONE /\ run.only = NONE /\ run.from <= 4
  /\ run.failed = {} \/ (run.keep /\ run.failed \subseteq Checkers)

CorpusInv ==
  /\ run # NONE => outcome = NONE
  /\ Good => Whole(run.todo) /\ UpTo(Level)
  /\ Rebuilt => Readable("incidents") /\ Coherent(file["incidents"])

LEMMA CheckersDomain == DOMAIN Checks = Checkers /\ Verifiers \subseteq Checkers
  BY DEF Checks, Checkers, Verifiers

LEMMA RankDomain ==
    DOMAIN Rank = {"time", "geo", "prioritised", "priority", "resolution", "hotspot", "duplicates",
                   "ml", "resolution_ml", "sla_ml", "hotspot_ml", "duplicate_ml",
                   "priority_features"}
  BY DEF Rank

LEMMA Ranks ==
    /\ Rank["time"] = 1 /\ Rank["geo"] = 2 /\ Rank["prioritised"] = 3 /\ Rank["priority"] = 4
    /\ Rank["resolution"] = 5 /\ Rank["hotspot"] = 6 /\ Rank["duplicates"] = 7 /\ Rank["ml"] = 8
    /\ Rank["resolution_ml"] = 9 /\ Rank["sla_ml"] = 10 /\ Rank["hotspot_ml"] = 11
    /\ Rank["duplicate_ml"] = 12 /\ Rank["priority_features"] = 13
  BY DEF Rank

\* When all the outputs are made, the datasets describe one incident table.
LEMMA AllMade ==
    ASSUME UpTo(13)
    PROVE  Readable("incidents") /\ Coherent(file["incidents"])
<1>1. \A f \in DOMAIN Rank : Made(f)
  <2>1. \A f \in DOMAIN Rank : Rank[f] <= 13
    BY RankDomain, Ranks
  <2> QED
    BY <2>1 DEF UpTo
<1>2. /\ Made("time") /\ Made("geo") /\ Made("prioritised") /\ Made("priority")
      /\ Made("resolution") /\ Made("hotspot") /\ Made("duplicates") /\ Made("ml")
      /\ Made("resolution_ml") /\ Made("sla_ml") /\ Made("hotspot_ml") /\ Made("duplicate_ml")
      /\ Made("priority_features")
  BY <1>1, RankDomain
<1> DEFINE rows == file["incidents"]
<1>3. /\ Readable("incidents") /\ Readable("time") /\ file["time"] = rows
      /\ Readable("geo") /\ file["geo"] = HistoricalDensity(rows)
      /\ Readable("prioritised")
      /\ file["prioritised"] = [r \in rows |-> ApplyBlock(r, file["geo"][r])]
  BY <1>2 DEF Made
<1>4. Scored("priority") /\ Scored("ml")
  BY <1>2 DEF Made
<1>5. /\ Readable("resolution") /\ DOMAIN file["resolution"] = Resolved(rows)
      /\ \A r \in Resolved(rows) : /\ file["resolution"][r].density = file["geo"][r]
                                   /\ file["resolution"][r].timed
  BY <1>2 DEF Made
<1>6. /\ Readable("hotspot") /\ file["hotspot"] = HotspotPanel(rows)
      /\ Readable("duplicates") /\ file["duplicates"] = DuplicatePairs(rows)
  BY <1>2 DEF Made
<1>7. /\ Readable("resolution_ml") /\ file["resolution_ml"] = file["resolution"]
      /\ DOMAIN SlaTask # {} => Readable("sla_ml") /\ file["sla_ml"] = SlaTask
      /\ Readable("hotspot_ml") /\ file["hotspot_ml"] = file["hotspot"]
      /\ Readable("duplicate_ml") /\ file["duplicate_ml"] = file["duplicates"]
      /\ Readable("priority_features") /\ file["priority_features"] = file["priority"]
  BY <1>2 DEF Made
<1>8. \A f \in {"priority", "ml"} :
        /\ Readable(f) /\ DOMAIN file[f] = rows
        /\ \A r \in rows : file[f][r].policy = file["prioritised"][r] /\ file[f][r].timed
  BY <1>4 DEF Scored
<1>9. \A f \in {"time", "geo", "prioritised", "priority", "ml", "resolution", "hotspot",
               "duplicates", "resolution_ml", "hotspot_ml", "duplicate_ml",
               "priority_features"} : Readable(f)
  BY <1>3, <1>5, <1>6, <1>7, <1>8
<1> HIDE DEF rows
<1>10. Coherent(rows)
  BY <1>3, <1>5, <1>6, <1>7, <1>8, <1>9 DEF Coherent, Resolved, Closed, rows
<1> QED
  BY <1>3, <1>10 DEF rows

LEMMA MadeReadable ==
    ASSUME NEW f \in DOMAIN Rank, f # "sla_ml", Made(f)
    PROVE  Readable(f)
<1>1. CASE f \in {"time", "geo", "prioritised", "resolution"}
  BY <1>1 DEF Made
<1>2. CASE f \in {"priority", "ml"}
  BY <1>2 DEF Made, Scored
<1>3. CASE f \in {"hotspot", "duplicates", "resolution_ml", "hotspot_ml", "duplicate_ml",
                  "priority_features"}
  BY <1>3 DEF Made
<1> QED
  BY <1>1, <1>2, <1>3, RankDomain

\* What an output says is not disturbed by the ones that are written after it.
LEMMA WritesLater ==
    ASSUME NEW n \in Int, UpTo(n), NEW g \in DOMAIN Rank, Rank[g] > n, NEW v, Put(g, v)
    PROVE  UpTo(n)'
<1> SUFFICES ASSUME NEW f \in DOMAIN Rank, Rank[f] <= n PROVE Made(f)'
  BY DEF UpTo
<1>1. Made(f)
  BY DEF UpTo
<1>2. \A h : Readable(h) /\ h # g => Readable(h)' /\ file'[h] = file[h]
  BY DEF Put, Readable, On
<1>3. \A h \in DOMAIN Rank : Rank[h] \in Int /\ Rank["time"] <= Rank[h]
  BY RankDomain, Ranks
<1>4. \A h \in DOMAIN Rank : Rank[h] <= Rank[f] => h # g /\ Made(h)
  BY <1>3 DEF UpTo
<1>5. ASSUME NEW h \in DOMAIN Rank, Rank[h] <= Rank[f], h # "sla_ml"
      PROVE  Readable(h) /\ Readable(h)' /\ file'[h] = file[h]
  <2>1. Readable(h) /\ h # g
    BY <1>4, <1>5, MadeReadable
  <2> QED
    BY <1>2, <2>1
<1>6. Readable("incidents") /\ Readable("incidents")' /\ file'["incidents"] = file["incidents"]
  <2>1. Made("time") /\ g # "incidents"
    BY <1>3, <1>4, RankDomain
  <2>2. Readable("incidents")
    BY <2>1 DEF Made
  <2> QED
    BY <1>2, <2>1, <2>2
<1>7. CASE f = "time"
  <2>1. Readable("time")' /\ file'["time"] = file["time"]
    BY <1>3, <1>5, <1>7, RankDomain
  <2> QED
    BY <1>1, <1>6, <1>7, <2>1 DEF Made
<1>8. CASE f = "geo"
  <2>1. Readable("geo")' /\ file'["geo"] = file["geo"]
    BY <1>3, <1>5, <1>8, RankDomain
  <2> QED
    BY <1>1, <1>6, <1>8, <2>1 DEF Made
<1>9. CASE f = "prioritised"
  <2>1. /\ Readable("prioritised")' /\ file'["prioritised"] = file["prioritised"]
        /\ file'["geo"] = file["geo"]
    BY <1>5, <1>9, RankDomain, Ranks
  <2> QED
    BY <1>1, <1>6, <1>9, <2>1 DEF Made
<1>10. CASE f \in {"priority", "ml"}
  <2>1. /\ Readable(f) /\ Readable(f)' /\ file'[f] = file[f]
        /\ file'["prioritised"] = file["prioritised"] /\ file'["geo"] = file["geo"]
    BY <1>5, <1>10, RankDomain, Ranks
  <2>2. Scored(f)
    BY <1>1, <1>10 DEF Made
  <2>3. Scored(f)'
    BY <1>6, <2>1, <2>2 DEF Scored
  <2> QED
    BY <1>10, <2>3 DEF Made
<1>11. CASE f = "resolution"
  <2>1. /\ Readable("resolution")' /\ file'["resolution"] = file["resolution"]
        /\ file'["geo"] = file["geo"]
    BY <1>5, <1>11, RankDomain, Ranks
  <2> QED
    BY <1>1, <1>6, <1>11, <2>1 DEF Made
<1>12. CASE f \in {"hotspot", "duplicates"}
  <2>1. Readable(f)' /\ file'[f] = file[f]
    BY <1>3, <1>5, <1>12, RankDomain
  <2> QED
    BY <1>1, <1>6, <1>12, <2>1 DEF Made
<1>13. CASE f = "resolution_ml"
  <2>1. Readable(f)' /\ file'[f] = file[f] /\ file'["resolution"] = file["resolution"]
    BY <1>5, <1>13, RankDomain, Ranks
  <2> QED
    BY <1>1, <1>13, <2>1 DEF Made
<1>14. CASE f = "hotspot_ml"
  <2>1. Readable(f)' /\ file'[f] = file[f] /\ file'["hotspot"] = file["hotspot"]
    BY <1>5, <1>14, RankDomain, Ranks
  <2> QED
    BY <1>1, <1>14, <2>1 DEF Made
<1>15. CASE f = "duplicate_ml"
  <2>1. Readable(f)' /\ file'[f] = file[f] /\ file'["duplicates"] = file["duplicates"]
    BY <1>5, <1>15, RankDomain, Ranks
  <2> QED
    BY <1>1, <1>15, <2>1 DEF Made
<1>16. CASE f = "priority_features"
  <2>1. Readable(f)' /\ file'[f] = file[f] /\ file'["priority"] = file["priority"]
    BY <1>5, <1>16, RankDomain, Ranks
  <2> QED
    BY <1>1, <1>16, <2>1 DEF Made
<1>17. CASE f = "sla_ml"
  <2>1. file'["resolution"] = file["resolution"] /\ g # "sla_ml"
    BY <1>4, <1>5, <1>17, RankDomain, Ranks
  <2>2. SlaTask' = SlaTask
    BY <2>1 DEF SlaTask
  <2>3. Readable("sla_ml") => Readable("sla_ml")' /\ file'["sla_ml"] = file["sla_ml"]
    BY <1>2, <2>1
  <2>4. DOMAIN SlaTask # {} => Readable("sla_ml") /\ file["sla_ml"] = SlaTask
    BY <1>1, <1>17 DEF Made
  <2> QED
    BY <1>17, <2>2, <2>3, <2>4 DEF Made
<1> QED
  BY <1>7, <1>8, <1>9, <1>10, <1>11, <1>12, <1>13, <1>14, <1>15, <1>16, <1>17, RankDomain

LEMMA PlaceFacts ==
    ASSUME NEW p \in Places
    PROVE  /\ p[1] \in 1 .. 7 /\ p[2] \in Nat /\ p[2] >= 1
           /\ p[1] = 4 => p[2] \in 1 .. 2
           /\ p[1] = 6 => p[2] \in 1 .. 5
<1>1. p[1] \in 1 .. 7 /\ p[2] \in DOMAIN Phases[p[1]]
  BY PhaseDomains DEF Places
<1>2. PICK n \in Nat : DOMAIN Phases[p[1]] = 1 .. n
  BY <1>1, PhaseDomains
<1>3. DOMAIN Phases[4] = 1 .. 2 /\ DOMAIN Phases[6] = 1 .. 5
  BY DEF Phases
<1>4. p[2] \in Nat /\ p[2] >= 1
  BY <1>1, <1>2
<1>5. p[1] = 4 => p[2] \in 1 .. 2
  BY <1>1, <1>3
<1>6. p[1] = 6 => p[2] \in 1 .. 5
  BY <1>1, <1>3
<1> QED
  BY <1>1, <1>4, <1>5, <1>6

\* The order of the places is the order of the outputs.
LEMMA BaseGrows ==
    ASSUME NEW x \in Places, NEW y \in Places, x = y \/ Before(x, y)
    PROVE  /\ Base(x) <= Base(y)
           /\ Base(x) \in 0 .. 13
<1>1. /\ x[1] \in {1, 2, 3, 4, 5, 6, 7} /\ x[2] \in Nat /\ x[2] >= 1
      /\ x[1] = 4 => x[2] \in 1 .. 2
      /\ x[1] = 6 => x[2] \in 1 .. 5
  BY PlaceFacts
<1>2. /\ y[1] \in {1, 2, 3, 4, 5, 6, 7} /\ y[2] \in Nat /\ y[2] >= 1
      /\ y[1] = 4 => y[2] \in 1 .. 2
      /\ y[1] = 6 => y[2] \in 1 .. 5
  BY PlaceFacts
<1>3. Base(x) \in 0 .. 13
  BY <1>1 DEF Base
<1>4. CASE x = y
  BY <1>3, <1>4
<1>5. CASE Before(x, y)
  BY <1>1, <1>2, <1>3, <1>5 DEF Before, Base
<1> QED
  BY <1>3, <1>4, <1>5

LEMMA MidSteps ==
    /\ StepAt(<<4, 1>>) = "build_time_features" /\ StepAt(<<4, 2>>) = "build_geo_features"
    /\ StepAt(<<5, 1>>) = "build_priority_features"
    /\ StepAt(<<6, 1>>) = "build_resolution_dataset" /\ StepAt(<<6, 2>>) = "build_hotspot_dataset"
    /\ StepAt(<<6, 3>>) = "build_duplicate_pairs" /\ StepAt(<<6, 4>>) = "build_ml_dataset"
    /\ StepAt(<<6, 5>>) = "build_task_datasets"
    /\ Mid \subseteq Places
    /\ \A x \in Mid : StepAt(x) \in DOMAIN Built
<1>1. /\ Phases[4] = <<"build_time_features", "build_geo_features">>
      /\ Phases[5] = <<"build_priority_features">>
      /\ Phases[6] = <<"build_resolution_dataset", "build_hotspot_dataset",
                       "build_duplicate_pairs", "build_ml_dataset", "build_task_datasets">>
  BY DEF Phases
<1>2. /\ StepAt(<<4, 1>>) = "build_time_features" /\ StepAt(<<4, 2>>) = "build_geo_features"
      /\ StepAt(<<5, 1>>) = "build_priority_features"
      /\ StepAt(<<6, 1>>) = "build_resolution_dataset" /\ StepAt(<<6, 2>>) = "build_hotspot_dataset"
      /\ StepAt(<<6, 3>>) = "build_duplicate_pairs" /\ StepAt(<<6, 4>>) = "build_ml_dataset"
      /\ StepAt(<<6, 5>>) = "build_task_datasets"
  BY <1>1 DEF StepAt
<1>3. \A x \in Mid : StepAt(x) \in DOMAIN Built
  BY <1>2, BuiltTables DEF Mid
<1>4. \A k \in {4, 5, 6} : \A i \in DOMAIN Phases[k] : <<k, i>> \in Places
  <2> SUFFICES ASSUME NEW k \in {4, 5, 6}, NEW i \in DOMAIN Phases[k] PROVE <<k, i>> \in Places
    OBVIOUS
  <2>1. k \in DOMAIN Phases
    BY PhaseDomains
  <2>2. <<k, i>> \in {k} \X DOMAIN Phases[k]
    OBVIOUS
  <2> QED
    BY <2>1, <2>2 DEF Places
<1>5. DOMAIN Phases[4] = 1 .. 2 /\ DOMAIN Phases[5] = 1 .. 1 /\ DOMAIN Phases[6] = 1 .. 5
  BY <1>1
<1>6. Mid \subseteq Places
  BY <1>4, <1>5 DEF Mid
<1> QED
  BY <1>2, <1>3, <1>6

\* A place of another phase is not one of these steps.
LEMMA OtherPhases ==
    ASSUME NEW x \in Places, x \notin Mid
    PROVE  /\ x[1] \in 1 .. 3 \/ x[1] = 7
           /\ StepAt(x) \in DOMAIN Built => StepAt(x) = "build_incidents"
           /\ x[1] = 7 => StepAt(x) \in DOMAIN Checks
           /\ StepAt(x) \in Verifiers => x[1] <= 3
<1>1. x[1] \in 1 .. 7 /\ x[2] \in DOMAIN Phases[x[1]] /\ x = <<x[1], x[2]>>
  BY PhaseDomains DEF Places
<1>2. DOMAIN Phases[4] = 1 .. 2 /\ DOMAIN Phases[5] = 1 .. 1 /\ DOMAIN Phases[6] = 1 .. 5
  BY DEF Phases
<1>3. x[1] # 4
  <2>1. x[1] = 4 => x[2] \in 1 .. 2
    BY <1>1, <1>2
  <2>2. x[1] = 4 => x[2] \in {1, 2}
    BY <2>1
  <2> QED
    BY <1>1, <2>2 DEF Mid
<1>4. x[1] # 5
  <2>1. x[1] = 5 => x[2] \in 1 .. 1
    BY <1>1, <1>2
  <2>2. x[1] = 5 => x[2] = 1
    BY <2>1
  <2> QED
    BY <1>1, <2>2 DEF Mid
<1>5. x[1] # 6
  <2>1. x[1] = 6 => x[2] \in 1 .. 5
    BY <1>1, <1>2
  <2>2. x[1] = 6 => x[2] \in {1, 2, 3, 4, 5}
    BY <2>1
  <2> QED
    BY <1>1, <2>2 DEF Mid
<1>6. x[1] \in {1, 2, 3, 7}
  BY <1>1, <1>3, <1>4, <1>5
<1>7. CASE x[1] = 1
  <2>1. Phases[1] = <<"dataset_status", "validate_mappings">>
    BY DEF Phases
  <2>2. StepAt(x) \in {"dataset_status", "validate_mappings"}
    BY <1>1, <1>7, <2>1 DEF StepAt
  <2> QED
    BY <1>7, <2>2, BuiltTables
<1>8. CASE x[1] = 2
  <2>1. Phases[2] = Cities
    BY DEF Phases
  <2>2. StepAt(x) \in Sources
    BY <1>1, <1>8, <2>1 DEF StepAt, Sources
  <2> QED
    BY <1>8, <2>2, SourceNames
<1>9. CASE x[1] = 3
  <2>1. Phases[3] = <<"build_incidents">>
    BY DEF Phases
  <2>2. StepAt(x) = "build_incidents"
    BY <1>1, <1>9, <2>1 DEF StepAt
  <2> QED
    BY <1>9, <2>2
<1>10. CASE x[1] = 7
  <2>1. Phases[7] =
          <<"data_quality_report", "validate_provenance", "validate_leakage", "validate_outputs",
            "audit_pipeline", "audit_task_datasets", "audit_statistics",
            "report_category_candidates">>
    BY DEF Phases
  <2>2. StepAt(x) \in {"data_quality_report", "validate_provenance", "validate_leakage",
                       "validate_outputs", "audit_pipeline", "audit_task_datasets",
                       "audit_statistics", "report_category_candidates"}
    BY <1>1, <1>10, <2>1 DEF StepAt
  <2>3. StepAt(x) \notin DOMAIN Built
    BY <2>2, BuiltTables
  <2>4. StepAt(x) \in DOMAIN Checks
    BY <2>2 DEF Checks
  <2>5. StepAt(x) \notin Verifiers
    BY <2>2 DEF Verifiers
  <2> QED
    BY <1>10, <2>3, <2>4, <2>5
<1> QED
  BY <1>6, <1>7, <1>8, <1>9, <1>10

\* When a step is over, no step of these phases is passed over, and the level
\* rises by no more than the outputs of the step.
LEMMA NextStep ==
    ASSUME NEW todo \in SUBSET Places, todo # {}, Whole(todo)
    PROVE  LET h == First(todo)
               rest == todo \ {h}
           IN  /\ h \in Places /\ Whole(rest)
               /\ rest # {} => First(rest) \in Places
               /\ h \in Mid => (IF rest = {} THEN 13 ELSE Base(First(rest)))
                                 <= Base(h) + Len(Writes(StepAt(h)))
               /\ h[1] <= 3 => rest # {} /\ Base(First(rest)) = 0
<1> DEFINE h == First(todo)
           rest == todo \ {h}
<1>1. h \in todo /\ \A y \in todo : h = y \/ Before(h, y)
  BY FirstPlace
<1>2. \A x \in Places : x[1] \in Nat /\ x[2] \in Nat
  BY PlaceFacts
<1>3. \A x, y \in Places : ~(Before(x, y) /\ Before(y, x)) /\ ~Before(x, x)
  BY <1>2 DEF Before
<1>4. Whole(rest)
  <2> SUFFICES ASSUME NEW x \in rest, NEW y \in Mid, Before(x, y) PROVE y \in rest
    BY DEF Whole
  <2>1. y \in todo
    BY DEF Whole
  <2>2. y # h
    BY <1>1, <1>3
  <2> QED
    BY <2>1, <2>2
<1>5. rest # {} => First(rest) \in rest /\ \A y \in rest : First(rest) = y \/ Before(First(rest), y)
  BY FirstPlace
<1> HIDE DEF h
<1>6. ASSUME NEW y \in rest PROVE Base(First(rest)) <= Base(y)
  BY <1>5, <1>6, BaseGrows
<1>7. ASSUME NEW y \in Mid, Before(h, y) PROVE y \in rest
  BY <1>1, <1>3, <1>7 DEF Whole
<1> HIDE DEF rest
<1>8. ASSUME h[1] <= 3
      PROVE  rest # {} /\ Base(First(rest)) = 0
  <2>1. <<4, 1>> \in rest
    <3>1. Before(h, <<4, 1>>) /\ <<4, 1>> \in Mid
      BY <1>1, <1>2, <1>8 DEF Before, Mid
    <3> QED
      BY <1>7, <3>1
  <2>2. Base(First(rest)) <= 0
    <3>1. Base(<<4, 1>>) = 0
      BY DEF Base
    <3> QED
      BY <1>6, <2>1, <3>1
  <2>3. First(rest) \in Places
    BY <1>5, <2>1 DEF rest
  <2>4. Base(First(rest)) \in 0 .. 13
    BY <2>3, BaseGrows
  <2> QED
    BY <2>1, <2>2, <2>4
<1>9. ASSUME h \in Mid
      PROVE  (IF rest = {} THEN 13 ELSE Base(First(rest))) <= Base(h) + Len(Writes(StepAt(h)))
  <2> DEFINE next == IF rest = {} THEN 13 ELSE Base(First(rest))
             after(y) == Base(y) = Base(h) + Len(Writes(StepAt(h)))
  <2>1. next \in 0 .. 13
    BY <1>5, BaseGrows DEF rest
  <2>2. \A b \in DOMAIN Built : Writes(b) = Built[b]
    BY DEF Writes
  <2>3. CASE h = <<6, 5>>
    <3>1. Base(h) = 8 /\ Len(Writes(StepAt(h))) = 5
      BY <2>2, <2>3, MidSteps, BuiltTables DEF Base
    <3> QED
      BY <2>1, <3>1
  <2>4. ASSUME NEW y \in Mid, Before(h, y), after(y)
        PROVE  next <= Base(h) + Len(Writes(StepAt(h)))
    BY <1>6, <1>7, <2>4
  <2>5. CASE h = <<4, 1>>
    <3>1. <<4, 2>> \in Mid /\ Before(h, <<4, 2>>) /\ Base(h) = 0 /\ Base(<<4, 2>>) = 1
      BY <2>5 DEF Mid, Before, Base
    <3>2. Len(Writes(StepAt(h))) = 1
      BY <2>2, <2>5, MidSteps, BuiltTables
    <3> QED
      BY <2>4, <3>1, <3>2
  <2>6. CASE h = <<4, 2>>
    <3>1. <<5, 1>> \in Mid /\ Before(h, <<5, 1>>) /\ Base(h) = 1 /\ Base(<<5, 1>>) = 2
      BY <2>6 DEF Mid, Before, Base
    <3>2. Len(Writes(StepAt(h))) = 1
      BY <2>2, <2>6, MidSteps, BuiltTables
    <3> QED
      BY <2>4, <3>1, <3>2
  <2>7. CASE h = <<5, 1>>
    <3>1. <<6, 1>> \in Mid /\ Before(h, <<6, 1>>) /\ Base(h) = 2 /\ Base(<<6, 1>>) = 4
      BY <2>7 DEF Mid, Before, Base
    <3>2. Len(Writes(StepAt(h))) = 2
      BY <2>2, <2>7, MidSteps, BuiltTables
    <3> QED
      BY <2>4, <3>1, <3>2
  <2>8. CASE h \in {<<6, 1>>, <<6, 2>>, <<6, 3>>, <<6, 4>>}
    <3>1. /\ h[1] = 6 /\ h[2] \in 1 .. 4 /\ <<6, h[2] + 1>> \in Mid /\ Before(h, <<6, h[2] + 1>>)
          /\ Base(h) = h[2] + 3 /\ Base(<<6, h[2] + 1>>) = h[2] + 4
      BY <2>8 DEF Mid, Before, Base
    <3>2. Len(Writes(StepAt(h))) = 1
      BY <2>2, <2>8, MidSteps, BuiltTables
    <3> QED
      BY <2>4, <3>1, <3>2
  <2> QED
    BY <1>9, <2>3, <2>5, <2>6, <2>7, <2>8 DEF Mid
<1>10. h \in Places /\ (rest # {} => First(rest) \in Places)
  BY <1>1, <1>5 DEF rest
<1> QED
  BY <1>4, <1>8, <1>9, <1>10 DEF h, rest

\* The output under way is the one that follows the run's level.
LEMMA OutputRanked ==
    ASSUME TablesInv, Working, First(run.todo) \in Mid
    PROVE  /\ Step \in DOMAIN Built /\ Writes(Step) = Built[Step] /\ Output \in DOMAIN Built[Step]
           /\ Level \in Int /\ Level = Base(First(run.todo)) + run.part
           /\ Built[Step][Output] \in DOMAIN Rank /\ Rank[Built[Step][Output]] = Level + 1
<1> DEFINE h == First(run.todo)
<1>1. Step \in DOMAIN Built /\ Writes(Step) = Built[Step]
  BY MidSteps DEF Step, Writes
<1>2. Output \in DOMAIN Built[Step]
  <2>1. Writes(Step) # <<>>
    BY <1>1, BuiltTables
  <2>2. Step \notin Sources
    BY <1>1, SourceNames
  <2> QED
    BY <2>1, <2>2, OutputNamed
<1>3. run.part \in Nat
  BY DEF TablesInv, RunInv, Working
<1>4. Level = Base(h) + run.part
  BY DEF Level, Working
<1>5. Output = run.part + 1
  BY DEF Output
<1>6. Step = StepAt(h)
  BY DEF Step
<1> HIDE DEF h
<1>7. CASE h \in {<<4, 1>>, <<4, 2>>, <<6, 1>>, <<6, 2>>, <<6, 3>>, <<6, 4>>}
  <2>0. Step \in {"build_time_features", "build_geo_features", "build_resolution_dataset",
                  "build_hotspot_dataset", "build_duplicate_pairs", "build_ml_dataset"}
    BY <1>6, <1>7, MidSteps
  <2>1. Output = 1
    BY <1>2, <2>0, BuiltTables
  <2>2. run.part = 0
    BY <1>3, <1>5, <2>1
  <2>3. Base(h) = Rank[Built[Step][1]] - 1 /\ Built[Step][1] \in DOMAIN Rank
    BY <1>6, <1>7, MidSteps, BuiltTables, Ranks, RankDomain DEF Base
  <2>4. Base(h) \in Int /\ Rank[Built[Step][1]] \in Int
    BY <1>6, <1>7, MidSteps, BuiltTables, Ranks DEF Base
  <2> QED
    BY <1>1, <1>2, <1>4, <2>1, <2>2, <2>3, <2>4 DEF h
<1>8. CASE h = <<5, 1>>
  <2>1. Base(h) = 2 /\ Step = "build_priority_features"
    BY <1>6, <1>8, MidSteps DEF Base
  <2>2. Output \in {1, 2}
    BY <1>2, <2>1, BuiltTables
  <2>3. Built[Step][Output] \in DOMAIN Rank /\ Rank[Built[Step][Output]] = 2 + Output
    BY <2>1, <2>2, BuiltTables, Ranks, RankDomain
  <2> QED
    BY <1>1, <1>2, <1>3, <1>4, <1>5, <2>1, <2>3 DEF h
<1>9. CASE h = <<6, 5>>
  <2>1. Base(h) = 8 /\ Step = "build_task_datasets"
    BY <1>6, <1>9, MidSteps DEF Base
  <2>2. Output \in {1, 2, 3, 4, 5}
    BY <1>2, <2>1, BuiltTables
  <2>3. Built[Step][Output] \in DOMAIN Rank /\ Rank[Built[Step][Output]] = 8 + Output
    BY <2>1, <2>2, BuiltTables, Ranks, RankDomain
  <2> QED
    BY <1>1, <1>2, <1>3, <1>4, <1>5, <2>1, <2>3 DEF h
<1> QED
  BY <1>7, <1>8, <1>9 DEF Mid, h

\* Writing it makes it what the rest of the corpus asks of it.
LEMMA OutputMade ==
    ASSUME TablesInv, Working, First(run.todo) \in Mid, UpTo(Level), Succeeds(Step, Output),
           Put(Built[Step][Output], Table(Step, Output))
    PROVE  \A f \in DOMAIN Rank : f = Built[Step][Output] => Made(f)'
<1> SUFFICES ASSUME NEW name \in DOMAIN Rank, name = Built[Step][Output]
             PROVE  Made(name)'
  OBVIOUS
<1> DEFINE table == Table(Step, Output)
           rows == file["incidents"]
           h == First(run.todo)
<1>1. /\ Step \in DOMAIN Built /\ Output \in DOMAIN Built[Step] /\ Level \in Int
      /\ Rank[name] = Level + 1
  BY OutputRanked
<1>2. Readable(name)' /\ file'[name] = table
  BY DEF Put, Readable, On
<1>3. \A g : Readable(g) /\ g # name => Readable(g)' /\ file'[g] = file[g]
  BY DEF Put, Readable, On
<1>4. Step \notin Sources
  BY <1>1, SourceNames
<1>5. /\ \A f \in Needs(Step) : On(f)
      /\ Inputs(Step, Output) \cap torn = {}
  BY DEF Succeeds
<1>6. \A f \in DOMAIN Rank : Rank[f] < Rank[name] => Made(f)
  <2>1. \A f \in DOMAIN Rank : Rank[f] \in Int
    BY RankDomain, Ranks
  <2> QED
    BY <1>1, <2>1 DEF UpTo
<1>7. Step = StepAt(h)
  BY DEF Step
<1>8. /\ table = CASE Step = "build_time_features" -> TimeRows(file["incidents"])
                   [] Step = "build_geo_features" -> GeoRows(file["incidents"])
                   [] Step = "build_priority_features" ->
                        IF Output = 1 THEN Prioritised(file["incidents"])
                        ELSE PriorityRows(file["incidents"])
                   [] Step = "build_resolution_dataset" -> ResolutionRows(Rows(Corpus))
                   [] Step = "build_hotspot_dataset" -> HotspotPanel(Rows(Corpus))
                   [] Step = "build_duplicate_pairs" -> DuplicatePairs(file["incidents"])
                   [] Step = "build_ml_dataset" -> MlRows(Corpus)
                   [] Step = "build_task_datasets" -> TaskTable(Output)
  BY <1>1, <1>4, <1>7, MidSteps DEF Table, Mid
<1> HIDE DEF table, h
<1>9. CASE h = <<4, 1>>
  <2>1. name = "time" /\ Readable("incidents") /\ table = rows
    BY <1>1, <1>5, <1>7, <1>8, <1>9, MidSteps, BuiltTables, StepReads DEF TimeRows, Readable
  <2>2. Readable("incidents")' /\ file'["incidents"] = rows
    BY <1>3, <2>1
  <2>3. Made("time")'
    BY <1>2, <2>1, <2>2 DEF Made
  <2> QED
    BY <2>1, <2>3
<1>10. ASSUME name # "time"
       PROVE  Readable("incidents")' /\ file'["incidents"] = rows /\ Readable("incidents")
  <2>1. Made("time") /\ name # "incidents"
    BY <1>1, <1>6, <1>10, RankDomain, Ranks
  <2>2. Readable("incidents")
    BY <2>1 DEF Made
  <2> QED
    BY <1>3, <2>1, <2>2
<1>11. CASE h = <<4, 2>>
  <2>1. name = "geo" /\ table = HistoricalDensity(rows)
    BY <1>1, <1>7, <1>8, <1>11, MidSteps, BuiltTables DEF GeoRows
  <2>2. Made("geo")'
    BY <1>2, <1>10, <2>1 DEF Made
  <2> QED
    BY <2>1, <2>2
\* The feature tables give every incident its own density and time.
<1>12. ASSUME name \notin {"time", "geo"}
       PROVE  /\ Readable("geo") /\ Readable("time") /\ file["time"] = rows
              /\ DOMAIN file["geo"] = rows /\ file'["geo"] = file["geo"]
              /\ \A r \in rows : Density(r) = file["geo"][r] /\ Timed(r)
  <2>1. Made("time") /\ Made("geo")
    BY <1>1, <1>6, <1>12, RankDomain, Ranks
  <2>2. Readable("time") /\ file["time"] = rows
    BY <2>1 DEF Made
  <2>3. Readable("geo") /\ file["geo"] = HistoricalDensity(rows)
    BY <2>1 DEF Made
  <2>4. DOMAIN HistoricalDensity(rows) = rows
    BY DEF HistoricalDensity
  <2>5. \A r \in rows : Density(r) = file["geo"][r] /\ Timed(r)
    BY <2>2, <2>3, <2>4 DEF Density, Timed, Readable
  <2> QED
    BY <1>3, <1>12, <2>2, <2>3, <2>4, <2>5
<1>13. CASE h = <<5, 1>> /\ Output = 1
  <2>1. name = "prioritised" /\ table = Prioritised(rows)
    BY <1>1, <1>7, <1>8, <1>13, MidSteps, BuiltTables
  <2>2. \A r \in rows : ApplyBlock(r, Density(r)) = ApplyBlock(r, file'["geo"][r])
    BY <1>12, <2>1
  <2>3. table = [r \in rows |-> ApplyBlock(r, file'["geo"][r])]
    BY <2>1, <2>2 DEF Prioritised
  <2>4. Made("prioritised")'
    BY <1>2, <1>10, <2>1, <2>3 DEF Made
  <2> QED
    BY <2>1, <2>4
<1>14. CASE h = <<5, 1>> /\ Output # 1
  <2>1. name = "priority" /\ table = PriorityRows(rows)
    BY <1>1, <1>7, <1>8, <1>14, MidSteps, BuiltTables
  <2>2. Made("prioritised")
    BY <1>6, <2>1, RankDomain, Ranks
  <2>3. Readable("prioritised") /\ file["prioritised"] = [r \in rows |-> ApplyBlock(r, file["geo"][r])]
    BY <2>2 DEF Made
  <2>4. file'["prioritised"] = file["prioritised"]
    BY <1>3, <2>1, <2>3
  <2>5. \A r \in rows : /\ table[r].policy = ApplyBlock(r, Density(r))
                        /\ table[r].timed = TimedOrDerived(r)
                        /\ table[r].density = Density(r)
    BY <2>1 DEF PriorityRows
  <2>6. \A r \in rows : table[r].policy = file'["prioritised"][r]
    BY <1>12, <2>1, <2>3, <2>4, <2>5
  <2>7. \A r \in rows : table[r].timed /\ table[r].density = file'["geo"][r]
    BY <1>12, <2>1, <2>5 DEF TimedOrDerived
  <2>8. DOMAIN table = rows
    BY <2>1 DEF PriorityRows
  <2>9. Scored("priority")'
    BY <1>2, <1>10, <2>1, <2>6, <2>7, <2>8 DEF Scored
  <2> QED
    BY <2>1, <2>9 DEF Made
\* The steps of phase 6 find the prioritised table.
<1>15. ASSUME name \notin {"time", "geo", "prioritised", "priority"}
       PROVE  /\ Corpus = "prioritised" /\ Rows(Corpus) = rows
              /\ Readable("prioritised") /\ file'["prioritised"] = file["prioritised"]
  <2>1. Made("prioritised")
    BY <1>1, <1>6, <1>15, RankDomain, Ranks
  <2>2. Readable("prioritised") /\ file["prioritised"] = [r \in rows |-> ApplyBlock(r, file["geo"][r])]
    BY <2>1 DEF Made
  <2>3. DOMAIN file["prioritised"] = rows
    BY <2>2
  <2> QED
    BY <1>3, <1>15, <2>2, <2>3 DEF Corpus, Rows, Readable
<1>16. CASE h = <<6, 1>>
  <2>1. name = "resolution" /\ table = ResolutionRows(Rows(Corpus))
    BY <1>1, <1>7, <1>8, <1>16, MidSteps, BuiltTables
  <2>2. table = ResolutionRows(rows)
    BY <1>15, <2>1
  <2>3. /\ DOMAIN table = Resolved(rows)
        /\ \A r \in Resolved(rows) : /\ table[r].density = Density(r)
                                     /\ table[r].timed = TimedOrDerived(r)
    BY <2>2 DEF ResolutionRows, Resolved, Closed
  <2>4. Resolved(rows) \subseteq rows
    BY DEF Resolved, Closed, InScope
  <2>5. \A r \in Resolved(rows) : table[r].density = file'["geo"][r] /\ table[r].timed
    BY <1>12, <2>1, <2>3, <2>4 DEF TimedOrDerived
  <2>6. Made("resolution")'
    BY <1>2, <1>10, <2>1, <2>3, <2>5 DEF Made
  <2> QED
    BY <2>1, <2>6
<1>17. CASE h = <<6, 2>>
  <2>1. name = "hotspot" /\ table = HotspotPanel(Rows(Corpus))
    BY <1>1, <1>7, <1>8, <1>17, MidSteps, BuiltTables
  <2>2. table = HotspotPanel(rows)
    BY <1>15, <2>1
  <2>3. Made("hotspot")'
    BY <1>2, <1>10, <2>1, <2>2 DEF Made
  <2> QED
    BY <2>1, <2>3
<1>18. CASE h = <<6, 3>>
  <2>1. name = "duplicates" /\ table = DuplicatePairs(rows)
    BY <1>1, <1>7, <1>8, <1>18, MidSteps, BuiltTables
  <2>2. Made("duplicates")'
    BY <1>2, <1>10, <2>1 DEF Made
  <2> QED
    BY <2>1, <2>2
<1>19. CASE h = <<6, 4>>
  <2>1. name = "ml" /\ table = MlRows(Corpus)
    BY <1>1, <1>7, <1>8, <1>19, MidSteps, BuiltTables
  <2>2. Corpus = "prioritised" /\ Rows("prioritised") = rows
        /\ file'["prioritised"] = file["prioritised"]
    BY <1>15, <2>1
  <2>3. DOMAIN table = rows
        /\ \A r \in rows : /\ table[r].policy = file["prioritised"][r]
                           /\ table[r].timed = Timed(r)
                           /\ table[r].density = Density(r)
    BY <2>1, <2>2 DEF MlRows
  <2>4. \A r \in rows : table[r].timed /\ table[r].density = file'["geo"][r]
    BY <1>12, <2>1, <2>3
  <2>5. Scored("ml")'
    BY <1>2, <1>10, <2>1, <2>2, <2>3, <2>4 DEF Scored
  <2> QED
    BY <2>1, <2>5 DEF Made
<1>20. CASE h = <<6, 5>>
  <2>1. Output \in {1, 2, 3, 4, 5} /\ table = TaskTable(Output)
    BY <1>1, <1>7, <1>8, <1>20, MidSteps, BuiltTables
  <2>2. name = Built["build_task_datasets"][Output]
    BY <1>7, <1>20, MidSteps
  <2>3. /\ Readable("resolution") /\ Readable("hotspot") /\ Readable("duplicates")
        /\ Readable("priority")
        /\ name \notin {"resolution", "hotspot", "duplicates", "priority"}
    <3>1. Rank[name] >= 9
      BY <2>1, <2>2, BuiltTables, Ranks
    <3>2. Made("resolution") /\ Made("hotspot") /\ Made("duplicates") /\ Made("priority")
      BY <1>6, <3>1, RankDomain, Ranks
    <3> QED
      BY <3>1, <3>2, MadeReadable, RankDomain, Ranks
  <2>4. /\ file'["resolution"] = file["resolution"] /\ file'["hotspot"] = file["hotspot"]
        /\ file'["duplicates"] = file["duplicates"] /\ file'["priority"] = file["priority"]
    BY <1>3, <2>3
  <2>5. CASE Output = 1
    <3>1. name = "resolution_ml" /\ table = file["resolution"]
      BY <2>1, <2>2, <2>5, BuiltTables DEF TaskTable, ResolutionTask
    <3> QED
      BY <1>2, <2>4, <3>1 DEF Made
  <2>6. CASE Output = 2
    <3>1. name = "sla_ml" /\ table = SlaTask
      BY <2>1, <2>2, <2>6, BuiltTables DEF TaskTable
    <3>2. SlaTask' = SlaTask
      BY <2>4 DEF SlaTask
    <3> QED
      BY <1>2, <3>1, <3>2 DEF Made
  <2>7. CASE Output = 3
    <3>1. name = "hotspot_ml" /\ table = file["hotspot"]
      BY <2>1, <2>2, <2>7, BuiltTables DEF TaskTable, HotspotTask
    <3> QED
      BY <1>2, <2>4, <3>1 DEF Made
  <2>8. CASE Output = 4
    <3>1. name = "duplicate_ml" /\ table = file["duplicates"]
      BY <2>1, <2>2, <2>8, BuiltTables DEF TaskTable, DuplicateTask
    <3> QED
      BY <1>2, <2>4, <3>1 DEF Made
  <2>9. CASE Output = 5
    <3>1. name = "priority_features" /\ table = file["priority"]
      BY <2>1, <2>2, <2>9, BuiltTables DEF TaskTable, PriorityTask
    <3> QED
      BY <1>2, <2>4, <3>1 DEF Made
  <2> QED
    BY <2>1, <2>5, <2>6, <2>7, <2>8, <2>9
<1> QED
  BY <1>9, <1>11, <1>13, <1>14, <1>16, <1>17, <1>18, <1>19, <1>20 DEF Mid, h

\* An output that is left alone has nothing to say.
LEMMA OutputLeftAlone ==
    ASSUME TablesInv, Working, First(run.todo) \in Mid, UpTo(Level), LeftAlone(Step, Output)
    PROVE  Made(Built[Step][Output])
<1> DEFINE h == First(run.todo)
<1>1. /\ Step \in DOMAIN Built /\ Output \in DOMAIN Built[Step] /\ Level \in Int
      /\ Level = Base(h) + run.part
  BY OutputRanked
<1>2. Step = "build_task_datasets"
  BY <1>1, SourceNames DEF LeftAlone
<1>3. Output \in {1, 2, 3, 4, 5}
  BY <1>1, <1>2, BuiltTables
<1>4. h = <<6, 5>>
  BY <1>2, MidSteps DEF Step, Mid
<1>5. Level >= 8
  <2>1. run.part \in Nat
    BY DEF TablesInv, RunInv, Working
  <2>2. Base(h) = 8
    BY <1>4 DEF Base
  <2> QED
    BY <1>1, <2>1, <2>2
<1>6. /\ Readable("resolution") /\ Readable("hotspot") /\ Readable("duplicates")
      /\ Readable("priority")
  <2>1. Made("resolution") /\ Made("hotspot") /\ Made("duplicates") /\ Made("priority")
    BY <1>1, <1>5, RankDomain, Ranks DEF UpTo
  <2> QED
    BY <2>1, MadeReadable, RankDomain
<1>7. TaskSource[Output] \in {"resolution", "hotspot", "duplicates", "priority"}
  BY <1>3 DEF TaskSource
<1>8. \A f \in Inputs(Step, Output) : On(f)
  BY <1>2, <1>6, <1>7, StepReads DEF Readable
<1>9. Output = 2 /\ DOMAIN SlaTask = {}
  BY <1>1, <1>8, SourceNames DEF LeftAlone
<1>10. Built[Step][Output] = "sla_ml"
  BY <1>2, <1>9, BuiltTables
<1> QED
  BY <1>9, <1>10 DEF Made

\* Going on raises the level by the output that is done.
LEMMA AdvanceLevel ==
    ASSUME TablesInv, Working, Whole(run.todo), run' = Advance
    PROVE  /\ Whole(run.todo)'
           /\ First(run.todo) \in Mid => Level' <= Level + 1
           /\ First(run.todo)[1] <= 3 => Level' <= 0
           /\ First(run.todo)[1] = 7 => Level' <= 13 /\ Level >= 13
           /\ Level' \in Int
<1> DEFINE todo == run.todo
           h == First(todo)
           rest == todo \ {h}
<1>1. /\ DOMAIN run = RunFields /\ todo \in SUBSET Places /\ todo # {} /\ run.part \in Nat
      /\ run.part = 0 \/ run.part < Len(Writes(Step))
  BY DEF TablesInv, RunInv, Working
<1>2. /\ h \in Places /\ Whole(rest)
      /\ rest # {} => First(rest) \in Places
      /\ h \in Mid => (IF rest = {} THEN 13 ELSE Base(First(rest))) <= Base(h) + Len(Writes(StepAt(h)))
      /\ h[1] <= 3 => rest # {} /\ Base(First(rest)) = 0
  BY <1>1, NextStep
<1>3. Base(h) \in 0 .. 13 /\ (rest # {} => Base(First(rest)) \in 0 .. 13)
  BY <1>2, BaseGrows
<1>4. Step = StepAt(h) /\ Output = run.part + 1 /\ Level = Base(h) + run.part
  BY <1>1 DEF Step, Output, Level
<1>5. h[1] = 7 => Base(h) = 13
  BY DEF Base
<1>6. Len(Writes(Step)) \in Nat
  <2>1. CASE Step \in DOMAIN Built
    BY <2>1, BuiltTables DEF Writes
  <2>2. CASE Step \notin DOMAIN Built
    BY <2>2 DEF Writes
  <2> QED
    BY <2>1, <2>2
<1>7. h \notin Mid => Len(Writes(Step)) <= 1
  <2>1. h \notin Mid => (Step \in DOMAIN Built => Step = "build_incidents")
    BY <1>2, <1>4, OtherPhases
  <2>2. Step = "build_incidents" => Writes(Step) = <<"incidents">>
    BY BuiltTables DEF Writes
  <2>3. Step \notin DOMAIN Built => Writes(Step) = <<>> \/ Writes(Step) = <<Step>>
    BY DEF Writes
  <2>4. Len(<<>>) = 0 /\ Len(<<"incidents">>) = 1 /\ Len(<<Step>>) = 1
    OBVIOUS
  <2>5. Step = "build_incidents" => Len(Writes(Step)) = 1
    BY <2>2, <2>4, Zenon
  <2>6. Step \notin DOMAIN Built => Len(Writes(Step)) = 0 \/ Len(Writes(Step)) = 1
    BY <2>3, <2>4, Zenon
  <2> DEFINE len == Len(Writes(Step))
  <2>7. h \notin Mid => len = 0 \/ len = 1
    BY <2>1, <2>5, <2>6, Zenon
  <2> HIDE DEF len
  <2>8. h \notin Mid => len <= 1
    BY <2>7
  <2> QED
    BY <2>8, Zenon DEF len
<1>8. \A x \in Mid : x[1] \in 4 .. 6
  BY DEF Mid
<1>9. h[1] \in Nat
  BY <1>2, PlaceFacts
<1>10. CASE Output < Len(Writes(Step))
  <2>1. run' = [run EXCEPT !.part = Output]
    BY <1>10 DEF Advance
  <2>2. run'.part = Output /\ run'.todo = todo
    BY <1>1, <2>1 DEF RunFields
  <2>3. h \in Mid
    BY <1>1, <1>4, <1>6, <1>7, <1>10
  <2>4. Level' = Base(h) + Output
    BY <1>1, <2>2 DEF Level
  <2>5. Level' = Level + 1
    <3>1. Base(h) \in Int
      BY <1>3
    <3>2. run.part \in Int
      BY <1>1
    <3> HIDE DEF h
    <3> QED
      BY <1>4, <2>4, <3>1, <3>2
  <2> QED
    BY <1>1, <1>3, <1>4, <1>8, <2>2, <2>3, <2>4, <2>5
<1>11. CASE ~(Output < Len(Writes(Step)))
  <2>1. run' = [run EXCEPT !.todo = @ \ {First(@)}, !.part = 0, !.alarms = @ \cup Alarms(Step)]
    BY <1>11 DEF Advance
  <2>2. run'.part = 0 /\ run'.todo = rest
    BY <1>1, <2>1 DEF RunFields
  <2>3. Level' = IF rest = {} THEN 13 ELSE Base(First(rest)) + 0
    BY <2>2 DEF Level
  <2> HIDE DEF rest
  <2>4. Level' \in 0 .. 13
    BY <1>3, <2>3
  <2>5. h \in Mid => Level' <= Level + 1
    <3> SUFFICES ASSUME h \in Mid PROVE Level' <= Level + 1
      OBVIOUS
    <3>1. Level' = IF rest = {} THEN 13 ELSE Base(First(rest))
      BY <1>3, <2>3
    <3>2. Level' <= Base(h) + Len(Writes(StepAt(h)))
      BY <1>2, <3>1
    <3> DEFINE len == Len(Writes(Step))
    <3>3. Level' <= Base(h) + len /\ len \in Nat /\ ~(Output < len)
      BY <1>4, <1>6, <1>11, <3>2
    <3>4. Base(h) \in Int
      BY <1>3
    <3>5. run.part \in Int
      BY <1>1
    <3>6. Level' \in Int
      BY <2>4
    <3> HIDE DEF len, h
    <3> QED
      BY <1>4, <3>3, <3>4, <3>5, <3>6
  <2>6. h[1] <= 3 => Level' <= 0
    BY <1>2, <2>3
  <2>7. h[1] = 7 => Level' <= 13 /\ Level >= 13
    BY <1>1, <1>4, <1>5, <2>4
  <2>8. Whole(run.todo)'
    BY <1>2, <2>2
  <2> QED
    BY <2>4, <2>5, <2>6, <2>7, <2>8
<1> QED
  BY <1>10, <1>11

LEMMA SameFiles == ASSUME file' = file, torn' = torn PROVE \A f : Made(f) => Made(f)'
  BY DEF Made, Scored, Readable, On, SlaTask

\* Whatever a good run does next, its outputs up to the new level are made.
LEMMA GoodAdvances ==
    ASSUME TablesInv, Working, Whole(run.todo), UpTo(Level), run' = Advance,
           WriteTable \/ PassOn
    PROVE  Whole(run.todo)' /\ UpTo(Level)'
<1> DEFINE h == First(run.todo)
<1>1. /\ Whole(run.todo)'
      /\ h \in Mid => Level' <= Level + 1
      /\ h[1] <= 3 => Level' <= 0
      /\ h[1] = 7 => Level' <= 13 /\ Level >= 13
      /\ Level' \in Int
  BY AdvanceLevel
<1>2. \A f \in DOMAIN Rank : Rank[f] \in 1 .. 13
  BY RankDomain, Ranks
<1>3. \A f, g \in DOMAIN Rank : Rank[f] = Rank[g] => f = g
  BY RankDomain, Ranks
<1>4. h \in Places
  BY FirstPlace DEF TablesInv, RunInv, Working
<1>5. CASE h \in Mid
  <2>1. /\ Step \in DOMAIN Built /\ Writes(Step) = Built[Step] /\ Output \in DOMAIN Built[Step]
        /\ Level \in Int
        /\ Built[Step][Output] \in DOMAIN Rank /\ Rank[Built[Step][Output]] = Level + 1
    BY <1>5, OutputRanked
  <2>2. PICK n \in Int : n = Level
    BY <2>1
  <2>3. PICK g \in DOMAIN Rank : g = Built[Step][Output]
    BY <2>1
  <2>4. PICK v : v = Table(Step, Output)
    OBVIOUS
  <2>5. UpTo(n)
    BY <2>2
  <2>6. Rank[g] = n + 1
    BY <2>1, <2>2, <2>3
  <2>7. CASE WriteTable
    <3>1. Succeeds(Step, Output) /\ Put(Built[Step][Output], Table(Step, Output))
      BY <2>1, <2>7 DEF WriteTable, Writing
    <3>2. Made(g)'
      BY <1>5, <2>3, <3>1, OutputMade
    <3>3. Put(g, v)
      BY <2>3, <2>4, <3>1
    <3>4. Rank[g] > n
      BY <2>6
    <3>5. UpTo(n)'
      BY <2>5, <3>3, <3>4, WritesLater
    <3>6. \A f \in DOMAIN Rank : Rank[f] <= n => Made(f)'
      BY <3>5 DEF UpTo
    <3>7. \A f \in DOMAIN Rank : Rank[f] <= n + 1 => Made(f)'
      BY <1>2, <1>3, <2>6, <3>2, <3>6
    <3>8. \A f \in DOMAIN Rank : Rank[f] <= Level' => Made(f)'
      BY <1>1, <1>2, <1>5, <2>2, <3>7
    <3> QED
      BY <1>1, <3>8 DEF UpTo
  <2>8. CASE PassOn
    <3>1. LeftAlone(Step, Output)
      <4>1. Writes(Step) # <<>>
        BY <2>1, BuiltTables
      <4> QED
        BY <2>8, <4>1 DEF PassOn, Writing
    <3>2. Made(g)
      BY <1>5, <2>3, <3>1, OutputLeftAlone
    <3>3. \A f \in DOMAIN Rank : Rank[f] <= n => Made(f)
      BY <2>5 DEF UpTo
    <3>4. \A f \in DOMAIN Rank : Rank[f] <= n + 1 => Made(f)
      BY <1>2, <1>3, <2>6, <3>2, <3>3
    <3>5. \A f \in DOMAIN Rank : Rank[f] <= n + 1 => Made(f)'
      BY <2>8, <3>4, SameFiles DEF PassOn
    <3>6. \A f \in DOMAIN Rank : Rank[f] <= Level' => Made(f)'
      BY <1>1, <1>2, <1>5, <2>2, <3>5
    <3> QED
      BY <1>1, <3>6 DEF UpTo
  <2> QED
    BY <2>7, <2>8
<1>6. CASE h \notin Mid
  <2>1. /\ h[1] \in 1 .. 3 \/ h[1] = 7
        /\ h[1] = 7 => StepAt(h) \in DOMAIN Checks
    BY <1>4, <1>6, OtherPhases
  <2>2. CASE h[1] \in 1 .. 3
    <3>1. \A f \in DOMAIN Rank : ~(Rank[f] <= Level')
      BY <1>1, <1>2, <2>2
    <3> QED
      BY <1>1, <3>1 DEF UpTo
  <2>3. CASE h[1] = 7
    <3>1. Writes(Step) = <<>>
      BY <2>1, <2>3, SourceNames DEF Step, Writes
    <3>2. file' = file /\ torn' = torn
      BY <3>1 DEF WriteTable, Writing, PassOn
    <3>3. Level >= 13 /\ Level \in Int
      <4>1. run.part \in Nat /\ Base(h) \in 0 .. 13
        BY <1>4, BaseGrows DEF TablesInv, RunInv, Working
      <4> QED
        BY <1>1, <2>3, <4>1 DEF Level, Working
    <3>4. \A f \in DOMAIN Rank : Made(f)
      BY <1>2, <3>3 DEF UpTo
    <3>5. \A f \in DOMAIN Rank : Made(f)'
      BY <3>2, <3>4, SameFiles
    <3> QED
      BY <1>1, <3>5 DEF UpTo
  <2> QED
    BY <2>1, <2>2, <2>3
<1> QED
  BY <1>5, <1>6

LEMMA GoodStarts ==
    ASSUME TablesInv, NEW c \in Commands, Start(c)
    PROVE  Good' => Whole(run.todo)' /\ UpTo(Level)'
<1> SUFFICES ASSUME Good' PROVE Whole(run.todo)' /\ UpTo(Level)'
  OBVIOUS
<1>1. /\ run'.only = c.only /\ run'.from = c.from /\ run'.part = 0 /\ run'.todo = Asked(c)
  BY DEF Start
<1>2. c.only = NONE /\ c.from <= 4 /\ c.from \in 1 .. 7
  BY <1>1, PipelineAssumption DEF Good
<1>3. Mid \subseteq Asked(c)
  <2> SUFFICES ASSUME NEW x \in Mid PROVE x \in Asked(c)
    OBVIOUS
  <2>1. x \in Places /\ StepAt(x) \notin Sources
    BY MidSteps, SourceNames
  <2>2. x[1] >= c.from
    BY <1>2 DEF Mid
  <2> QED
    BY <1>2, <2>1, <2>2 DEF Asked
<1>4. Whole(Asked(c))
  BY <1>3 DEF Whole
<1>5. Asked(c) \in SUBSET Places /\ <<4, 1>> \in Asked(c)
  BY <1>3 DEF Asked, Mid
<1>6. First(Asked(c)) \in Asked(c)
      /\ (First(Asked(c)) = <<4, 1>> \/ Before(First(Asked(c)), <<4, 1>>))
  BY <1>5, FirstPlace
<1>7. Base(First(Asked(c))) <= 0 /\ Base(First(Asked(c))) \in 0 .. 13
  <2>1. Base(<<4, 1>>) = 0
    BY DEF Base
  <2>2. First(Asked(c)) \in Places /\ <<4, 1>> \in Places
    BY <1>5, <1>6
  <2> QED
    BY <1>6, <2>1, <2>2, BaseGrows
<1>8. Level' = Base(First(Asked(c))) + 0
  BY <1>1, <1>5 DEF Level
<1>9. \A f \in DOMAIN Rank : Rank[f] \in 1 .. 13
  BY RankDomain, Ranks
<1>10. \A f \in DOMAIN Rank : ~(Rank[f] <= Level')
  BY <1>7, <1>8, <1>9
<1> QED
  BY <1>1, <1>4, <1>10 DEF UpTo

LEMMA GoodFails ==
    ASSUME TablesInv, CorpusInv, StepFails
    PROVE  Good' => Whole(run.todo)' /\ UpTo(Level)'
<1> SUFFICES ASSUME Good' PROVE Whole(run.todo)' /\ UpTo(Level)'
  OBVIOUS
<1> DEFINE h == First(run.todo)
           rest == run.todo \ {h}
<1>1. /\ DOMAIN run = RunFields /\ run.todo \in SUBSET Places /\ run.todo # {} /\ run # NONE
  BY DEF TablesInv, RunInv, StepFails, Working
<1>2. run' = [run EXCEPT !.failed = @ \cup {Step}, !.part = 0,
                         !.todo = IF run.keep THEN @ \ {First(@)} ELSE {}]
  BY DEF StepFails
<1>3. /\ run'.only = run.only /\ run'.from = run.from /\ run'.keep = run.keep
      /\ run'.failed = run.failed \cup {Step} /\ run'.part = 0
      /\ run'.todo = IF run.keep THEN rest ELSE {}
  BY <1>1, <1>2 DEF RunFields
<1>4. /\ run.only = NONE /\ run.from <= 4 /\ run.keep
      /\ run.failed \subseteq Checkers /\ Step \in Checkers
  BY <1>3 DEF Good
<1>5. Good
  BY <1>1, <1>4 DEF Good
<1>6. Whole(run.todo) /\ UpTo(Level)
  BY <1>5 DEF CorpusInv
<1>7. /\ h \in Places /\ Whole(rest)
      /\ h[1] <= 3 => rest # {} /\ Base(First(rest)) = 0
      /\ rest # {} => First(rest) \in Places
  BY <1>1, <1>6, NextStep
<1>8. h[1] \in 1 .. 3 \/ h[1] = 7
  <2>1. h \notin Mid
    BY <1>4, MidSteps, SourceNames, CheckersDomain DEF Step
  <2> QED
    BY <1>7, <2>1, OtherPhases
<1>9. run'.todo = rest
  BY <1>3, <1>4
<1>10. Level' = IF rest = {} THEN 13 ELSE Base(First(rest)) + 0
  BY <1>3, <1>9 DEF Level
<1>11. \A f \in DOMAIN Rank : Rank[f] \in 1 .. 13
  BY RankDomain, Ranks
<1>12. \A f \in DOMAIN Rank : Rank[f] <= Level' => Made(f)'
  <2>1. CASE h[1] \in 1 .. 3
    <3>1. Level' = 0
      BY <1>7, <1>10, <2>1
    <3> QED
      BY <1>11, <3>1
  <2>2. CASE h[1] = 7
    <3>1. Base(h) = 13 /\ run.part \in Nat /\ Level = Base(h) + run.part
      BY <1>1, <2>2 DEF Base, Level, TablesInv, RunInv
    <3>2. \A f \in DOMAIN Rank : Made(f)
      <4> HIDE DEF h
      <4>1. \A f \in DOMAIN Rank : Rank[f] <= Level
        BY <1>11, <3>1
      <4> QED
        BY <1>6, <4>1 DEF UpTo
    <3>3. file' = file /\ torn' = torn
      BY DEF StepFails
    <3> QED
      BY <3>2, <3>3, SameFiles
  <2> QED
    BY <1>8, <2>1, <2>2
<1> QED
  BY <1>7, <1>9, <1>12 DEF UpTo

LEMMA SameCorpus ==
    ASSUME file' = file, torn' = torn, Readable("incidents"), Coherent(file["incidents"])
    PROVE  (Readable("incidents") /\ Coherent(file["incidents"]))'
  BY DEF Readable, On, Coherent, SlaTask

LEMMA CorpusStep == TablesInv /\ CorpusInv /\ [Next]_vars => CorpusInv'
<1> SUFFICES ASSUME TablesInv, CorpusInv, [Next]_vars PROVE CorpusInv'
  OBVIOUS
<1>1. ASSUME outcome' = NONE PROVE ~Rebuilt'
  BY <1>1 DEF Rebuilt, Finished
<1>2. ASSUME run' = NONE PROVE ~Good'
  BY <1>2 DEF Good
<1>3. ASSUME NEW c \in Commands, Start(c) PROVE CorpusInv'
  <2>1. outcome' = NONE
    BY <1>3 DEF Start
  <2>2. Good' => Whole(run.todo)' /\ UpTo(Level)'
    BY <1>3, GoodStarts
  <2> QED
    BY <1>1, <2>1, <2>2 DEF CorpusInv
<1>4. CASE WriteTable \/ PassOn
  <2>1. Working /\ run' = Advance /\ outcome' = outcome
    BY <1>4 DEF WriteTable, Writing, PassOn
  <2>2. outcome' = NONE
    BY <2>1 DEF CorpusInv, Working
  <2>3. Good' => Good
    <3>1. DOMAIN run = RunFields
      BY <2>1 DEF TablesInv, RunInv, Working
    <3>2. /\ run'.only = run.only /\ run'.from = run.from /\ run'.keep = run.keep
          /\ run'.failed = run.failed
      BY <2>1, <3>1 DEF Advance, RunFields
    <3> QED
      BY <2>1, <3>2 DEF Good, Working
  <2>4. Good => Whole(run.todo)' /\ UpTo(Level)'
    BY <1>4, <2>1, GoodAdvances DEF CorpusInv
  <2> QED
    BY <1>1, <2>2, <2>3, <2>4 DEF CorpusInv
<1>5. CASE StepFails
  <2>1. outcome' = NONE
    BY <1>5 DEF StepFails, CorpusInv, Working
  <2>2. Good' => Whole(run.todo)' /\ UpTo(Level)'
    BY <1>5, GoodFails
  <2> QED
    BY <1>1, <2>1, <2>2 DEF CorpusInv
<1>6. CASE Finish
  <2>1. run # NONE /\ run.todo = {} /\ run' = NONE /\ file' = file /\ torn' = torn
    BY <1>6 DEF Finish
  <2>2. /\ outcome'.only = run.only /\ outcome'.from = run.from /\ outcome'.keep = run.keep
        /\ outcome'.failed = run.failed
    BY <1>6 DEF Finish
  <2>3. Rebuilt' => Good
    BY <2>1, <2>2, CheckersDomain DEF Rebuilt, Good
  <2>4. Good => UpTo(13)
    BY <2>1 DEF CorpusInv, Level
  <2>5. Rebuilt' => Readable("incidents") /\ Coherent(file["incidents"])
    BY <2>3, <2>4, AllMade
  <2>6. Rebuilt' => (Readable("incidents") /\ Coherent(file["incidents"]))'
    BY <2>1, <2>5, SameCorpus
  <2> QED
    BY <1>2, <2>1, <2>6 DEF CorpusInv
<1>7. CASE Kill
  <2>1. run' = NONE /\ outcome' = NONE
    BY <1>7 DEF Kill, Writing, Working, CorpusInv
  <2> QED
    BY <1>1, <1>2, <2>1 DEF CorpusInv
<1>8. CASE Deliver \/ DeleteProcessed
  <2>1. run' = NONE /\ outcome' = NONE
    BY <1>8 DEF Deliver, DeleteProcessed
  <2> QED
    BY <1>1, <1>2, <2>1 DEF CorpusInv
<1>9. CASE UNCHANGED vars
  <2>1. file' = file /\ torn' = torn /\ run' = run /\ outcome' = outcome
    BY <1>9 DEF vars
  <2>2. (Good' <=> Good) /\ (Rebuilt' <=> Rebuilt) /\ Level' = Level
    BY <2>1 DEF Good, Rebuilt, Finished, Level
  <2>3. Good => Whole(run.todo)'
    BY <2>1 DEF CorpusInv, Whole
  <2>4. Good => UpTo(Level)'
    BY <2>1, <2>2, SameFiles DEF CorpusInv, UpTo
  <2>5. Rebuilt => (Readable("incidents") /\ Coherent(file["incidents"]))'
    BY <2>1, SameCorpus DEF CorpusInv
  <2> QED
    BY <2>1, <2>2, <2>3, <2>4, <2>5 DEF CorpusInv
<1> QED
  BY <1>3, <1>4, <1>5, <1>6, <1>7, <1>8, <1>9 DEF Next

LEMMA FoldsNamed ==
    ASSUME NEW rows \in SUBSET Records, NEW r \in rows
    PROVE  Split(rows)[r].split \in FoldNames
<1> DEFINE T == Restrict(At, rows)
<1>1. DOMAIN T = rows
  BY RecordsTimetable
<1>2. Split(rows)[r].split = ChronologicalSplit(T, Source)[r]
  BY DEF Split
<1>3. PICK cut : ChronologicalSplit(T, Source)[r] = Fold(T[r], cut)
  <2> HIDE DEF T
  <2> QED
    BY <1>1 DEF ChronologicalSplit
<1>4. \A t, cut2 : Fold(t, cut2) \in FoldNames
  BY DEF Fold, FoldNames, Folds
<1> QED
  BY <1>2, <1>3, <1>4

LEMMA TablesTyped == ASSUME TablesInv PROVE PipelineTypeOK
<1>1. \A f \in Sources \cup {"incidents", "time"} : Readable(f) => file[f] \subseteq Records
  BY SourceNames DEF TablesInv, FilesInv, Kind, Readable, On
<1>2. ASSUME NEW f \in {"priority", "ml", "resolution"}, Readable(f), NEW r \in DOMAIN file[f]
      PROVE  file[f][r].split.split \in FoldNames
  <2>1. Kind(f, file[f])
    BY <1>2 DEF TablesInv, FilesInv, Readable, On
  <2>2. SplitTable(file[f])
    BY <1>2, <2>1 DEF Kind, ResolutionTable
  <2> QED
    BY <2>2, FoldsNamed DEF SplitTable
<1>3. ASSUME Working
      PROVE  run.part \in 0 .. Len(Writes(Step)) /\ (run.part > 0 => run.part < Len(Writes(Step)))
  <2>1. run.part \in Nat /\ (run.part = 0 \/ run.part < Len(Writes(Step)))
    BY <1>3 DEF TablesInv, RunInv, Working
  <2>2. Len(Writes(Step)) \in Nat
    <3>1. CASE Step \in DOMAIN Built
      BY <3>1, BuiltTables DEF Writes
    <3>2. CASE Step \notin DOMAIN Built
      BY <3>2 DEF Writes
    <3> QED
      BY <3>1, <3>2
  <2> QED
    BY <2>1, <2>2
<1>4. raw \in Deliveries /\ DOMAIN file \subseteq Files /\ torn \subseteq DOMAIN file
  BY DEF TablesInv, FilesInv
<1>5. run = NONE \/ run.failed \subseteq {StepAt(x) : x \in Places}
  BY DEF TablesInv, RunInv
<1> QED
  BY <1>1, <1>2, <1>3, <1>4, <1>5 DEF PipelineTypeOK

(***************************************************************************)
(* After a run from phase 4 or earlier in which no step failed that builds *)
(* anything, every dataset describes the incident table on disk: the same  *)
(* incidents, the policy their densities give, the panel, the pairs and    *)
(* the task tables made of them.  What kills, failures, fixtures and       *)
(* partial runs left on disk before it does not matter.                    *)
(***************************************************************************)
THEOREM AlwaysOneCorpus == PipelineSpec => []OneCorpus
<1>1. Init => CorpusInv
  BY DEF Init, CorpusInv, Good, Rebuilt, Finished
<1>2. TablesInv /\ CorpusInv => OneCorpus
  BY TablesTyped DEF CorpusInv, OneCorpus
<1> QED
  BY <1>1, <1>2, CorpusStep, TablesAlways, PTL DEF PipelineSpec

-----------------------------------------------------------------------------
(***************************************************************************)
(* What such a run stacks: once build_incidents is behind it, the incident *)
(* table is the union of the tables of the sources, and neither it nor one *)
(* of them is written again.                                               *)
(***************************************************************************)
Stacked ==
  /\ Sources \cap torn = {}
  /\ Readable("incidents") /\ file["incidents"] = AllIncidents

StackInv ==
  Good /\ run.from <= 3 =>
    /\ \A x \in run.todo : x[1] <= 3 => <<3, 1>> \in run.todo
    /\ <<3, 1>> \notin run.todo => Stacked

LEMMA Stacking ==
    /\ <<3, 1>> \in Places /\ StepAt(<<3, 1>>) = "build_incidents"
    /\ \A x \in Places : x[1] = 3 => x = <<3, 1>>
    /\ \A i \in DOMAIN Cities : <<2, i>> \in Places /\ StepAt(<<2, i>>) = Cities[i]
    /\ \A x \in Places : x[1] = 2 => \E i \in DOMAIN Cities : x = <<2, i>>
    /\ \A x \in Places : x[1] = 1 => StepAt(x) \in Verifiers
<1>1. /\ Phases[1] = <<"dataset_status", "validate_mappings">>
      /\ Phases[2] = Cities /\ Phases[3] = <<"build_incidents">>
  BY DEF Phases
<1>2. \A x \in Places : x = <<x[1], x[2]>> /\ x[1] \in 1 .. 7 /\ x[2] \in DOMAIN Phases[x[1]]
  BY PhaseDomains DEF Places
<1>3. \A k \in 1 .. 7 : \A i \in DOMAIN Phases[k] : <<k, i>> \in Places
  <2> SUFFICES ASSUME NEW k \in 1 .. 7, NEW i \in DOMAIN Phases[k] PROVE <<k, i>> \in Places
    OBVIOUS
  <2>1. k \in DOMAIN Phases
    BY PhaseDomains
  <2>2. <<k, i>> \in {k} \X DOMAIN Phases[k]
    OBVIOUS
  <2> QED
    BY <2>1, <2>2 DEF Places
<1>4. DOMAIN Phases[1] = 1 .. 2 /\ DOMAIN Phases[3] = 1 .. 1
  BY <1>1
<1>5. <<3, 1>> \in Places /\ StepAt(<<3, 1>>) = "build_incidents"
  BY <1>1, <1>3, <1>4 DEF StepAt
<1>6. ASSUME NEW x \in Places, x[1] = 3 PROVE x = <<3, 1>>
  <2>1. x[2] \in 1 .. 1
    BY <1>2, <1>4, <1>6
  <2> QED
    BY <1>2, <1>6, <2>1
<1>7. ASSUME NEW i \in DOMAIN Cities
      PROVE  <<2, i>> \in Places /\ StepAt(<<2, i>>) = Cities[i]
  <2>1. <<2, i>> \in Places
    BY <1>1, <1>3
  <2>2. StepAt(<<2, i>>) = Phases[2][i]
    BY DEF StepAt
  <2>3. Phases[2][i] = Cities[i]
    BY <1>1
  <2> QED
    BY <2>1, <2>2, <2>3, Zenon
<1>8. \A x \in Places : x[1] = 2 => \E i \in DOMAIN Cities : x = <<2, i>>
  BY <1>1, <1>2
<1>9. ASSUME NEW x \in Places, x[1] = 1 PROVE StepAt(x) \in Verifiers
  <2>1. x[2] \in 1 .. 2
    BY <1>2, <1>4, <1>9
  <2>2. x[2] \in {1, 2}
    BY <2>1
  <2> QED
    BY <1>1, <1>9, <2>2 DEF StepAt, Verifiers
<1> QED
  BY <1>5, <1>6, <1>7, <1>8, <1>9

\* The files an output may be, by the phase of its step.
LEMMA OutputOf ==
    ASSUME TablesInv, Working
    PROVE  LET h == First(run.todo) IN
           /\ h \in run.todo /\ h \in Places /\ \A y \in run.todo : h = y \/ Before(h, y)
           /\ Step = StepAt(h) /\ h[1] \in 1 .. 7
           /\ h[1] \in {1, 7} => Step \in Checkers /\ Writes(Step) = <<>>
           /\ h[1] = 2 => Step \in Sources /\ Writes(Step) = <<Step>> /\ Output = 1
           /\ h[1] = 3 => Step = "build_incidents" /\ Writes(Step) = <<"incidents">> /\ Output = 1
           /\ h[1] \in 4 .. 6 => /\ h \in Mid /\ Step \in DOMAIN Built /\ Writes(Step) # <<>>
                                 /\ Writes(Step)[Output] \in DOMAIN Rank
           /\ h[1] = 1 => Step \in Verifiers
           /\ h[1] # 1 => Step \notin Verifiers
<1> DEFINE h == First(run.todo)
<1>1. /\ run.todo \in SUBSET Places /\ run.todo # {} /\ run.part \in Nat
      /\ run.part = 0 \/ run.part < Len(Writes(Step))
  BY DEF TablesInv, RunInv, Working
<1>2. h \in run.todo /\ h \in Places /\ \A y \in run.todo : h = y \/ Before(h, y)
  BY <1>1, FirstPlace
<1>3. Step = StepAt(h) /\ h[1] \in 1 .. 7
  BY <1>2, PlaceFacts DEF Step
<1>4. h[1] \in 4 .. 6 => h \in Mid
  BY <1>2, <1>3, OtherPhases
<1>5. h \in Mid => h[1] \in 4 .. 6
  BY DEF Mid
<1>6. h[1] = 7 => Step \in DOMAIN Checks
  BY <1>2, <1>3, <1>5, OtherPhases
<1>7. h[1] = 1 => Step \in Verifiers
  BY <1>2, <1>3, Stacking
<1>8. h[1] \in {1, 7} => Step \in Checkers /\ Writes(Step) = <<>>
  BY <1>6, <1>7, CheckersDomain, SourceNames DEF Writes
<1>9. h[1] = 2 => Step \in Sources /\ Writes(Step) = <<Step>>
  BY <1>2, <1>3, Stacking, SourceNames DEF Writes, Sources
<1>10. h[1] = 3 => Step = "build_incidents" /\ Writes(Step) = <<"incidents">>
  BY <1>2, <1>3, Stacking, BuiltTables DEF Writes
<1>11. Len(<<"incidents">>) = 1 /\ Len(<<Step>>) = 1
  OBVIOUS
<1>12. h[1] \in {2, 3} => Len(Writes(Step)) = 1
  BY <1>9, <1>10, <1>11, Zenon
<1>13. h[1] \in {2, 3} => Output = 1
  <2> DEFINE len == Len(Writes(Step))
  <2>1. h[1] \in {2, 3} => len = 1
    BY <1>12
  <2>2. run.part \in Nat /\ (run.part = 0 \/ run.part < len)
    BY <1>1
  <2> HIDE DEF h, len
  <2> QED
    BY <2>1, <2>2 DEF Output
<1>14. h[1] \in 4 .. 6 => /\ Step \in DOMAIN Built /\ Writes(Step) # <<>>
                          /\ Writes(Step)[Output] \in DOMAIN Rank
  <2> SUFFICES ASSUME h \in Mid
               PROVE  /\ Step \in DOMAIN Built /\ Writes(Step) # <<>>
                      /\ Writes(Step)[Output] \in DOMAIN Rank
    BY <1>4
  <2> QED
    BY OutputRanked, BuiltTables
<1>15. h[1] # 1 => Step \notin Verifiers
  <2>1. h[1] = 7 => Step \notin Verifiers
    <3>1. Phases[7] =
            <<"data_quality_report", "validate_provenance", "validate_leakage",
              "validate_outputs", "audit_pipeline", "audit_task_datasets", "audit_statistics",
              "report_category_candidates">>
      BY DEF Phases
    <3>2. h[1] = 7 => h[2] \in DOMAIN Phases[7]
      BY <1>2 DEF Places
    <3> QED
      BY <1>3, <3>1, <3>2 DEF StepAt, Verifiers
  <2>2. \A v \in Verifiers : v \notin Sources /\ v \notin DOMAIN Built
    BY CheckersDomain, SourceNames
  <2>3. "build_incidents" \in DOMAIN Built
    BY BuiltTables
  <2>4. h[1] \in {1, 2, 3, 7} \/ h[1] \in 4 .. 6
    BY <1>3
  <2> QED
    BY <1>9, <1>10, <1>14, <2>1, <2>2, <2>3, <2>4
<1> QED
  BY <1>2, <1>3, <1>4, <1>7, <1>8, <1>9, <1>10, <1>13, <1>14, <1>15

\* The incident table and those it is made of, as another step leaves them
Apart == \A f \in Sources \cup {"incidents"} :
           /\ (f \in DOMAIN file)' <=> f \in DOMAIN file
           /\ (f \in torn)' <=> f \in torn
           /\ f \in DOMAIN file => file'[f] = file[f]

LEMMA OutputApart ==
    ASSUME NEW g \in DOMAIN Rank, NEW v, Put(g, v)
    PROVE  Apart
<1>1. g \notin Sources \cup {"incidents"}
  BY FourSources, RankDomain
<1> QED
  BY <1>1 DEF Apart, Put

LEMMA StackApart == ASSUME Stacked, Apart PROVE Stacked'
<1>1. /\ Sources \cap torn' = {}
      /\ "incidents" \in DOMAIN file' /\ "incidents" \notin torn'
      /\ file'["incidents"] = file["incidents"]
  BY DEF Stacked, Apart, Readable, On
<1>2. \A f \in Sources : (On(f)' <=> On(f)) /\ (On(f) => file'[f] = file[f])
  BY DEF Apart, On
<1>3. AllIncidents' = AllIncidents
  <2>1. {f \in Sources : On(f)'} = {f \in Sources : On(f)}
    BY <1>2
  <2>2. Tables(Sources)' = Tables(Sources)
    BY <2>1 DEF Tables
  <2>3. \A f \in Tables(Sources) : file'[f] = file[f]
    BY <1>2 DEF Tables
  <2> QED
    BY <2>2, <2>3 DEF AllIncidents
<1> QED
  BY <1>1, <1>3 DEF Stacked, Readable, On

\* A step that writes nothing leaves all there is.
LEMMA SameApart == ASSUME file' = file, torn' = torn PROVE Apart
  BY DEF Apart

LEMMA BuildIncidents ==
    ASSUME TablesInv, Working, Step = "build_incidents", Output = 1, WriteTable
    PROVE  Stacked'
<1>1. Put("incidents", AllIncidents)
  <2>1. Writes(Step)[Output] = "incidents"
    BY BuiltTables DEF Writes
  <2>2. Table(Step, Output) = AllIncidents
    BY BuiltTables, SourceNames DEF Table
  <2> QED
    BY <2>1, <2>2 DEF WriteTable
<1>2. Sources \cap torn = {}
  BY StepReads DEF WriteTable, Writing, Succeeds
<1>3. "incidents" \notin Sources
  BY FourSources
<1>4. /\ Sources \cap torn' = {} /\ Readable("incidents")'
      /\ file'["incidents"] = AllIncidents
  BY <1>1, <1>2 DEF Put, Readable, On
<1>5. \A f \in Sources : (On(f)' <=> On(f)) /\ (On(f) => file'[f] = file[f])
  BY <1>1, <1>3 DEF Put, On
<1>6. Tables(Sources)' = Tables(Sources)
  <2>1. {f \in Sources : On(f)'} = {f \in Sources : On(f)}
    BY <1>5
  <2> QED
    BY <2>1 DEF Tables
<1>7. AllIncidents' = AllIncidents
  <2>1. \A f \in Tables(Sources) : file'[f] = file[f]
    BY <1>5 DEF Tables
  <2> QED
    BY <1>6, <2>1 DEF AllIncidents
<1> QED
  BY <1>4, <1>7 DEF Stacked

\* When the head of the work is done, build_incidents is still to do unless it
\* was the head or was done before.
LEMMA BehindHead ==
    ASSUME NEW todo \in SUBSET Places, todo # {},
           \A x \in todo : x[1] <= 3 => <<3, 1>> \in todo
    PROVE  LET h == First(todo) IN
           /\ \A x \in todo \ {h} : x[1] <= 3 => <<3, 1>> \in todo \ {h}
           /\ h[1] <= 3 /\ h # <<3, 1>> => <<3, 1>> \in todo \ {h}
           /\ <<3, 1>> \notin todo => h[1] \in 4 .. 7
<1> DEFINE h == First(todo)
<1>1. h \in todo /\ h \in Places /\ \A y \in todo : h = y \/ Before(h, y)
  BY FirstPlace
<1>2. \A x \in Places : x[1] \in 1 .. 7 /\ x[2] \in Nat /\ x[2] >= 1
  BY PlaceFacts
<1>3. \A x \in Places : x[1] = 3 => x = <<3, 1>>
  BY Stacking
<1> HIDE DEF h
<1>4. ASSUME NEW x \in todo, x # h, x[1] <= 3 PROVE h # <<3, 1>>
  <2>1. Before(h, x)
    BY <1>1, <1>4
  <2>2. x[1] = 3 => x = <<3, 1>>
    BY <1>3
  <2>3. x[1] \in 1 .. 7 /\ x[2] \in Nat /\ x[2] >= 1
    BY <1>2
  <2> QED
    BY <1>4, <2>1, <2>2, <2>3 DEF Before
<1>5. \A x \in todo \ {h} : x[1] <= 3 => <<3, 1>> \in todo \ {h}
  BY <1>4
<1>6. h[1] <= 3 /\ h # <<3, 1>> => <<3, 1>> \in todo \ {h}
  BY <1>1
<1>7. <<3, 1>> \notin todo => h[1] \in 4 .. 7
  BY <1>1, <1>2
<1> QED
  BY <1>5, <1>6, <1>7 DEF h

LEMMA StackStep == TablesInv /\ StackInv /\ [Next]_vars => StackInv'
<1> SUFFICES ASSUME TablesInv, StackInv, [Next]_vars, Good', run'.from <= 3
             PROVE  /\ \A x \in run'.todo : x[1] <= 3 => <<3, 1>> \in run'.todo
                    /\ <<3, 1>> \notin run'.todo => Stacked'
  BY DEF StackInv
<1> DEFINE h == First(run.todo)
<1>1. run' # NONE
  BY DEF Good
<1>2. ASSUME NEW c \in Commands, Start(c) PROVE <<3, 1>> \in run'.todo
  <2>1. run'.only = c.only /\ run'.from = c.from /\ run'.todo = Asked(c)
    BY <1>2 DEF Start
  <2>2. c.only = NONE /\ c.from <= 3 /\ c.from \in 1 .. 7
    BY <2>1, PipelineAssumption DEF Good
  <2>3. "build_incidents" \notin Sources
    BY FourSources
  <2> QED
    BY <2>1, <2>2, <2>3, Stacking DEF Asked
<1>3. ASSUME Working, run'.only = run.only, run'.from = run.from, run'.keep = run.keep,
             run.failed \subseteq run'.failed, \/ run'.todo = run.todo
                                               \/ run'.todo = run.todo \ {h}
      PROVE  /\ Good /\ run.todo \in SUBSET Places /\ run.todo # {}
             /\ \A x \in run'.todo : x[1] <= 3 => <<3, 1>> \in run'.todo
             /\ <<3, 1>> \notin run.todo => Stacked /\ h[1] \in 4 .. 7
             /\ <<3, 1>> \in run.todo /\ <<3, 1>> \notin run'.todo =>
                  h = <<3, 1>>
  <2>1. Good
    BY <1>3 DEF Good, Working
  <2>2. run.todo \in SUBSET Places /\ run.todo # {}
    BY <1>3 DEF TablesInv, RunInv, Working
  <2>3. /\ \A x \in run.todo : x[1] <= 3 => <<3, 1>> \in run.todo
        /\ <<3, 1>> \notin run.todo => Stacked
    BY <1>3, <2>1 DEF StackInv
  <2>4. /\ \A x \in run.todo \ {h} : x[1] <= 3 => <<3, 1>> \in run.todo \ {h}
        /\ <<3, 1>> \notin run.todo => h[1] \in 4 .. 7
    BY <2>2, <2>3, BehindHead
  <2> HIDE DEF h
  <2> QED
    BY <1>3, <2>1, <2>2, <2>3, <2>4
<1>4. CASE WriteTable \/ PassOn
  <2>1. Working /\ run' = Advance /\ DOMAIN run = RunFields
    BY <1>4 DEF WriteTable, Writing, PassOn, TablesInv, RunInv, Working
  <2>2. /\ run'.only = run.only /\ run'.from = run.from /\ run'.keep = run.keep
        /\ run'.failed = run.failed /\ (run'.todo = run.todo \/ run'.todo = run.todo \ {h})
    BY <2>1 DEF Advance, RunFields
  <2>3. /\ \A x \in run'.todo : x[1] <= 3 => <<3, 1>> \in run'.todo
        /\ <<3, 1>> \notin run.todo => Stacked /\ h[1] \in 4 .. 7
        /\ <<3, 1>> \in run.todo /\ <<3, 1>> \notin run'.todo => h = <<3, 1>>
    BY <1>3, <2>1, <2>2
  <2>4. /\ h[1] = 7 => Writes(Step) = <<>>
        /\ h[1] = 3 => Step = "build_incidents" /\ Writes(Step) = <<"incidents">> /\ Output = 1
        /\ h[1] \in 4 .. 6 => Writes(Step)[Output] \in DOMAIN Rank
    BY <2>1, OutputOf
  <2>5. CASE <<3, 1>> \in run.todo /\ <<3, 1>> \notin run'.todo
    <3>1. Step = "build_incidents" /\ Output = 1 /\ Writes(Step) # <<>>
      BY <2>3, <2>4, <2>5
    <3>2. ~LeftAlone(Step, Output)
      BY <3>1, FourSources DEF LeftAlone
    <3>3. WriteTable
      BY <1>4, <2>1, <3>1, <3>2 DEF PassOn, Writing
    <3> QED
      BY <2>1, <2>3, <3>1, <3>3, BuildIncidents
  <2>6. CASE <<3, 1>> \notin run.todo
    <3>1. Apart
      <4>1. CASE PassOn
        BY <4>1, SameApart DEF PassOn
      <4>2. CASE WriteTable
        <5>1. Writes(Step) # <<>> /\ Put(Writes(Step)[Output], Table(Step, Output))
          BY <4>2 DEF WriteTable, Writing
        <5>2. h[1] \in 4 .. 6
          BY <2>3, <2>4, <2>6, <5>1
        <5> QED
          BY <2>4, <5>1, <5>2, OutputApart
      <4> QED
        BY <1>4, <4>1, <4>2
    <3> QED
      BY <2>3, <2>6, <3>1, StackApart
  <2> QED
    BY <2>3, <2>5, <2>6
<1>5. CASE StepFails
  <2>1. Working /\ DOMAIN run = RunFields /\ file' = file /\ torn' = torn
    BY <1>5 DEF StepFails, TablesInv, RunInv, Working
  <2>2. run' = [run EXCEPT !.failed = @ \cup {Step}, !.part = 0,
                           !.todo = IF run.keep THEN @ \ {First(@)} ELSE {}]
    BY <1>5 DEF StepFails
  <2>3. /\ run'.only = run.only /\ run'.from = run.from /\ run'.keep = run.keep
        /\ run'.failed = run.failed \cup {Step}
        /\ run.keep => run'.todo = run.todo \ {h}
    BY <2>1, <2>2 DEF RunFields
  <2>4. run.keep /\ Step \in Checkers
    BY <2>3 DEF Good
  <2>5. /\ \A x \in run'.todo : x[1] <= 3 => <<3, 1>> \in run'.todo
        /\ <<3, 1>> \notin run.todo => Stacked /\ h[1] \in 4 .. 7
        /\ <<3, 1>> \in run.todo /\ <<3, 1>> \notin run'.todo => h = <<3, 1>>
    BY <1>3, <2>1, <2>3, <2>4
  <2>6. h # <<3, 1>>
    <3>1. "build_incidents" \notin Checkers
      BY DEF Checkers
    <3> QED
      BY <2>4, <3>1, Stacking DEF Step
  <2>7. Apart
    BY <2>1, SameApart
  <2> QED
    BY <2>5, <2>6, <2>7, StackApart
<1>6. CASE Finish \/ Kill \/ Deliver \/ DeleteProcessed
  BY <1>1, <1>6 DEF Finish, Kill, Deliver, DeleteProcessed
<1>7. CASE UNCHANGED vars
  <2>1. file' = file /\ torn' = torn /\ run' = run
    BY <1>7 DEF vars
  <2>2. Good
    BY <2>1 DEF Good
  <2>3. Apart
    BY <2>1, SameApart
  <2> QED
    BY <2>1, <2>2, <2>3, StackApart DEF StackInv
<1> QED
  BY <1>2, <1>4, <1>5, <1>6, <1>7 DEF Next

-----------------------------------------------------------------------------
(***************************************************************************)
(* A run of all phases over a delivery that gives every task its data.     *)
(* Early, in the phases that build, only a first check can fail; when they *)
(* are over every table is settled, and what checks can fail on is an      *)
(* sla_ml that a kill tore and that no row asks to write again, and the    *)
(* missing hour of a row without a time.                                   *)
(***************************************************************************)
Full == /\ run # NONE /\ run.only = NONE /\ run.from = 1 /\ ~run.fixtures
        /\ EveryTaskHasData(Corpora[raw])

Early == run.todo # {} /\ First(run.todo)[1] <= 6

\* Every source whose step is over is this delivery's.
Sourced == \A i \in DOMAIN Cities : <<2, i>> \notin run.todo =>
             Readable(Cities[i]) /\ file[Cities[i]] = Cleaned(raw[Cities[i]])

FullInv ==
  Full =>
    IF run.keep \/ run.failed = {}
      THEN /\ run.failed \subseteq Checkers /\ Sourced
           /\ \/ run.failed \subseteq Verifiers \cup Raising(Corpora[raw])
              \/ ~Early /\ "sla_ml" \in torn
      ELSE /\ run.todo = {}
           /\ \/ run.failed \subseteq Raising(Corpora[raw])
              \/ run.failed \subseteq Verifiers /\ torn \cap (Sources \cup {"incidents"}) # {}
              \/ "sla_ml" \in torn

LEMMA FullDelivers ==
    ASSUME TablesInv, EveryTaskHasData(Corpora[raw])
    PROVE  /\ Corpora[raw] = UNION {Cleaned(raw[s]) : s \in Sources}
           /\ Sources # {} /\ Sources = Delivered
           /\ \A s \in Sources : Cleaned(raw[s]) # {}
<1>1. raw \in Deliveries
  BY DEF TablesInv
<1>2. Corpora[raw] = UNION {Cleaned(raw[s]) : s \in Sources}
  BY <1>1 DEF Corpora
<1>3. Sources # {}
  BY <1>2 DEF EveryTaskHasData, Usable
<1>4. ASSUME NEW s \in Sources PROVE Cleaned(raw[s]) # {}
  <2>1. PICK r \in Corpora[raw] : Source[r] = s
    BY DEF EveryTaskHasData, Known
  <2>2. PICK q \in Sources : r \in Cleaned(raw[q])
    BY <1>2, <2>1
  <2>3. r \in raw[q]
    BY <2>2 DEF Cleaned
  <2>4. Source[r] = q
    BY <1>1, <2>3, PipelineAssumption
  <2> QED
    BY <2>1, <2>2, <2>4
<1>5. Sources = Delivered
  BY <1>4 DEF Delivered, Cleaned
<1> QED
  BY <1>2, <1>3, <1>4, <1>5

\* Stacked of this delivery's sources, the incident table is its corpus.
LEMMA FullStack ==
    ASSUME TablesInv, Stacked, EveryTaskHasData(Corpora[raw]),
           \A s \in Sources : Readable(s) /\ file[s] = Cleaned(raw[s])
    PROVE  file["incidents"] = Corpora[raw]
<1>1. Tables(Sources) = Sources
  BY DEF Tables, Readable
<1>2. AllIncidents = UNION {Cleaned(raw[s]) : s \in Sources}
  BY <1>1 DEF AllIncidents
<1> QED
  BY <1>2, FullDelivers DEF Stacked

\* What such a run has built when the phases of the sources are over.
LEMMA FullBuilt ==
    ASSUME TablesInv, CorpusInv, StackInv, Full, FullInv, run.keep \/ run.failed = {},
           \A x \in run.todo : x[1] >= 4
    PROVE  /\ Stacked /\ file["incidents"] = Corpora[raw] /\ UpTo(Level)
           /\ \A s \in Sources : Readable(s) /\ file[s] = Cleaned(raw[s])
<1>1. Good /\ run.from <= 3 /\ Sourced
  BY DEF Good, Full, FullInv
<1>2. <<3, 1>> \notin run.todo /\ \A i \in DOMAIN Cities : <<2, i>> \notin run.todo
  OBVIOUS
<1>3. Stacked /\ UpTo(Level)
  BY <1>1, <1>2 DEF StackInv, CorpusInv
<1>4. \A s \in Sources : Readable(s) /\ file[s] = Cleaned(raw[s])
  BY <1>1, <1>2 DEF Sourced, Sources
<1> QED
  BY <1>3, <1>4, FullStack DEF Full

\* No step of phases 4 to 6 fails that finds the incidents it needs.
LEMMA MidSucceeds ==
    ASSUME TablesInv, Working, First(run.todo) \in Mid, UpTo(Level), Readable("incidents"),
           Zoned(file["incidents"]) # {}, Positives(file["incidents"]) # {}
    PROVE  Succeeds(Step, Output)
<1> DEFINE h == First(run.todo)
<1>1. /\ Step \in DOMAIN Built /\ Output \in DOMAIN Built[Step]
      /\ Level \in Int /\ Level = Base(h) + run.part
  BY OutputRanked
<1>2. Step = StepAt(h)
  BY DEF Step
<1>3. \A f \in DOMAIN Rank : Rank[f] <= Base(h) => Made(f)
  <2>1. run.part \in Nat
    BY DEF TablesInv, RunInv, Working
  <2>2. Base(h) \in Int
    <3>1. h \in Places
      BY MidSteps
    <3> QED
      BY <3>1, BaseGrows
  <2>3. \A f \in DOMAIN Rank : Rank[f] \in Int
    BY RankDomain, Ranks
  <2> HIDE DEF h
  <2>4. \A f \in DOMAIN Rank : Rank[f] <= Base(h) => Rank[f] <= Level
    BY <1>1, <2>1, <2>2, <2>3
  <2> QED
    BY <2>4 DEF UpTo
<1>4. Step \notin DOMAIN Checks
  BY <1>1, SourceNames
<1>5. /\ "validate_outputs" \notin DOMAIN Built /\ "report_category_candidates" \notin DOMAIN Built
  BY BuiltTables
<1> HIDE DEF h
<1>6. CASE h \in {<<4, 1>>, <<4, 2>>, <<6, 3>>}
  <2>1. Step \in {"build_time_features", "build_geo_features", "build_duplicate_pairs"}
    BY <1>2, <1>6, MidSteps
  <2>2. Inputs(Step, Output) = {"incidents"} /\ Needs(Step) = {"incidents"}
    BY <2>1, StepReads
  <2> QED
    BY <2>1, <2>2 DEF Succeeds, Readable
<1>7. ASSUME h[1] \in 5 .. 6, h \in Mid
      PROVE  Readable("time") /\ Readable("geo")
  <2>1. Base(h) >= 2
    BY <1>7 DEF Base, Mid
  <2>2. Base(h) \in Int
    BY <1>7, BaseGrows, MidSteps
  <2>3. Made("time") /\ Made("geo")
    BY <1>3, <2>1, <2>2, RankDomain, Ranks
  <2> QED
    BY <2>3, MadeReadable, RankDomain
<1>8. CASE h = <<5, 1>>
  <2>1. Step = "build_priority_features"
    BY <1>2, <1>8, MidSteps
  <2>2. Inputs(Step, Output) = {"incidents", "time", "geo"} /\ Needs(Step) = {"incidents"}
    BY <2>1, StepReads
  <2>3. h[1] \in 5 .. 6 /\ h \in Mid
    BY <1>8 DEF Mid
  <2> QED
    BY <1>7, <2>1, <2>2, <2>3 DEF Succeeds, Readable
<1>9. ASSUME h[1] = 6, h \in Mid
      PROVE  /\ Readable("priority") /\ Corpus = "prioritised" /\ Readable(Corpus)
             /\ Rows(Corpus) = file["incidents"]
  <2>1. Base(h) >= 4
    BY <1>9 DEF Base, Mid
  <2>2. Base(h) \in Int
    BY <1>9, BaseGrows, MidSteps
  <2>3. Made("prioritised") /\ Made("priority")
    BY <1>3, <2>1, <2>2, RankDomain, Ranks
  <2>4. /\ Readable("prioritised") /\ DOMAIN file["prioritised"] = file["incidents"]
        /\ Readable("priority")
    BY <2>3 DEF Made, Scored
  <2> QED
    BY <2>4 DEF Corpus, Rows, Readable
<1>10. CASE h \in {<<6, 1>>, <<6, 2>>, <<6, 4>>}
  <2>1. Step \in {"build_resolution_dataset", "build_hotspot_dataset", "build_ml_dataset"}
    BY <1>2, <1>10, MidSteps
  <2>2. /\ Inputs(Step, Output) \subseteq {Corpus, "time", "geo"}
        /\ Needs(Step) \subseteq {Corpus, "time", "geo"}
    BY <2>1, StepReads
  <2>3. h[1] = 6 /\ h \in Mid
    BY <1>10 DEF Mid
  <2>4. Readable("time") /\ Readable("geo") /\ Readable(Corpus)
        /\ Rows(Corpus) = file["incidents"]
    BY <1>7, <1>9, <2>3
  <2> QED
    BY <2>1, <2>2, <2>4 DEF Succeeds, Readable
<1>11. CASE h = <<6, 5>>
  <2>1. Step = "build_task_datasets"
    BY <1>2, <1>11, MidSteps
  <2>2. Output \in {1, 2, 3, 4, 5}
    BY <1>1, <2>1, BuiltTables
  <2>3. TaskSource[Output] \in {"resolution", "hotspot", "duplicates", "priority"}
    BY <2>2 DEF TaskSource
  <2>4. Base(h) = 8
    BY <1>11 DEF Base
  <2>5. Made(TaskSource[Output])
    BY <1>3, <2>3, <2>4, RankDomain, Ranks
  <2>6. Readable(TaskSource[Output])
    BY <2>3, <2>5, MadeReadable, RankDomain
  <2>7. Inputs(Step, Output) = {TaskSource[Output]}
    BY <2>1, StepReads
  <2>8. Needs(Step) = {}
    BY <1>1, <1>4, <2>1 DEF Needs
  <2> QED
    BY <2>1, <2>6, <2>7, <2>8 DEF Succeeds, Readable
<1> QED
  BY <1>6, <1>8, <1>10, <1>11 DEF Mid, h

\* Early, only a first check can fail.
LEMMA EarlySucceeds ==
    ASSUME TablesInv, CorpusInv, StackInv, FullInv, Full, Working, Early
    PROVE  /\ Succeeds(Step, Output) \/ (Step \in Verifiers /\ First(run.todo)[1] = 1)
           /\ run.keep \/ run.failed = {}
<1> DEFINE h == First(run.todo)
<1>1. run.keep \/ run.failed = {}
  BY DEF FullInv, Working
<1>2. /\ h \in run.todo /\ h \in Places /\ \A y \in run.todo : h = y \/ Before(h, y)
      /\ Step = StepAt(h) /\ h[1] \in 1 .. 7
      /\ h[1] = 2 => Step \in Sources
      /\ h[1] = 3 => Step = "build_incidents"
      /\ h[1] \in 4 .. 6 => h \in Mid
      /\ h[1] = 1 => Step \in Verifiers
  BY OutputOf
<1>3. h[1] \in {1, 2, 3} \/ h[1] \in 4 .. 6
  BY <1>2 DEF Early
<1>4. run.todo \subseteq Places
  BY DEF TablesInv, RunInv, Full
<1>5. \A y \in run.todo : y[1] \in 1 .. 7 /\ h[1] <= y[1]
  BY <1>2, <1>4, PlaceFacts DEF Before
<1> HIDE DEF h
<1>6. CASE h[1] = 2
  <2>1. Step \in Sources /\ Step \notin DOMAIN Checks /\ Step \notin DOMAIN Built
    BY <1>2, <1>6, SourceNames
  <2>2. Inputs(Step, Output) = {}
    BY <2>1, FourSources DEF Inputs
  <2>3. /\ Needs(Step) = {}
        /\ Step \notin {"build_incidents", "report_category_candidates",
                        "build_hotspot_dataset", "build_duplicate_pairs", "validate_outputs",
                        "audit_pipeline"}
    BY <2>1, FourSources DEF Needs
  <2> QED
    BY <1>1, <2>2, <2>3 DEF Succeeds
<1>7. CASE h[1] = 3
  <2>1. Step = "build_incidents"
    BY <1>2, <1>7
  <2>2. \A i \in DOMAIN Cities : <<2, i>> \notin run.todo
    BY <1>5, <1>7
  <2>3. \A s \in Sources : Readable(s)
    BY <1>1, <2>2 DEF FullInv, Sourced, Sources
  <2>4. Sources # {}
    BY FullDelivers DEF Full
  <2>5. Tables(Sources) # {}
    BY <2>3, <2>4 DEF Tables, Readable
  <2>6. Step \notin DOMAIN Checks
    BY <2>1, SourceNames, BuiltTables
  <2>7. Needs(Step) = {}
    BY <2>1, <2>6 DEF Needs
  <2> QED
    BY <1>1, <2>1, <2>3, <2>5, <2>7, StepReads DEF Succeeds, Readable
<1>8. CASE h[1] \in 4 .. 6
  <2>1. \A x \in run.todo : x[1] >= 4
    BY <1>5, <1>8
  <2>2. Stacked /\ file["incidents"] = Corpora[raw] /\ UpTo(Level)
    BY <1>1, <2>1, FullBuilt
  <2>3. Readable("incidents") /\ Zoned(file["incidents"]) # {} /\ Positives(file["incidents"]) # {}
    BY <2>2 DEF Stacked, Full, EveryTaskHasData
  <2> QED
    BY <1>1, <1>2, <1>8, <2>2, <2>3, MidSucceeds DEF h
<1> QED
  BY <1>1, <1>2, <1>3, <1>6, <1>7, <1>8 DEF h

-----------------------------------------------------------------------------
(***************************************************************************)
(* The hotspot panel against itself.  A city's weeks are all those of an   *)
(* interval, and each of its series has a row for every week but the last, *)
(* so that the row before in the table is the week before.                 *)
(***************************************************************************)
LEMMA WeeksInterval ==
    ASSUME NEW X \in SUBSET Records, NEW r \in Zoned(X)
    PROVE  \E a, b \in Int : a <= b /\ PanelWeeks(Zoned(X), Facts[r].src) = a .. b
<1> DEFINE rows == Zoned(X)
           seen == {Week(q) : q \in {p \in rows : Facts[p].src = Facts[r].src}}
           full == Min(seen) .. Max(seen)
<1>1. rows \in SUBSET Records /\ \A q \in rows : Facts[q].at \in Nat
  BY DatasetRulesAssumption DEF Zoned, InScope
<1>2. \A q \in rows : Week(q) \in Int
  <2>1. \A n \in Nat : n \div 168 \in Int
    OBVIOUS
  <2> QED
    BY <1>1, <2>1 DEF Week, HOURS_PER_WEEK
<1>3. PanelWeeks(rows, Facts[r].src)
        = IF Cardinality(full) > 2 THEN full \ {Min(seen), Max(seen)} ELSE full
  BY DEF PanelWeeks
<1>4. IsFiniteSet(seen) /\ seen \subseteq Int /\ seen # {}
  <2> DEFINE mine == {p \in rows : Facts[p].src = Facts[r].src}
             f == [q \in mine |-> Week(q)]
  <2>1. mine \in SUBSET Records /\ r \in mine
    BY <1>1
  <2>2. IsFiniteSet(mine)
    BY <2>1, FS_Subset, DatasetRulesAssumption
  <2>3. seen = {f[q] : q \in mine} /\ \A q \in mine : f[q] \in Int
    BY <1>2
  <2> HIDE DEF f, mine, seen
  <2>4. IsFiniteSet(seen)
    BY <2>2, <2>3, ImageFinite
  <2> QED
    BY <2>1, <2>3, <2>4
<1> HIDE DEF seen
<1>5. Min(seen) \in seen /\ Max(seen) \in seen /\ \A u \in seen : Min(seen) <= u
  BY <1>4, LeastOf, GreatestOf
<1>6. PICK m \in Int, n \in Int : m = Min(seen) /\ n = Max(seen) /\ m <= n
  BY <1>4, <1>5
<1>7. Cardinality(m .. n) = n - m + 1
  BY <1>6, FS_Interval
<1>8. full = m .. n
  BY <1>6
<1> HIDE DEF full
<1>9. CASE Cardinality(full) > 2
  <2>1. n - m + 1 > 2
    BY <1>7, <1>8, <1>9
  <2>2. full \ {m, n} = (m + 1) .. (n - 1)
    BY <1>8
  <2>3. m + 1 \in Int /\ n - 1 \in Int /\ m + 1 <= n - 1
    BY <1>6, <2>1
  <2> QED
    BY <1>3, <1>6, <1>9, <2>2, <2>3
<1>10. CASE ~(Cardinality(full) > 2)
  BY <1>3, <1>6, <1>8, <1>10
<1> QED
  BY <1>9, <1>10

WeekBefore(weeks, w) ==
  {v \in weeks : v < w /\ Cardinality({u \in weeks : v <= u /\ u < w}) <= 1}
WeeksAfter(weeks, w) == {v \in weeks : v > w}

LEMMA PanelRows ==
    ASSUME NEW X
    PROVE  LET rows == Zoned(X)
               panel == HotspotPanel(X)
           IN  /\ DOMAIN panel = PanelCells(rows)
               /\ \A x \in DOMAIN panel :
                    LET weeks == Calendar(rows)[x[1][1]]
                        last == WeekBefore(weeks, x[2])
                    IN  /\ panel[x].count = ReportsIn(rows, x[1], {x[2]})
                        /\ panel[x].previous = IF last = {} THEN NONE
                                               ELSE ReportsIn(rows, x[1], last)
                        /\ panel[x].future =
                             ReportsIn(rows, x[1], {Min(WeeksAfter(weeks, x[2]))})
<1> DEFINE rows == Zoned(X)
           panel == HotspotPanel(X)
           weeks == Calendar(rows)
           cells == PanelCells(rows)
           count(s, w) == ReportsIn(rows, s, {w})
           back(s, w, n) ==
             LET last == {v \in weeks[s[1]] : v < w /\ Cardinality({u \in weeks[s[1]] : v <= u /\ u < w}) <= n}
             IN IF last = {} THEN NONE ELSE ReportsIn(rows, s, last)
           next(s, w) == Min({v \in weeks[s[1]] : v > w})
           start == [x \in cells |-> x[2] * HOURS_PER_WEEK]
           split == ChronologicalSplit(start, [x \in cells |-> x[1][1]])
           global == ChronologicalSplit(start, OneGroup(cells))
           row(x) == [count |-> count(x[1], x[2]), previous |-> back(x[1], x[2], 1),
                      rolling4 |-> back(x[1], x[2], 4), rolling12 |-> back(x[1], x[2], 12),
                      future |-> count(x[1], next(x[1], x[2])),
                      split |-> split[x], global |-> global[x]]
<1>1. panel = [x \in cells |-> row(x)]
  BY Zenon DEF HotspotPanel
<1>2. \A x : /\ row(x).count = count(x[1], x[2]) /\ row(x).previous = back(x[1], x[2], 1)
             /\ row(x).future = count(x[1], next(x[1], x[2]))
  <2> HIDE DEF count, back, next, split, global
  <2> QED
    OBVIOUS
<1>3. \A x : back(x[1], x[2], 1) = IF WeekBefore(weeks[x[1][1]], x[2]) = {} THEN NONE
                                   ELSE ReportsIn(rows, x[1], WeekBefore(weeks[x[1][1]], x[2]))
  <2> HIDE DEF weeks, rows
  <2> QED
    BY Zenon DEF WeekBefore
<1>5. \A x : count(x[1], next(x[1], x[2]))
                = ReportsIn(rows, x[1], {Min(WeeksAfter(weeks[x[1][1]], x[2]))})
  <2> HIDE DEF weeks, rows
  <2> QED
    BY Zenon DEF WeeksAfter
<1> HIDE DEF row, cells, weeks, panel, rows, back, next
<1>4. DOMAIN panel = cells /\ \A x \in cells : panel[x] = row(x)
  BY <1>1
<1> QED
  BY <1>2, <1>3, <1>5, <1>4 DEF panel, weeks, rows, cells

\* A cell's week is one of an interval but not its end.
LEMMA PanelCell ==
    ASSUME NEW X \in SUBSET Records, NEW x \in PanelCells(Zoned(X))
    PROVE  \E a, b \in Int :
             /\ a <= b /\ Calendar(Zoned(X))[x[1][1]] = a .. b
             /\ x = <<x[1], x[2]>> /\ x[2] \in a .. (b - 1)
             /\ \A w \in a .. (b - 1) : <<x[1], w>> \in PanelCells(Zoned(X))
<1> DEFINE rows == Zoned(X)
           weeks == Calendar(rows)
<1>1. PICK s \in {Series(r) : r \in rows} :
        x \in {<<s, w>> : w \in weeks[s[1]] \ {Max(weeks[s[1]])}}
  BY DEF PanelCells
<1>2. PICK r \in rows : s = Series(r)
  BY <1>1
<1>3. s[1] = Facts[r].src /\ x[1] = s /\ x = <<x[1], x[2]>>
      /\ x[2] \in weeks[s[1]] \ {Max(weeks[s[1]])}
  BY <1>1, <1>2 DEF Series
<1>4. weeks[s[1]] = PanelWeeks(rows, s[1])
  BY <1>3 DEF Calendar
<1>5. PICK a \in Int, b \in Int : a <= b /\ weeks[s[1]] = a .. b
  <2> HIDE DEF weeks
  <2> QED
    BY <1>3, <1>4, WeeksInterval
<1>6. Max(weeks[s[1]]) = b
  <2>1. b \in a .. b /\ a .. b \subseteq Int /\ \A i \in a .. b : b >= i
    BY <1>5
  <2>2. Max(a .. b) = b
    BY <2>1, GreatestIs
  <2> QED
    BY <1>5, <2>2
<1>7. \A w \in weeks[s[1]] \ {Max(weeks[s[1]])} : <<s, w>> \in PanelCells(rows)
  BY <1>1 DEF PanelCells
<1> HIDE DEF weeks
<1>8. weeks[s[1]] \ {Max(weeks[s[1]])} = a .. (b - 1)
  BY <1>5, <1>6
<1> QED
  BY <1>3, <1>5, <1>7, <1>8 DEF weeks

\* Rows that follow each other in the table are of weeks that do.
LEMMA NextWeek ==
    ASSUME NEW X \in SUBSET Records, NEW x \in DOMAIN HotspotPanel(X),
           NEW y \in DOMAIN HotspotPanel(X), Adjacent(HotspotPanel(X), x, y)
    PROVE  /\ x[1] = y[1] /\ x[2] \in Int /\ y[2] = x[2] + 1
           /\ \E a, b \in Int : /\ Calendar(Zoned(X))[x[1][1]] = a .. b
                                /\ x[2] \in a .. b /\ y[2] \in a .. b
<1> DEFINE cells == PanelCells(Zoned(X))
<1>1. DOMAIN HotspotPanel(X) = cells
  BY PanelRows
<1>2. /\ x[1] = y[1] /\ x[2] < y[2]
      /\ ~ \E z \in cells : RowBefore(x, z) /\ RowBefore(z, y)
  BY <1>1 DEF Adjacent, RowBefore
<1>3. PICK a \in Int, b \in Int :
        /\ a <= b /\ Calendar(Zoned(X))[x[1][1]] = a .. b
        /\ x[2] \in a .. (b - 1) /\ \A w \in a .. (b - 1) : <<x[1], w>> \in cells
  BY <1>1, PanelCell
<1>4. PICK c \in Int, d \in Int :
        c <= d /\ Calendar(Zoned(X))[y[1][1]] = c .. d /\ y[2] \in c .. (d - 1)
  BY <1>1, PanelCell
<1>5. a .. b = c .. d
  BY <1>2, <1>3, <1>4
<1>6. y[2] \in a .. b
  <2>1. y[2] \in c .. d
    BY <1>4
  <2> QED
    BY <1>5, <2>1
<1>7. a = c /\ b = d
  BY <1>3, <1>4, <1>5
<1>8. y[2] \in a .. (b - 1)
  BY <1>4, <1>7
<1>9. y[2] = x[2] + 1
  <2> SUFFICES ASSUME y[2] # x[2] + 1 PROVE FALSE
    OBVIOUS
  <2>1. x[2] + 1 \in a .. (b - 1) /\ x[2] < x[2] + 1 /\ x[2] + 1 < y[2]
    BY <1>2, <1>3, <1>8
  <2>2. <<x[1], x[2] + 1>> \in cells
    BY <1>3, <2>1
  <2>3. RowBefore(x, <<x[1], x[2] + 1>>) /\ RowBefore(<<x[1], x[2] + 1>>, y)
    BY <1>2, <2>1 DEF RowBefore
  <2> QED
    BY <1>2, <2>2, <2>3
<1>10. x[2] \in Int /\ x[2] \in a .. b
  BY <1>3
<1> QED
  BY <1>2, <1>3, <1>6, <1>9, <1>10

LEMMA PanelAgrees ==
    ASSUME NEW X \in SUBSET Records
    PROVE  LET panel == HotspotPanel(X)
           IN  /\ LagsAgree(panel) /\ TargetsAgree(panel)
               /\ \A x, y \in DOMAIN panel : Adjacent(panel, x, y) => y[2] = x[2] + 1
<1> DEFINE panel == HotspotPanel(X)
           rows == Zoned(X)
<1>1. ASSUME NEW x \in DOMAIN panel, NEW y \in DOMAIN panel, Adjacent(panel, x, y)
      PROVE  /\ panel[y].previous = panel[x].count
             /\ panel[x].future = panel[y].count
             /\ y[2] = x[2] + 1
  <2>1. PICK a \in Int, b \in Int : /\ Calendar(rows)[x[1][1]] = a .. b
                                    /\ x[2] \in a .. b /\ y[2] \in a .. b
    BY <1>1, NextWeek
  <2>2. x[1] = y[1] /\ x[2] \in Int /\ y[2] = x[2] + 1
    BY <1>1, NextWeek
  <2> DEFINE weeks == a .. b
             last == WeekBefore(weeks, y[2])
             later == WeeksAfter(weeks, x[2])
  <2>3. /\ panel[x].count = ReportsIn(rows, x[1], {x[2]})
        /\ panel[y].count = ReportsIn(rows, y[1], {y[2]})
        /\ panel[x].future = ReportsIn(rows, x[1], {Min(later)})
        /\ panel[y].previous = IF last = {} THEN NONE ELSE ReportsIn(rows, y[1], last)
    <3>1. weeks = Calendar(rows)[x[1][1]] /\ weeks = Calendar(rows)[y[1][1]]
      BY <2>1, <2>2
    <3>2. \A z \in DOMAIN panel :
            LET w == Calendar(rows)[z[1][1]]
            IN  /\ panel[z].count = ReportsIn(rows, z[1], {z[2]})
                /\ panel[z].previous = IF WeekBefore(w, z[2]) = {} THEN NONE
                                       ELSE ReportsIn(rows, z[1], WeekBefore(w, z[2]))
                /\ panel[z].future = ReportsIn(rows, z[1], {Min(WeeksAfter(w, z[2]))})
      BY PanelRows, Zenon
    <3> HIDE DEF weeks, rows, panel
    <3> QED
      BY <3>1, <3>2
  <2>4. ASSUME NEW v \in weeks, v < y[2]
        PROVE  Cardinality({u \in weeks : v <= u /\ u < y[2]}) <= 1 <=> v = x[2]
    <3>1. {u \in weeks : v <= u /\ u < y[2]} = v .. x[2]
      BY <2>1, <2>2, <2>4
    <3>2. Cardinality(v .. x[2]) = x[2] - v + 1
      BY <2>2, <2>4, FS_Interval
    <3>3. v \in Int
      BY <2>1, <2>4
    <3>4. Cardinality({u \in weeks : v <= u /\ u < y[2]}) = x[2] - v + 1
      BY <3>1, <3>2, Zenon
    <3> HIDE DEF weeks
    <3> QED
      BY <2>2, <2>4, <3>3, <3>4
  <2>5. last = {x[2]}
    <3>1. x[2] \in weeks /\ x[2] < y[2]
      BY <2>1, <2>2
    <3> HIDE DEF weeks
    <3> QED
      BY <2>4, <3>1 DEF WeekBefore
  <2>6. Min(later) = y[2]
    <3>1. y[2] \in later /\ later \subseteq Int /\ \A v \in later : y[2] <= v
      BY <2>1, <2>2 DEF WeeksAfter
    <3> HIDE DEF later
    <3> QED
      BY <3>1, LeastIs
  <2> HIDE DEF last, later, panel, rows
  <2> QED
    BY <2>2, <2>3, <2>5, <2>6
<1> HIDE DEF panel
<1> QED
  BY <1>1 DEF LagsAgree, TargetsAgree, panel

-----------------------------------------------------------------------------
(***************************************************************************)
(* The densities of a corpus, row by row.                                  *)
(***************************************************************************)
Near(rows, r, hours) ==
  {s \in Candidates(rows, r) : Distance(r, s) <= RADIUS_M /\ Facts[r].at - Facts[s].at <= hours}
Alike(rows, r, hours) == {s \in Near(rows, r, hours) : Category(s) = Category(r)}
SinceLast(rows, r) == IF Alike(rows, r, 720) = {} THEN NONE
                      ELSE Facts[r].at - Max({Facts[s].at : s \in Alike(rows, r, 720)})

LEMMA DensityRow ==
    ASSUME NEW rows
    PROVE  /\ DOMAIN HistoricalDensity(rows) = rows
           /\ \A r \in rows : r \notin Usable(rows) => HistoricalDensity(rows)[r] = NULLS
           /\ \A r \in Usable(rows) :
                HistoricalDensity(rows)[r] =
                  [similar24 |-> Cardinality(Alike(rows, r, 24)),
                   similar168 |-> Cardinality(Alike(rows, r, 168)),
                   similar720 |-> Cardinality(Alike(rows, r, 720)),
                   local |-> Cardinality(Near(rows, r, 720)),
                   since |-> SinceLast(rows, r)]
<1> DEFINE row(r) == [similar24 |-> Cardinality(Alike(rows, r, 24)),
                      similar168 |-> Cardinality(Alike(rows, r, 168)),
                      similar720 |-> Cardinality(Alike(rows, r, 720)),
                      local |-> Cardinality(Near(rows, r, 720)),
                      since |-> SinceLast(rows, r)]
<1>1. HistoricalDensity(rows) = [r \in rows |-> IF r \notin Usable(rows) THEN NULLS ELSE row(r)]
  BY Zenon DEF HistoricalDensity, SinceLast, Alike, Near
<1>2. Usable(rows) \subseteq rows
  BY DEF Usable
<1> HIDE DEF row
<1>3. /\ DOMAIN HistoricalDensity(rows) = rows
      /\ \A r \in rows : HistoricalDensity(rows)[r] = IF r \notin Usable(rows) THEN NULLS ELSE row(r)
  BY <1>1
<1>4. \A r \in Usable(rows) : HistoricalDensity(rows)[r] = row(r)
  BY <1>2, <1>3
<1>5. \A r \in rows : r \notin Usable(rows) => HistoricalDensity(rows)[r] = NULLS
  BY <1>3
<1> QED
  BY <1>3, <1>4, <1>5, Zenon DEF row

LEMMA NearFinite ==
    ASSUME NEW rows \in SUBSET Records, NEW r, NEW hours
    PROVE  /\ IsFiniteSet(Near(rows, r, hours)) /\ IsFiniteSet(Alike(rows, r, hours))
           /\ Cardinality(Near(rows, r, hours)) \in Nat
           /\ Cardinality(Alike(rows, r, hours)) \in Nat
<1>1. Near(rows, r, hours) \in SUBSET Records /\ Alike(rows, r, hours) \in SUBSET Records
  BY DEF Near, Alike, Candidates, Usable
<1>2. IsFiniteSet(Near(rows, r, hours)) /\ IsFiniteSet(Alike(rows, r, hours))
  BY <1>1, FS_Subset, DatasetRulesAssumption
<1> QED
  BY <1>2, FS_CardinalityType

LEMMA DensityFields ==
    ASSUME NEW rows, NEW r \in Usable(rows)
    PROVE  /\ HistoricalDensity(rows)[r].similar24 = Cardinality(Alike(rows, r, 24))
           /\ HistoricalDensity(rows)[r].similar168 = Cardinality(Alike(rows, r, 168))
           /\ HistoricalDensity(rows)[r].similar720 = Cardinality(Alike(rows, r, 720))
           /\ HistoricalDensity(rows)[r].local = Cardinality(Near(rows, r, 720))
           /\ HistoricalDensity(rows)[r].since = SinceLast(rows, r)
<1> DEFINE row(q) == [similar24 |-> Cardinality(Alike(rows, q, 24)),
                      similar168 |-> Cardinality(Alike(rows, q, 168)),
                      similar720 |-> Cardinality(Alike(rows, q, 720)),
                      local |-> Cardinality(Near(rows, q, 720)),
                      since |-> SinceLast(rows, q)]
<1>1. \A q \in Usable(rows) : HistoricalDensity(rows)[q] = row(q)
  BY DensityRow
<1>2. /\ row(r).similar24 = Cardinality(Alike(rows, r, 24))
      /\ row(r).similar168 = Cardinality(Alike(rows, r, 168))
      /\ row(r).similar720 = Cardinality(Alike(rows, r, 720))
      /\ row(r).local = Cardinality(Near(rows, r, 720))
      /\ row(r).since = SinceLast(rows, r)
  OBVIOUS
<1> HIDE DEF row
<1>3. HistoricalDensity(rows)[r] = row(r)
  BY <1>1
<1> QED
  BY <1>2, <1>3

\* A report with a place and a time has its densities.
LEMMA DensityKnown ==
    ASSUME NEW rows \in SUBSET Records, NEW r \in Usable(rows)
    PROVE  HistoricalDensity(rows)[r] # NULLS
<1>1. HistoricalDensity(rows)[r].similar24 = Cardinality(Alike(rows, r, 24))
  BY DensityFields
<1>2. Cardinality(Alike(rows, r, 24)) \in Nat
  BY NearFinite
<1>3. NULLS.similar24 = NONE
  BY DEF NULLS
<1> QED
  BY <1>1, <1>2, <1>3, DatasetRulesAssumption

LEMMA FileNames == Files = Sources \cup {"incidents"} \cup DOMAIN Rank
<1>1. UNION {{Built[b][i] : i \in DOMAIN Built[b]} : b \in DOMAIN Built}
        = {"incidents"} \cup DOMAIN Rank
  <2> DEFINE made(b) == {Built[b][i] : i \in DOMAIN Built[b]}
  <2>1. /\ made("build_incidents") = {"incidents"} /\ made("build_time_features") = {"time"}
        /\ made("build_geo_features") = {"geo"}
        /\ made("build_priority_features") = {"prioritised", "priority"}
        /\ made("build_resolution_dataset") = {"resolution"}
        /\ made("build_hotspot_dataset") = {"hotspot"}
        /\ made("build_duplicate_pairs") = {"duplicates"}
        /\ made("build_ml_dataset") = {"ml"}
    BY BuiltTables
  <2>2. made("build_task_datasets")
          = {"resolution_ml", "sla_ml", "hotspot_ml", "duplicate_ml", "priority_features"}
    <3>1. DOMAIN Built["build_task_datasets"] = 1 .. 5
      BY BuiltTables
    <3>2. 1 .. 5 = {1, 2, 3, 4, 5}
      OBVIOUS
    <3> QED
      BY <3>1, <3>2, BuiltTables
  <2>3. DOMAIN Built = {"build_incidents", "build_time_features", "build_geo_features",
                        "build_priority_features", "build_resolution_dataset",
                        "build_hotspot_dataset", "build_duplicate_pairs", "build_ml_dataset",
                        "build_task_datasets"}
    BY BuiltTables
  <2> HIDE DEF made
  <2>4. UNION {made(b) : b \in DOMAIN Built} = {"incidents"} \cup DOMAIN Rank
    <3>1. \A b \in DOMAIN Built : made(b) \subseteq {"incidents"} \cup DOMAIN Rank
      BY <2>1, <2>2, <2>3, RankDomain
    <3>2. \A f \in {"incidents"} \cup DOMAIN Rank : \E b \in DOMAIN Built : f \in made(b)
      BY <2>1, <2>2, <2>3, RankDomain
    <3> QED
      BY <3>1, <3>2
  <2> QED
    BY <2>4 DEF made
<1> QED
  BY <1>1 DEF Files

\* When all is made of incidents that every task has data in, what the checks
\* of the outputs ask for is there.
LEMMA OutputsAreSound ==
    ASSUME TablesInv, UpTo(13), EveryTaskHasData(file["incidents"]), Readable("incidents")
    PROVE  OutputsSound
<1> DEFINE rows == file["incidents"]
<1>1. Coherent(rows)
  BY AllMade
<1>2. /\ Readable("priority") /\ Readable("resolution") /\ Readable("duplicates")
      /\ Readable("hotspot")
      /\ file["geo"] = HistoricalDensity(rows)
      /\ DOMAIN file["priority"] = rows
      /\ file["duplicates"] = DuplicatePairs(rows) /\ file["hotspot"] = HotspotPanel(rows)
  <2> HIDE DEF rows
  <2> QED
    BY <1>1 DEF Coherent
<1>3. rows \in SUBSET Records
  BY IncidentsKnown
<1>4. OrderedRows(file["priority"]) /\ OrderedRows(file["resolution"])
  <2>1. Kind("priority", file["priority"]) /\ Kind("resolution", file["resolution"])
    BY <1>2 DEF TablesInv, FilesInv, Readable, On
  <2>2. SplitTable(file["priority"]) /\ SplitTable(file["resolution"])
    BY <2>1 DEF Kind, ResolutionTable
  <2> QED
    BY <2>2, SplitTableSound
<1>5. FirstInOneFold(file["duplicates"])
  <2>1. EntitiesInOneFold(file["duplicates"])
    BY <1>2, PairsInOneFold
  <2> QED
    BY <2>1 DEF EntitiesInOneFold, FirstInOneFold
<1>6. DOMAIN file["duplicates"].positives # {} /\ DOMAIN file["duplicates"].negatives # {}
  <2>1. /\ DOMAIN DuplicatePairs(rows).positives = Positives(rows)
        /\ DOMAIN DuplicatePairs(rows).negatives = Negatives(rows, IncidentSplits(rows))
    BY DEF DuplicatePairs
  <2>2. Positives(rows) # {} /\ Negatives(rows, IncidentSplits(rows)) # {}
    BY DEF EveryTaskHasData
  <2> QED
    BY <1>2, <2>1, <2>2
<1>7. \E r \in DOMAIN file["priority"] : file["priority"][r].density # NULLS
  <2>1. PICK r \in Usable(rows) : TRUE
    BY DEF EveryTaskHasData
  <2>2. r \in rows
    BY DEF Usable
  <2>3. Made("priority")
    BY RankDomain, Ranks DEF UpTo
  <2>4. file["priority"][r].density = file["geo"][r]
    BY <2>2, <2>3 DEF Made, Scored
  <2>5. file["geo"][r] # NULLS
    BY <1>2, <1>3, DensityKnown
  <2> QED
    BY <1>2, <2>2, <2>4, <2>5
<1>8. LagsAgree(file["hotspot"])
  BY <1>2, <1>3, PanelAgrees
<1> QED
  BY <1>4, <1>5, <1>6, <1>7, <1>8 DEF OutputsSound

\* Without an hour are the rows without a time.
LEMMA HoursMissing ==
    ASSUME UpTo(13), Readable("incidents")
    PROVE  Rows(Corpus) = file["incidents"] /\ WithoutHour = Undated(file["incidents"])
<1> DEFINE rows == file["incidents"]
<1>1. Made("time") /\ Made("prioritised")
  BY RankDomain, Ranks DEF UpTo
<1>2. Readable("time") /\ file["time"] = rows
  BY <1>1 DEF Made
<1>3. Readable("prioritised") /\ file["prioritised"] = [r \in rows |-> ApplyBlock(r, file["geo"][r])]
  BY <1>1 DEF Made
<1>4. Corpus = "prioritised"
  BY <1>3 DEF Corpus, Readable
<1>5. DOMAIN file["prioritised"] = rows
  <2> HIDE DEF rows
  <2> QED
    BY <1>3
<1>6. Rows(Corpus) = rows
  BY <1>4, <1>5 DEF Rows
<1> HIDE DEF rows
<1>7. WithHour(rows, rows) = Known(rows, At)
  BY DEF WithHour, Known
<1>8. On("time")
  BY <1>2 DEF Readable
<1>9. WithoutHour = rows \ WithHour(rows, rows)
  BY <1>2, <1>6, <1>8 DEF WithoutHour
<1> QED
  BY <1>6, <1>7, <1>9 DEF Undated, rows

\* And no check fails, if there is no torn table that the run did not need.
LEMMA ChecksSucceed ==
    ASSUME TablesInv, UpTo(13), Stacked, EveryTaskHasData(file["incidents"]),
           Sources # {}, \A s \in Sources : Readable(s), "sla_ml" \notin torn, Step \in Checkers
    PROVE  Succeeds(Step, Output)
<1>1. \A f \in DOMAIN Rank : f # "sla_ml" => Readable(f)
  <2>1. \A f \in DOMAIN Rank : Made(f)
    BY RankDomain, Ranks DEF UpTo
  <2> QED
    BY <2>1, MadeReadable
<1>2. Readable("incidents")
  BY DEF Stacked
<1>3. torn = {}
  <2>1. torn \subseteq Files
    BY DEF TablesInv, FilesInv
  <2> QED
    BY <1>1, <1>2, <2>1, FileNames DEF Readable
<1>4. Readable(Corpus)
  <2>1. Readable("prioritised")
    BY <1>1, RankDomain
  <2> QED
    BY <2>1 DEF Corpus, Readable
<1>5. \A f \in Needs(Step) : On(f)
  <2>1. Step \in DOMAIN Checks
    BY CheckersDomain
  <2>2. Needs(Step) \subseteq {"incidents", "priority", "resolution", "hotspot", "duplicates", Corpus}
    <3>1. Needs(Step) = Checks[Step].needs
      BY <2>1, CheckersDomain DEF Needs, Checkers
    <3> HIDE DEF Corpus
    <3>2. Checks[Step].needs
            \subseteq {"incidents", "priority", "resolution", "hotspot", "duplicates", Corpus}
      BY DEF Checkers, Checks, Reads, DatasetStatus, ValidateMappings, DataQualityReport,
             ValidateProvenance, ValidateLeakage, ValidateOutputs, AuditPipeline,
             AuditTaskDatasets, AuditStatistics, ReportCategoryCandidates
    <3> QED
      BY <3>1, <3>2
  <2> QED
    BY <1>1, <1>2, <1>4, <2>2, RankDomain DEF Readable
<1>6. Tables(Sources) # {}
  BY DEF Tables, Readable
<1>7. OutputsSound
  BY <1>2, OutputsAreSound
<1>8. Step \notin {"build_hotspot_dataset", "build_duplicate_pairs"}
  BY DEF Checkers
<1>9. ASSUME NEW r \in WithoutHour
      PROVE  \E q \in Rows(Corpus) \ WithoutHour : Source[q] = Source[r]
  <2>1. PICK rows : rows = file["incidents"]
    OBVIOUS
  <2>2. Rows(Corpus) = rows /\ WithoutHour = Undated(rows)
    BY <1>2, <2>1, HoursMissing
  <2>3. Source[r] \in Sources
    <3>1. r \in AllIncidents
      BY <1>9, <2>1, <2>2 DEF Undated, Stacked
    <3>2. PICK s \in Sources : r \in file[s]
      BY <3>1 DEF AllIncidents, Tables
    <3>3. Kind(s, file[s])
      BY SourceNames, FileNames DEF TablesInv, FilesInv
    <3> QED
      BY <3>2, <3>3 DEF Kind
  <2>4. PICK q \in Known(rows, At) : Source[q] = Source[r]
    BY <2>1, <2>3 DEF EveryTaskHasData
  <2> QED
    BY <2>2, <2>4 DEF Undated, Known
<1> QED
  BY <1>3, <1>5, <1>6, <1>7, <1>8, <1>9 DEF Succeeds

LEMMA FullStarts ==
    ASSUME TablesInv, NEW c \in Commands, Start(c)
    PROVE  FullInv'
<1> SUFFICES ASSUME Full' PROVE FullInv'
  BY DEF FullInv
<1>1. /\ run'.only = c.only /\ run'.from = c.from /\ run'.todo = Asked(c)
      /\ run'.failed = {} /\ raw' = raw
  BY DEF Start
<1>2. c.only = NONE /\ c.from = 1 /\ EveryTaskHasData(Corpora[raw])
  BY <1>1 DEF Full
<1>3. ASSUME NEW i \in DOMAIN Cities PROVE <<2, i>> \in Asked(c)
  <2>1. <<2, i>> \in Places /\ StepAt(<<2, i>>) = Cities[i] /\ Cities[i] \in Sources
    BY Stacking DEF Sources
  <2>2. Sources = Delivered
    BY <1>2, FullDelivers
  <2> QED
    BY <1>2, <2>1, <2>2 DEF Asked
<1>4. Sourced'
  BY <1>1, <1>3 DEF Sourced
<1> QED
  BY <1>1, <1>4 DEF FullInv

\* What is left to do when the head is done comes after it.
LEMMA Later ==
    ASSUME NEW todo \in SUBSET Places, todo # {}, First(todo)[1] = 7,
           NEW rest \in SUBSET todo
    PROVE  ~(rest # {} /\ First(rest)[1] <= 6)
<1>1. \A y \in todo : First(todo) = y \/ Before(First(todo), y)
  BY FirstPlace
<1>2. \A y \in Places : y[1] \in 1 .. 7
  BY PlaceFacts
<1>3. \A y \in todo : y[1] = 7
  BY <1>1, <1>2 DEF Before
<1>4. rest # {} => First(rest) \in rest
  BY FirstPlace
<1> QED
  BY <1>3, <1>4

\* What a source's own step makes of it
LEMMA SourceBuilt ==
    ASSUME TablesInv, Full, Working, WriteTable \/ PassOn,
           NEW i \in DOMAIN Cities,
           \/ <<2, i>> \notin run.todo /\ Readable(Cities[i]) /\ file[Cities[i]] = Cleaned(raw[Cities[i]])
           \/ First(run.todo) = <<2, i>>
    PROVE  Readable(Cities[i])' /\ file'[Cities[i]] = Cleaned(raw[Cities[i]])
<1> DEFINE s == Cities[i]
<1>1. s \in Sources /\ Cleaned(raw[s]) # {}
  BY FullDelivers DEF Sources, Full
<1>2. \A q : SourceRows(q) = Cleaned(raw[q])
  BY DEF SourceRows, Full
<1>3. ASSUME WriteTable, Writes(Step)[Output] = s
      PROVE  Readable(s)' /\ file'[s] = Cleaned(raw[s])
  <2>1. Writes(Step) # <<>>
    BY <1>3 DEF WriteTable, Writing
  <2>2. Step \in Sources /\ Step = s
    <3>1. \/ Step \in Sources /\ Writes(Step)[Output] = Step
          \/ Step \in DOMAIN Built /\ Writes(Step)[Output] = Built[Step][Output]
               /\ Output \in DOMAIN Built[Step]
      BY <2>1, OutputNamed
    <3>2. \A b \in DOMAIN Built : \A j \in DOMAIN Built[b] : Built[b][j] \notin Sources
      BY SourceNames
    <3> HIDE DEF s
    <3> QED
      BY <1>1, <1>3, <3>1, <3>2
  <2>3. Table(Step, Output) = SourceRows(s)
    <3>1. Step \in Sources /\ Step \notin DOMAIN Built
      BY <1>1, <2>2, SourceNames
    <3> HIDE DEF s
    <3>2. Table(Step, Output) = SourceRows(Step)
      BY <3>1, BuiltTables DEF Table
    <3> QED
      BY <2>2, <3>2
  <2>4. Put(s, Cleaned(raw[s]))
    BY <1>2, <1>3, <2>3 DEF WriteTable
  <2> HIDE DEF s
  <2> QED
    BY <2>4 DEF Put, Readable, On
<1>4. CASE First(run.todo) = <<2, i>>
  <2>1. Step = s
    BY <1>4, Stacking DEF Step
  <2>2. Writes(Step) = <<s>> /\ Output = 1
    <3>1. First(run.todo)[1] = 2
      BY <1>4
    <3> QED
      BY <2>1, <3>1, OutputOf
  <2>3. ~LeftAlone(Step, Output)
    <3>1. Step # "build_task_datasets"
      BY <1>1, <2>1, FourSources
    <3> QED
      BY <1>1, <1>2, <2>1, <3>1 DEF LeftAlone
  <2>4. WriteTable
    BY <2>2, <2>3 DEF PassOn, Writing
  <2> HIDE DEF s
  <2> QED
    BY <1>3, <2>2, <2>4 DEF s
<1>5. CASE Readable(s) /\ file[s] = Cleaned(raw[s])
  <2>1. CASE PassOn
    BY <1>5, <2>1 DEF PassOn, Readable, On
  <2>2. CASE WriteTable /\ Writes(Step)[Output] # s
    BY <1>5, <2>2 DEF WriteTable, Put, Readable, On
  <2> QED
    BY <1>3, <2>1, <2>2
<1> QED
  BY <1>4, <1>5

LEMMA FullAdvances ==
    ASSUME TablesInv, FullInv, Full, Working, WriteTable \/ PassOn
    PROVE  FullInv'
<1> DEFINE h == First(run.todo)
<1>1. run' = Advance /\ raw' = raw /\ DOMAIN run = RunFields
  BY DEF WriteTable, PassOn, TablesInv, RunInv, Working
<1>2. /\ run'.keep = run.keep /\ run'.failed = run.failed
      /\ run'.todo = run.todo \/ run'.todo = run.todo \ {h}
  BY <1>1 DEF Advance, RunFields
<1>3. /\ run.keep \/ run.failed = {}
      /\ run.failed \subseteq Checkers /\ Sourced
      /\ \/ run.failed \subseteq Verifiers \cup Raising(Corpora[raw])
         \/ ~Early /\ "sla_ml" \in torn
  BY DEF FullInv, Working
<1>4. run.todo \in SUBSET Places /\ run.todo # {}
  BY DEF TablesInv, RunInv, Working
<1>5. Sourced'
  <2> SUFFICES ASSUME NEW i \in DOMAIN Cities, <<2, i>> \notin run'.todo
               PROVE  Readable(Cities[i])' /\ file'[Cities[i]] = Cleaned(raw'[Cities[i]])
    BY DEF Sourced
  <2>1. <<2, i>> \notin run.todo \/ h = <<2, i>>
    BY <1>2
  <2>2. <<2, i>> \notin run.todo => Readable(Cities[i]) /\ file[Cities[i]] = Cleaned(raw[Cities[i]])
    BY <1>3 DEF Sourced
  <2> QED
    BY <1>1, <2>1, <2>2, SourceBuilt
<1>6. ASSUME ~Early, "sla_ml" \in torn PROVE ~Early' /\ "sla_ml" \in torn'
  <2>1. h[1] = 7 /\ Writes(Step) = <<>>
    <3>1. h[1] \in 1 .. 7 /\ (h[1] \in {1, 7} => Writes(Step) = <<>>)
      BY OutputOf
    <3>2. ~(h[1] <= 6)
      BY <1>4, <1>6 DEF Early
    <3> HIDE DEF h
    <3> QED
      BY <3>1, <3>2
  <2>2. torn' = torn
    BY <2>1 DEF WriteTable, Writing, PassOn
  <2>3. PICK rest \in SUBSET run.todo : run'.todo = rest
    BY <1>2
  <2>4. ~(rest # {} /\ First(rest)[1] <= 6)
    BY <1>4, <2>1, Later
  <2> QED
    BY <1>6, <2>2, <2>3, <2>4 DEF Early
<1> QED
  BY <1>1, <1>2, <1>3, <1>5, <1>6 DEF FullInv

\* The audit is not among the steps of the phases that build.
LEMMA EarlyNeverAudits ==
    ASSUME TablesInv, Working, Early
    PROVE  Step # "audit_pipeline"
<1> DEFINE h == First(run.todo)
<1>1. /\ h[1] \in 1 .. 7
      /\ h[1] = 2 => Step \in Sources
      /\ h[1] = 3 => Step = "build_incidents"
      /\ h[1] \in 4 .. 6 => Step \in DOMAIN Built
      /\ h[1] = 1 => Step \in Verifiers
  BY OutputOf
<1>2. h[1] <= 6
  BY DEF Early
<1> HIDE DEF h
<1>3. Step \in Verifiers \/ Step \in Sources \/ Step \in DOMAIN Built \/ Step = "build_incidents"
  BY <1>1, <1>2
<1> QED
  BY <1>3, SourceNames, CheckersDomain DEF Checkers, Verifiers

LEMMA FullFails ==
    ASSUME TablesInv, CorpusInv, StackInv, FullInv, Full, StepFails
    PROVE  FullInv'
<1> DEFINE h == First(run.todo)
           rest == run.todo \ {h}
<1> DEFINE raising == Raising(Corpora[raw])
<1>1. /\ Working /\ raw' = raw /\ file' = file /\ torn' = torn
      /\ DOMAIN run = RunFields /\ run.todo \in SUBSET Places /\ run.todo # {}
  BY DEF StepFails, Working, TablesInv, RunInv
<1>2. run' = [run EXCEPT !.failed = @ \cup {Step}, !.part = 0,
                         !.todo = IF run.keep THEN @ \ {First(@)} ELSE {}]
  BY DEF StepFails
<1>3. /\ run'.keep = run.keep /\ run'.failed = run.failed \cup {Step}
      /\ run'.todo = IF run.keep THEN rest ELSE {}
  BY <1>1, <1>2 DEF RunFields
<1>4. /\ run.keep \/ run.failed = {}
      /\ run.failed \subseteq Checkers /\ Sourced
      /\ run.failed \subseteq Verifiers \cup raising \/ (~Early /\ "sla_ml" \in torn)
  BY <1>1 DEF FullInv, Working
<1>5. /\ Step = StepAt(h) /\ h[1] \in 1 .. 7
      /\ h[1] \in {1, 7} => Step \in Checkers
  BY <1>1, OutputOf
<1>6. Early <=> h[1] <= 6
  BY <1>1 DEF Early
<1>7. ASSUME h[1] # 2, run.keep PROVE Sourced'
  <2> HIDE DEF h
  <2>1. \A i \in DOMAIN Cities : <<2, i>> # h
    BY <1>7
  <2>2. \A i \in DOMAIN Cities : <<2, i>> \notin run'.todo => <<2, i>> \notin run.todo
    BY <1>3, <1>7, <2>1
  <2> QED
    BY <1>1, <1>4, <2>2 DEF Sourced, Readable, On
<1>8. CASE Early
  <2>0. ~Succeeds(Step, Output)
    BY <1>1, <1>8, EarlyNeverAudits DEF StepFails, MayRaise
  <2>1. Step \in Verifiers /\ h[1] = 1
    BY <1>1, <1>8, <2>0, EarlySucceeds
  <2>2. /\ run'.failed \subseteq Verifiers \cup raising /\ run'.failed # {}
        /\ run'.failed \subseteq Checkers
        /\ ~run.keep => run'.failed \subseteq Verifiers
    BY <1>3, <1>4, <1>8, <2>1, CheckersDomain
  <2>3. torn \cap (Sources \cup {"incidents"}) # {}
    <3>1. Step \in DOMAIN Checks
      BY <2>1, CheckersDomain
    <3>2. Inputs(Step, Output) \subseteq Sources \cup {"incidents"} /\ Needs(Step) = {}
      <4>1. Inputs(Step, Output) = Checks[Step].reads /\ Needs(Step) = Checks[Step].needs
        <5>1. Step \notin Sources /\ Step \notin DOMAIN Built
          BY <3>1, SourceNames
        <5>2. Inputs(Step, Output) = Checks[Step].reads
          BY <3>1, <5>1, BuiltTables DEF Inputs
        <5>3. Needs(Step) = Checks[Step].needs
          BY <3>1, <5>1, BuiltTables DEF Needs
        <5> QED
          BY <5>2, <5>3
      <4>2. Checks["dataset_status"] = DatasetStatus
            /\ Checks["validate_mappings"] = ValidateMappings
        BY DEF Checks
      <4> QED
        BY <2>1, <4>1, <4>2 DEF Verifiers, DatasetStatus, ValidateMappings, Reads
    <3>3. Step \notin {"build_incidents", "report_category_candidates", "build_hotspot_dataset",
                       "build_duplicate_pairs", "validate_outputs", "audit_pipeline"}
      BY <2>1 DEF Verifiers
    <3> QED
      BY <2>0, <3>2, <3>3 DEF Succeeds
  <2>4. CASE run.keep
    BY <1>1, <1>3, <1>7, <2>1, <2>2, <2>4 DEF FullInv
  <2>5. CASE ~run.keep
    BY <1>1, <1>3, <2>2, <2>3, <2>5 DEF FullInv
  <2> QED
    BY <2>4, <2>5
<1>9. CASE ~Early
  <2>1. h[1] = 7 /\ Step \in Checkers
    <3> HIDE DEF h
    <3> QED
      BY <1>5, <1>6, <1>9
  <2>2. \A x \in run.todo : x[1] >= 4
    <3>1. \A y \in run.todo : h = y \/ Before(h, y)
      BY <1>1, OutputOf
    <3>2. \A y \in run.todo : y[1] \in 1 .. 7
      BY <1>1, PlaceFacts
    <3> HIDE DEF h
    <3> QED
      BY <2>1, <3>1, <3>2 DEF Before
  <2>3. /\ Stacked /\ file["incidents"] = Corpora[raw] /\ UpTo(Level)
        /\ \A s \in Sources : Readable(s)
    BY <1>4, <2>2, FullBuilt
  <2>4. UpTo(13)
    <3>1. Base(h) = 13 /\ run.part \in Nat /\ Level = Base(h) + run.part
      BY <1>1, <2>1 DEF Base, Level, TablesInv, RunInv, Working
    <3>2. \A f \in DOMAIN Rank : Rank[f] \in 1 .. 13
      BY RankDomain, Ranks
    <3> HIDE DEF h
    <3>3. \A f \in DOMAIN Rank : Rank[f] <= 13 => Rank[f] <= Level
      BY <3>1, <3>2
    <3> QED
      BY <2>3, <3>3 DEF UpTo
  <2>5. Sources # {} /\ EveryTaskHasData(file["incidents"])
    BY <2>3, FullDelivers DEF Full
  <2>6. "sla_ml" \in torn \/ Step \in raising
    <3> SUFFICES ASSUME "sla_ml" \notin torn PROVE Step \in raising
      OBVIOUS
    <3>1. Succeeds(Step, Output)
      BY <2>1, <2>3, <2>4, <2>5, ChecksSucceed
    <3>2. Step = "audit_pipeline" /\ WithoutHour # {}
      BY <3>1 DEF StepFails, MayRaise
    <3>3. WithoutHour = Undated(file["incidents"])
      BY <2>3, <2>4, HoursMissing DEF Stacked
    <3> QED
      BY <2>3, <3>2, <3>3 DEF Raising
  <2> HIDE DEF raising
  <2>7. CASE run.keep
    <3>1. run'.todo = rest /\ rest \in SUBSET run.todo
      BY <1>3, <2>7
    <3>2. ~(rest # {} /\ First(rest)[1] <= 6)
      BY <1>1, <2>1, <3>1, Later
    <3>3. ~Early'
      BY <3>1, <3>2 DEF Early
    <3>4. /\ run'.failed \subseteq Checkers /\ run'.keep
          /\ "sla_ml" \in torn \/ run'.failed \subseteq Verifiers \cup raising
      BY <1>3, <1>4, <2>1, <2>6, <2>7
    <3>5. Sourced'
      BY <1>7, <2>1, <2>7
    <3> QED
      BY <1>1, <3>3, <3>4, <3>5 DEF FullInv, raising
  <2>8. CASE ~run.keep
    <3>1. /\ ~run'.keep /\ run'.failed # {} /\ run'.todo = {}
          /\ "sla_ml" \in torn' \/ run'.failed \subseteq raising
      BY <1>1, <1>3, <1>4, <2>6, <2>8
    <3> QED
      BY <1>1, <3>1 DEF FullInv, raising
  <2> QED
    BY <2>7, <2>8
<1> QED
  BY <1>8, <1>9

LEMMA FullStep == TablesInv /\ CorpusInv /\ StackInv /\ FullInv /\ [Next]_vars => FullInv'
<1> SUFFICES ASSUME TablesInv, CorpusInv, StackInv, FullInv, [Next]_vars, Full' PROVE FullInv'
  BY DEF FullInv
<1>1. run' # NONE
  BY DEF Full
<1>2. ASSUME NEW c \in Commands, Start(c) PROVE FullInv'
  BY <1>2, FullStarts
<1>3. CASE WriteTable \/ PassOn
  <2>1. Working /\ run' = Advance /\ raw' = raw /\ DOMAIN run = RunFields
    BY <1>3 DEF WriteTable, Writing, PassOn, TablesInv, RunInv, Working
  <2>2. run'.only = run.only /\ run'.from = run.from /\ run'.fixtures = run.fixtures
    BY <2>1 DEF Advance, RunFields
  <2>3. Full
    BY <2>1, <2>2 DEF Full, Working
  <2> QED
    BY <1>3, <2>1, <2>3, FullAdvances
<1>4. CASE StepFails
  <2>1. Working /\ raw' = raw /\ DOMAIN run = RunFields
    BY <1>4 DEF StepFails, TablesInv, RunInv, Working
  <2>2. run' = [run EXCEPT !.failed = @ \cup {Step}, !.part = 0,
                           !.todo = IF run.keep THEN @ \ {First(@)} ELSE {}]
    BY <1>4 DEF StepFails
  <2>3. run'.only = run.only /\ run'.from = run.from /\ run'.fixtures = run.fixtures
    BY <2>1, <2>2 DEF RunFields
  <2>4. Full
    BY <2>1, <2>3 DEF Full, Working
  <2> QED
    BY <1>4, <2>4, FullFails
<1>5. CASE Finish \/ Kill \/ Deliver \/ DeleteProcessed
  BY <1>1, <1>5 DEF Finish, Kill, Deliver, DeleteProcessed
<1>6. CASE UNCHANGED vars
  <2>1. raw' = raw /\ file' = file /\ torn' = torn /\ run' = run
    BY <1>6 DEF vars
  <2>2. Full /\ (Early' <=> Early)
    BY <2>1 DEF Full, Early
  <2>3. Sourced => Sourced'
    BY <2>1 DEF Sourced, Readable, On
  <2> QED
    BY <2>1, <2>2, <2>3 DEF FullInv
<1> QED
  BY <1>2, <1>3, <1>4, <1>5, <1>6 DEF Next

LEMMA FullEnds ==
    ASSUME TablesInv, CorpusInv, StackInv, FullInv, Full, run.todo = {}
    PROVE  IF run.keep
             THEN /\ torn \subseteq {"sla_ml"}
                  /\ Readable("incidents") /\ file["incidents"] = Corpora[raw]
                  /\ torn = {} => run.failed \subseteq Verifiers \cup Raising(Corpora[raw])
             ELSE ~(run.failed \subseteq Raising(Corpora[raw])) =>
                    \/ run.failed \subseteq Verifiers /\ torn \cap (Sources \cup {"incidents"}) # {}
                    \/ "sla_ml" \in torn
<1>1. CASE run.keep
  <2>1. /\ Stacked /\ file["incidents"] = Corpora[raw] /\ UpTo(Level)
        /\ \A s \in Sources : Readable(s)
    BY <1>1, FullBuilt
  <2>2. UpTo(13)
    BY <2>1 DEF Level
  <2>3. \A f \in DOMAIN Rank : f # "sla_ml" => Readable(f)
    <3>1. \A f \in DOMAIN Rank : Made(f)
      BY <2>2, RankDomain, Ranks DEF UpTo
    <3> QED
      BY <3>1, MadeReadable
  <2>4. Readable("incidents")
    BY <2>1 DEF Stacked
  <2>5. torn \subseteq Files
    BY DEF TablesInv, FilesInv
  <2>6. torn \subseteq {"sla_ml"}
    BY <2>1, <2>3, <2>4, <2>5, FileNames DEF Readable
  <2>7. torn = {} => run.failed \subseteq Verifiers \cup Raising(Corpora[raw])
    BY <1>1 DEF FullInv
  <2> QED
    BY <1>1, <2>1, <2>4, <2>6, <2>7
<1>2. CASE ~run.keep
  BY <1>2 DEF FullInv
<1> QED
  BY <1>1, <1>2

LEMMA HealsStep ==
  TablesInv /\ CorpusInv /\ StackInv /\ FullInv /\ FullRunHeals /\ [Next]_vars => FullRunHeals'
<1> SUFFICES ASSUME TablesInv, CorpusInv, StackInv, FullInv, FullRunHeals, [Next]_vars, Finished'
             PROVE  FullRunHeals'
  BY DEF FullRunHeals
<1>1. run' = NONE /\ outcome' # NONE
  BY DEF Finished
<1>2. CASE Finish
  <2>1. /\ run # NONE /\ run.todo = {} /\ raw' = raw /\ file' = file /\ torn' = torn
        /\ outcome'.only = run.only /\ outcome'.from = run.from /\ outcome'.keep = run.keep
        /\ outcome'.fixtures = run.fixtures /\ outcome'.failed = run.failed
    BY <1>2 DEF Finish
  <2> SUFFICES ASSUME Full PROVE FullRunHeals'
    BY <2>1 DEF FullRunHeals, Full
  <2>2. IF run.keep
          THEN /\ torn \subseteq {"sla_ml"}
               /\ Readable("incidents") /\ file["incidents"] = Corpora[raw]
               /\ torn = {} => run.failed \subseteq Verifiers \cup Raising(Corpora[raw])
          ELSE ~(run.failed \subseteq Raising(Corpora[raw])) =>
                 \/ run.failed \subseteq Verifiers /\ torn \cap (Sources \cup {"incidents"}) # {}
                 \/ "sla_ml" \in torn
    BY <2>1, FullEnds
  <2> QED
    BY <2>1, <2>2 DEF FullRunHeals, Readable, On
<1>3. CASE UNCHANGED vars
  <2>1. raw' = raw /\ file' = file /\ torn' = torn /\ run' = run /\ outcome' = outcome
    BY <1>3 DEF vars
  <2> QED
    BY <2>1 DEF FullRunHeals, Finished, Readable, On
<1>4. CASE (\E c \in Commands : Start(c)) \/ Deliver \/ DeleteProcessed
  BY <1>1, <1>4 DEF Start, Deliver, DeleteProcessed
<1>5. CASE WriteTable \/ PassOn \/ StepFails \/ Kill
  BY <1>1, <1>5 DEF WriteTable, PassOn, StepFails, Kill, Writing, Working, CorpusInv
<1> QED
  BY <1>2, <1>3, <1>4, <1>5 DEF Next

(***************************************************************************)
(* Healing.  Whatever fixtures, partial runs and kills left on disk, a run *)
(* of all phases over a delivery that gives every task its data fails only *)
(* in the checks, on a table that a kill tore or for a report without a    *)
(* time, at which an old pandas raises; and one that goes on after errors  *)
(* leaves the incident table of that delivery and no torn table but an     *)
(* sla_ml that no row asks for.                                            *)
(***************************************************************************)
THEOREM FullRunAlwaysHeals == PipelineSpec => []FullRunHeals
<1>1. Init => CorpusInv /\ StackInv /\ FullInv /\ FullRunHeals
  BY DEF Init, CorpusInv, Good, Rebuilt, Finished, StackInv, FullInv, Full, FullRunHeals
<1> QED
  BY <1>1, CorpusStep, StackStep, FullStep, HealsStep, TablesAlways, PTL DEF PipelineSpec

-----------------------------------------------------------------------------
(***************************************************************************)
(* Sums over a finite set, from the recursive function that the library    *)
(* defines them by.  A set that is smallest among those for which a claim  *)
(* is false stands for induction.                                          *)
(***************************************************************************)
LEMMA SmallestSubset ==
    ASSUME NEW S, IsFiniteSet(S), NEW B \in SUBSET (SUBSET S), B # {}
    PROVE  \E s \in B : \A t \in SUBSET s : t # s => t \notin B
<1> DEFINE card == [s \in B |-> Cardinality(s)]
           sizes == {card[s] : s \in B}
<1>1. IsFiniteSet(B)
  BY FS_SUBSET, FS_Subset
<1>2. \A s \in B : IsFiniteSet(s) /\ Cardinality(s) \in Nat
  BY FS_Subset, FS_CardinalityType
<1>3. sizes \subseteq Int /\ sizes # {}
  BY <1>2
<1>4. IsFiniteSet(sizes)
  <2> HIDE DEF card
  <2> QED
    BY <1>1, ImageFinite
<1> HIDE DEF sizes
<1>5. Min(sizes) \in sizes /\ \A n \in sizes : Min(sizes) <= n
  BY <1>3, <1>4, LeastOf
<1>6. PICK s \in B : Cardinality(s) = Min(sizes)
  BY <1>5 DEF sizes
<1>7. \A t \in B : Cardinality(s) <= Cardinality(t)
  BY <1>5, <1>6 DEF sizes
<1>8. ASSUME NEW t \in SUBSET s, t # s, t \in B PROVE FALSE
  <2>1. Cardinality(t) <= Cardinality(s) /\ Cardinality(s) # Cardinality(t)
    BY <1>2, <1>8, FS_Subset
  <2> QED
    BY <1>2, <1>7, <1>8, <2>1
<1> QED
  BY <1>8

Pick(s) == CHOOSE x \in s : TRUE

Summing(f, S, g) ==
  g = [s \in SUBSET S |-> IF s = {} THEN 0 ELSE f[Pick(s)] + g[s \ {Pick(s)}]]

LEMMA Picked == ASSUME NEW s, s # {} PROVE Pick(s) \in s
  BY DEF Pick

LEMMA SumsAgree ==
    ASSUME NEW f, NEW u, NEW v, NEW g, NEW h, IsFiniteSet(u),
           Summing(f, u, g), Summing(f, v, h), NEW t \in SUBSET u, t \in SUBSET v
    PROVE  g[t] = h[t]
<1> DEFINE B == {s \in SUBSET u : s \in SUBSET v /\ g[s] # h[s]}
<1> SUFFICES ASSUME B # {} PROVE FALSE
  OBVIOUS
<1>1. PICK s \in B : \A q \in SUBSET s : q # s => q \notin B
  <2>1. B \in SUBSET (SUBSET u)
    OBVIOUS
  <2> HIDE DEF B
  <2> QED
    BY <2>1, SmallestSubset
<1>2. /\ g[s] = IF s = {} THEN 0 ELSE f[Pick(s)] + g[s \ {Pick(s)}]
      /\ h[s] = IF s = {} THEN 0 ELSE f[Pick(s)] + h[s \ {Pick(s)}]
  BY DEF Summing
<1>3. s # {}
  BY <1>2
<1>4. g[s \ {Pick(s)}] = h[s \ {Pick(s)}]
  BY <1>1, <1>3, Picked
<1> QED
  BY <1>2, <1>4

Total(f, s) == (CHOOSE g : Summing(f, s, g))[s]

LEMMA SumExists ==
    ASSUME NEW f, NEW S, IsFiniteSet(S)
    PROVE  \E g : Summing(f, S, g)
<1> DEFINE B == {s \in SUBSET S : ~ \E g : Summing(f, s, g)}
<1> SUFFICES ASSUME B # {} PROVE FALSE
  OBVIOUS
<1>1. PICK s \in B : \A q \in SUBSET s : q # s => q \notin B
  <2>1. B \in SUBSET (SUBSET S)
    OBVIOUS
  <2> HIDE DEF B
  <2> QED
    BY <2>1, SmallestSubset
<1>2. s \in SUBSET S /\ ~ \E g : Summing(f, s, g)
  OBVIOUS
<1>3. ASSUME NEW q \in SUBSET s, q # s PROVE \E g : Summing(f, q, g)
  BY <1>1, <1>2, <1>3
<1> HIDE DEF B
<1>4. ASSUME NEW q \in SUBSET s, q # s
      PROVE  Total(f, q) = IF q = {} THEN 0 ELSE f[Pick(q)] + Total(f, q \ {Pick(q)})
  <2> DEFINE k == CHOOSE g : Summing(f, q, g)
             p == q \ {Pick(q)}
             l == CHOOSE g : Summing(f, p, g)
  <2>1. Summing(f, q, k)
    BY <1>3, <1>4
  <2>2. q # {} => Pick(q) \in q
    BY Picked
  <2>3. p \in SUBSET s /\ p # s
    BY <1>4, <2>2
  <2>4. Summing(f, p, l)
    BY <1>3, <2>3
  <2>5. IsFiniteSet(q)
    BY <1>2, FS_Subset
  <2>6. Total(f, q) = k[q] /\ Total(f, p) = l[p]
    BY DEF Total
  <2> HIDE DEF k, l
  <2>7. p \in SUBSET q /\ p \in SUBSET p
    OBVIOUS
  <2>8. k[p] = l[p]
    BY <2>1, <2>4, <2>5, <2>7, SumsAgree
  <2>9. k[q] = IF q = {} THEN 0 ELSE f[Pick(q)] + k[p]
    BY <2>1 DEF Summing
  <2> QED
    BY <2>6, <2>8, <2>9
<1> DEFINE c == Pick(s)
           g == [q \in SUBSET s |-> IF q = s THEN IF s = {} THEN 0 ELSE f[c] + Total(f, s \ {c})
                                   ELSE Total(f, q)]
<1>5. g = [q \in SUBSET s |-> IF q = {} THEN 0 ELSE f[Pick(q)] + g[q \ {Pick(q)}]]
  <2> SUFFICES ASSUME NEW q \in SUBSET s
               PROVE  g[q] = IF q = {} THEN 0 ELSE f[Pick(q)] + g[q \ {Pick(q)}]
    OBVIOUS
  <2>1. q # {} => /\ q \ {Pick(q)} # s /\ q \ {Pick(q)} \in SUBSET s
                  /\ g[q \ {Pick(q)}] = Total(f, q \ {Pick(q)})
    BY Picked
  <2>2. CASE q = s
    BY <2>1, <2>2
  <2>3. CASE q # s
    BY <1>4, <2>1, <2>3
  <2> QED
    BY <2>2, <2>3
<1>6. Summing(f, s, g)
  BY <1>5 DEF Summing
<1> QED
  BY <1>2, <1>6

\* The sum over a set is that over what is left of it when an element is taken
\* out, and the element's value.
SumOf(f, S, g) ==
  /\ SumFunctionOnSet(f, S) = g[S]
  /\ g[{}] = 0
  /\ \A s \in SUBSET S : s # {} => g[s] = f[Pick(s)] + g[s \ {Pick(s)}]

LEMMA SumUnfolds ==
    ASSUME NEW f, NEW S, IsFiniteSet(S)
    PROVE  \E g : SumOf(f, S, g)
<1>1. SumFunctionOnSet(f, S) = Total(f, S)
  BY Zenon DEF SumFunctionOnSet, FoldFunctionOnSet, MapThenFoldSet, Total, Summing, Pick
<1>2. PICK g : g = CHOOSE k : Summing(f, S, k)
  OBVIOUS
<1>3. Summing(f, S, g)
  BY <1>2, SumExists
<1>4. SumFunctionOnSet(f, S) = g[S]
  BY <1>1, <1>2 DEF Total
<1>5. /\ {} \in SUBSET S
      /\ \A s \in SUBSET S : g[s] = IF s = {} THEN 0 ELSE f[Pick(s)] + g[s \ {Pick(s)}]
  BY <1>3 DEF Summing
<1>6. g[{}] = 0
  BY <1>5
<1> QED
  BY <1>4, <1>5, <1>6 DEF SumOf

LEMMA SumOfSizes ==
    ASSUME NEW S, IsFiniteSet(S), NEW F, NEW sizes,
           \A x \in S : IsFiniteSet(F[x]) /\ sizes[x] = Cardinality(F[x]),
           \A x, y \in S : x # y => F[x] \cap F[y] = {}
    PROVE  SumFunctionOnSet(sizes, S) = Cardinality(UNION {F[x] : x \in S})
<1>1. PICK g : SumOf(sizes, S, g)
  BY SumUnfolds
<1>0. /\ SumFunctionOnSet(sizes, S) = g[S]
      /\ g[{}] = 0
      /\ \A s \in SUBSET S : s # {} => g[s] = sizes[Pick(s)] + g[s \ {Pick(s)}]
  BY <1>1 DEF SumOf
<1> DEFINE all(s) == UNION {F[x] : x \in s}
           B == {s \in SUBSET S : g[s] # Cardinality(all(s))}
<1>2. SUFFICES ASSUME B # {} PROVE FALSE
  BY <1>0
<1>3. PICK s \in B : \A q \in SUBSET s : q # s => q \notin B
  <2>1. B \in SUBSET (SUBSET S)
    OBVIOUS
  <2> HIDE DEF B
  <2> QED
    BY <1>2, <2>1, SmallestSubset
<1>4. s \in SUBSET S /\ g[s] # Cardinality(all(s))
  OBVIOUS
<1>5. s # {}
  <2>1. all({}) = {}
    OBVIOUS
  <2> QED
    BY <1>0, <1>4, <2>1, FS_EmptySet
<1> DEFINE x == Pick(s)
           q == s \ {x}
<1>6. x \in s /\ x \in S /\ q \in SUBSET S
  BY <1>4, <1>5, Picked
<1>7. g[q] = Cardinality(all(q))
  BY <1>3, <1>4, <1>6
<1>8. g[s] = Cardinality(F[x]) + Cardinality(all(q))
  BY <1>0, <1>4, <1>5, <1>6, <1>7
<1> HIDE DEF B, x, q
<1>9. IsFiniteSet(q)
  BY <1>6, FS_Subset
<1>10. IsFiniteSet(all(q))
  <2>1. IsFiniteSet({F[y] : y \in q})
    BY <1>9, ImageFinite
  <2>2. \A T \in {F[y] : y \in q} : IsFiniteSet(T)
    BY <1>6
  <2> QED
    BY <2>1, <2>2, FS_UNION
<1>11. all(s) = F[x] \cup all(q) /\ F[x] \cap all(q) = {}
  BY <1>4, <1>6 DEF q
<1> HIDE DEF all
<1>12. IsFiniteSet(F[x])
  BY <1>6
<1>13. Cardinality(all(s)) = Cardinality(F[x]) + Cardinality(all(q)) - 0
  BY <1>10, <1>11, <1>12, FS_Union, FS_EmptySet
<1>14. Cardinality(F[x]) \in Nat /\ Cardinality(all(q)) \in Nat
  BY <1>10, <1>12, FS_CardinalityType
<1> QED
  BY <1>4, <1>8, <1>13, <1>14

LEMMA SumBetween ==
    ASSUME NEW S, IsFiniteSet(S), NEW f, NEW h, NEW n \in Nat,
           \A x \in S : h[x] \in Int /\ f[x] \in Int /\ 0 <= f[x] /\ f[x] <= n * h[x]
    PROVE  /\ SumFunctionOnSet(f, S) \in Nat /\ SumFunctionOnSet(h, S) \in Int
           /\ SumFunctionOnSet(f, S) <= n * SumFunctionOnSet(h, S)
<1>1. PICK g : SumOf(f, S, g)
  BY SumUnfolds
<1>2. PICK k : SumOf(h, S, k)
  BY SumUnfolds
<1>0. /\ SumFunctionOnSet(f, S) = g[S] /\ SumFunctionOnSet(h, S) = k[S]
      /\ g[{}] = 0 /\ k[{}] = 0
      /\ \A s \in SUBSET S : s # {} => /\ g[s] = f[Pick(s)] + g[s \ {Pick(s)}]
                                       /\ k[s] = h[Pick(s)] + k[s \ {Pick(s)}]
  BY <1>1, <1>2 DEF SumOf
<1> DEFINE ok(s) == g[s] \in Int /\ k[s] \in Int /\ 0 <= g[s] /\ g[s] <= n * k[s]
           B == {s \in SUBSET S : ~ok(s)}
<1>3. SUFFICES ASSUME B # {} PROVE FALSE
  <2>1. ok(S)
    BY <1>3
  <2> QED
    BY <1>0, <2>1
<1>4. PICK s \in B : \A q \in SUBSET s : q # s => q \notin B
  <2>1. B \in SUBSET (SUBSET S)
    OBVIOUS
  <2> HIDE DEF B
  <2> QED
    BY <1>3, <2>1, SmallestSubset
<1>5. s \in SUBSET S /\ ~ok(s)
  OBVIOUS
<1>6. s # {}
  <2>1. n * k[{}] = 0
    BY <1>0
  <2>2. ok({})
    BY <1>0, <2>1
  <2> HIDE DEF ok
  <2> QED
    BY <1>5, <2>2
<1> DEFINE x == Pick(s)
           q == s \ {x}
<1>7. x \in s /\ x \in S /\ q \in SUBSET S /\ q # s /\ q \in SUBSET s
  BY <1>5, <1>6, Picked
<1>8. ok(q)
  BY <1>4, <1>7
<1>9. g[s] = f[x] + g[q] /\ k[s] = h[x] + k[q]
  BY <1>0, <1>5, <1>6
<1>10. h[x] \in Int /\ f[x] \in Int /\ 0 <= f[x] /\ f[x] <= n * h[x]
  BY <1>7
<1> HIDE DEF B, x, q
<1>11. n * (h[x] + k[q]) = n * h[x] + n * k[q] /\ n * h[x] \in Int /\ n * k[q] \in Int
  BY <1>8, <1>10
<1> QED
  BY <1>5, <1>8, <1>9, <1>10, <1>11

-----------------------------------------------------------------------------
(***************************************************************************)
(* The densities against the counts of the checks, which know no cells:    *)
(* whatever lies within the radius lies in the rings, however wide the     *)
(* cells of the row are.                                                   *)
(***************************************************************************)
LEMMA RingCovers ==
    ASSUME NEW row \in DOMAIN CellWidth,
           NEW p \in Int, NEW q \in Int, p - q <= 250, q - p <= 250
    PROVE  (p \div CellWidth[row]) - (q \div CellWidth[row]) \in (-Rings(row)) .. Rings(row)
<1> DEFINE W == CellWidth[row]
           a == p \div W
           b == q \div W
           c == (249 + W) \div W
<1>1. W \in Nat /\ W >= 1
  BY DatasetRulesAssumption
<1> HIDE DEF W
<1>2. \A n \in Int : n \div W \in Int /\ W * (n \div W) <= n /\ n < W * (n \div W) + W
  BY <1>1
<1>3. a \in Int /\ b \in Int /\ c \in Int
  BY <1>1, <1>2
<1>4. /\ W * a <= p /\ p < W * a + W /\ W * b <= q /\ q < W * b + W
      /\ 249 + W < W * c + W
  BY <1>1, <1>2
<1> HIDE DEF a, b, c
<1>5. W * a \in Int /\ W * b \in Int /\ W * c \in Int
  BY <1>1, <1>3
<1>6. ASSUME NEW x \in Int, NEW y \in Int, NEW z \in Int, x - y > z
      PROVE  W * x >= W * y + W * z + W
  <2>1. x >= y + z + 1
    BY <1>6
  <2>2. W * x >= W * (y + z + 1)
    BY <1>1, <2>1
  <2> QED
    BY <1>1, <2>2
<1>7. a - b <= c
  <2> SUFFICES ASSUME a - b > c PROVE FALSE
    BY <1>3
  <2>1. W * a >= W * b + W * c + W
    BY <1>3, <1>6
  <2> QED
    BY <1>1, <1>4, <1>5, <2>1
<1>8. b - a <= c
  <2> SUFFICES ASSUME b - a > c PROVE FALSE
    BY <1>3
  <2>1. W * b >= W * a + W * c + W
    BY <1>3, <1>6
  <2> QED
    BY <1>1, <1>4, <1>5, <2>1
<1>9. p \div CellWidth[row] = a /\ q \div CellWidth[row] = b
  BY DEF a, b, W
<1>10. Rings(row) \in Int /\ Rings(row) >= c
  <2>1. RADIUS_M + W - 1 = 249 + W
    BY <1>1 DEF RADIUS_M
  <2>2. Rings(row) = Greatest(1, c)
    BY <2>1, Zenon DEF Rings, c, W
  <2> QED
    BY <1>3, <2>2 DEF Greatest
<1> QED
  BY <1>3, <1>7, <1>8, <1>9, <1>10

\* The rows that a check counts
Within(r, rows, hours) ==
  {s \in Usable(rows) :
    /\ Distance(r, s) <= RADIUS_M
    /\ Facts[r].at - hours <= Facts[s].at /\ Facts[s].at < Facts[r].at}

LEMMA WithinIs ==
    ASSUME NEW rows \in SUBSET Records, NEW r \in Usable(rows), NEW hours \in {24, 168, 720}
    PROVE  /\ Near(rows, r, hours) = Within(r, rows, hours)
           /\ Alike(rows, r, hours) = Within(r, SameCategory(rows, r), hours)
<1>1. \A s \in Usable(rows) : Facts[s].at \in Int /\ Facts[s].place \in Int
  BY DatasetRulesAssumption DEF Usable
<1>2. hours \in Int /\ hours <= 720
  OBVIOUS
<1>3. ASSUME NEW s \in Usable(rows), Distance(r, s) <= RADIUS_M
      PROVE  /\ Facts[s].row = Facts[r].row
             /\ Cell(s) - Cell(r) \in (-Rings(Facts[r].row)) .. Rings(Facts[r].row)
  <2>1. /\ Facts[s].row = Facts[r].row
        /\ Facts[s].place \in Int /\ Facts[r].place \in Int
        /\ Facts[s].place - Facts[r].place <= 250 /\ Facts[r].place - Facts[s].place <= 250
    BY <1>1, <1>3 DEF Distance, RADIUS_M, FAR_M
  <2>2. Facts[r].row \in DOMAIN CellWidth
    BY DatasetRulesAssumption DEF Usable
  <2>3. /\ Cell(s) = Facts[s].place \div CellWidth[Facts[r].row]
        /\ Cell(r) = Facts[r].place \div CellWidth[Facts[r].row]
    BY <2>1 DEF Cell
  <2>4. PICK row \in DOMAIN CellWidth : row = Facts[r].row
    BY <2>2
  <2>5. PICK p \in Int, q \in Int : p = Facts[s].place /\ q = Facts[r].place
    BY <2>1
  <2>6. p - q <= 250 /\ q - p <= 250
    BY <2>1, <2>5
  <2>7. (p \div CellWidth[row]) - (q \div CellWidth[row]) \in (-Rings(row)) .. Rings(row)
    BY <2>6, RingCovers
  <2> QED
    BY <2>1, <2>3, <2>4, <2>5, <2>7
<1>4. ASSUME NEW s \in Usable(rows)
      PROVE  s \in Near(rows, r, hours) <=> s \in Within(r, rows, hours)
  <2>1. s \in Near(rows, r, hours) <=>
          /\ Facts[s].row = Facts[r].row
          /\ Cell(s) - Cell(r) \in (-Rings(Facts[r].row)) .. Rings(Facts[r].row)
          /\ Facts[r].at - 720 <= Facts[s].at /\ Facts[s].at < Facts[r].at
          /\ Distance(r, s) <= RADIUS_M /\ Facts[r].at - Facts[s].at <= hours
    BY Zenon DEF Near, Candidates, MAX_WINDOW
  <2>2. s \in Within(r, rows, hours) <=>
          /\ Distance(r, s) <= RADIUS_M
          /\ Facts[r].at - hours <= Facts[s].at /\ Facts[s].at < Facts[r].at
    BY Zenon DEF Within
  <2>3. Facts[s].at \in Int /\ Facts[r].at \in Int
    BY <1>1
  <2>4. /\ Facts[r].at - hours <= Facts[s].at <=> Facts[r].at - Facts[s].at <= hours
        /\ Facts[r].at - hours <= Facts[s].at => Facts[r].at - 720 <= Facts[s].at
    BY <1>2, <2>3
  <2>5. Distance(r, s) <= RADIUS_M =>
          /\ Facts[s].row = Facts[r].row
          /\ Cell(s) - Cell(r) \in (-Rings(Facts[r].row)) .. Rings(Facts[r].row)
    BY <1>3
  <2> QED
    BY <2>1, <2>2, <2>4, <2>5, Zenon
<1>5. /\ Near(rows, r, hours) \subseteq Usable(rows)
      /\ Within(r, rows, hours) \subseteq Usable(rows)
      /\ Within(r, SameCategory(rows, r), hours)
           = {s \in Within(r, rows, hours) : Category(s) = Category(r)}
  BY DEF Near, Candidates, Within, SameCategory, Usable
<1>6. Near(rows, r, hours) = Within(r, rows, hours)
  BY <1>4, <1>5
<1>7. Alike(rows, r, hours) = {s \in Near(rows, r, hours) : Category(s) = Category(r)}
  BY DEF Alike
<1> QED
  BY <1>5, <1>6, <1>7, Zenon

LEMMA RecountIs ==
    ASSUME NEW rows \in SUBSET Records, NEW r \in Usable(rows)
    PROVE  /\ \A h \in {24, 168, 720} :
                Cardinality(Alike(rows, r, h)) = Recount(r, SameCategory(rows, r), h)
           /\ Cardinality(Near(rows, r, 720)) = Recount(r, rows, 720)
<1>1. \A q, X, h : Recount(q, X, h) = Cardinality(Within(q, X, h))
  BY DEF Recount, Within
<1>2. \A h \in {24, 168, 720} : /\ Alike(rows, r, h) = Within(r, SameCategory(rows, r), h)
                                 /\ Near(rows, r, h) = Within(r, rows, h)
  BY WithinIs
<1> QED
  BY <1>1, <1>2

\* The windows of a row lie in each other, and the last report is in the widest.
LEMMA DensityBounds ==
    ASSUME NEW rows \in SUBSET Records, NEW r \in Usable(rows)
    PROVE  /\ Cardinality(Alike(rows, r, 24)) <= Cardinality(Alike(rows, r, 168))
           /\ Cardinality(Alike(rows, r, 168)) <= Cardinality(Alike(rows, r, 720))
           /\ Cardinality(Alike(rows, r, 720)) <= Cardinality(Near(rows, r, 720))
           /\ IF Cardinality(Alike(rows, r, 720)) > 0
                THEN SinceLast(rows, r) \in 0 .. MAX_WINDOW ELSE SinceLast(rows, r) = NONE
<1> DEFINE alike == Alike(rows, r, 720)
           times == {Facts[s].at : s \in alike}
<1>1. \A s \in Usable(rows) : Facts[s].at \in Int
  BY DatasetRulesAssumption DEF Usable
<1>2. /\ IsFiniteSet(Near(rows, r, 720)) /\ IsFiniteSet(alike)
      /\ IsFiniteSet(Alike(rows, r, 168)) /\ Cardinality(alike) \in Nat
  BY NearFinite
<1>3. \A s \in Near(rows, r, 720) : /\ s \in Usable(rows) /\ Facts[r].at - MAX_WINDOW <= Facts[s].at
                                    /\ Facts[s].at < Facts[r].at
  BY DEF Near, Candidates
<1>4. \A h : Near(rows, r, h) \subseteq Usable(rows)
  BY DEF Near, Candidates
<1>5. Near(rows, r, 24) \subseteq Near(rows, r, 168) /\ Near(rows, r, 168) \subseteq Near(rows, r, 720)
  <2>1. \A s \in Usable(rows) : Facts[s].at \in Int /\ Facts[r].at \in Int
    BY <1>1
  <2>2. \A s \in Usable(rows) : /\ Facts[r].at - Facts[s].at <= 24 => Facts[r].at - Facts[s].at <= 168
                                /\ Facts[r].at - Facts[s].at <= 168 => Facts[r].at - Facts[s].at <= 720
    BY <2>1
  <2>3. \A h : \A s \in Near(rows, r, h) :
          s \in Candidates(rows, r) /\ Distance(r, s) <= RADIUS_M /\ Facts[r].at - Facts[s].at <= h
    BY DEF Near
  <2>4. \A h : \A s \in Candidates(rows, r) :
          Distance(r, s) <= RADIUS_M /\ Facts[r].at - Facts[s].at <= h => s \in Near(rows, r, h)
    BY DEF Near
  <2>5. ASSUME NEW s \in Near(rows, r, 24) PROVE s \in Near(rows, r, 168)
    BY <1>4, <2>2, <2>3, <2>4
  <2>6. ASSUME NEW s \in Near(rows, r, 168) PROVE s \in Near(rows, r, 720)
    BY <1>4, <2>2, <2>3, <2>4
  <2> QED
    BY <2>5, <2>6
<1>6. /\ Alike(rows, r, 24) \in SUBSET Alike(rows, r, 168)
      /\ Alike(rows, r, 168) \in SUBSET alike
      /\ alike \in SUBSET Near(rows, r, 720)
  BY <1>5 DEF Alike
<1>7. /\ Cardinality(Alike(rows, r, 24)) <= Cardinality(Alike(rows, r, 168))
      /\ Cardinality(Alike(rows, r, 168)) <= Cardinality(alike)
      /\ Cardinality(alike) <= Cardinality(Near(rows, r, 720))
  <2> HIDE DEF alike
  <2> QED
    BY <1>2, <1>6, FS_Subset
<1>8. CASE alike = {}
  <2>1. Cardinality(alike) = 0
    BY <1>8, FS_EmptySet
  <2>2. SinceLast(rows, r) = NONE
    BY <1>8 DEF SinceLast
  <2> QED
    BY <1>7, <2>1, <2>2
<1>9. CASE alike # {}
  <2>1. Cardinality(alike) > 0
    BY <1>2, <1>9, FS_EmptySet
  <2>2. SinceLast(rows, r) = Facts[r].at - Max(times)
    BY <1>9, Zenon DEF SinceLast
  <2>3. times \subseteq Int /\ times # {}
    BY <1>1, <1>3, <1>6, <1>9
  <2>4. IsFiniteSet(times)
    <3> DEFINE f == [s \in alike |-> Facts[s].at]
    <3>1. times = {f[s] : s \in alike}
      OBVIOUS
    <3> HIDE DEF f, times
    <3> QED
      BY <1>2, <3>1, ImageFinite
  <2>5. Max(times) \in times
    <3> HIDE DEF times
    <3> QED
      BY <2>3, <2>4, GreatestOf
  <2>6. PICK s \in Near(rows, r, 720) : Max(times) = Facts[s].at
    <3>1. \A m \in times : \E s \in Near(rows, r, 720) : m = Facts[s].at
      BY <1>6
    <3> HIDE DEF times
    <3> QED
      BY <2>5, <3>1
  <2>7. Facts[s].at \in Int /\ Facts[r].at \in Int
    BY <1>1, <1>3
  <2>8. Facts[r].at - Facts[s].at \in 0 .. MAX_WINDOW
    BY <1>3, <2>7 DEF MAX_WINDOW
  <2> QED
    BY <1>7, <2>1, <2>2, <2>6, <2>8
<1> QED
  BY <1>8, <1>9

\* So the checks of a density table that the rules made of the same rows find
\* nothing, but for rows that have a place and no time.
LEMMA DensitySound ==
    ASSUME NEW rows \in SUBSET Records
    PROVE  LET geo == HistoricalDensity(rows)
           IN  /\ DensityAgrees(geo, rows)
               /\ AuditDensity(geo, rows) \subseteq IF Undated(Placed(rows)) = {} THEN {} ELSE {"DN-1"}
<1> DEFINE geo == HistoricalDensity(rows)
<1>1. DOMAIN geo = rows /\ \A r \in rows : r \notin Usable(rows) => geo[r] = NULLS
  BY DensityRow
<1>2. /\ NULLS.similar24 = NONE /\ NULLS.similar168 = NONE /\ NULLS.similar720 = NONE
      /\ NULLS.local = NONE /\ NULLS.since = NONE
  BY DEF NULLS
<1>3. ASSUME NEW r \in Usable(rows)
      PROVE  /\ geo[r].similar24 \in Nat /\ geo[r].similar168 \in Nat
             /\ geo[r].similar720 \in Nat /\ geo[r].local \in Nat
             /\ geo[r].similar24 <= geo[r].similar168 /\ geo[r].similar168 <= geo[r].similar720
             /\ geo[r].similar720 <= geo[r].local
             /\ IF geo[r].similar720 > 0 THEN geo[r].since \in 0 .. MAX_WINDOW
                                         ELSE geo[r].since = NONE
             /\ geo[r].similar24 = Recount(r, SameCategory(rows, r), 24)
             /\ geo[r].similar168 = Recount(r, SameCategory(rows, r), 168)
             /\ geo[r].similar720 = Recount(r, SameCategory(rows, r), 720)
             /\ geo[r].local = Recount(r, rows, 720)
  <2>1. /\ geo[r].similar24 = Cardinality(Alike(rows, r, 24))
        /\ geo[r].similar168 = Cardinality(Alike(rows, r, 168))
        /\ geo[r].similar720 = Cardinality(Alike(rows, r, 720))
        /\ geo[r].local = Cardinality(Near(rows, r, 720))
        /\ geo[r].since = SinceLast(rows, r)
    BY DensityFields
  <2>2. /\ Cardinality(Alike(rows, r, 24)) \in Nat /\ Cardinality(Alike(rows, r, 168)) \in Nat
        /\ Cardinality(Alike(rows, r, 720)) \in Nat /\ Cardinality(Near(rows, r, 720)) \in Nat
    BY NearFinite
  <2>3. /\ Cardinality(Alike(rows, r, 24)) = Recount(r, SameCategory(rows, r), 24)
        /\ Cardinality(Alike(rows, r, 168)) = Recount(r, SameCategory(rows, r), 168)
        /\ Cardinality(Alike(rows, r, 720)) = Recount(r, SameCategory(rows, r), 720)
        /\ Cardinality(Near(rows, r, 720)) = Recount(r, rows, 720)
    BY RecountIs
  <2> HIDE DEF geo
  <2>4. /\ geo[r].similar24 = Recount(r, SameCategory(rows, r), 24)
        /\ geo[r].similar168 = Recount(r, SameCategory(rows, r), 168)
        /\ geo[r].similar720 = Recount(r, SameCategory(rows, r), 720)
        /\ geo[r].local = Recount(r, rows, 720)
    BY <2>1, <2>3
  <2> QED
    BY <2>1, <2>2, <2>4, DensityBounds
<1>4. Usable(rows) = {r \in rows : Facts[r].place # NONE /\ Facts[r].at # NONE}
  BY DEF Usable
<1> HIDE DEF geo
<1>5. NONE \notin Int
  BY DatasetRulesAssumption
<1>6. ASSUME NEW r \in rows
      PROVE  /\ Zeroed(geo[r].similar24) <= Zeroed(geo[r].similar168)
             /\ Zeroed(geo[r].similar168) <= Zeroed(geo[r].similar720)
             /\ Zeroed(geo[r].similar720) <= Zeroed(geo[r].local)
             /\ geo[r].since # NONE => geo[r].since \in 0 .. MAX_WINDOW
             /\ (geo[r].since # NONE) <=> (Zeroed(geo[r].similar720) > 0)
             /\ r \in Usable(rows) <=> geo[r].similar24 # NONE
  <2>1. CASE r \in Usable(rows)
    <3>1. /\ Zeroed(geo[r].similar24) = geo[r].similar24
          /\ Zeroed(geo[r].similar168) = geo[r].similar168
          /\ Zeroed(geo[r].similar720) = geo[r].similar720
          /\ Zeroed(geo[r].local) = geo[r].local
      BY <1>3, <1>5, <2>1 DEF Zeroed
    <3>2. geo[r].since \in 0 .. MAX_WINDOW => geo[r].since # NONE
      BY <1>5 DEF MAX_WINDOW
    <3> QED
      BY <1>3, <1>5, <2>1, <3>1, <3>2
  <2>2. CASE r \notin Usable(rows)
    BY <1>1, <1>2, <2>2 DEF Zeroed
  <2> QED
    BY <2>1, <2>2
<1>7. DensityAgrees(geo, rows)
  <2>1. \A r \in Usable(rows) : geo[r].similar720 = Recount(r, SameCategory(rows, r), 720)
    BY <1>3
  <2> QED
    BY <2>1, Zenon DEF DensityAgrees
<1>8. AuditDensity(geo, rows) \subseteq IF Undated(Placed(rows)) = {} THEN {} ELSE {"DN-1"}
  <2>1. rows \cap DOMAIN geo = rows
    BY <1>1
  <2> DEFINE both == rows \cap DOMAIN geo
             placed == {r \in both : Facts[r].place # NONE}
             dn1 == \A r \in both : (r \in placed) <=> (geo[r].similar24 # NONE)
             dn2 == \A r \in DOMAIN geo :
                      /\ Zeroed(geo[r].similar24) <= Zeroed(geo[r].similar168)
                      /\ Zeroed(geo[r].similar168) <= Zeroed(geo[r].similar720)
             dn3 == \A r \in DOMAIN geo : Zeroed(geo[r].similar720) <= Zeroed(geo[r].local)
             dn6 == \A r \in Usable(both) :
                      /\ geo[r].similar24 = Recount(r, SameCategory(rows, r), 24)
                      /\ geo[r].similar168 = Recount(r, SameCategory(rows, r), 168)
                      /\ geo[r].similar720 = Recount(r, SameCategory(rows, r), 720)
                      /\ geo[r].local = Recount(r, rows, 720)
             dn8 == \A r \in DOMAIN geo : geo[r].since # NONE => geo[r].since \in 0 .. MAX_WINDOW
             dn9 == \A r \in DOMAIN geo : (geo[r].since # NONE) <=> (Zeroed(geo[r].similar720) > 0)
  <2>2. AuditDensity(geo, rows) =
          (IF dn1 THEN {} ELSE {"DN-1"}) \cup (IF dn2 THEN {} ELSE {"DN-2"})
            \cup (IF dn3 THEN {} ELSE {"DN-3"}) \cup (IF dn6 THEN {} ELSE {"DN-6"})
            \cup (IF dn8 THEN {} ELSE {"DN-8"}) \cup (IF dn9 THEN {} ELSE {"DN-9"})
    BY Zenon DEF AuditDensity, Flag
  <2>3. dn2 /\ dn3 /\ dn8 /\ dn9
    BY <1>1, <1>6
  <2>4. dn6
    BY <1>3, <2>1
  <2>5. Undated(Placed(rows)) = {} => dn1
    <3> SUFFICES ASSUME Undated(Placed(rows)) = {}, NEW r \in rows
                 PROVE  (r \in placed) <=> (geo[r].similar24 # NONE)
      BY <2>1
    <3>1. r \in placed <=> r \in Usable(rows)
      BY <1>4, <2>1 DEF Undated, Placed, Known, At
    <3> QED
      BY <1>6, <3>1
  <2> HIDE DEF dn1, dn2, dn3, dn6, dn8, dn9
  <2>6. AuditDensity(geo, rows) = IF dn1 THEN {} ELSE {"DN-1"}
    BY <2>2, <2>3, <2>4
  <2> QED
    BY <2>5, <2>6
<1> QED
  BY <1>7, <1>8 DEF geo

-----------------------------------------------------------------------------
(***************************************************************************)
(* The policy of a row lies within its bounds: no signal exceeds the scale *)
(* it is counted on, so no weighted sum exceeds the weights.               *)
(***************************************************************************)
Counts(density) == \A k \in {"local", "similar720"} : density[k] = NONE \/ density[k] \in Nat

LEMMA SignalsScaled ==
    ASSUME NEW r, NEW density, Counts(density), NEW k \in Available(Signals(r, density))
    PROVE  /\ Signals(r, density)[k] \in 0 .. 300
           /\ Weight[k] \in Nat
<1> DEFINE signal == Signals(r, density)
<1>1. DOMAIN Weight = {"category", "local", "similar720"}
  BY DEF Weight
<1>2. /\ Weight["category"] = 30 /\ Weight["local"] = 3 /\ Weight["similar720"] = 3
      /\ Saturation["local"] = 50 /\ Saturation["similar720"] = 30
  BY DEF Weight, Saturation
<1>3. DOMAIN signal = DOMAIN Weight /\ signal[k] # NONE /\ k \in DOMAIN signal
  BY DEF Signals, Available
<1>4. CASE k = "category"
  <2> DEFINE base == IF Category(r) \in DOMAIN BaseScore THEN BaseScore[Category(r)] ELSE OTHER_SCORE
  <2>1. signal[k] = 3 * base
    BY <1>1, <1>4 DEF Signals
  <2>2. base \in 0 .. 100
    BY DatasetRulesAssumption DEF OTHER_SCORE
  <2> HIDE DEF base
  <2>3. 3 * base \in 0 .. 300
    BY <2>2
  <2> QED
    BY <1>2, <1>4, <2>1, <2>3
<1>5. CASE k = "local"
  <2>1. signal[k] = IF density[k] = NONE THEN NONE ELSE Least(density[k], Saturation[k]) * (300 \div Saturation[k])
    BY <1>1, <1>5 DEF Signals
  <2>2. density[k] \in Nat
    BY <1>3, <1>5, <2>1 DEF Counts
  <2>3. signal[k] = Least(density[k], 50) * 6
    BY <1>2, <1>3, <1>5, <2>1
  <2> QED
    BY <1>2, <1>5, <2>2, <2>3 DEF Least
<1>6. CASE k = "similar720"
  <2>1. signal[k] = IF density[k] = NONE THEN NONE ELSE Least(density[k], Saturation[k]) * (300 \div Saturation[k])
    BY <1>1, <1>6 DEF Signals
  <2>2. density[k] \in Nat
    BY <1>3, <1>6, <2>1 DEF Counts
  <2>3. signal[k] = Least(density[k], 30) * 10
    BY <1>2, <1>3, <1>6, <2>1
  <2> QED
    BY <1>2, <1>6, <2>2, <2>3 DEF Least
<1> QED
  BY <1>1, <1>3, <1>4, <1>5, <1>6

LEMMA SumsScaled ==
    ASSUME NEW r, NEW density, Counts(density)
    PROVE  LET signal == Signals(r, density)
           IN  WeightedSum(signal) \in 0 .. (300 * WeightOf(Available(signal)))
<1> DEFINE signal == Signals(r, density)
           inputs == Available(signal)
           f == [k \in inputs |-> Weight[k] * signal[k]]
<1>1. IsFiniteSet(inputs)
  <2>1. inputs \in SUBSET {"category", "local", "similar720"}
    BY DEF Available, Signals, Weight
  <2>2. IsFiniteSet({"category", "local", "similar720"})
    <3>1. IsFiniteSet({"category"})
      BY FS_Singleton
    <3>2. IsFiniteSet({"category"} \cup {"local"})
      BY <3>1, FS_AddElement
    <3>3. IsFiniteSet(({"category"} \cup {"local"}) \cup {"similar720"})
      BY <3>2, FS_AddElement
    <3>4. {"category", "local", "similar720"} = ({"category"} \cup {"local"}) \cup {"similar720"}
      OBVIOUS
    <3> QED
      BY <3>3, <3>4
  <2> HIDE DEF inputs
  <2> QED
    BY <2>1, <2>2, FS_Subset
<1>2. WeightedSum(signal) = SumFunctionOnSet(f, inputs)
  <2>1. WeightedSum(signal) = SumFunction(f)
    BY Zenon DEF WeightedSum
  <2>2. SumFunction(f) = SumFunctionOnSet(f, DOMAIN f)
    BY Zenon DEF SumFunction
  <2> QED
    BY <2>1, <2>2
<1>3. WeightOf(inputs) = SumFunctionOnSet(Weight, inputs)
  BY Zenon DEF WeightOf
<1>4. ASSUME NEW k \in inputs
      PROVE  /\ Weight[k] \in Int /\ f[k] \in Int /\ 0 <= f[k] /\ f[k] <= 300 * Weight[k]
  <2>1. signal[k] \in 0 .. 300 /\ Weight[k] \in Nat
    BY SignalsScaled
  <2>2. f[k] = Weight[k] * signal[k]
    OBVIOUS
  <2> HIDE DEF signal, f
  <2>3. \A w \in Nat, v \in 0 .. 300 : w * v \in Nat /\ w * v <= 300 * w
    OBVIOUS
  <2> QED
    BY <2>1, <2>2, <2>3
<1> HIDE DEF inputs, f
<1>5. /\ SumFunctionOnSet(f, inputs) \in Nat /\ SumFunctionOnSet(Weight, inputs) \in Int
      /\ SumFunctionOnSet(f, inputs) <= 300 * SumFunctionOnSet(Weight, inputs)
  BY <1>1, <1>4, SumBetween
<1> QED
  BY <1>2, <1>3, <1>5 DEF inputs

LEMMA PolicySound ==
    ASSUME NEW r, NEW density, Counts(density)
    PROVE  LET policy == ApplyBlock(r, density)
               weight == WeightOf(Available(Signals(r, density)))
               deserved == {t \in Range(Tiers) : Deserves(policy.inputs, weight, t)}
           IN  /\ policy.score[1] \in 0 .. policy.score[2]
               /\ \/ policy.tier = Overwrite(Tiers, "LOW", deserved)
                  \/ policy.score[1] = policy.score[2] /\ policy.band = "P1"
<1> DEFINE signal == Signals(r, density)
           inputs == Available(signal)
           weight == WeightOf(inputs)
           score == <<WeightedSum(signal), 300 * weight>>
           scored ==
             [band |-> Overwrite(Bands, "P4", {b \in Range(Bands) : Reaches(score, b)}),
              score |-> score,
              tier |-> Overwrite(Tiers, "LOW",
                         {t \in Range(Tiers) : Deserves(Cardinality(inputs), weight, t)}),
              inputs |-> Cardinality(inputs)]
<1>1. ApplyBlock(r, density) = IF Category(r) \in AbsoluteP1 THEN ABSOLUTE_POLICY ELSE scored
  BY Zenon DEF ApplyBlock
<1>2. CASE Category(r) \in AbsoluteP1
  <2>1. ApplyBlock(r, density) = ABSOLUTE_POLICY
    BY <1>1, <1>2
  <2>2. ABSOLUTE_POLICY.score = <<1, 1>> /\ ABSOLUTE_POLICY.band = "P1"
    BY DEF ABSOLUTE_POLICY
  <2> QED
    BY <2>1, <2>2
<1>3. CASE Category(r) \notin AbsoluteP1
  <2>1. ApplyBlock(r, density) = scored
    BY <1>1, <1>3
  <2>2. /\ scored.score = score /\ scored.inputs = Cardinality(inputs)
        /\ scored.tier = Overwrite(Tiers, "LOW",
                           {t \in Range(Tiers) : Deserves(Cardinality(inputs), weight, t)})
    OBVIOUS
  <2>3. score[1] \in 0 .. score[2]
    BY SumsScaled
  <2> HIDE DEF scored, score, weight, inputs
  <2>4. ApplyBlock(r, density).score[1] \in 0 .. ApplyBlock(r, density).score[2]
    BY <2>1, <2>2, <2>3
  <2>5. ApplyBlock(r, density).tier = Overwrite(Tiers, "LOW",
          {t \in Range(Tiers) : Deserves(ApplyBlock(r, density).inputs, weight, t)})
    BY <2>1, <2>2
  <2> QED
    BY <2>4, <2>5 DEF weight, inputs, signal
<1> QED
  BY <1>2, <1>3

\* The audit of the priority table finds in a table of such policies no more than
\* that they are of one band, or the scores those of the categories.
LEMMA PriorityAudit ==
    ASSUME NEW table,
           \A r \in DOMAIN table : /\ Counts(table[r].density)
                                   /\ table[r].policy = ApplyBlock(r, table[r].density)
    PROVE  AuditPriority(table) = (IF SeveralBands(Policies(table)) THEN {} ELSE {"PR-2"})
                                    \cup (IF ScoresVary(Policies(table)) THEN {} ELSE {"PR-7"})
<1> DEFINE policy(r) == table[r].policy
           weight(r) == WeightOf(Available(Signals(r, table[r].density)))
           expected(r) == Overwrite(Tiers, "LOW",
                            {t \in Range(Tiers) : Deserves(policy(r).inputs, weight(r), t)})
           pr3 == \A r \in DOMAIN table : policy(r).score[1] \in 0 .. policy(r).score[2]
           pr4 == \A r \in DOMAIN table :
                     \/ policy(r).tier = expected(r)
                     \/ policy(r).score[1] = policy(r).score[2] /\ policy(r).band = "P1"
<1> DEFINE several == IF SeveralBands(Policies(table)) THEN {} ELSE {"PR-2"}
           vary == IF ScoresVary(Policies(table)) THEN {} ELSE {"PR-7"}
<1>1. AuditPriority(table) = several \cup vary \cup (IF pr3 THEN {} ELSE {"PR-3"}) \cup (IF pr4 THEN {} ELSE {"PR-4"})
  BY Zenon DEF AuditPriority, Flag
<1>2. ASSUME NEW r \in DOMAIN table
      PROVE  /\ policy(r).score[1] \in 0 .. policy(r).score[2]
             /\ \/ policy(r).tier = expected(r)
                \/ policy(r).score[1] = policy(r).score[2] /\ policy(r).band = "P1"
  <2>1. PICK d : d = table[r].density
    OBVIOUS
  <2>2. Counts(d) /\ policy(r) = ApplyBlock(r, d)
    BY <2>1
  <2> DEFINE p == ApplyBlock(r, d)
             w == WeightOf(Available(Signals(r, d)))
             deserved == {t \in Range(Tiers) : Deserves(p.inputs, w, t)}
  <2>3. /\ p.score[1] \in 0 .. p.score[2]
        /\ \/ p.tier = Overwrite(Tiers, "LOW", deserved)
           \/ p.score[1] = p.score[2] /\ p.band = "P1"
    BY <2>2, PolicySound
  <2>4. expected(r) = Overwrite(Tiers, "LOW", deserved)
    BY <2>1, <2>2
  <2> HIDE DEF p, expected
  <2> QED
    BY <2>2, <2>3, <2>4 DEF p
<1> HIDE DEF policy, expected, several, vary
<1>3. pr3 /\ pr4
  BY <1>2
<1> QED
  BY <1>1, <1>3 DEF several, vary

\* The densities that the scores are made of are counts.
LEMMA DensityCounts ==
    ASSUME NEW rows \in SUBSET Records, NEW r \in rows
    PROVE  Counts(HistoricalDensity(rows)[r])
<1>1. CASE r \in Usable(rows)
  <2>1. /\ HistoricalDensity(rows)[r].similar720 = Cardinality(Alike(rows, r, 720))
        /\ HistoricalDensity(rows)[r].local = Cardinality(Near(rows, r, 720))
    BY <1>1, DensityFields
  <2>2. Cardinality(Alike(rows, r, 720)) \in Nat /\ Cardinality(Near(rows, r, 720)) \in Nat
    BY NearFinite
  <2> QED
    BY <2>1, <2>2 DEF Counts
<1>2. CASE r \notin Usable(rows)
  <2>1. HistoricalDensity(rows)[r] = NULLS
    BY <1>2, DensityRow
  <2> QED
    BY <2>1 DEF Counts, NULLS
<1> QED
  BY <1>1, <1>2

-----------------------------------------------------------------------------
(***************************************************************************)
(* What the scripts' checks find when every table is made of one incident  *)
(* table: no more than what ExpectedAlarms reads off the incidents.        *)
(***************************************************************************)
LEMMA Expected ==
    ASSUME NEW rows
    PROVE  LET density == HistoricalDensity(rows)
               policy == [r \in rows |-> ApplyBlock(r, density[r])]
               panel == HotspotPanel(rows)
               alarms == ExpectedAlarms(rows)
           IN  /\ {"SPL-1", "TL-11", "TL-5"} \subseteq alarms
               /\ Undated(rows) = {} \/ "TF-5" \in alarms
               /\ Undated(Placed(rows)) = {} \/ "DN-1" \in alarms
               /\ SeveralBands(policy) \/ "PR-2" \in alarms
               /\ ScoresVary(policy) \/ "PR-7" \in alarms
               /\ Closed(rows) # {} \/ "TG-5" \in alarms
               /\ (Closed(InScope(rows)) # {} /\ DOMAIN panel # {}) \/ "TASK-4" \in alarms
               /\ QuietWeek(panel) \/ "TL-9b" \in alarms
               /\ (QuietWeek(panel) /\ BusyWeek(panel)) \/ "TL-9c" \in alarms
<1> DEFINE density == HistoricalDensity(rows)
           policy == [r \in rows |-> ApplyBlock(r, density[r])]
           panel == HotspotPanel(rows)
           tf5 == Undated(rows) = {}
           dn1 == Undated(Placed(rows)) = {}
           pr2 == SeveralBands(policy)
           pr7 == ScoresVary(policy)
           tg5 == Closed(rows) # {}
           task4 == Closed(InScope(rows)) # {} /\ DOMAIN panel # {}
           tl9b == QuietWeek(panel)
           tl9c == QuietWeek(panel) /\ BusyWeek(panel)
<1>1. ExpectedAlarms(rows) =
        {"SPL-1", "TL-11", "TL-5"}
          \cup (IF tf5 THEN {} ELSE {"TF-5"}) \cup (IF dn1 THEN {} ELSE {"DN-1"})
          \cup (IF pr2 THEN {} ELSE {"PR-2"}) \cup (IF pr7 THEN {} ELSE {"PR-7"})
          \cup (IF tg5 THEN {} ELSE {"TG-5"}) \cup (IF task4 THEN {} ELSE {"TASK-4"})
          \cup (IF tl9b THEN {} ELSE {"TL-9b"}) \cup (IF tl9c THEN {} ELSE {"TL-9c"})
  BY Zenon DEF ExpectedAlarms, Flag
<1> HIDE DEF tf5, dn1, pr2, pr7, tg5, task4, tl9b, tl9c
<1>2. /\ {"SPL-1", "TL-11", "TL-5"} \subseteq ExpectedAlarms(rows)
      /\ tf5 \/ "TF-5" \in ExpectedAlarms(rows)
      /\ dn1 \/ "DN-1" \in ExpectedAlarms(rows)
      /\ pr2 \/ "PR-2" \in ExpectedAlarms(rows)
      /\ pr7 \/ "PR-7" \in ExpectedAlarms(rows)
      /\ tg5 \/ "TG-5" \in ExpectedAlarms(rows)
      /\ task4 \/ "TASK-4" \in ExpectedAlarms(rows)
      /\ tl9b \/ "TL-9b" \in ExpectedAlarms(rows)
      /\ tl9c \/ "TL-9c" \in ExpectedAlarms(rows)
  BY <1>1
<1> QED
  BY <1>2, Zenon DEF tf5, dn1, pr2, pr7, tg5, task4, tl9b, tl9c

\* What the checks rely on of these tables
Sound(rows) ==
  /\ rows \in SUBSET Records
  /\ \A f \in DOMAIN Rank \ {"sla_ml"} : Readable(f)
  /\ file["time"] = rows
  /\ file["geo"] = HistoricalDensity(rows)
  /\ DOMAIN file["prioritised"] = rows
  /\ file["hotspot"] = HotspotPanel(rows) /\ file["hotspot_ml"] = HotspotPanel(rows)
  /\ file["duplicates"] = DuplicatePairs(rows) /\ file["duplicate_ml"] = DuplicatePairs(rows)
  /\ file["resolution_ml"] = file["resolution"] /\ file["priority_features"] = file["priority"]
  /\ \A f \in {"priority", "ml", "resolution"} : SplitTable(file[f])
  /\ \A r \in DOMAIN file["priority"] :
       /\ file["priority"][r].density = file["geo"][r]
       /\ file["priority"][r].policy = ApplyBlock(r, file["geo"][r])
  /\ \A r \in DOMAIN file["resolution"] : file["resolution"][r].density = file["geo"][r]
  /\ DOMAIN file["priority"] = rows /\ DOMAIN file["resolution"] = Resolved(rows)

LEMMA MadeSound ==
    ASSUME TablesInv, UpTo(13), Readable("incidents")
    PROVE  Sound(file["incidents"])
<1> DEFINE rows == file["incidents"]
<1>1. \A f \in DOMAIN Rank : Made(f)
  BY RankDomain, Ranks DEF UpTo
<1>2. \A f \in DOMAIN Rank \ {"sla_ml"} : Readable(f)
  BY <1>1, MadeReadable
<1>3. rows \in SUBSET Records
  BY IncidentsKnown
<1>4. /\ Made("time") /\ Made("geo") /\ Made("prioritised") /\ Made("priority") /\ Made("resolution")
      /\ Made("hotspot") /\ Made("duplicates") /\ Made("resolution_ml") /\ Made("hotspot_ml")
      /\ Made("duplicate_ml") /\ Made("priority_features")
  BY <1>1, RankDomain
<1>5. file["time"] = rows /\ file["geo"] = HistoricalDensity(rows)
  BY <1>4 DEF Made
<1>6. file["prioritised"] = [r \in rows |-> ApplyBlock(r, file["geo"][r])]
  BY <1>4 DEF Made
<1>7. /\ file["hotspot"] = HotspotPanel(rows) /\ file["hotspot_ml"] = HotspotPanel(rows)
      /\ file["duplicates"] = DuplicatePairs(rows) /\ file["duplicate_ml"] = DuplicatePairs(rows)
      /\ file["resolution_ml"] = file["resolution"] /\ file["priority_features"] = file["priority"]
  BY <1>4 DEF Made
<1>8. \A f \in {"priority", "ml", "resolution"} : SplitTable(file[f])
  <2>1. \A f \in {"priority", "ml", "resolution"} : f \in Files /\ Readable(f)
    BY <1>2, RankDomain, FileNames
  <2>2. \A f \in {"priority", "ml", "resolution"} : Kind(f, file[f])
    BY <2>1 DEF TablesInv, FilesInv
  <2> QED
    BY <2>2 DEF Kind, ResolutionTable
<1>9. Scored("priority")
  BY <1>4 DEF Made
<1>10. /\ DOMAIN file["priority"] = rows
       /\ \A r \in rows : /\ file["priority"][r].density = file["geo"][r]
                          /\ file["priority"][r].policy = file["prioritised"][r]
  BY <1>9 DEF Scored
<1>11. /\ DOMAIN file["resolution"] = Resolved(rows)
       /\ \A r \in Resolved(rows) : file["resolution"][r].density = file["geo"][r]
  BY <1>4 DEF Made
<1> HIDE DEF rows
<1>12. \A r \in DOMAIN file["priority"] : /\ file["priority"][r].density = file["geo"][r]
                                          /\ file["priority"][r].policy = ApplyBlock(r, file["geo"][r])
  BY <1>6, <1>10
<1>13. DOMAIN file["prioritised"] = rows
  BY <1>6
<1>14. Sound(rows)
  BY <1>2, <1>3, <1>5, <1>7, <1>8, <1>10, <1>11, <1>12, <1>13 DEF Sound
<1> QED
  BY <1>14 DEF rows

LEMMA LeakageClean ==
    ASSUME NEW rows, Sound(rows), Readable("incidents"), rows = file["incidents"]
    PROVE  LeakageFindings = {}
<1> DEFINE hotspot == file["hotspot"]
           lags == LagsAgree(hotspot)
           targets == TargetsAgree(hotspot)
           weeks == OrderedPanel(hotspot)
           density == DensityAgrees(file["geo"], file["incidents"])
           priority == OrderedRows(file["priority"])
           pairs == FirstInOneFold(file["duplicates"])
<1>1. LeakageFindings =
        (IF On("hotspot")
           THEN (IF lags THEN {} ELSE {"LEAK-2"}) \cup (IF targets THEN {} ELSE {"LEAK-3"})
                \cup (IF weeks THEN {} ELSE {"LEAK-5"})
           ELSE {})
        \cup (IF On("geo") /\ On("incidents") THEN IF density THEN {} ELSE {"LEAK-4"} ELSE {})
        \cup (IF On("priority") THEN IF priority THEN {} ELSE {"LEAK-5"} ELSE {})
        \cup (IF On("duplicates") THEN IF pairs THEN {} ELSE {"LEAK-6"} ELSE {})
  BY Zenon DEF LeakageFindings, Flag
<1>2. rows \in SUBSET Records /\ hotspot = HotspotPanel(rows)
  BY DEF Sound
<1>3. lags /\ targets /\ weeks
  BY <1>2, PanelAgrees, PanelSound
<1>4. density
  BY <1>2, DensitySound DEF Sound
<1>5. priority
  <2>1. SplitTable(file["priority"])
    BY DEF Sound
  <2> QED
    BY <2>1, SplitTableSound
<1>6. pairs
  <2>1. EntitiesInOneFold(file["duplicates"])
    BY PairsInOneFold DEF Sound
  <2> QED
    BY <2>1 DEF EntitiesInOneFold, FirstInOneFold
<1> HIDE DEF hotspot, lags, targets, weeks, density, priority, pairs
<1> QED
  BY <1>1, <1>3, <1>4, <1>5, <1>6

\* The incident table has the rows of the tables of the sources, each once.
LEMMA SizesAgree ==
    ASSUME TablesInv, Stacked
    PROVE  AuditDataset(file["incidents"], [s \in Tables(Sources) |-> Cardinality(file[s])]) = {}
<1> DEFINE there == Tables(Sources)
           sizes == [s \in there |-> Cardinality(file[s])]
<1>1. there \subseteq Sources /\ \A s \in there : On(s)
  BY DEF Tables
<1>2. IsFiniteSet(there)
  <2>1. IsFiniteSet({"sf311", "boston311", "chicago311", "nyc311"})
    <3>1. IsFiniteSet({"sf311"})
      BY FS_Singleton
    <3>2. IsFiniteSet({"sf311"} \cup {"boston311"})
      BY <3>1, FS_AddElement
    <3>3. IsFiniteSet(({"sf311"} \cup {"boston311"}) \cup {"chicago311"})
      BY <3>2, FS_AddElement
    <3>4. IsFiniteSet((({"sf311"} \cup {"boston311"}) \cup {"chicago311"}) \cup {"nyc311"})
      BY <3>3, FS_AddElement
    <3>5. {"sf311", "boston311", "chicago311", "nyc311"}
            = (({"sf311"} \cup {"boston311"}) \cup {"chicago311"}) \cup {"nyc311"}
      OBVIOUS
    <3> QED
      BY <3>4, <3>5
  <2>2. there \in SUBSET {"sf311", "boston311", "chicago311", "nyc311"}
    BY <1>1, FourSources
  <2> HIDE DEF there
  <2> QED
    BY <2>1, <2>2, FS_Subset
<1>3. ASSUME NEW s \in there
      PROVE  file[s] \in SUBSET Records /\ \A r \in file[s] : Source[r] = s
  <2>1. s \in Sources /\ s \in Files /\ Readable(s)
    BY <1>1, SourceNames DEF Stacked, Readable
  <2>2. Kind(s, file[s])
    BY <2>1 DEF TablesInv, FilesInv
  <2> QED
    BY <2>1, <2>2 DEF Kind
<1>4. \A s \in there : IsFiniteSet(file[s]) /\ sizes[s] = Cardinality(file[s])
  <2>1. \A s \in there : IsFiniteSet(file[s])
    BY <1>3, FS_Subset, DatasetRulesAssumption
  <2> QED
    BY <2>1
<1>5. \A s, t \in there : s # t => file[s] \cap file[t] = {}
  BY <1>3
<1>6. SumFunction(sizes) = SumFunctionOnSet(sizes, there)
  <2>1. SumFunction(sizes) = SumFunctionOnSet(sizes, DOMAIN sizes)
    BY Zenon DEF SumFunction
  <2>2. DOMAIN sizes = there
    OBVIOUS
  <2> HIDE DEF sizes, there
  <2> QED
    BY <2>1, <2>2
<1>7. AllIncidents = UNION {file[s] : s \in there}
  BY DEF AllIncidents
<1>8. SumFunctionOnSet(sizes, there) = Cardinality(UNION {file[s] : s \in there})
  <2> HIDE DEF there, sizes
  <2> QED
    BY <1>2, <1>4, <1>5, SumOfSizes
<1>9. Cardinality(file["incidents"]) = SumFunction(sizes)
  BY <1>6, <1>7, <1>8 DEF Stacked
<1>10. \A n : AuditDataset(file["incidents"], n) =
                 IF Cardinality(file["incidents"]) = SumFunction(n) THEN {} ELSE {"DS-1"}
  BY Zenon DEF AuditDataset, Flag
<1> HIDE DEF sizes
<1>11. AuditDataset(file["incidents"], sizes) = {}
  BY <1>9, <1>10
<1> QED
  BY <1>11 DEF sizes, there

LEMMA AuditClean ==
    ASSUME TablesInv, Stacked, NEW rows, Sound(rows), rows = file["incidents"]
    PROVE  AuditFindings \subseteq ExpectedAlarms(rows)
<1> DEFINE sizes == [s \in Tables(Sources) |-> Cardinality(file[s])]
           corpus == Rows(Corpus)
           dataset == AuditDataset(corpus, sizes)
           time == FeaturesCover("DS-5/time", file["time"], corpus) \cup AuditTime(corpus, file["time"])
           geo == FeaturesCover("DS-5/geo", DOMAIN file["geo"], corpus)
                    \cup AuditDensity(file["geo"], corpus)
           priority == AuditPriority(file["priority"])
           target == AuditTarget(corpus)
           splits == UNION {AuditSplit(file[f]) : f \in Tables({"priority", "resolution", "ml"})}
           panel == AuditPanelSplit(file["hotspot"])
<1>1. AuditFindings = dataset \cup (IF On("time") THEN time ELSE {})
                        \cup (IF On("geo") THEN geo ELSE {})
                        \cup (IF On("priority") THEN priority \cup target ELSE {})
                        \cup splits \cup (IF On("hotspot") THEN panel ELSE {})
  BY Zenon DEF AuditFindings
<1>2. rows \in SUBSET Records
  BY DEF Sound
<1>3. corpus = rows
  <2>1. Readable("prioritised") /\ DOMAIN file["prioritised"] = rows
    BY RankDomain DEF Sound
  <2>2. Corpus = "prioritised"
    BY <2>1 DEF Corpus, Readable
  <2> QED
    BY <2>1, <2>2 DEF Rows
<1>4. dataset = {}
  BY <1>3, SizesAgree
<1>5. time \subseteq ExpectedAlarms(rows)
  <2>1. file["time"] = rows
    BY DEF Sound
  <2>2. FeaturesCover("DS-5/time", file["time"], corpus) = {}
    BY <1>3, <2>1 DEF FeaturesCover, Flag
  <2>3. Known(corpus, At) \subseteq file["time"]
    BY <1>3, <2>1 DEF Known
  <2>4. AuditTime(corpus, file["time"]) \subseteq {"TF-5"}
    BY <2>3 DEF AuditTime, Flag
  <2>5. ASSUME Undated(rows) = {} PROVE AuditTime(corpus, file["time"]) = {}
    <3>1. WithHour(corpus, file["time"]) = corpus
      BY <1>3, <2>1, <2>5 DEF WithHour, Undated, Known
    <3> QED
      BY <2>3, <3>1 DEF AuditTime, Flag
  <2>6. Undated(rows) = {} \/ "TF-5" \in ExpectedAlarms(rows)
    BY Expected, Zenon
  <2> QED
    BY <2>2, <2>4, <2>5, <2>6
<1>6. geo \subseteq ExpectedAlarms(rows)
  <2>1. file["geo"] = HistoricalDensity(rows)
    BY DEF Sound
  <2>2. DOMAIN file["geo"] = rows
    BY <2>1, DensityRow
  <2>3. FeaturesCover("DS-5/geo", DOMAIN file["geo"], corpus) = {}
    BY <1>3, <2>2 DEF FeaturesCover, Flag
  <2>4. AuditDensity(file["geo"], corpus) \subseteq IF Undated(Placed(rows)) = {} THEN {} ELSE {"DN-1"}
    BY <1>2, <1>3, <2>1, DensitySound
  <2>5. Undated(Placed(rows)) = {} \/ "DN-1" \in ExpectedAlarms(rows)
    BY Expected, Zenon
  <2> QED
    BY <2>3, <2>4, <2>5
<1>7. priority \subseteq ExpectedAlarms(rows)
  <2>1. \A r \in rows : Counts(file["geo"][r])
    BY <1>2, DensityCounts DEF Sound
  <2>2. \A r \in DOMAIN file["priority"] :
          /\ Counts(file["priority"][r].density)
          /\ file["priority"][r].policy = ApplyBlock(r, file["priority"][r].density)
    BY <2>1 DEF Sound
  <2>3. priority = (IF SeveralBands(Policies(file["priority"])) THEN {} ELSE {"PR-2"})
                     \cup (IF ScoresVary(Policies(file["priority"])) THEN {} ELSE {"PR-7"})
    BY <2>2, PriorityAudit
  <2> DEFINE density == HistoricalDensity(rows)
             policy == [r \in rows |-> ApplyBlock(r, density[r])]
  <2>4. Policies(file["priority"]) = policy
    BY DEF Sound, Policies
  <2>5. /\ SeveralBands(policy) \/ "PR-2" \in ExpectedAlarms(rows)
        /\ ScoresVary(policy) \/ "PR-7" \in ExpectedAlarms(rows)
    BY Expected, Zenon
  <2> HIDE DEF policy
  <2> QED
    BY <2>3, <2>4, <2>5
<1>8. splits \subseteq {"SPL-1"}
  <2>1. ASSUME NEW f \in Tables({"priority", "resolution", "ml"})
        PROVE  AuditSplit(file[f]) \subseteq {"SPL-1"}
    <3>1. SplitTable(file[f])
      BY DEF Sound, Tables
    <3>2. OrderedRows(file[f])
      BY <3>1, SplitTableSound
    <3> QED
      BY <3>2 DEF AuditSplit, Flag
  <2> QED
    BY <2>1
<1>9. panel \subseteq {"SPL-1"}
  <2>1. OrderedPanel(file["hotspot"])
    BY <1>2, PanelSound DEF Sound
  <2> QED
    BY <2>1 DEF AuditPanelSplit, Flag
<1>10. target \subseteq ExpectedAlarms(rows)
  <2>1. Closed(rows) # {} \/ "TG-5" \in ExpectedAlarms(rows)
    BY Expected, Zenon
  <2> QED
    BY <1>3, <2>1 DEF AuditTarget, Flag
<1>11. "SPL-1" \in ExpectedAlarms(rows)
  <2>1. {"SPL-1", "TL-11", "TL-5"} \subseteq ExpectedAlarms(rows)
    BY Expected, Zenon
  <2> QED
    BY <2>1
<1> HIDE DEF dataset, time, geo, priority, target, splits, panel
<1> QED
  BY <1>1, <1>4, <1>5, <1>6, <1>7, <1>8, <1>9, <1>10, <1>11

\* The table of targets carries the folds of the table it is taken from.
LEMMA TargetsOrdered ==
    ASSUME NEW t, SplitTable(t)
    PROVE  OrderedRows(WithTarget(t))
<1> DEFINE rows == {q \in DOMAIN t : t[q].breach # NONE}
<1>1. WithTarget(t) = [r \in rows |-> t[r]]
  BY DEF WithTarget
<1>2. DOMAIN WithTarget(t) = rows /\ \A r \in rows : WithTarget(t)[r] = t[r]
  <2> HIDE DEF rows
  <2> QED
    BY <1>1
<1>3. rows \subseteq DOMAIN t
  OBVIOUS
<1> HIDE DEF rows
<1>4. \A r \in rows : FoldOf(WithTarget(t))[r] = FoldOf(t)[r]
  BY <1>2, <1>3 DEF FoldOf
<1>5. Ordered(DOMAIN t, At, Source, FoldOf(t))
  BY SplitTableSound DEF OrderedRows
<1>6. Ordered(rows, At, Source, FoldOf(WithTarget(t)))
  BY <1>3, <1>4, <1>5 DEF Ordered
<1> QED
  BY <1>2, <1>6 DEF OrderedRows

\* An sla_ml of an earlier run has no row of this incident table.
LEMMA TargetsJoined ==
    ASSUME TablesInv, UpTo(13), Sound(file["incidents"]), Readable("sla_ml"),
           NEW r \in DOMAIN file["sla_ml"], r \in DOMAIN file["geo"]
    PROVE  file["sla_ml"][r].density = file["geo"][r]
<1>1. /\ Kind("sla_ml", file["sla_ml"]) /\ Kind("resolution", file["resolution"])
  <2>1. "sla_ml" \in Files /\ "resolution" \in Files /\ Readable("resolution")
    BY RankDomain, FileNames DEF Sound
  <2> QED
    BY <2>1 DEF TablesInv, FilesInv
<1>2. PICK t : ResolutionTable(t) /\ file["sla_ml"] = WithTarget(t)
  BY <1>1 DEF Kind
<1>3. r \in DOMAIN t /\ t[r].breach # NONE
  BY <1>2 DEF WithTarget
<1>4. /\ SlaBreach(r) # NONE /\ Category(r) \in DOMAIN BaseScore
  BY <1>2, <1>3 DEF ResolutionTable
<1>5. ResolutionHours(r) # NONE
  BY <1>4 DEF SlaBreach
<1>6. r \in file["incidents"]
  <2>1. PICK rows : rows = file["incidents"]
    OBVIOUS
  <2>2. DOMAIN file["geo"] = rows
    <3>1. file["geo"] = HistoricalDensity(rows)
      BY <2>1 DEF Sound
    <3> QED
      BY <3>1, DensityRow
  <2> QED
    BY <2>1, <2>2
<1>7. r \in DOMAIN file["resolution"]
  <2>1. r \in Resolved(file["incidents"])
    BY <1>4, <1>5, <1>6 DEF Resolved, Closed, InScope
  <2> QED
    BY <2>1 DEF Sound
<1>8. file["resolution"][r].breach = SlaBreach(r)
  BY <1>1, <1>7 DEF Kind, ResolutionTable
<1>9. r \in DOMAIN SlaTask /\ SlaTask[r] = file["resolution"][r]
  BY <1>4, <1>7, <1>8 DEF SlaTask, WithTarget
<1>10. file["sla_ml"] = SlaTask
  <2>1. Made("sla_ml")
    BY RankDomain, Ranks DEF UpTo
  <2> QED
    BY <1>9, <2>1 DEF Made
<1>11. file["resolution"][r].density = file["geo"][r]
  BY <1>7 DEF Sound
<1> QED
  BY <1>9, <1>10, <1>11

\* The tables of pairs, and of targets, hold rows whenever they are there.
LEMMA TasksHold ==
    ASSUME TablesInv, NEW rows, Sound(rows)
    PROVE  /\ DOMAIN file["duplicate_ml"].positives # {}
           /\ Readable("sla_ml") => DOMAIN file["sla_ml"] # {}
<1>1. /\ Readable("duplicates") /\ "duplicates" \in Files /\ "sla_ml" \in Files
      /\ file["duplicate_ml"] = file["duplicates"]
  BY RankDomain, FileNames DEF Sound
<1>2. /\ Kind("duplicates", file["duplicates"])
      /\ Readable("sla_ml") => Kind("sla_ml", file["sla_ml"])
  BY <1>1 DEF TablesInv, FilesInv
<1>3. PICK X : Positives(X) # {} /\ file["duplicates"] = DuplicatePairs(X)
  BY <1>2 DEF Kind
<1>4. DOMAIN DuplicatePairs(X).positives = Positives(X)
  BY DEF DuplicatePairs
<1> QED
  BY <1>1, <1>2, <1>3, <1>4 DEF Kind

LEMMA PanelClean ==
    ASSUME NEW rows \in SUBSET Records
    PROVE  AuditPanel(HotspotPanel(rows)) \subseteq ExpectedAlarms(rows)
<1>1. PICK p : p = HotspotPanel(rows)
  OBVIOUS
<1> DEFINE there == DOMAIN p # {}
           few == Cardinality(DOMAIN p) <= 3
           next == \A x, y \in DOMAIN p : Adjacent(p, x, y) => y[2] = x[2] + 1
           quiet == QuietWeek(p)
           both == QuietWeek(p) /\ BusyWeek(p)
           folds == Folds \subseteq {p[x].split : x \in DOMAIN p}
           order == OrderedPanel(p)
<1>2. AuditPanel(p) =
        (IF there THEN {} ELSE {"TASK-4"}) \cup (IF few THEN {} ELSE {"TL-5"})
        \cup ((IF next THEN {} ELSE {"TL-9"}) \cup (IF quiet THEN {} ELSE {"TL-9b"})
                \cup (IF both THEN {} ELSE {"TL-9c"}))
        \cup (IF folds THEN {} ELSE {"TL-11"}) \cup (IF order THEN {} ELSE {"TL-11b"})
  BY Zenon DEF AuditPanel, AuditPopulated, AuditEncodings, AuditHotspotCalendar, Flag
<1>3. next /\ order
  BY <1>1, PanelAgrees, PanelSound
<1>4. /\ {"SPL-1", "TL-11", "TL-5"} \subseteq ExpectedAlarms(rows)
      /\ there \/ "TASK-4" \in ExpectedAlarms(rows)
      /\ quiet \/ "TL-9b" \in ExpectedAlarms(rows)
      /\ both \/ "TL-9c" \in ExpectedAlarms(rows)
  BY <1>1, Expected, Zenon
<1> HIDE DEF there, few, next, quiet, both, folds, order
<1>5. AuditPanel(p) \subseteq ExpectedAlarms(rows)
  BY <1>2, <1>3, <1>4
<1> QED
  BY <1>1, <1>5

LEMMA TasksClean ==
    ASSUME TablesInv, UpTo(13), NEW rows, Sound(rows), rows = file["incidents"], "sla_ml" \notin torn
    PROVE  TaskFindings \subseteq ExpectedAlarms(rows)
<1> DEFINE panel == AuditPanel(file["hotspot_ml"])
           pairs == AuditPairs(file["duplicate_ml"])
           there == Tables({"resolution_ml", "sla_ml", "priority_features"})
           task(f) == AuditTask(file[f])
                        \cup (IF On("geo") THEN AuditJoined(file[f], file["geo"]) ELSE {})
           targets == Tables({"resolution_ml", "sla_ml"})
           populated(f) == AuditPopulated(DOMAIN file[f])
<1>1. TaskFindings = (IF On("hotspot_ml") THEN panel ELSE {})
                       \cup (IF On("duplicate_ml") THEN pairs ELSE {})
                       \cup (UNION {task(f) : f \in there})
                       \cup (UNION {populated(f) : f \in targets})
  BY Zenon DEF TaskFindings
<1>2. rows \in SUBSET Records
  BY DEF Sound
<1>3. panel \subseteq ExpectedAlarms(rows)
  BY <1>2, PanelClean DEF Sound
<1>4. pairs \subseteq {"TL-11"}
  <2>1. EntitiesInOneFold(file["duplicate_ml"])
    BY PairsInOneFold DEF Sound
  <2>2. DOMAIN file["duplicate_ml"].positives # {}
    BY TasksHold
  <2> QED
    BY <2>1, <2>2 DEF AuditPairs, AuditPopulated, Flag
<1>5. ASSUME NEW f \in there PROVE task(f) \subseteq {"TL-11", "TL-5"}
  <2>1. f \in {"resolution_ml", "sla_ml", "priority_features"} /\ On(f)
    BY DEF Tables
  <2>2. \A g \in {"priority", "resolution"} : SplitTable(file[g]) /\ OrderedRows(file[g])
    BY SplitTableSound DEF Sound
  <2>3. \A r \in DOMAIN file[f] \cap DOMAIN file["geo"] : file[f][r].density = file["geo"][r]
    <3>1. CASE f = "sla_ml"
      BY <2>1, <3>1, TargetsJoined DEF Readable
    <3>2. CASE f = "resolution_ml"
      BY <3>2 DEF Sound
    <3>3. CASE f = "priority_features"
      BY <3>3 DEF Sound
    <3> QED
      BY <2>1, <3>1, <3>2, <3>3
  <2>4. OrderedRows(file[f])
    <3>1. CASE f = "sla_ml"
      <4>1. Kind("sla_ml", file["sla_ml"])
        <5>1. "sla_ml" \in Files /\ Readable("sla_ml")
          BY <2>1, <3>1, RankDomain, FileNames DEF Readable
        <5> QED
          BY <5>1 DEF TablesInv, FilesInv
      <4>2. PICK t : ResolutionTable(t) /\ file["sla_ml"] = WithTarget(t)
        BY <4>1 DEF Kind
      <4> QED
        BY <3>1, <4>2, TargetsOrdered DEF ResolutionTable
    <3>2. CASE f = "resolution_ml"
      BY <2>2, <3>2 DEF Sound
    <3>3. CASE f = "priority_features"
      BY <2>2, <3>3 DEF Sound
    <3> QED
      BY <2>1, <3>1, <3>2, <3>3
  <2>5. AuditTask(file[f]) \subseteq {"TL-11", "TL-5"}
    BY <2>4 DEF AuditTask, AuditEncodings, Flag
  <2>6. AuditJoined(file[f], file["geo"]) = {}
    BY <2>3 DEF AuditJoined, Flag
  <2> QED
    BY <2>5, <2>6
<1> DEFINE tasks == UNION {task(f) : f \in there}
           rest == UNION {populated(f) : f \in targets}
<1>6. tasks \subseteq {"TL-11", "TL-5"}
  <2> HIDE DEF task, there
  <2>1. \A f \in there : task(f) \subseteq {"TL-11", "TL-5"}
    BY <1>5
  <2> QED
    BY <2>1
<1>7. rest \subseteq ExpectedAlarms(rows)
  <2>1. Closed(InScope(rows)) # {} \/ "TASK-4" \in ExpectedAlarms(rows)
    <3>1. (Closed(InScope(rows)) # {} /\ DOMAIN HotspotPanel(rows) # {})
            \/ "TASK-4" \in ExpectedAlarms(rows)
      BY Expected, Zenon
    <3> QED
      BY <3>1
  <2>2. ASSUME NEW f \in targets PROVE populated(f) \subseteq ExpectedAlarms(rows)
    <3>1. CASE f = "sla_ml"
      <4>1. Readable("sla_ml")
        BY <3>1 DEF Tables, Readable
      <4>2. DOMAIN file[f] # {}
        BY <3>1, <4>1, TasksHold
      <4> QED
        BY <4>2 DEF AuditPopulated, Flag
    <3>2. CASE f = "resolution_ml"
      <4>1. DOMAIN file[f] = Closed(InScope(rows))
        BY <3>2 DEF Sound, Resolved
      <4> QED
        BY <2>1, <4>1 DEF AuditPopulated, Flag
    <3> QED
      BY <3>1, <3>2 DEF Tables
  <2> HIDE DEF populated, targets
  <2>3. \A f \in targets : populated(f) \subseteq ExpectedAlarms(rows)
    BY <2>2
  <2> QED
    BY <2>3
<1>8. {"SPL-1", "TL-11", "TL-5"} \subseteq ExpectedAlarms(rows)
  BY Expected, Zenon
<1>9. TaskFindings = (IF On("hotspot_ml") THEN panel ELSE {})
                       \cup (IF On("duplicate_ml") THEN pairs ELSE {}) \cup tasks \cup rest
  BY <1>1
<1> HIDE DEF panel, pairs, there, task, tasks, targets, populated, rest
<1> QED
  BY <1>3, <1>4, <1>6, <1>7, <1>8, <1>9

\* What the check under way finds
LEMMA CheckFinds ==
    ASSUME TablesInv, UpTo(13), Stacked, Succeeds(Step, Output)
    PROVE  Alarms(Step) \subseteq ExpectedAlarms(file["incidents"])
<1>1. PICK rows : rows = file["incidents"]
  OBVIOUS
<1>2. Readable("incidents")
  BY DEF Stacked
<1>3. Sound(rows)
  BY <1>1, <1>2, MadeSound
<1>4. CASE Step = "validate_leakage"
  BY <1>1, <1>2, <1>3, <1>4, LeakageClean DEF Alarms
<1>5. CASE Step = "audit_pipeline"
  BY <1>1, <1>3, <1>5, AuditClean DEF Alarms
<1>6. CASE Step = "audit_task_datasets"
  <2>1. Inputs(Step, Output) = {"geo"} \cup TaskTables
    <3>1. Step \in DOMAIN Checks
      BY <1>6, CheckersDomain DEF Checkers
    <3>2. Checks[Step].reads = {"geo"} \cup TaskTables
      BY <1>6 DEF Checks, AuditTaskDatasets, Reads
    <3>3. Step \notin Sources /\ Step \notin DOMAIN Built
      BY <3>1, SourceNames
    <3>4. Inputs(Step, Output) = Checks[Step].reads
      BY <3>1, <3>3, BuiltTables DEF Inputs
    <3> QED
      BY <3>2, <3>4
  <2>2. "sla_ml" \in TaskTables
    BY BuiltTables DEF TaskTables
  <2>3. "sla_ml" \notin torn
    BY <2>1, <2>2 DEF Succeeds
  <2>4. Alarms(Step) = TaskFindings
    BY <1>6 DEF Alarms
  <2> QED
    BY <1>1, <1>3, <2>3, <2>4, TasksClean
<1>7. CASE Step \notin {"validate_leakage", "audit_pipeline", "audit_task_datasets"}
  BY <1>7 DEF Alarms
<1> QED
  BY <1>4, <1>5, <1>6, <1>7

-----------------------------------------------------------------------------
(***************************************************************************)
(* So a run of all its phases from 3 or earlier that no step of has failed *)
(* has found nothing while it builds, and nothing but that once it checks. *)
(***************************************************************************)
CleanInv ==
  Good /\ run.failed = {} /\ run.from <= 3 =>
    IF Early THEN run.alarms = {} ELSE run.alarms \subseteq ExpectedAlarms(file["incidents"])

\* A step that builds finds nothing, and nothing is written once the checks begin.
LEMMA BuildersFindNothing ==
    ASSUME TablesInv, Working
    PROVE  /\ First(run.todo)[1] <= 6 => Early /\ Alarms(Step) = {}
           /\ ~(First(run.todo)[1] <= 6) => /\ ~Early /\ Writes(Step) = <<>>
                                            /\ First(run.todo)[1] = 7
<1> DEFINE h == First(run.todo)
<1>1. /\ h[1] \in 1 .. 7
      /\ h[1] \in {1, 7} => Step \in Checkers /\ Writes(Step) = <<>>
      /\ h[1] = 2 => Step \in Sources
      /\ h[1] = 3 => Step = "build_incidents"
      /\ h[1] \in 4 .. 6 => Step \in DOMAIN Built
      /\ h[1] = 1 => Step \in Verifiers
  BY OutputOf
<1>2. run.todo # {}
  BY DEF Working
<1> HIDE DEF h
<1>3. ASSUME h[1] <= 6 PROVE Alarms(Step) = {}
  <2>1. Step \in Verifiers \/ Step \in Sources \/ Step \in DOMAIN Built
    <3>1. "build_incidents" \in DOMAIN Built
      BY BuiltTables
    <3> QED
      BY <1>1, <1>3, <3>1
  <2>2. Step \notin {"validate_leakage", "audit_pipeline", "audit_task_datasets"}
    BY <2>1, SourceNames, CheckersDomain DEF Checkers, Verifiers
  <2> QED
    BY <2>2 DEF Alarms
<1>4. ~(h[1] <= 6) => h[1] = 7 /\ Writes(Step) = <<>>
  BY <1>1
<1>5. Early <=> h[1] <= 6
  BY <1>2 DEF Early, h
<1> QED
  BY <1>3, <1>4, <1>5 DEF h

LEMMA CleanAdvances ==
    ASSUME TablesInv, CorpusInv, StackInv, CleanInv, Working, WriteTable \/ PassOn,
           Good, run.failed = {}, run.from <= 3
    PROVE  IF Early' THEN run'.alarms = {} ELSE run'.alarms \subseteq ExpectedAlarms(file'["incidents"])
<1> DEFINE h == First(run.todo)
<1>1. run' = Advance /\ DOMAIN run = RunFields
  BY DEF WriteTable, PassOn, TablesInv, RunInv, Working
<1>2. /\ run'.alarms = run.alarms \/ run'.alarms = run.alarms \cup Alarms(Step)
      /\ run'.todo = run.todo \/ run'.todo = run.todo \ {h}
  BY <1>1 DEF Advance, RunFields
<1>3. run.todo \in SUBSET Places /\ run.todo # {}
  BY DEF TablesInv, RunInv, Working
<1>4. CASE h[1] <= 6
  <2>1. Early /\ Alarms(Step) = {}
    BY <1>4, BuildersFindNothing
  <2>2. run.alarms = {}
    BY <2>1 DEF CleanInv
  <2>3. run'.alarms = {}
    BY <1>2, <2>1, <2>2
  <2> QED
    BY <2>3
<1>5. CASE ~(h[1] <= 6)
  <2>1. ~Early /\ Writes(Step) = <<>> /\ h[1] = 7
    BY <1>5, BuildersFindNothing
  <2>2. file' = file /\ Succeeds(Step, Output)
    BY <2>1 DEF WriteTable, Writing, PassOn
  <2>3. PICK rest \in SUBSET run.todo : run'.todo = rest
    BY <1>2
  <2>4. ~Early'
    <3>1. ~(rest # {} /\ First(rest)[1] <= 6)
      BY <1>3, <2>1, Later
    <3> QED
      BY <2>3, <3>1 DEF Early
  <2>5. UpTo(13)
    <3>1. Whole(run.todo) /\ UpTo(Level)
      BY DEF CorpusInv
    <3>2. Level \in Int /\ Level >= 13
      <4>1. run.part \in Nat /\ h \in Places
        BY <1>3, FirstPlace DEF TablesInv, RunInv, Working
      <4>2. Level = Base(h) + run.part
        BY <1>3 DEF Level
      <4>3. Base(h) = 13
        BY <2>1 DEF Base
      <4> QED
        BY <4>1, <4>2, <4>3
    <3>3. \A f \in DOMAIN Rank : Rank[f] <= 13 => Rank[f] <= Level
      BY <3>2, RankDomain, Ranks
    <3> QED
      BY <3>1, <3>3 DEF UpTo
  <2>6. Stacked
    <3>1. \A y \in run.todo : h = y \/ Before(h, y)
      BY <1>3, FirstPlace
    <3>2. <<3, 1>> \notin run.todo
      BY <2>1, <3>1 DEF Before
    <3> QED
      BY <3>2 DEF StackInv
  <2>7. Alarms(Step) \subseteq ExpectedAlarms(file["incidents"])
    BY <2>2, <2>5, <2>6, CheckFinds
  <2>8. run.alarms \subseteq ExpectedAlarms(file["incidents"])
    BY <2>1 DEF CleanInv
  <2>9. run'.alarms \subseteq ExpectedAlarms(file["incidents"])
    BY <1>2, <2>7, <2>8
  <2> QED
    BY <2>2, <2>4, <2>9
<1> QED
  BY <1>4, <1>5

LEMMA CleanStep == TablesInv /\ CorpusInv /\ StackInv /\ CleanInv /\ [Next]_vars => CleanInv'
<1> SUFFICES ASSUME TablesInv, CorpusInv, StackInv, CleanInv, [Next]_vars,
                    Good', run'.failed = {}, run'.from <= 3
             PROVE  IF Early' THEN run'.alarms = {}
                              ELSE run'.alarms \subseteq ExpectedAlarms(file'["incidents"])
  BY DEF CleanInv
<1>1. run' # NONE /\ run'.only = NONE /\ run'.from <= 4
  BY DEF Good
<1>2. ASSUME NEW c \in Commands, Start(c)
      PROVE  run'.alarms = {}
  BY <1>2 DEF Start
<1>3. CASE WriteTable \/ PassOn
  <2>1. Working /\ run' = Advance /\ DOMAIN run = RunFields
    BY <1>3 DEF WriteTable, Writing, PassOn, TablesInv, RunInv, Working
  <2>2. run'.only = run.only /\ run'.from = run.from /\ run'.failed = run.failed
    BY <2>1 DEF Advance, RunFields
  <2>3. Good /\ run.failed = {} /\ run.from <= 3
    BY <1>1, <2>1, <2>2 DEF Good, Working
  <2> QED
    BY <1>3, <2>1, <2>3, CleanAdvances
<1>4. CASE StepFails
  <2>1. DOMAIN run = RunFields
    BY <1>4 DEF StepFails, TablesInv, RunInv, Working
  <2>2. run' = [run EXCEPT !.failed = @ \cup {Step}, !.part = 0,
                           !.todo = IF run.keep THEN @ \ {First(@)} ELSE {}]
    BY <1>4 DEF StepFails
  <2>3. Step \in run'.failed
    BY <2>1, <2>2 DEF RunFields
  <2> QED
    BY <2>3
<1>5. CASE Finish \/ Kill \/ Deliver \/ DeleteProcessed
  BY <1>1, <1>5 DEF Finish, Kill, Deliver, DeleteProcessed
<1>6. CASE UNCHANGED vars
  <2>1. file' = file /\ run' = run
    BY <1>6 DEF vars
  <2>2. Good /\ (Early' <=> Early)
    BY <2>1 DEF Good, Early
  <2> QED
    BY <2>1, <2>2 DEF CleanInv
<1> QED
  BY <1>2, <1>3, <1>4, <1>5, <1>6 DEF Next

FromInv == run # NONE => run.from \in 1 .. 7

LEMMA FromStep == TablesInv /\ FromInv /\ [Next]_vars => FromInv'
<1> SUFFICES ASSUME TablesInv, FromInv, [Next]_vars, run' # NONE PROVE run'.from \in 1 .. 7
  BY DEF FromInv
<1>1. ASSUME NEW c \in Commands, Start(c) PROVE run'.from \in 1 .. 7
  BY <1>1, PipelineAssumption DEF Start
<1>2. CASE WriteTable \/ PassOn \/ StepFails
  <2>1. Working /\ DOMAIN run = RunFields
    BY <1>2 DEF WriteTable, Writing, PassOn, StepFails, TablesInv, RunInv, Working
  <2>2. run'.from = run.from
    BY <1>2, <2>1 DEF WriteTable, PassOn, StepFails, Advance, RunFields
  <2> QED
    BY <2>1, <2>2 DEF FromInv, Working
<1>3. CASE Finish \/ Kill \/ Deliver \/ DeleteProcessed \/ UNCHANGED vars
  BY <1>3 DEF Finish, Kill, Deliver, DeleteProcessed, FromInv, vars
<1> QED
  BY <1>1, <1>2, <1>3 DEF Next

LEMMA RaisesStep ==
  TablesInv /\ CorpusInv /\ FromInv /\ CleanInv /\ CleanRunRaisesNoAlarm /\ [Next]_vars
    => CleanRunRaisesNoAlarm'
<1> SUFFICES ASSUME TablesInv, CorpusInv, FromInv, CleanInv, CleanRunRaisesNoAlarm, [Next]_vars,
                    Finished', outcome'.only = NONE, outcome'.from <= 3, outcome'.failed = {}
             PROVE  outcome'.alarms \subseteq ExpectedAlarms(file'["incidents"])
  BY DEF CleanRunRaisesNoAlarm
<1>1. run' = NONE /\ outcome' # NONE
  BY DEF Finished
<1>2. CASE Finish
  <2>1. /\ run # NONE /\ run.todo = {} /\ file' = file
        /\ outcome'.only = run.only /\ outcome'.from = run.from
        /\ outcome'.failed = run.failed /\ outcome'.alarms = run.alarms
    BY <1>2 DEF Finish
  <2>2. run.from <= 4
    <3>1. run.from \in 1 .. 7
      BY <2>1 DEF FromInv
    <3>2. run.from <= 3
      BY <2>1
    <3> QED
      BY <3>1, <3>2
  <2>3. Good /\ ~Early
    BY <2>1, <2>2 DEF Good, Early
  <2> QED
    BY <2>1, <2>3 DEF CleanInv
<1>3. CASE UNCHANGED vars
  <2>1. file' = file /\ run' = run /\ outcome' = outcome
    BY <1>3 DEF vars
  <2> QED
    BY <2>1 DEF CleanRunRaisesNoAlarm, Finished
<1>4. CASE (\E c \in Commands : Start(c)) \/ Deliver \/ DeleteProcessed
  BY <1>1, <1>4 DEF Start, Deliver, DeleteProcessed
<1>5. CASE WriteTable \/ PassOn \/ StepFails \/ Kill
  BY <1>1, <1>5 DEF WriteTable, PassOn, StepFails, Kill, Writing, Working, CorpusInv
<1> QED
  BY <1>2, <1>3, <1>4, <1>5 DEF Next

(***************************************************************************)
(* The scripts' own checks find nothing wrong with what a run without      *)
(* failures has built, whatever was on disk before it: the lags and the    *)
(* targets of the panel are those of the neighbouring weeks, the densities *)
(* the counts over all rows, the scores in their range, the folds ordered, *)
(* the pairs of an incident in one fold, and a stale sla_ml joins nothing. *)
(* What they may still say can be read off the incidents: too few rows for *)
(* three folds, a report without a time, one band, no quiet week.          *)
(***************************************************************************)
THEOREM CleanRunAlwaysRaisesNoAlarm == PipelineSpec => []CleanRunRaisesNoAlarm
<1>1. Init => CorpusInv /\ StackInv /\ FromInv /\ CleanInv /\ CleanRunRaisesNoAlarm
  BY DEF Init, CorpusInv, Good, Rebuilt, Finished, StackInv, FromInv, CleanInv,
         CleanRunRaisesNoAlarm
<1> QED
  BY <1>1, CorpusStep, StackStep, FromStep, CleanStep, RaisesStep, TablesAlways, PTL DEF PipelineSpec
=============================================================================
