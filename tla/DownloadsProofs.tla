-------------------------- MODULE DownloadsProofs --------------------------
(***************************************************************************)
(* The download scripts implement Mirror, and what the manifest lists      *)
(* stays in the file: the proofs, for any files, page size, number of      *)
(* retries and of faults.                                                  *)
(*                                                                         *)
(* The heart of it is CopyOf: a copy is ascending and its k-th key is no   *)
(* greater than the k-th published one.  So the page at the offset of the  *)
(* rows on disk only has later rows, although withdrawals may have moved   *)
(* rows from that page into the part that is already copied.               *)
(***************************************************************************)
EXTENDS Downloads, SequenceTheorems, TLAPS

Increasing(rows) == \A j, k \in 1 .. Len(rows) : j < k => rows[j].key < rows[k].key

\* What a publisher of pages serves: rows are only ever removed from 1, 2, 3, ...
Ordered(src) ==
    /\ Increasing(src)
    /\ \A k \in 1 .. Len(src) : src[k].key >= k

\* rows were read from src, or from what src was before.
CopyOf(rows, src) ==
    /\ Increasing(rows)
    /\ \A k \in 1 .. Len(rows) : /\ k <= Len(src) => rows[k].key <= src[k].key
                                 /\ src # <<>> /\ rows[k].key <= src[Len(src)].key
    /\ M!NeverWithdrawn(src) =>
          Len(rows) <= Len(src) /\ \A k \in 1 .. Len(rows) : rows[k] = src[k]

Pcs == {"idle", "preflight", "count", "page", "write", "year", "get", "stream", "validate",
        "record"}

Runs == [pc : Pcs, todo : Seq(Files), limit : Limits \union {NONE}, expected : Nat \union {NONE},
         offset : Nat, pages : Nat, tries : 0 .. MaxRetries - 1, body : Seq(Row)]

TypeInv ==
    /\ published \in [Files -> Seq(Row)]
    /\ raw \in [Files -> RawFile \union {NONE}]
    /\ inner \in [Streamed -> Seq(Row) \union {NONE}]
    /\ outer \in [Streamed -> Seq(Row) \union {NONE}]
    /\ DOMAIN manifest = Datasets
    /\ \A d \in Datasets :
          manifest[d] = CORRUPT \/ \E S \in SUBSET Files : manifest[d] \in [S -> Seq(Row)]
    /\ failed \subseteq Datasets
    /\ spare \in 0 .. MaxFaults
    /\ run \in Runs

PublisherInv ==
    /\ \A f \in Paged : Ordered(published[f])
    /\ \A f \in Streamed : \A k \in 1 .. Len(published[f]) : published[f][k].edition >= 1

CopyInv == \A f \in Paged : CopyOf(Rows(f), published[f])

\* A partial yearly file begins the year, unless that was issued anew.
PartialInv ==
    \A f \in Streamed : inner[f] # NONE /\ M!NeverReissued(published[f]) =>
        /\ Len(inner[f]) <= Len(published[f])
        /\ \A k \in 1 .. Len(inner[f]) : inner[f][k] = published[f][k]

\* What the script knows of its file.
ScriptInv ==
    /\ run.pc # "idle" => /\ run.todo # <<>>
                          /\ run.todo \in Seq(Streamed) \/ (Len(run.todo) = 1 /\ File \in Paged)
    /\ run.pc \in {"count", "page", "write"} => File \in Paged
    /\ run.pc \in {"year", "get", "stream", "validate"} => run.todo \in Seq(Streamed)
    /\ (run.pc # "idle" /\ File \in Appended) => raw[File] = NONE \/ ~ raw[File].torn
    /\ (run.pc \in {"page", "write"} /\ File \in Rewritten) => raw[File] # NONE /\ ~ raw[File].torn
    /\ run.pc \in {"preflight", "count"} => run.offset = 0
    /\ run.pc \in {"preflight", "count", "page"} => run.body = <<>>
    /\ run.pc \in {"page", "write"} => run.offset = Len(Rows(File))
    /\ run.pc = "write" => CopyOf(Rows(File) \o run.body, published[File])
    /\ run.pc \in {"get", "stream", "validate"} => raw[File] = NONE
    /\ run.pc = "stream" =>
          /\ inner[File] # NONE
          /\ M!NeverReissued(published[File]) => inner[File] \o run.body = published[File]
    /\ run.pc = "validate" =>
          /\ outer[File] # NONE
          /\ M!NeverReissued(published[File]) => outer[File] = published[File]

DInv == TypeInv /\ PublisherInv /\ CopyInv /\ PartialInv /\ ScriptInv

-----------------------------------------------------------------------------
LEMMA Basics ==
    /\ PageSize \in Nat /\ PageSize > 0 /\ MaxRetries \in Nat /\ MaxRetries > 0 /\ MaxFaults \in Nat
    /\ NONE \notin Seq(Row) /\ NONE \notin RawFile /\ Empty \in RawFile /\ Empty # NONE
    /\ <<>> \in Seq(Row) /\ <<>> # NONE
<1>1. Empty \in RawFile
  BY DEF Empty, RawFile
<1>2. <<>> \in Seq(Row)
  OBVIOUS
<1>3. Empty # NONE /\ <<>> # NONE
  BY <1>1, <1>2, NoFileAssumption
<1> QED
  BY <1>1, <1>2, <1>3, DownloadsAssumption, NoFileAssumption

LEMMA Kinds ==
    ASSUME NEW f \in Files
    PROVE  /\ f \in Paged \/ f \in Streamed
           /\ f \in Paged <=> f \notin Streamed
           /\ f \in Paged <=> f \in Appended \/ f \in Rewritten
           /\ f \in Appended => f \notin Rewritten
  BY DownloadsAssumption DEF Files, Paged

LEMMA PrefixPointwise ==
    ASSUME NEW s \in Seq(Row), NEW t \in Seq(Row)
    PROVE  IsPrefix(s, t) <=> Len(s) <= Len(t) /\ \A k \in 1 .. Len(s) : s[k] = t[k]
<1>1. Len(s) \in Nat /\ Len(t) \in Nat
  OBVIOUS
<1>2. SubSeq(s, 1, Len(s)) = s
  OBVIOUS
<1>3. ASSUME Len(s) <= Len(t)
      PROVE  /\ SubSeq(t, 1, Len(s)) \in Seq(Row) /\ Len(SubSeq(t, 1, Len(s))) = Len(s)
             /\ \A k \in 1 .. Len(s) : SubSeq(t, 1, Len(s))[k] = t[k]
  BY <1>3
<1>4. ASSUME Len(s) <= Len(t), \A k \in 1 .. Len(s) : s[k] = t[k]
      PROVE  s = SubSeq(t, 1, Len(s))
  BY <1>3, <1>4
<1>5. ASSUME Len(s) <= Len(t), SubSeq(s, 1, Len(s)) = SubSeq(t, 1, Len(s))
      PROVE  \A k \in 1 .. Len(s) : s[k] = t[k]
  BY <1>2, <1>3, <1>5
<1> QED
  BY <1>2, <1>4, <1>5 DEF IsPrefix

LEMMA PrefixTransitive ==
    ASSUME NEW s \in Seq(Row), NEW t \in Seq(Row), NEW u \in Seq(Row),
           IsPrefix(s, t), IsPrefix(t, u)
    PROVE  IsPrefix(s, u)
<1>1. Len(s) \in Nat /\ Len(t) \in Nat /\ Len(u) \in Nat
  OBVIOUS
<1>2. Len(s) <= Len(t) /\ \A k \in 1 .. Len(s) : s[k] = t[k]
  BY PrefixPointwise
<1>3. Len(t) <= Len(u) /\ \A k \in 1 .. Len(t) : t[k] = u[k]
  BY PrefixPointwise
<1>4. Len(s) <= Len(u) /\ \A k \in 1 .. Len(s) : s[k] = u[k]
  BY <1>1, <1>2, <1>3
<1> QED
  BY <1>4, PrefixPointwise

LEMMA PrefixOfSelf ==
    ASSUME NEW s \in Seq(Row)
    PROVE  IsPrefix(s, s) /\ IsPrefix(<<>>, s)
<1>1. Len(s) \in Nat
  OBVIOUS
<1>2. IsPrefix(s, s)
  BY <1>1, PrefixPointwise
<1>3. IsPrefix(<<>>, s)
  <2> DEFINE e == <<>>
  <2>1. e \in Seq(Row) /\ Len(e) = 0
    OBVIOUS
  <2> HIDE DEF e
  <2>2. Len(e) <= Len(s) /\ \A k \in 1 .. Len(e) : e[k] = s[k]
    BY <1>1, <2>1
  <2>3. IsPrefix(e, s)
    BY <2>1, <2>2, PrefixPointwise
  <2> QED
    BY <2>3 DEF e
<1> QED
  BY <1>2, <1>3

LEMMA Joined ==
    ASSUME NEW s \in Seq(Row), NEW t \in Seq(Row)
    PROVE  /\ s \o t \in Seq(Row) /\ Len(s \o t) = Len(s) + Len(t)
           /\ \A k \in 1 .. Len(s) : (s \o t)[k] = s[k]
           /\ \A k \in 1 .. Len(t) : (s \o t)[Len(s) + k] = t[k]
           /\ \A k \in Len(s) + 1 .. Len(s) + Len(t) : (s \o t)[k] = t[k - Len(s)]
           /\ IsPrefix(s, s \o t)
<1>1. /\ s \o t \in Seq(Row) /\ Len(s \o t) = Len(s) + Len(t)
      /\ \A k \in 1 .. Len(s) : (s \o t)[k] = s[k]
      /\ \A k \in 1 .. Len(t) : (s \o t)[Len(s) + k] = t[k]
      /\ \A k \in Len(s) + 1 .. Len(s) + Len(t) : (s \o t)[k] = t[k - Len(s)]
  OBVIOUS
<1>2. Len(s) \in Nat /\ Len(t) \in Nat
  OBVIOUS
<1>3. Len(s) <= Len(s \o t)
  BY <1>1, <1>2
<1> QED
  BY <1>1, <1>3, PrefixPointwise

LEMMA Cut ==
    ASSUME NEW s \in Seq(Row), NEW n \in 0 .. Len(s)
    PROVE  /\ SubSeq(s, 1, n) \in Seq(Row) /\ Len(SubSeq(s, 1, n)) = n
           /\ \A k \in 1 .. n : SubSeq(s, 1, n)[k] = s[k]
  OBVIOUS

LEMMA KeysAreNumbers ==
    ASSUME NEW s \in Seq(Row)
    PROVE  Len(s) \in Nat /\ \A k \in 1 .. Len(s) : s[k] \in Row /\ s[k].key \in Nat
<1>1. \A k \in 1 .. Len(s) : s[k] \in Row
  OBVIOUS
<1>2. \A r \in Row : r.key \in Nat
  BY DEF Row
<1> QED
  BY <1>1, <1>2

-----------------------------------------------------------------------------
(* Copies of what is published *)

LEMMA CopyIsFaithful ==
    ASSUME NEW rows \in Seq(Row), NEW src \in Seq(Row), CopyOf(rows, src)
    PROVE  M!Faithful(rows, src)
<1>1. M!Ascending(rows)
  <2>1. Len(rows) \in Nat /\ Increasing(rows)
    BY DEF CopyOf
  <2>2. \A i \in 1 .. Len(rows) - 1 : i \in 1 .. Len(rows) /\ i + 1 \in 1 .. Len(rows) /\ i < i + 1
    BY <2>1
  <2> QED
    BY <2>1, <2>2 DEF M!Ascending, Increasing
<1>2. M!NeverWithdrawn(src) => IsPrefix(rows, src)
  BY PrefixPointwise DEF CopyOf
<1> QED
  BY <1>1, <1>2 DEF M!Faithful, M!IsPrefix, IsPrefix

LEMMA CopyCut ==
    ASSUME NEW rows \in Seq(Row), NEW src \in Seq(Row), CopyOf(rows, src), NEW n \in 0 .. Len(rows)
    PROVE  CopyOf(SubSeq(rows, 1, n), src)
<1> DEFINE cut == SubSeq(rows, 1, n)
<1>1. cut \in Seq(Row) /\ Len(cut) = n /\ \A k \in 1 .. n : cut[k] = rows[k]
  BY Cut
<1>2. Len(rows) \in Nat /\ n \in Nat /\ n <= Len(rows) /\ Len(src) \in Nat
  OBVIOUS
<1> HIDE DEF cut
<1>3. Increasing(cut)
  BY <1>1, <1>2 DEF Increasing, CopyOf
<1> QED
  BY <1>1, <1>2, <1>3 DEF CopyOf, cut

LEMMA EmptyIsCopy ==
    ASSUME NEW src \in Seq(Row)
    PROVE  CopyOf(<<>>, src)
  BY KeysAreNumbers DEF CopyOf, Increasing

LEMMA CopyPage ==
    ASSUME NEW rows \in Seq(Row), NEW src \in Seq(Row), Ordered(src), CopyOf(rows, src),
           NEW m \in Nat, m <= Len(src)
    PROVE  CopyOf(rows \o SubSeq(src, Len(rows) + 1, m), src)
<1> DEFINE n == Len(rows)
           page == SubSeq(src, n + 1, m)
           all == rows \o page
<1>1. n \in Nat /\ Len(src) \in Nat
  OBVIOUS
<1>2. CASE m <= n
  <2>1. page = <<>>
    BY <1>1, <1>2, SubSeqEmpty
  <2>2. rows \o <<>> = rows
    OBVIOUS
  <2> QED
    BY <2>1, <2>2
<1>3. CASE n < m
  <2>1. page \in Seq(Row) /\ Len(page) = m - n /\ \A k \in 1 .. m - n : page[k] = src[n + k]
    BY <1>1, <1>3
  <2> HIDE DEF page
  <2>2. /\ all \in Seq(Row) /\ Len(all) = m
        /\ \A k \in 1 .. n : all[k] = rows[k]
        /\ \A k \in n + 1 .. m : all[k] = src[k]
    <3>1. /\ all \in Seq(Row) /\ Len(all) = n + Len(page)
          /\ \A k \in 1 .. n : all[k] = rows[k]
          /\ \A k \in n + 1 .. n + Len(page) : all[k] = page[k - n]
      BY <2>1, Joined
    <3> HIDE DEF all, n
    <3>2. n + Len(page) = m
      BY <1>1, <2>1
    <3>3. ASSUME NEW k \in n + 1 .. m PROVE all[k] = src[k]
      <4>1. k - n \in 1 .. m - n /\ n + (k - n) = k
        BY <1>1, <1>3
      <4> QED
        BY <2>1, <3>1, <3>2, <4>1
    <3> QED
      BY <3>1, <3>2, <3>3
  <2> HIDE DEF all
  <2>3. /\ \A k \in 1 .. Len(src) : src[k].key \in Nat
        /\ \A k \in 1 .. n : rows[k].key \in Nat /\ rows[k].key <= src[k].key
        /\ \A j, k \in 1 .. n : j < k => rows[j].key < rows[k].key
        /\ \A j, k \in 1 .. Len(src) : j < k => src[j].key < src[k].key
    BY <1>1, <1>3, KeysAreNumbers DEF CopyOf, Increasing, Ordered
  <2> HIDE DEF n
  <2>4. \A k \in 1 .. m : all[k].key <= src[k].key /\ all[k].key \in Nat
    BY <1>1, <1>3, <2>2, <2>3
  <2>5. Increasing(all)
    <3> SUFFICES ASSUME NEW j \in 1 .. m, NEW k \in 1 .. m, j < k PROVE all[j].key < all[k].key
      BY <2>2 DEF Increasing
    <3>1. CASE k <= n
      BY <1>1, <2>2, <2>3, <3>1
    <3>2. CASE k > n
      <4>0. j \in 1 .. Len(src) /\ k \in 1 .. Len(src) /\ k \in n + 1 .. m
        BY <1>1, <3>2
      <4>1. all[k] = src[k] /\ all[j].key <= src[j].key /\ src[j].key < src[k].key
        BY <2>2, <2>3, <2>4, <4>0
      <4> QED
        BY <2>3, <2>4, <4>0, <4>1
    <3> QED
      BY <1>1, <3>1, <3>2
  <2>6. ASSUME NEW k \in 1 .. m PROVE src # <<>> /\ all[k].key <= src[Len(src)].key
    <3>1. src # <<>>
      BY <1>1, <1>3
    <3>2. k \in 1 .. Len(src) /\ Len(src) \in 1 .. Len(src)
      BY <1>1
    <3>3. src[k].key <= src[Len(src)].key
      BY <1>1, <2>3, <3>2
    <3>4. all[k].key \in Nat /\ src[k].key \in Nat /\ src[Len(src)].key \in Nat
      BY <2>3, <2>4, <3>2
    <3>5. all[k].key <= src[k].key
      BY <2>4
    <3> QED
      BY <3>1, <3>3, <3>4, <3>5
  <2>7. M!NeverWithdrawn(src) => Len(all) <= Len(src) /\ \A k \in 1 .. Len(all) : all[k] = src[k]
    BY <1>1, <1>3, <2>2 DEF CopyOf, n
  <2> QED
    BY <2>2, <2>4, <2>5, <2>6, <2>7 DEF CopyOf, all, page, n
<1> QED
  BY <1>1, <1>2, <1>3

LEMMA Appending ==
    ASSUME NEW s \in Seq(Row), NEW e \in Row
    PROVE  /\ Append(s, e) \in Seq(Row) /\ Len(Append(s, e)) = Len(s) + 1
           /\ \A k \in 1 .. Len(s) : Append(s, e)[k] = s[k]
           /\ Append(s, e)[Len(s) + 1] = e
  OBVIOUS

LEMMA Removing ==
    ASSUME NEW s \in Seq(Row), NEW i \in 1 .. Len(s)
    PROVE  /\ RemoveAt(s, i) \in Seq(Row) /\ Len(RemoveAt(s, i)) = Len(s) - 1
           /\ \A k \in 1 .. Len(s) - 1 : RemoveAt(s, i)[k] = IF k < i THEN s[k] ELSE s[k + 1]
<1> DEFINE h == SubSeq(s, 1, i - 1)
           t == SubSeq(s, i + 1, Len(s))
<1>1. Len(s) \in Nat /\ i \in Nat /\ i <= Len(s) /\ i >= 1
  OBVIOUS
<1>2. h \in Seq(Row) /\ Len(h) = i - 1 /\ \A k \in 1 .. i - 1 : h[k] = s[k]
  BY <1>1
<1>3. t \in Seq(Row) /\ Len(t) = Len(s) - i /\ \A k \in 1 .. Len(s) - i : t[k] = s[i + k]
  BY <1>1
<1> HIDE DEF h, t
<1>4. /\ h \o t \in Seq(Row) /\ Len(h \o t) = Len(h) + Len(t)
      /\ \A k \in 1 .. Len(h) : (h \o t)[k] = h[k]
      /\ \A k \in Len(h) + 1 .. Len(h) + Len(t) : (h \o t)[k] = t[k - Len(h)]
  BY <1>2, <1>3, Joined
<1>5. RemoveAt(s, i) = h \o t
  BY DEF RemoveAt, h, t
<1>6. Len(h) + Len(t) = Len(s) - 1
  BY <1>1, <1>2, <1>3
<1>7. ASSUME NEW k \in 1 .. Len(s) - 1
      PROVE  (h \o t)[k] = IF k < i THEN s[k] ELSE s[k + 1]
  <2>1. CASE k < i
    BY <1>1, <1>2, <1>4, <2>1
  <2>2. CASE k >= i
    <3>1. /\ k \in Len(h) + 1 .. Len(h) + Len(t) /\ k - Len(h) \in 1 .. Len(s) - i
          /\ i + (k - Len(h)) = k + 1
      BY <1>1, <1>2, <1>6, <2>2
    <3>2. (h \o t)[k] = t[k - Len(h)]
      BY <1>4, <3>1
    <3>3. t[k - Len(h)] = s[i + (k - Len(h))]
      BY <1>3, <3>1
    <3> QED
      BY <1>1, <2>2, <3>1, <3>2, <3>3
  <2>3. k \in Nat
    BY <1>1
  <2>4. k < i \/ k >= i
    BY <1>1, <2>3
  <2> QED
    BY <2>1, <2>2, <2>4
<1> QED
  BY <1>4, <1>5, <1>6, <1>7

\* A report is added.
LEMMA CopyPublish ==
    ASSUME NEW src \in Seq(Row), Ordered(src), NEW e \in Row,
           e.key = (IF src = <<>> THEN 0 ELSE src[Len(src)].key) + 1
    PROVE  /\ Ordered(Append(src, e))
           /\ \A rows \in Seq(Row) : CopyOf(rows, src) => CopyOf(rows, Append(src, e))
<1> DEFINE new == Append(src, e)
           n == Len(src)
<1>1. /\ new \in Seq(Row) /\ Len(new) = n + 1 /\ n \in Nat
      /\ \A k \in 1 .. n : new[k] = src[k]
      /\ new[n + 1] = e
  BY Appending
<1> HIDE DEF new
<1>2. \A k \in 1 .. n : src[k].key \in Nat /\ src[k].key <= src[n].key /\ src[k].key < e.key
  <2>1. \A k \in 1 .. n : src[k].key \in Nat /\ src # <<>> /\ n \in 1 .. n
    BY <1>1, KeysAreNumbers
  <2>2. \A k \in 1 .. n : src[k].key <= src[n].key
    BY <1>1, <2>1 DEF Ordered, Increasing
  <2> QED
    BY <1>1, <2>1, <2>2
<1>3. e.key >= n + 1 /\ e.key \in Nat
  <2>1. CASE src = <<>>
    BY <1>1, <2>1
  <2>2. CASE src # <<>>
    <3>1. n \in 1 .. n
      BY <1>1, <2>2
    <3>2. src[n].key >= n /\ src[n].key \in Nat
      BY <1>2, <3>1 DEF Ordered
    <3> QED
      BY <1>1, <2>2, <3>2
  <2> QED
    BY <2>1, <2>2
<1>4. Ordered(new)
  <2>1. \A k \in 1 .. Len(new) : k \in 1 .. n \/ k = n + 1
    BY <1>1
  <2>2. \A k \in 1 .. Len(new) : new[k].key >= k
    BY <1>1, <1>3, <2>1 DEF Ordered
  <2>3. Increasing(new)
    <3> SUFFICES ASSUME NEW j \in 1 .. Len(new), NEW k \in 1 .. Len(new), j < k
                 PROVE  new[j].key < new[k].key
      BY DEF Increasing
    <3>1. j \in 1 .. n
      BY <1>1
    <3>2. CASE k \in 1 .. n
      BY <1>1, <3>1, <3>2 DEF Ordered, Increasing
    <3>3. CASE k = n + 1
      BY <1>1, <1>2, <3>1, <3>3
    <3> QED
      BY <2>1, <3>2, <3>3
  <2> QED
    BY <2>2, <2>3 DEF Ordered
<1>5. ASSUME NEW rows \in Seq(Row), CopyOf(rows, src) PROVE CopyOf(rows, new)
  <2>1. ASSUME NEW k \in 1 .. Len(rows)
        PROVE  /\ k <= Len(new) => rows[k].key <= new[k].key
               /\ new # <<>> /\ rows[k].key <= new[Len(new)].key
    <3>1. /\ rows[k].key \in Nat /\ src # <<>> /\ rows[k].key <= src[n].key /\ n \in 1 .. n
          /\ k <= n => rows[k].key <= src[k].key
      BY <1>1, <1>5, KeysAreNumbers DEF CopyOf
    <3>2. rows[k].key <= e.key
      BY <1>2, <1>3, <3>1
    <3>3. new # <<>>
      BY <1>1
    <3>4. k <= Len(new) => k \in 1 .. n \/ k = n + 1
      BY <1>1
    <3> QED
      BY <1>1, <3>1, <3>2, <3>3, <3>4
  <2>2. M!NeverWithdrawn(new) => M!NeverWithdrawn(src)
    BY <1>1 DEF M!NeverWithdrawn
  <2>3. M!NeverWithdrawn(new) =>
           Len(rows) <= Len(new) /\ \A k \in 1 .. Len(rows) : rows[k] = new[k]
    <3>1. Len(rows) \in Nat
      OBVIOUS
    <3> QED
      BY <1>1, <1>5, <2>2, <3>1 DEF CopyOf
  <2> QED
    BY <1>5, <2>1, <2>3 DEF CopyOf
<1> QED
  BY <1>4, <1>5 DEF new

\* A report, not the last one, is withdrawn.
LEMMA CopyWithdraw ==
    ASSUME NEW src \in Seq(Row), Ordered(src), NEW i \in 1 .. Len(src), i < Len(src)
    PROVE  /\ Ordered(RemoveAt(src, i))
           /\ \A rows \in Seq(Row) : CopyOf(rows, src) => CopyOf(rows, RemoveAt(src, i))
<1> DEFINE new == RemoveAt(src, i)
           n == Len(src) - 1
<1>1. /\ new \in Seq(Row) /\ Len(new) = n /\ n \in Nat /\ n + 1 = Len(src) /\ n >= 1 /\ i <= n
      /\ \A k \in 1 .. n : new[k] = IF k < i THEN src[k] ELSE src[k + 1]
  BY Removing
<1> HIDE DEF new
<1>2. ASSUME NEW k \in 1 .. n
      PROVE  /\ k \in 1 .. Len(src) /\ k + 1 \in 1 .. Len(src)
             /\ src[k].key \in Nat /\ src[k + 1].key \in Nat /\ src[k].key < src[k + 1].key
             /\ src[k].key >= k /\ src[k + 1].key >= k + 1
             /\ new[k].key \in Nat /\ src[k].key <= new[k].key /\ new[k].key <= src[k + 1].key
             /\ new[k].key >= k
             /\ k >= i => new[k].key >= k + 1
  <2>1. k \in 1 .. Len(src) /\ k + 1 \in 1 .. Len(src) /\ k < k + 1
    BY <1>1
  <2>2. /\ src[k].key \in Nat /\ src[k + 1].key \in Nat /\ src[k].key < src[k + 1].key
        /\ src[k].key >= k /\ src[k + 1].key >= k + 1
    BY <2>1, KeysAreNumbers DEF Ordered, Increasing
  <2>3. (k < i /\ new[k] = src[k]) \/ (k >= i /\ new[k] = src[k + 1])
    <3>1. new[k] = IF k < i THEN src[k] ELSE src[k + 1]
      BY <1>1
    <3>2. k \in Nat /\ i \in Nat
      BY <1>1
    <3> HIDE DEF n
    <3> QED
      BY <3>1, <3>2
  <2> HIDE DEF n
  <2> QED
    BY <1>1, <2>1, <2>2, <2>3
<1> HIDE DEF n
<1>3. Ordered(new)
  <2>1. Increasing(new)
    <3> SUFFICES ASSUME NEW j \in 1 .. n, NEW k \in 1 .. n, j < k PROVE new[j].key < new[k].key
      BY <1>1 DEF Increasing
    <3>1. \A a, b \in 1 .. Len(src) : a < b => src[a].key < src[b].key
      BY DEF Ordered, Increasing
    <3>2. PICK a \in 1 .. Len(src) : new[j] = src[a] /\ a = IF j < i THEN j ELSE j + 1
      BY <1>1, <1>2
    <3>3. PICK b \in 1 .. Len(src) : new[k] = src[b] /\ b = IF k < i THEN k ELSE k + 1
      BY <1>1, <1>2
    <3>4. a < b
      BY <3>2, <3>3
    <3> QED
      BY <3>1, <3>2, <3>3, <3>4
  <2> QED
    BY <1>1, <1>2, <2>1 DEF Ordered
<1>4. ~ M!NeverWithdrawn(new)
  <2>0. i \in 1 .. n /\ i >= i
    BY <1>1
  <2>1. i \in 1 .. n /\ new[i].key >= i + 1
    BY <1>2, <2>0
  <2>2. new[i].key # i
    BY <1>1, <1>2, <2>1
  <2> QED
    BY <1>1, <2>1, <2>2 DEF M!NeverWithdrawn
<1>5. ASSUME NEW rows \in Seq(Row), CopyOf(rows, src) PROVE CopyOf(rows, new)
  <2>1. ASSUME NEW k \in 1 .. Len(rows)
        PROVE  /\ k <= Len(new) => rows[k].key <= new[k].key
               /\ new # <<>> /\ rows[k].key <= new[Len(new)].key
    <3>1. /\ rows[k].key \in Nat /\ rows[k].key <= src[n + 1].key
          /\ k <= n + 1 => rows[k].key <= src[k].key
      BY <1>1, <1>5, KeysAreNumbers DEF CopyOf
    <3>2. new[n] = src[n + 1]
      BY <1>1
    <3>3. CASE k <= n
      <4>1. k \in 1 .. n
        BY <1>1, <3>3
      <4>2. rows[k].key <= new[k].key
        BY <1>1, <1>2, <3>1, <4>1, SMTT(60)
      <4> QED
        BY <1>1, <3>1, <3>2, <4>2
    <3>4. CASE k > n
      BY <1>1, <3>1, <3>2, <3>4
    <3> QED
      BY <1>1, <3>3, <3>4
  <2> QED
    BY <1>4, <1>5, <2>1 DEF CopyOf
<1> QED
  BY <1>3, <1>5 DEF new

-----------------------------------------------------------------------------
(* The invariant *)

LEMMA RunFields ==
    ASSUME run \in Runs
    PROVE  /\ run.pc \in Pcs /\ run.todo \in Seq(Files) /\ run.offset \in Nat /\ run.pages \in Nat
           /\ run.limit \in Limits \union {NONE} /\ run.expected \in Nat \union {NONE}
           /\ run.tries \in 0 .. MaxRetries - 1 /\ run.body \in Seq(Row)
  BY DEF Runs

\* A running script has a file.
LEMMA AtWork ==
    ASSUME DInv, run.pc # "idle"
    PROVE  /\ run.todo \in Seq(Files) /\ run.todo # <<>> /\ Len(run.todo) \in Nat \ {0}
           /\ File \in Files /\ Dataset[File] \in Datasets
           /\ run.todo \in Seq(Streamed) => File \in Streamed
           /\ File \in Paged => Len(run.todo) = 1
<1>1. run.todo \in Seq(Files) /\ run.todo # <<>>
  BY RunFields DEF DInv, TypeInv, ScriptInv
<1>2. Len(run.todo) \in Nat \ {0} /\ File \in Files
  BY <1>1 DEF File
<1>3. run.todo \in Seq(Streamed) => File \in Streamed
  BY <1>1 DEF File
<1>4. File \in Paged => Len(run.todo) = 1
  BY <1>2, <1>3, Kinds DEF DInv, ScriptInv
<1> QED
  BY <1>1, <1>2, <1>3, <1>4 DEF Datasets

LEMMA RowsTyped ==
    ASSUME TypeInv, NEW f \in Files
    PROVE  /\ Rows(f) \in Seq(Row) /\ published[f] \in Seq(Row)
           /\ raw[f] # NONE => /\ raw[f] \in RawFile /\ raw[f].rows \in Seq(Row)
                               /\ raw[f].torn \in BOOLEAN /\ Rows(f) = raw[f].rows
<1>1. raw[f] \in RawFile \union {NONE} /\ published[f] \in Seq(Row)
  BY DEF TypeInv
<1>2. \A r \in RawFile : r.rows \in Seq(Row) /\ r.torn \in BOOLEAN
  BY DEF RawFile
<1> QED
  BY <1>1, <1>2, Basics DEF Rows

LEMMA IdleRun ==
    ASSUME run' = Idle
    PROVE  run' \in Runs /\ ScriptInv'
<1>1. Idle \in Runs
  <2>1. 0 \in 0 .. MaxRetries - 1 /\ <<>> \in Seq(Files) /\ <<>> \in Seq(Row)
    BY Basics
  <2> QED
    BY <2>1 DEF Idle, Runs, Pcs
<1>2. run'.pc = "idle"
  BY DEF Idle
<1> QED
  BY <1>1, <1>2 DEF ScriptInv

\* The files, the partial files and what is published stay.
LEMMA Quiet ==
    ASSUME DInv, UNCHANGED <<published, raw, inner>>
    PROVE  PublisherInv' /\ CopyInv' /\ PartialInv'
  BY DEF DInv, PublisherInv, CopyInv, PartialInv, Rows

LEMMA SameScript ==
    ASSUME ScriptInv, UNCHANGED <<published, raw, inner, outer>>,
           run'.pc = run.pc, run'.todo = run.todo, run'.offset = run.offset, run'.body = run.body
    PROVE  ScriptInv'
  BY ZenonT(60) DEF ScriptInv, File, Rows

LEMMA Failing ==
    ASSUME DInv, run.pc # "idle", Fail
    PROVE  run' \in Runs /\ ScriptInv' /\ failed' \subseteq Datasets
<1>1. run' = Idle /\ failed' = failed \union {Dataset[File]}
  BY DEF Fail
<1> QED
  BY <1>1, IdleRun, AtWork DEF DInv, TypeInv

LEMMA Retrying ==
    ASSUME DInv, run.pc # "idle", AttemptFails, UNCHANGED <<published, raw, inner, outer>>
    PROVE  run' \in Runs /\ ScriptInv' /\ failed' \subseteq Datasets
<1>1. CASE run.tries + 1 = MaxRetries
  BY <1>1, Failing DEF AttemptFails
<1>2. CASE run.tries + 1 # MaxRetries
  <2>1. run' = [run EXCEPT !.tries = run.tries + 1] /\ failed' = failed
    BY <1>2 DEF AttemptFails
  <2>2. run \in Runs
    BY DEF DInv, TypeInv
  <2>3. run.tries + 1 \in 0 .. MaxRetries - 1
    BY <1>2, <2>2, RunFields, Basics
  <2>4. run' \in Runs
    BY <2>1, <2>2, <2>3 DEF Runs
  <2>5. run'.pc = run.pc /\ run'.todo = run.todo /\ run'.offset = run.offset /\ run'.body = run.body
    BY <2>1, <2>2 DEF Runs
  <2> QED
    BY <2>1, <2>4, <2>5, SameScript DEF DInv, TypeInv
<1> QED
  BY <1>1, <1>2

LEMMA Turning ==
    ASSUME DInv, run.pc \in {"year", "record"}, NextFile
    PROVE  run' \in Runs /\ ScriptInv'
<1>1. CASE Len(run.todo) = 1
  BY <1>1, IdleRun DEF NextFile
<1>2. CASE Len(run.todo) # 1
  <2>1. run' = [Idle EXCEPT !.pc = "year", !.todo = Tail(run.todo)]
    BY <1>2 DEF NextFile
  <2>2. run.todo \in Seq(Streamed) /\ run.todo # <<>>
    BY <1>2 DEF DInv, ScriptInv
  <2>3. Tail(run.todo) \in Seq(Streamed) /\ Tail(run.todo) # <<>> /\ Tail(run.todo) \in Seq(Files)
    <3> DEFINE t == Tail(run.todo)
    <3>1. t \in Seq(Streamed) /\ Len(t) = Len(run.todo) - 1 /\ Len(run.todo) \in Nat \ {0}
      BY <2>2
    <3> HIDE DEF t
    <3>2. Len(t) # 0
      BY <1>2, <3>1
    <3>3. t # <<>>
      BY <3>2
    <3>4. Streamed \subseteq Files
      BY DEF Files
    <3>5. t \in Seq(Files)
      BY <3>1, <3>4
    <3> QED
      BY <3>1, <3>3, <3>5 DEF t
  <2>4. run' \in Runs /\ run'.pc = "year" /\ run'.todo = Tail(run.todo)
    <3>1. 0 \in 0 .. MaxRetries - 1 /\ <<>> \in Seq(Row)
      BY Basics
    <3> QED
      BY <2>1, <2>3, <3>1 DEF Idle, Runs, Pcs
  <2>5. File' \in Streamed /\ File' \in Files
    BY <2>3, <2>4 DEF File, Files
  <2>6. File' \notin Appended /\ File' \notin Rewritten
    BY <2>5, Kinds
  <2> QED
    BY <2>3, <2>4, <2>6 DEF ScriptInv
<1> QED
  BY <1>1, <1>2

\* A script goes on with the same file.
LEMMA Going ==
    ASSUME DInv, NEW pc \in Pcs, Go(pc)
    PROVE  /\ run' \in Runs /\ run'.pc = pc /\ run'.todo = run.todo /\ run'.offset = run.offset
           /\ run'.body = run.body /\ File' = File
<1>1. run \in Runs /\ run' = [run EXCEPT !.pc = pc, !.tries = 0]
  BY DEF DInv, TypeInv, Go
<1>2. 0 \in 0 .. MaxRetries - 1
  BY Basics
<1>3. /\ run' \in Runs /\ run'.pc = pc /\ run'.todo = run.todo /\ run'.offset = run.offset
      /\ run'.body = run.body
  BY <1>1, <1>2 DEF Runs
<1> QED
  BY <1>3 DEF File

-----------------------------------------------------------------------------
(* The steps of a script *)

LEMMA BeginStep ==
    ASSUME DInv, NEW c \in Commands, NEW limit \in Limits, Begin(c, limit)
    PROVE  DInv'
<1>1. /\ c # <<>> /\ c \in Seq(Files) /\ c[1] \in Files /\ Head(c) = c[1]
      /\ c \in Seq(Streamed) \/ (Len(c) = 1 /\ c[1] \in Paged)
  <2>1. CASE c \in Seq(Streamed) /\ c # <<>>
    BY <2>1 DEF Files
  <2>2. CASE \E f \in Paged : c = <<f>>
    BY <2>2 DEF Files
  <2> QED
    BY <2>1, <2>2, DownloadsAssumption
<1>2. /\ run' \in Runs /\ run'.pc = "preflight" /\ run'.todo = c /\ run'.offset = 0
      /\ run'.body = <<>>
  <2>1. run' = [Idle EXCEPT !.pc = "preflight", !.todo = c, !.limit = limit]
    BY DEF Begin
  <2>2. 0 \in 0 .. MaxRetries - 1 /\ <<>> \in Seq(Row)
    BY Basics
  <2> QED
    BY <1>1, <2>1, <2>2 DEF Idle, Runs, Pcs
<1>3. File' = c[1]
  BY <1>1, <1>2 DEF File
<1>4. ASSUME NEW f \in Files
      PROVE  /\ raw'[f] \in RawFile \union {NONE}
             /\ raw'[f] = NONE <=> raw[f] = NONE
             /\ raw[f] # NONE => raw'[f].rows = raw[f].rows
             /\ f = c[1] /\ f \in Appended => raw'[f] = NONE \/ ~ raw'[f].torn
  <2>1. raw'[f] = IF f = c[1] /\ f \in Appended THEN RepairPartialLastLine(raw[f]) ELSE raw[f]
    BY DEF Begin
  <2>2. raw[f] \in RawFile \union {NONE}
    BY DEF DInv, TypeInv
  <2>3. ASSUME raw[f] # NONE
        PROVE  /\ RepairPartialLastLine(raw[f]) \in RawFile
               /\ RepairPartialLastLine(raw[f]).rows = raw[f].rows
               /\ ~ RepairPartialLastLine(raw[f]).torn
    BY <2>2, <2>3 DEF RepairPartialLastLine, RawFile
  <2>4. raw[f] = NONE => RepairPartialLastLine(raw[f]) = NONE
    BY DEF RepairPartialLastLine
  <2> QED
    BY <2>1, <2>2, <2>3, <2>4, Basics
<1>5. raw' \in [Files -> RawFile \union {NONE}]
  BY <1>4 DEF Begin
<1>6. TypeInv'
  BY <1>2, <1>5 DEF Begin, DInv, TypeInv
<1>7. \A f \in Files : Rows(f)' = Rows(f)
  BY <1>4 DEF Rows
<1>8. PublisherInv' /\ CopyInv' /\ PartialInv'
  BY <1>7 DEF Begin, DInv, PublisherInv, CopyInv, PartialInv, Files
<1>9. ScriptInv'
  BY <1>1, <1>2, <1>3, <1>4 DEF ScriptInv
<1> QED
  BY <1>6, <1>8, <1>9 DEF DInv

LEMMA PreflightStep == ASSUME DInv, Preflight PROVE DInv'
<1>1. run.pc = "preflight" /\ UNCHANGED <<published, raw, inner, outer, manifest, failed, spare>>
  BY DEF Preflight
<1>2. PICK pc \in {"year", "count"} : Go(pc) /\ (pc = "year" <=> File \in Streamed)
  BY DEF Preflight
<1>3. /\ run' \in Runs /\ run'.pc = pc /\ run'.todo = run.todo /\ run'.offset = run.offset
      /\ run'.body = run.body /\ File' = File
  BY <1>2, Going DEF Pcs
<1>4. TypeInv'
  BY <1>1, <1>3 DEF DInv, TypeInv
<1>5. /\ run.todo # <<>> /\ (run.todo \in Seq(Streamed) \/ (Len(run.todo) = 1 /\ File \in Paged))
      /\ File \in Appended => raw[File] = NONE \/ ~ raw[File].torn
      /\ run.offset = 0 /\ run.body = <<>> /\ File \in Files
      /\ run.todo \in Seq(Streamed) => File \in Streamed
  <2>1. run.pc # "idle"
    BY <1>1
  <2> QED
    BY <1>1, <2>1, AtWork DEF DInv, ScriptInv
<1>6. pc = "count" => File \in Paged
  BY <1>2, <1>5, Kinds
<1>7. pc = "year" => run.todo \in Seq(Streamed)
  BY <1>2, <1>5, Kinds
<1>8. ScriptInv'
  BY <1>1, <1>2, <1>3, <1>5, <1>6, <1>7 DEF ScriptInv
<1> QED
  BY <1>1, <1>4, <1>8, Quiet DEF DInv

LEMMA CountedStep ==
    ASSUME DInv, run.pc = "count", NEW n \in Nat \union {NONE}, Counted(n),
           spare' \in 0 .. MaxFaults
    PROVE  DInv'
<1>1. UNCHANGED <<published, inner, outer, manifest, failed>>
  BY DEF Counted
<1>2. /\ File \in Paged /\ File \in Files /\ run.offset = 0 /\ run.body = <<>> /\ run \in Runs
      /\ run.todo # <<>> /\ (run.todo \in Seq(Streamed) \/ (Len(run.todo) = 1 /\ File \in Paged))
      /\ File \in Appended => raw[File] = NONE \/ ~ raw[File].torn
  BY AtWork DEF DInv, TypeInv, ScriptInv
<1>3. CASE File \in Appended
  <2> DEFINE existing == CountExistingRows(raw[File])
  <2>1. raw' = raw /\ (run' = Idle \/ run' = [run EXCEPT !.pc = "page", !.expected = n,
                                                        !.offset = existing])
    BY <1>3 DEF Counted
  <2>2. existing = Len(Rows(File)) /\ existing \in Nat
    <3>1. CASE raw[File] = NONE
      BY <3>1 DEF CountExistingRows, Rows
    <3>2. CASE raw[File] # NONE
      <4>1. ~ raw[File].torn /\ Rows(File) = raw[File].rows /\ Rows(File) \in Seq(Row)
        BY <1>2, <1>3, <3>2, RowsTyped DEF DInv
      <4>2. Len(Rows(File)) \in Nat
        BY <4>1
      <4> QED
        BY <3>2, <4>1, <4>2 DEF CountExistingRows
    <3> QED
      BY <3>1, <3>2
  <2> HIDE DEF existing
  <2>3. CASE run' = Idle
    <3>1. TypeInv' /\ ScriptInv'
      BY <1>1, <2>1, <2>3, IdleRun DEF DInv, TypeInv
    <3> QED
      BY <1>1, <2>1, <3>1, Quiet DEF DInv
  <2>4. CASE run' = [run EXCEPT !.pc = "page", !.expected = n, !.offset = existing]
    <3>1. /\ run' \in Runs /\ run'.pc = "page" /\ run'.todo = run.todo /\ run'.offset = existing
          /\ run'.body = run.body
      BY <1>2, <2>2, <2>4 DEF Runs, Pcs
    <3>2. File' = File
      BY <3>1 DEF File
    <3>3. TypeInv'
      BY <1>1, <2>1, <3>1 DEF DInv, TypeInv
    <3>4. Rows(File)' = Rows(File)
      BY <2>1, <3>2 DEF Rows
    <3>5. File \notin Rewritten
      BY <1>2, <1>3, Kinds
    <3>6. ScriptInv'
      BY <1>2, <2>1, <2>2, <3>1, <3>2, <3>4, <3>5 DEF ScriptInv
    <3> QED
      BY <1>1, <2>1, <3>3, <3>6, Quiet DEF DInv
  <2> QED
    BY <2>1, <2>3, <2>4
<1>4. CASE File \notin Appended
  <2>1. raw' = [raw EXCEPT ![File] = Empty] /\ run' = [run EXCEPT !.pc = "page"]
    BY <1>4 DEF Counted
  <2>2. /\ run' \in Runs /\ run'.pc = "page" /\ run'.todo = run.todo /\ run'.offset = run.offset
        /\ run'.body = run.body
    BY <1>2, <2>1 DEF Runs, Pcs
  <2>3. File' = File
    BY <2>2 DEF File
  <2>4. raw' \in [Files -> RawFile \union {NONE}] /\ raw'[File] = Empty
        /\ \A f \in Files : f # File => raw'[f] = raw[f]
    BY <1>2, <2>1, Basics DEF DInv, TypeInv
  <2>5. TypeInv'
    BY <1>1, <2>2, <2>4 DEF DInv, TypeInv
  <2>6. PICK g \in Files : g = File
    BY <1>2
  <2>7. /\ Rows(g)' = <<>> /\ Len(Rows(g)') = 0
        /\ \A f \in Files : f # g => Rows(f)' = Rows(f)
    BY <2>4, <2>6, Basics DEF Rows, Empty
  <2>8. CopyInv'
    <3> SUFFICES ASSUME NEW f \in Paged PROVE CopyOf(Rows(f)', published[f])
      BY <1>1 DEF CopyInv
    <3>1. f \in Files /\ published[f] \in Seq(Row)
      BY DEF Files, DInv, TypeInv
    <3>2. CASE f = g
      BY <2>7, <3>1, <3>2, EmptyIsCopy
    <3>3. CASE f # g
      BY <2>7, <3>1, <3>3 DEF DInv, CopyInv
    <3> QED
      BY <3>2, <3>3
  <2>9. PublisherInv' /\ PartialInv'
    BY <1>1 DEF DInv, PublisherInv, PartialInv
  <2>10. Rows(File)' = Rows(g)'
    BY <2>3, <2>6
  <2>11. Empty # NONE /\ ~ Empty.torn
    BY Basics DEF Empty
  <2>12. ScriptInv'
    BY <1>2, <1>4, <2>2, <2>3, <2>4, <2>7, <2>10, <2>11 DEF ScriptInv
  <2> QED
    BY <2>5, <2>8, <2>9, <2>12 DEF DInv
<1> QED
  BY <1>3, <1>4

LEMMA GetPageStep == ASSUME DInv, GetPage PROVE DInv'
<1>1. run.pc = "page" /\ UNCHANGED <<published, raw, inner, outer, manifest, failed, spare>>
  BY DEF GetPage
<1>2. /\ File \in Paged /\ File \in Files /\ run.body = <<>> /\ run \in Runs /\ run.todo # <<>>
      /\ (run.todo \in Seq(Streamed) \/ (Len(run.todo) = 1 /\ File \in Paged))
      /\ File \in Appended => raw[File] = NONE \/ ~ raw[File].torn
      /\ File \in Rewritten => raw[File] # NONE /\ ~ raw[File].torn
      /\ run.offset = Len(Rows(File))
  <2>1. run.pc # "idle"
    BY <1>1
  <2> QED
    BY <1>1, <2>1, AtWork DEF DInv, TypeInv, ScriptInv
<1>3. CASE LastPageRead
  <2>1. Go("record")
    BY <1>3 DEF GetPage
  <2>2. /\ run' \in Runs /\ run'.pc = "record" /\ run'.todo = run.todo /\ File' = File
    BY <2>1, Going DEF Pcs
  <2>3. TypeInv'
    BY <1>1, <2>2 DEF DInv, TypeInv
  <2>4. ScriptInv'
    BY <1>1, <1>2, <2>2 DEF ScriptInv
  <2> QED
    BY <1>1, <2>3, <2>4, Quiet DEF DInv
<1>4. CASE ~ LastPageRead
  <2> DEFINE body == PageAt(File, run.offset)
             src  == published[File]
             m    == IF run.offset + PageSize < Len(src) THEN run.offset + PageSize ELSE Len(src)
  <2>1. run' = [run EXCEPT !.pc = "write", !.tries = 0, !.body = body]
    BY <1>4 DEF GetPage
  <2>2. src \in Seq(Row) /\ Len(src) \in Nat /\ Rows(File) \in Seq(Row) /\ run.offset \in Nat
    BY <1>2, RowsTyped, RunFields DEF DInv
  <2>3. body = SubSeq(src, run.offset + 1, m)
    BY DEF PageAt
  <2>4. m \in Nat /\ m <= Len(src)
    BY <2>2, Basics
  <2> HIDE DEF m, body
  <2>5. body \in Seq(Row)
    BY <2>2, <2>3, <2>4
  <2>6. CopyOf(Rows(File) \o body, src)
    <3>1. CopyOf(Rows(File), src) /\ Ordered(src)
      BY <1>2 DEF DInv, CopyInv, PublisherInv
    <3>2. body = SubSeq(src, Len(Rows(File)) + 1, m)
      BY <1>2, <2>3
    <3> HIDE DEF src
    <3> QED
      BY <2>2, <2>4, <3>1, <3>2, CopyPage
  <2>7. /\ run' \in Runs /\ run'.pc = "write" /\ run'.todo = run.todo /\ run'.offset = run.offset
        /\ run'.body = body
    <3>1. 0 \in 0 .. MaxRetries - 1
      BY Basics
    <3> QED
      BY <1>2, <2>1, <2>5, <3>1 DEF Runs, Pcs
  <2>8. File' = File /\ Rows(File)' = Rows(File)
    BY <1>1, <2>7 DEF File, Rows
  <2>9. TypeInv'
    BY <1>1, <2>7 DEF DInv, TypeInv
  <2>10. ScriptInv'
    BY <1>1, <1>2, <2>6, <2>7, <2>8 DEF ScriptInv
  <2> QED
    BY <1>1, <2>9, <2>10, Quiet DEF DInv
<1> QED
  BY <1>3, <1>4

\* What a written page makes of the raw file.
LEMMA Written ==
    ASSUME DInv, run.pc \in {"page", "write"}
    PROVE  LET file == IF raw[File] = NONE THEN Empty ELSE raw[File]
               new  == Extended(file, run.body)
           IN  /\ new \in RawFile /\ ~ new.torn
               /\ new.rows = Rows(File) \o run.body
               /\ CopyOf(new.rows, published[File])
<1> DEFINE file == IF raw[File] = NONE THEN Empty ELSE raw[File]
           new  == Extended(file, run.body)
<1>1. /\ File \in Paged /\ File \in Files /\ run \in Runs
      /\ File \in Appended => raw[File] = NONE \/ ~ raw[File].torn
      /\ File \in Rewritten => raw[File] # NONE /\ ~ raw[File].torn
      /\ run.body \in Seq(Row)
      /\ run.pc = "page" => run.body = <<>>
      /\ run.pc = "write" => CopyOf(Rows(File) \o run.body, published[File])
  <2>1. run.pc # "idle"
    OBVIOUS
  <2> QED
    BY <2>1, AtWork, RunFields DEF DInv, TypeInv, ScriptInv
<1>2. file \in RawFile /\ file.rows = Rows(File) /\ file.torn = FALSE /\ Rows(File) \in Seq(Row)
  <2>1. CASE raw[File] = NONE
    BY <1>1, <2>1, Basics, RowsTyped DEF Empty, Rows, DInv
  <2>2. CASE raw[File] # NONE
    BY <1>1, <2>2, Kinds, RowsTyped DEF DInv
  <2> QED
    BY <2>1, <2>2
<1> HIDE DEF file
<1>3. new = [rows |-> file.rows \o run.body, torn |-> FALSE]
  <2>1. ~ (file.torn /\ run.body # <<>>) /\ (file.torn /\ run.body = <<>>) = FALSE
    BY <1>2
  <2>2. new = [rows |-> file.rows \o run.body, torn |-> file.torn /\ run.body = <<>>]
    BY <2>1 DEF Extended
  <2> QED
    BY <2>1, <2>2, Zenon
<1>4. Rows(File) \o run.body \in Seq(Row)
  BY <1>1, <1>2
<1>5. CopyOf(Rows(File) \o run.body, published[File])
  <2>1. CASE run.pc = "page"
    <3>1. Rows(File) \o <<>> = Rows(File)
      BY <1>2
    <3>2. CopyOf(Rows(File), published[File])
      BY <1>1 DEF DInv, CopyInv
    <3> QED
      BY <1>1, <2>1, <3>1, <3>2
  <2> QED
    BY <1>1, <2>1
<1> HIDE DEF new
<1>6. new \in RawFile /\ new.rows = Rows(File) \o run.body /\ ~ new.torn
  BY <1>2, <1>3, <1>4 DEF RawFile
<1> QED
  BY <1>5, <1>6 DEF new, file

LEMMA WritePageStep == ASSUME DInv, WritePage PROVE DInv'
<1> DEFINE new == Extended(IF raw[File] = NONE THEN Empty ELSE raw[File], run.body)
           pc  == IF Len(run.body) < PageSize THEN "record" ELSE "page"
<1>1. /\ run.pc = "write" /\ UNCHANGED <<published, inner, outer, manifest, failed, spare>>
      /\ raw' = [raw EXCEPT ![File] = new]
      /\ run' = [run EXCEPT !.pc = pc, !.offset = run.offset + Len(run.body),
                            !.pages = run.pages + 1, !.body = <<>>]
  BY DEF WritePage
<1>2. /\ File \in Paged /\ File \in Files /\ run \in Runs /\ run.todo # <<>>
      /\ (run.todo \in Seq(Streamed) \/ (Len(run.todo) = 1 /\ File \in Paged))
      /\ run.offset = Len(Rows(File)) /\ run.body \in Seq(Row) /\ Rows(File) \in Seq(Row)
      /\ run.offset \in Nat /\ run.pages \in Nat /\ Len(run.body) \in Nat
  <2>1. run.pc # "idle"
    BY <1>1
  <2> QED
    BY <1>1, <2>1, AtWork, RowsTyped, RunFields, SMTT(60) DEF DInv, TypeInv, ScriptInv
<1>3. /\ new \in RawFile /\ ~ new.torn /\ new.rows = Rows(File) \o run.body
      /\ CopyOf(new.rows, published[File])
  BY <1>1, Written
<1>4. pc \in {"record", "page"}
  OBVIOUS
<1> HIDE DEF new, pc
<1>5. /\ run' \in Runs /\ run'.pc = pc /\ run'.todo = run.todo
      /\ run'.offset = run.offset + Len(run.body) /\ run'.body = <<>>
  <2>1. <<>> \in Seq(Row) /\ run.offset + Len(run.body) \in Nat /\ run.pages + 1 \in Nat
    BY <1>2
  <2> QED
    BY <1>1, <1>2, <1>4, <2>1 DEF Runs, Pcs
<1>6. File' = File
  BY <1>5 DEF File
<1>7. PICK g \in Files : g = File
  BY <1>2
<1>8. /\ raw' \in [Files -> RawFile \union {NONE}] /\ raw'[g] = new
      /\ \A f \in Files : f # g => raw'[f] = raw[f]
  BY <1>1, <1>3, <1>7 DEF DInv, TypeInv
<1>9. new # NONE
  BY <1>3, Basics
<1>10. Rows(g)' = new.rows /\ \A f \in Files : f # g => Rows(f)' = Rows(f)
  BY <1>8, <1>9 DEF Rows
<1>11. TypeInv'
  BY <1>1, <1>5, <1>8 DEF DInv, TypeInv
<1>12. CopyInv'
  <2> SUFFICES ASSUME NEW f \in Paged PROVE CopyOf(Rows(f)', published[f])
    BY <1>1 DEF CopyInv
  <2>1. f \in Files
    BY DEF Files
  <2> QED
    BY <1>3, <1>7, <1>10, <2>1 DEF DInv, CopyInv
<1>13. PublisherInv' /\ PartialInv'
  BY <1>1 DEF DInv, PublisherInv, PartialInv
<1>14. Rows(File)' = new.rows /\ raw'[File'] = new
  BY <1>6, <1>7, <1>8, <1>10
<1>15. Len(new.rows) = run.offset + Len(run.body)
  BY <1>2, <1>3, Joined
<1>16. ScriptInv'
  BY <1>2, <1>3, <1>4, <1>5, <1>6, <1>9, <1>14, <1>15 DEF ScriptInv
<1> QED
  BY <1>11, <1>12, <1>13, <1>16 DEF DInv

(* The yearly files *)

LEMMA YearFacts ==
    ASSUME DInv, run.pc \in {"year", "get", "stream", "validate"}
    PROVE  /\ run.todo \in Seq(Streamed) /\ run.todo # <<>> /\ run \in Runs
           /\ File \in Streamed /\ File \in Files /\ File \notin Paged
           /\ File \notin Appended /\ File \notin Rewritten
           /\ published[File] \in Seq(Row) /\ run.body \in Seq(Row)
<1>1. run.pc # "idle"
  OBVIOUS
<1>2. /\ run.todo \in Seq(Streamed) /\ run.todo # <<>> /\ run \in Runs
      /\ File \in Streamed /\ File \in Files
  BY <1>1, AtWork DEF DInv, TypeInv, ScriptInv
<1> QED
  BY <1>2, Kinds, RowsTyped, RunFields DEF DInv

LEMMA BeginYearStep == ASSUME DInv, BeginYear PROVE DInv'
<1>1. run.pc = "year" /\ UNCHANGED <<published, raw, inner, manifest, failed, spare>>
  BY DEF BeginYear
<1>2. PublisherInv' /\ CopyInv' /\ PartialInv'
  BY <1>1, Quiet
<1>3. CASE raw[File] # NONE
  <2>1. NextFile /\ outer' = outer
    BY <1>3 DEF BeginYear
  <2>2. run' \in Runs /\ ScriptInv'
    BY <1>1, <2>1, Turning
  <2>3. TypeInv'
    BY <1>1, <2>1, <2>2 DEF DInv, TypeInv
  <2> QED
    BY <1>2, <2>2, <2>3 DEF DInv
<1>4. CASE raw[File] = NONE
  <2>1. Go("get") /\ outer' = [outer EXCEPT ![File] = NONE]
    BY <1>4 DEF BeginYear
  <2>2. run' \in Runs /\ run'.pc = "get" /\ run'.todo = run.todo /\ File' = File
    BY <2>1, Going DEF Pcs
  <2>3. outer' \in [Streamed -> Seq(Row) \union {NONE}]
    BY <2>1 DEF DInv, TypeInv
  <2>4. TypeInv'
    BY <1>1, <2>2, <2>3 DEF DInv, TypeInv
  <2>5. ScriptInv'
    BY <1>1, <1>4, <2>2, YearFacts DEF ScriptInv
  <2> QED
    BY <1>2, <2>4, <2>5 DEF DInv
<1> QED
  BY <1>3, <1>4

LEMMA RestOfPrefix ==
    ASSUME NEW s \in Seq(Row), NEW t \in Seq(Row), Len(s) <= Len(t),
           \A k \in 1 .. Len(s) : s[k] = t[k]
    PROVE  s \o SubSeq(t, Len(s) + 1, Len(t)) = t
<1> DEFINE n == Len(s)
           r == SubSeq(t, n + 1, Len(t))
<1>1. n \in Nat /\ Len(t) \in Nat
  OBVIOUS
<1>2. CASE n = Len(t)
  <2>1. r = <<>>
    BY <1>1, <1>2, SubSeqEmpty
  <2>2. s \o <<>> = s
    OBVIOUS
  <2>3. s = t
    BY <1>2
  <2> QED
    BY <2>1, <2>2, <2>3
<1>3. CASE n < Len(t)
  <2>1. r \in Seq(Row) /\ Len(r) = Len(t) - n /\ \A k \in 1 .. Len(t) - n : r[k] = t[n + k]
    BY <1>1, <1>3
  <2> HIDE DEF r
  <2>2. /\ s \o r \in Seq(Row) /\ Len(s \o r) = n + Len(r)
        /\ \A k \in 1 .. n : (s \o r)[k] = s[k]
        /\ \A k \in n + 1 .. n + Len(r) : (s \o r)[k] = r[k - n]
    BY <2>1, Joined
  <2>3. n + Len(r) = Len(t)
    BY <1>1, <2>1
  <2>4. ASSUME NEW k \in 1 .. Len(t) PROVE (s \o r)[k] = t[k]
    <3>1. CASE k <= n
      BY <1>1, <2>2, <3>1
    <3>2. CASE k > n
      <4>1. k \in n + 1 .. Len(t) /\ k - n \in 1 .. Len(t) - n /\ n + (k - n) = k
        BY <1>1, <3>2
      <4> QED
        BY <2>1, <2>2, <2>3, <4>1
    <3>3. k \in Nat
      OBVIOUS
    <3>4. k <= n \/ k > n
      BY <1>1, <3>3
    <3> QED
      BY <3>1, <3>2, <3>4
  <2>5. \A p, q \in Seq(Row) : (Len(p) = Len(q) /\ \A k \in 1 .. Len(q) : p[k] = q[k]) => p = q
    OBVIOUS
  <2>6. s \o r = t
    BY <2>2, <2>3, <2>4, <2>5
  <2> QED
    BY <2>6 DEF r
<1> QED
  BY <1>1, <1>2, <1>3

LEMMA GetStep == ASSUME DInv, Get PROVE DInv'
<1> DEFINE part == inner[File]
           src  == published[File]
           from == IF part = NONE THEN 0 ELSE Len(part)
<1>1. run.pc = "get" /\ UNCHANGED <<published, raw, outer, manifest, spare>>
  BY DEF Get
<1>2. CASE part # NONE /\ from >= Len(src)
  <2>1. AttemptFails /\ inner' = inner
    BY <1>2 DEF Get
  <2>2. run' \in Runs /\ ScriptInv' /\ failed' \subseteq Datasets
    BY <1>1, <2>1, Retrying
  <2>3. TypeInv'
    BY <1>1, <2>1, <2>2 DEF DInv, TypeInv
  <2> QED
    BY <1>1, <2>1, <2>2, <2>3, Quiet DEF DInv
<1>3. CASE ~ (part # NONE /\ from >= Len(src))
  <2> DEFINE new  == IF part = NONE THEN <<>> ELSE part
             body == SubSeq(src, from + 1, Len(src))
  <2>1. /\ run' = [run EXCEPT !.pc = "stream", !.tries = 0, !.body = body]
        /\ inner' = [inner EXCEPT ![File] = new] /\ failed' = failed
    BY <1>3 DEF Get
  <2>2. /\ File \in Streamed /\ File \in Files /\ run \in Runs /\ src \in Seq(Row)
        /\ run.todo # <<>> /\ run.todo \in Seq(Streamed) /\ Len(src) \in Nat
        /\ File \notin Appended /\ File \notin Rewritten /\ raw[File] = NONE
    BY <1>1, YearFacts DEF DInv, ScriptInv
  <2>3. new \in Seq(Row) /\ from = Len(new) /\ from \in Nat /\ from <= Len(src)
    <3>1. CASE part = NONE
      BY <2>2, <3>1, Basics
    <3>2. CASE part # NONE
      <4>1. part \in Seq(Row)
        BY <2>2, <3>2 DEF DInv, TypeInv
      <4>2. Len(part) \in Nat
        BY <4>1
      <4> QED
        BY <1>3, <2>2, <3>2, <4>1, <4>2
    <3> QED
      BY <3>1, <3>2
  <2>4. ASSUME M!NeverReissued(src)
        PROVE  Len(new) <= Len(src) /\ \A k \in 1 .. Len(new) : new[k] = src[k]
    <3>1. CASE part = NONE
      BY <2>3, <3>1
    <3>2. CASE part # NONE
      BY <2>2, <2>4, <3>2 DEF DInv, PartialInv
    <3> QED
      BY <3>1, <3>2
  <2>5. body \in Seq(Row)
    BY <2>2, <2>3
  <2>6. M!NeverReissued(src) => new \o body = src
    <3> HIDE DEF new, from, src
    <3> QED
      BY <2>2, <2>3, <2>4, RestOfPrefix DEF body
  <2> HIDE DEF new, body, from
  <2>7. run' \in Runs /\ run'.pc = "stream" /\ run'.todo = run.todo /\ run'.body = body
    <3>1. 0 \in 0 .. MaxRetries - 1
      BY Basics
    <3> QED
      BY <2>1, <2>2, <2>5, <3>1 DEF Runs, Pcs
  <2>8. File' = File
    BY <2>7 DEF File
  <2>9. PICK g \in Streamed : g = File
    BY <2>2
  <2>10. /\ inner' \in [Streamed -> Seq(Row) \union {NONE}] /\ inner'[g] = new
         /\ \A f \in Streamed : f # g => inner'[f] = inner[f]
    BY <2>1, <2>3, <2>9 DEF DInv, TypeInv
  <2>11. TypeInv'
    BY <1>1, <2>1, <2>7, <2>10 DEF DInv, TypeInv
  <2>12. PartialInv'
    <3> SUFFICES ASSUME NEW f \in Streamed, inner'[f] # NONE, M!NeverReissued(published[f])
                 PROVE  /\ Len(inner'[f]) <= Len(published[f])
                        /\ \A k \in 1 .. Len(inner'[f]) : inner'[f][k] = published[f][k]
      BY <1>1 DEF PartialInv
    <3>1. CASE f = g
      BY <2>4, <2>9, <2>10, <3>1
    <3>2. CASE f # g
      BY <2>10, <3>2 DEF DInv, PartialInv
    <3> QED
      BY <3>1, <3>2
  <2>13. PublisherInv' /\ CopyInv'
    BY <1>1 DEF DInv, PublisherInv, CopyInv, Rows
  <2>14. new # NONE
    BY <2>3, Basics
  <2>15. ScriptInv'
    BY <1>1, <2>2, <2>6, <2>7, <2>8, <2>9, <2>10, <2>14 DEF ScriptInv
  <2> QED
    BY <2>11, <2>12, <2>13, <2>15 DEF DInv
<1> QED
  BY <1>2, <1>3

\* A streamed row moves from the body to the partial file.
LEMMA Shifted ==
    ASSUME NEW s \in Seq(Row), NEW b \in Seq(Row), b # <<>>
    PROVE  /\ Append(s, Head(b)) \in Seq(Row) /\ Tail(b) \in Seq(Row)
           /\ Append(s, Head(b)) \o Tail(b) = s \o b
<1> DEFINE t == Append(s, Head(b))
<1>1. Head(b) \in Row /\ Tail(b) \in Seq(Row) /\ Len(Tail(b)) = Len(b) - 1 /\ Len(b) \in Nat \ {0}
      /\ \A k \in 1 .. Len(b) - 1 : Tail(b)[k] = b[k + 1]
      /\ Head(b) = b[1] /\ Len(s) \in Nat
  OBVIOUS
<1>2. /\ t \in Seq(Row) /\ Len(t) = Len(s) + 1 /\ t[Len(s) + 1] = b[1]
      /\ \A k \in 1 .. Len(s) : t[k] = s[k]
  BY <1>1, Appending
<1> HIDE DEF t
<1>3. /\ t \o Tail(b) \in Seq(Row) /\ Len(t \o Tail(b)) = Len(t) + Len(Tail(b))
      /\ \A k \in 1 .. Len(t) : (t \o Tail(b))[k] = t[k]
      /\ \A k \in Len(t) + 1 .. Len(t) + Len(Tail(b)) : (t \o Tail(b))[k] = Tail(b)[k - Len(t)]
  BY <1>1, <1>2, Joined, ZenonT(60)
<1>4. /\ s \o b \in Seq(Row) /\ Len(s \o b) = Len(s) + Len(b)
      /\ \A k \in 1 .. Len(s) : (s \o b)[k] = s[k]
      /\ \A k \in Len(s) + 1 .. Len(s) + Len(b) : (s \o b)[k] = b[k - Len(s)]
  BY Joined
<1>5. Len(t \o Tail(b)) = Len(s \o b)
  BY <1>1, <1>2, <1>3, <1>4
<1>6. ASSUME NEW k \in 1 .. Len(s) + Len(b) PROVE (t \o Tail(b))[k] = (s \o b)[k]
  <2>1. CASE k <= Len(s)
    <3>1. k \in 1 .. Len(s) /\ k \in 1 .. Len(t)
      BY <1>1, <1>2, <2>1
    <3> QED
      BY <1>2, <1>3, <1>4, <3>1
  <2>2. CASE k = Len(s) + 1
    <3>1. k \in 1 .. Len(t) /\ k \in Len(s) + 1 .. Len(s) + Len(b) /\ k - Len(s) = 1
      BY <1>1, <1>2, <2>2
    <3>2. (t \o Tail(b))[k] = t[k] /\ (s \o b)[k] = b[k - Len(s)]
      BY <1>3, <1>4, <3>1
    <3> QED
      BY <1>2, <2>2, <3>1, <3>2
  <2>3. CASE k > Len(s) + 1
    <3>1. /\ k \in Len(t) + 1 .. Len(t) + Len(Tail(b)) /\ k \in Len(s) + 1 .. Len(s) + Len(b)
          /\ k - Len(t) \in 1 .. Len(b) - 1 /\ (k - Len(t)) + 1 = k - Len(s)
      BY <1>1, <1>2, <2>3
    <3>2. Tail(b)[k - Len(t)] = b[(k - Len(t)) + 1]
      BY <1>1, <3>1
    <3> QED
      BY <1>3, <1>4, <3>1, <3>2
  <2>4. k \in Nat
    OBVIOUS
  <2>5. k <= Len(s) \/ k = Len(s) + 1 \/ k > Len(s) + 1
    BY <1>1, <2>4
  <2> QED
    BY <2>1, <2>2, <2>3, <2>5
<1>7. \A p, q \in Seq(Row) : (Len(p) = Len(q) /\ \A k \in 1 .. Len(q) : p[k] = q[k]) => p = q
  OBVIOUS
<1>8. t \o Tail(b) = s \o b
  BY <1>3, <1>4, <1>5, <1>6, <1>7
<1> QED
  BY <1>1, <1>2, <1>8 DEF t

LEMMA StreamStep == ASSUME DInv, Stream PROVE DInv'
<1>1. run.pc = "stream" /\ UNCHANGED <<published, raw, manifest, failed, spare>>
  BY DEF Stream
<1>2. PICK g \in Streamed : g = File
  BY <1>1, YearFacts
<1> DEFINE part == inner[g]
           src  == published[g]
<1>3. /\ File \in Streamed /\ File \in Files /\ run \in Runs /\ src \in Seq(Row)
      /\ run.todo # <<>> /\ run.todo \in Seq(Streamed) /\ run.body \in Seq(Row)
      /\ File \notin Appended /\ File \notin Rewritten /\ raw[File] = NONE
      /\ part # NONE /\ part \in Seq(Row)
      /\ M!NeverReissued(src) => part \o run.body = src
  BY <1>1, <1>2, YearFacts DEF DInv, TypeInv, ScriptInv
<1>4. PublisherInv' /\ CopyInv'
  BY <1>1 DEF DInv, PublisherInv, CopyInv, Rows
<1> HIDE DEF part, src
<1>5. CASE run.body # <<>>
  <2> DEFINE new  == Append(part, Head(run.body))
             rest == Tail(run.body)
  <2>1. /\ inner' = [inner EXCEPT ![g] = new] /\ run' = [run EXCEPT !.body = rest]
        /\ outer' = outer
    BY <1>1, <1>2, <1>5 DEF Stream, part
  <2>2. new \in Seq(Row) /\ rest \in Seq(Row) /\ new \o rest = part \o run.body
    BY <1>3, <1>5, Shifted
  <2> HIDE DEF new, rest
  <2>3. /\ run' \in Runs /\ run'.pc = "stream" /\ run'.todo = run.todo /\ run'.body = rest
    BY <1>1, <1>3, <2>1, <2>2 DEF Runs
  <2>4. File' = File
    BY <2>3 DEF File
  <2>5. /\ inner' \in [Streamed -> Seq(Row) \union {NONE}] /\ inner'[g] = new
        /\ \A f \in Streamed : f # g => inner'[f] = inner[f]
    BY <2>1, <2>2 DEF DInv, TypeInv
  <2>6. new # NONE
    BY <2>2, Basics
  <2>7. TypeInv'
    BY <1>1, <2>1, <2>3, <2>5 DEF DInv, TypeInv
  <2>8. ASSUME M!NeverReissued(src)
        PROVE  Len(new) <= Len(src) /\ \A k \in 1 .. Len(new) : new[k] = src[k]
    <3>1. new \o rest = src
      BY <1>3, <2>2, <2>8
    <3>2. Len(new) \in Nat /\ Len(rest) \in Nat
      BY <2>2
    <3>3. /\ Len(new \o rest) = Len(new) + Len(rest)
          /\ \A k \in 1 .. Len(new) : (new \o rest)[k] = new[k]
      BY <2>2, Joined
    <3>4. Len(src) = Len(new) + Len(rest) /\ \A k \in 1 .. Len(new) : src[k] = new[k]
      BY <3>1, <3>3
    <3>5. Len(new) <= Len(src)
      BY <3>2, <3>4
    <3> QED
      BY <3>4, <3>5
  <2>9. PartialInv'
    <3> SUFFICES ASSUME NEW f \in Streamed, inner'[f] # NONE, M!NeverReissued(published[f])
                 PROVE  /\ Len(inner'[f]) <= Len(published[f])
                        /\ \A k \in 1 .. Len(inner'[f]) : inner'[f][k] = published[f][k]
      BY <1>1 DEF PartialInv
    <3>1. CASE f = g
      BY <2>5, <2>8, <3>1 DEF src
    <3>2. CASE f # g
      BY <2>5, <3>2 DEF DInv, PartialInv
    <3> QED
      BY <3>1, <3>2
  <2>10. ScriptInv'
    <3>1. inner'[File'] = new /\ published'[File'] = src /\ raw'[File'] = NONE
      BY <1>1, <1>2, <1>3, <2>4, <2>5 DEF src
    <3>2. M!NeverReissued(src) => new \o rest = src
      BY <1>3, <2>2
    <3> QED
      BY <1>3, <2>3, <2>4, <2>6, <3>1, <3>2 DEF ScriptInv
  <2> QED
    BY <1>4, <2>7, <2>9, <2>10 DEF DInv
<1>6. CASE run.body = <<>>
  <2>1. /\ inner' = [inner EXCEPT ![g] = NONE] /\ outer' = [outer EXCEPT ![g] = part]
        /\ Go("validate")
    BY <1>1, <1>2, <1>6 DEF Stream, part
  <2>2. run' \in Runs /\ run'.pc = "validate" /\ run'.todo = run.todo /\ File' = File
    BY <1>1, <2>1, Going DEF Pcs
  <2>3. /\ inner' \in [Streamed -> Seq(Row) \union {NONE}] /\ inner'[g] = NONE
        /\ \A f \in Streamed : f # g => inner'[f] = inner[f]
    BY <2>1 DEF DInv, TypeInv
  <2>4. outer' \in [Streamed -> Seq(Row) \union {NONE}] /\ outer'[g] = part
    BY <1>3, <2>1 DEF DInv, TypeInv
  <2>5. TypeInv'
    BY <1>1, <2>2, <2>3, <2>4 DEF DInv, TypeInv
  <2>6. PartialInv'
    BY <1>1, <2>3 DEF DInv, PartialInv
  <2>7. M!NeverReissued(src) => part = src
    <3>1. part \o <<>> = part
      BY <1>3
    <3> QED
      BY <1>3, <1>6, <3>1
  <2>8. ScriptInv'
    <3>1. outer'[File'] = part /\ published'[File'] = src /\ raw'[File'] = NONE
      BY <1>1, <1>2, <1>3, <2>2, <2>4 DEF src
    <3> QED
      BY <1>3, <2>2, <2>7, <3>1 DEF ScriptInv
  <2> QED
    BY <1>4, <2>5, <2>6, <2>8 DEF DInv
<1> QED
  BY <1>5, <1>6

LEMMA ValidateStep == ASSUME DInv, Validate PROVE DInv'
<1>1. run.pc = "validate" /\ UNCHANGED <<published, inner, manifest, spare>>
  BY DEF Validate
<1>2. PICK g \in Streamed : g = File
  BY <1>1, YearFacts
<1>3. /\ File \in Streamed /\ File \in Files /\ run \in Runs /\ run.todo # <<>>
      /\ run.todo \in Seq(Streamed) /\ File \notin Appended /\ File \notin Rewritten
      /\ outer[g] # NONE /\ outer[g] \in Seq(Row) /\ g \notin Paged
  BY <1>1, <1>2, YearFacts DEF DInv, TypeInv, ScriptInv
<1>4. outer' = [outer EXCEPT ![g] = NONE] /\ outer' \in [Streamed -> Seq(Row) \union {NONE}]
  BY <1>2 DEF Validate, DInv, TypeInv
<1>5. PartialInv' /\ PublisherInv'
  BY <1>1 DEF DInv, PartialInv, PublisherInv
<1>6. CASE outer[g] = <<>>
  <2>1. Fail /\ raw' = raw
    BY <1>2, <1>6 DEF Validate
  <2>2. run' \in Runs /\ ScriptInv' /\ failed' \subseteq Datasets
    BY <1>1, <2>1, Failing
  <2>3. TypeInv'
    BY <1>1, <1>4, <2>1, <2>2 DEF DInv, TypeInv
  <2>4. CopyInv'
    BY <1>1, <2>1 DEF DInv, CopyInv, Rows
  <2> QED
    BY <1>5, <2>2, <2>3, <2>4 DEF DInv
<1>7. CASE outer[g] # <<>>
  <2> DEFINE new == [rows |-> outer[g], torn |-> FALSE]
  <2>1. raw' = [raw EXCEPT ![g] = new] /\ Go("record") /\ failed' = failed
    BY <1>2, <1>7 DEF Validate
  <2>2. new \in RawFile
    BY <1>3 DEF RawFile
  <2> HIDE DEF new
  <2>3. run' \in Runs /\ run'.pc = "record" /\ run'.todo = run.todo /\ File' = File
    BY <1>1, <2>1, Going DEF Pcs
  <2>4. /\ raw' \in [Files -> RawFile \union {NONE}]
        /\ \A f \in Files : f # g => raw'[f] = raw[f]
    BY <1>2, <1>3, <2>1, <2>2 DEF DInv, TypeInv
  <2>5. TypeInv'
    BY <1>1, <1>4, <2>1, <2>3, <2>4 DEF DInv, TypeInv
  <2>6. CopyInv'
    <3>1. \A f \in Paged : f # g /\ f \in Files
      BY <1>3 DEF Files
    <3> QED
      BY <1>1, <2>4, <3>1 DEF DInv, CopyInv, Rows
  <2>7. ScriptInv'
    BY <1>3, <2>3 DEF ScriptInv
  <2> QED
    BY <1>5, <2>5, <2>6, <2>7 DEF DInv
<1> QED
  BY <1>6, <1>7

\* What the manifest lists of a dataset is typed.
LEMMA ListedTyped ==
    ASSUME DInv, NEW d \in Datasets, NEW f \in Files, NEW rows \in Seq(Row)
    PROVE  \E S \in SUBSET Files : Listed(d, f, rows) \in [S -> Seq(Row)]
<1> DEFINE others == IF manifest[d] = CORRUPT THEN {} ELSE DOMAIN manifest[d] \ {f}
           S == others \union {f}
<1>1. Listed(d, f, rows) = [g \in S |-> IF g = f THEN rows ELSE manifest[d][g]]
  BY DEF Listed
<1>2. others \subseteq Files /\ \A g \in others : manifest[d][g] \in Seq(Row)
  BY DEF DInv, TypeInv
<1> HIDE DEF others
<1>3. S \in SUBSET Files /\ \A g \in S : (IF g = f THEN rows ELSE manifest[d][g]) \in Seq(Row)
  BY <1>2
<1> HIDE DEF S
<1> QED
  BY <1>1, <1>3

LEMMA RecordEntryStep == ASSUME DInv, RecordEntry PROVE DInv'
<1>1. run.pc = "record" /\ NextFile /\ UNCHANGED <<published, raw, inner, outer, failed, spare>>
  BY DEF RecordEntry
<1>2. PublisherInv' /\ CopyInv' /\ PartialInv'
  BY <1>1, Quiet
<1>3. run' \in Runs /\ ScriptInv'
  BY <1>1, Turning
<1>4. PICK d \in Datasets : d = Dataset[File] /\ File \in Files
  <2>1. run.pc # "idle"
    BY <1>1
  <2> QED
    BY <2>1, AtWork
<1>5. PICK new : /\ manifest' = [manifest EXCEPT ![d] = new]
                 /\ \E S \in SUBSET Files : new \in [S -> Seq(Row)]
  <2>1. manifest' = [manifest EXCEPT ![d] = Listed(d, File, Rows(File))]
    BY <1>4 DEF RecordEntry
  <2>2. \E S \in SUBSET Files : Listed(d, File, Rows(File)) \in [S -> Seq(Row)]
    BY <1>4, ListedTyped, RowsTyped DEF DInv
  <2> QED
    BY <2>1, <2>2
<1>6. /\ DOMAIN manifest' = Datasets
      /\ \A e \in Datasets :
            manifest'[e] = CORRUPT \/ \E S \in SUBSET Files : manifest'[e] \in [S -> Seq(Row)]
  BY <1>5 DEF DInv, TypeInv
<1>7. TypeInv'
  BY <1>1, <1>3, <1>6 DEF DInv, TypeInv
<1> QED
  BY <1>2, <1>3, <1>7 DEF DInv

-----------------------------------------------------------------------------
(* Faults and publications *)

LEMMA RequestFailsStep == ASSUME DInv, RequestFails PROVE DInv'
<1>1. run.pc # "idle" /\ spare > 0 /\ spare' = spare - 1
      /\ UNCHANGED <<published, raw, inner, outer, manifest>>
  BY DEF RequestFails
<1>2. AttemptFails \/ Fail
  BY DEF RequestFails
<1>3. run' \in Runs /\ ScriptInv' /\ failed' \subseteq Datasets
  BY <1>1, <1>2, Failing, Retrying
<1>4. spare' \in 0 .. MaxFaults
  BY <1>1, Basics DEF DInv, TypeInv
<1>5. TypeInv'
  BY <1>1, <1>3, <1>4 DEF DInv, TypeInv
<1> QED
  BY <1>1, <1>3, <1>5, Quiet DEF DInv

LEMMA StreamBreaksStep == ASSUME DInv, StreamBreaks PROVE DInv'
<1>1. run.pc # "idle" /\ spare > 0 /\ spare' = spare - 1 /\ Fail
      /\ UNCHANGED <<published, raw, inner, outer, manifest>>
  BY DEF StreamBreaks
<1>2. run' \in Runs /\ ScriptInv' /\ failed' \subseteq Datasets
  BY <1>1, Failing
<1>3. spare' \in 0 .. MaxFaults
  BY <1>1, Basics DEF DInv, TypeInv
<1>4. TypeInv'
  BY <1>1, <1>2, <1>3 DEF DInv, TypeInv
<1> QED
  BY <1>1, <1>2, <1>4, Quiet DEF DInv

\* What a kill leaves is a copy, of Chicago's file no less than it was.
LEMMA LeftoversAreCopies ==
    ASSUME DInv, run.pc = "write" \/ (run.pc = "page" /\ File \in Rewritten),
           NEW file \in Leftovers(File)
    PROVE  LET rows == IF file = NONE THEN <<>> ELSE file.rows
           IN  /\ file \in RawFile \union {NONE}
               /\ rows \in Seq(Row) /\ CopyOf(rows, published[File])
               /\ File \in Appended => IsPrefix(Rows(File), rows)
<1> DEFINE old == Rows(File)
           new == Extended(IF raw[File] = NONE THEN Empty ELSE raw[File], run.body)
           least == IF File \in Appended THEN Len(old) ELSE 0
<1>1. /\ new \in RawFile /\ new.rows = old \o run.body /\ CopyOf(new.rows, published[File])
  BY Written
<1>2. File \in Paged /\ File \in Files
  <2>1. run.pc # "idle"
    OBVIOUS
  <2> QED
    BY <2>1, AtWork DEF DInv, ScriptInv
<1>3. /\ old \in Seq(Row) /\ published[File] \in Seq(Row)
      /\ Len(old) \in Nat /\ run.body \in Seq(Row)
      /\ raw[File] # NONE => raw[File] \in RawFile /\ old = raw[File].rows
  BY <1>2, RowsTyped, RunFields DEF DInv, TypeInv
<1>4. CASE file = raw[File]
  <2>1. CopyOf(old, published[File])
    BY <1>2 DEF DInv, CopyInv
  <2>2. IsPrefix(old, old)
    BY <1>3, PrefixOfSelf
  <2>3. old = IF file = NONE THEN <<>> ELSE file.rows
    BY <1>4 DEF Rows
  <2> QED
    BY <1>3, <1>4, <2>1, <2>2, <2>3
<1>5. CASE file # raw[File]
  <2>1. PICK n \in least .. Len(new.rows), t \in BOOLEAN :
            file = [rows |-> SubSeq(new.rows, 1, n), torn |-> t]
    BY <1>5 DEF Leftovers
  <2>2. new.rows \in Seq(Row) /\ Len(new.rows) \in Nat
    BY <1>1 DEF RawFile
  <2>3. n \in 0 .. Len(new.rows)
    BY <1>3, <2>2
  <2> DEFINE cut == SubSeq(new.rows, 1, n)
             all == new.rows
  <2>4. n \in least .. Len(all) /\ all = old \o run.body
    BY <1>1
  <2> HIDE DEF all
  <2>5. cut \in Seq(Row) /\ Len(cut) = n /\ \A k \in 1 .. n : cut[k] = all[k]
    BY <2>2, <2>3, Cut DEF all
  <2>6. CopyOf(cut, published[File])
    BY <1>1, <1>3, <2>2, <2>3, CopyCut
  <2> HIDE DEF cut
  <2>7. ASSUME File \in Appended PROVE IsPrefix(old, cut)
    <3>1. n \in Nat /\ Len(old) <= n
      BY <1>3, <2>4, <2>7
    <3>2. \A k \in 1 .. Len(old) : all[k] = old[k]
      BY <1>3, <2>4, Joined
    <3>3. Len(old) <= Len(cut) /\ \A k \in 1 .. Len(old) : old[k] = cut[k]
      BY <1>3, <2>5, <3>1, <3>2
    <3> HIDE DEF old
    <3> QED
      BY <1>3, <2>5, <3>3, PrefixPointwise
  <2>8. file = [rows |-> cut, torn |-> t] /\ file \in RawFile /\ file.rows = cut
    BY <2>1, <2>5 DEF cut, RawFile
  <2>9. file # NONE
    BY <2>8, Basics
  <2> QED
    BY <2>5, <2>6, <2>7, <2>8, <2>9
<1> QED
  BY <1>4, <1>5

LEMMA KillStep == ASSUME DInv, Kill PROVE DInv'
<1>1. /\ run.pc # "idle" /\ spare > 0 /\ spare' = spare - 1 /\ run' = Idle
      /\ UNCHANGED <<published, inner, outer, failed>>
  BY DEF Kill
<1>2. PICK g \in Files : g = File /\ Dataset[g] \in Datasets
  BY <1>1, AtWork
<1>3. run' \in Runs /\ ScriptInv'
  BY <1>1, IdleRun
<1>4. spare' \in 0 .. MaxFaults
  BY <1>1, Basics DEF DInv, TypeInv
<1>5. manifest' = manifest \/ manifest' = [manifest EXCEPT ![Dataset[g]] = CORRUPT]
  BY <1>2 DEF Kill
<1>6. /\ DOMAIN manifest' = Datasets
      /\ \A e \in Datasets :
            manifest'[e] = CORRUPT \/ \E S \in SUBSET Files : manifest'[e] \in [S -> Seq(Row)]
  BY <1>2, <1>5 DEF DInv, TypeInv
<1>7. PublisherInv' /\ PartialInv'
  BY <1>1 DEF DInv, PublisherInv, PartialInv
<1>8. raw' \in [Files -> RawFile \union {NONE}] /\ CopyInv'
  <2>1. CASE run.pc = "write" \/ (run.pc = "page" /\ File \in Rewritten)
    <3>1. PICK file \in Leftovers(File) : raw' = [raw EXCEPT ![g] = file]
      BY <1>2, <2>1 DEF Kill
    <3>2. /\ file \in RawFile \union {NONE}
          /\ CopyOf(IF file = NONE THEN <<>> ELSE file.rows, published[g])
      BY <1>2, <2>1, LeftoversAreCopies
    <3>3. /\ raw' \in [Files -> RawFile \union {NONE}] /\ raw'[g] = file
          /\ \A f \in Files : f # g => raw'[f] = raw[f]
      BY <3>1, <3>2 DEF DInv, TypeInv
    <3>4. CopyInv'
      <4> SUFFICES ASSUME NEW f \in Paged PROVE CopyOf(Rows(f)', published[f])
        BY <1>1 DEF CopyInv
      <4>1. f \in Files
        BY DEF Files
      <4>2. CASE f = g
        BY <3>2, <3>3, <4>2 DEF Rows
      <4>3. CASE f # g
        BY <3>3, <4>1, <4>3 DEF DInv, CopyInv, Rows
      <4> QED
        BY <4>2, <4>3
    <3> QED
      BY <3>3, <3>4
  <2>2. CASE ~ (run.pc = "write" \/ (run.pc = "page" /\ File \in Rewritten))
    <3>1. raw' = raw
      BY <2>2 DEF Kill
    <3> QED
      BY <1>1, <3>1 DEF DInv, TypeInv, CopyInv, Rows
  <2> QED
    BY <2>1, <2>2
<1>9. TypeInv'
  BY <1>1, <1>3, <1>4, <1>6, <1>8 DEF DInv, TypeInv
<1> QED
  BY <1>3, <1>7, <1>8, <1>9 DEF DInv

\* A publisher of pages adds or withdraws a row.
LEMMA Republished ==
    ASSUME DInv, NEW g \in Paged, NEW new \in Seq(Row), Ordered(new),
           \A rows \in Seq(Row) : CopyOf(rows, published[g]) => CopyOf(rows, new),
           published' = [published EXCEPT ![g] = new], spare > 0, spare' = spare - 1,
           UNCHANGED <<raw, inner, outer, manifest, failed, run>>
    PROVE  DInv'
<1>1. g \in Files /\ g \notin Streamed
  BY Kinds DEF Files
<1>2. /\ published' \in [Files -> Seq(Row)] /\ published'[g] = new
      /\ \A f \in Files : f # g => published'[f] = published[f]
  BY <1>1 DEF DInv, TypeInv
<1>3. spare' \in 0 .. MaxFaults
  BY Basics DEF DInv, TypeInv
<1>4. TypeInv'
  BY <1>2, <1>3 DEF DInv, TypeInv
<1>5. \A f \in Paged : f \in Files
  BY DEF Files
<1>6. \A f \in Streamed : f \in Files /\ published'[f] = published[f]
  BY <1>1, <1>2 DEF Files
<1>7. PublisherInv'
  BY <1>2, <1>5, <1>6 DEF DInv, PublisherInv
<1>8. \A f \in Files : Rows(f)' = Rows(f) /\ Rows(f) \in Seq(Row)
  BY RowsTyped DEF Rows, DInv
<1>9. CopyInv'
  BY <1>2, <1>5, <1>8 DEF DInv, CopyInv
<1>10. PartialInv'
  BY <1>6 DEF DInv, PartialInv
<1>11. File' = File
  BY DEF File
<1>12. run.pc = "write" => CopyOf(Rows(File) \o run.body, published'[File])
  <2> SUFFICES ASSUME run.pc = "write" PROVE CopyOf(Rows(File) \o run.body, published'[File])
    OBVIOUS
  <2>1. File \in Files /\ run.body \in Seq(Row) /\ CopyOf(Rows(File) \o run.body, published[File])
    BY AtWork, RunFields DEF DInv, TypeInv, ScriptInv
  <2>2. Rows(File) \o run.body \in Seq(Row)
    BY <1>8, <2>1
  <2> QED
    BY <1>2, <2>1, <2>2
<1>13. run.pc \in {"stream", "validate"} => published'[File] = published[File]
  BY <1>6, YearFacts
<1>14. run.pc # "idle" => Rows(File)' = Rows(File)
  BY <1>8, <1>11, AtWork DEF Rows
<1>15. ScriptInv'
  <2>1. ScriptInv
    BY DEF DInv
  <2> QED
    BY <2>1, <1>11, <1>12, <1>13, <1>14 DEF ScriptInv
<1> QED
  BY <1>4, <1>7, <1>9, <1>10, <1>15 DEF DInv

LEMMA PublishStep == ASSUME DInv, NEW g \in Paged, Publish(g) PROVE DInv'
<1> DEFINE src == published[g]
           e   == [key |-> LastKey(g) + 1, edition |-> 1]
<1>1. src \in Seq(Row) /\ Ordered(src)
  BY DEF DInv, TypeInv, PublisherInv, Files
<1>2. LastKey(g) = IF src = <<>> THEN 0 ELSE src[Len(src)].key
  BY DEF LastKey, Last
<1>3. LastKey(g) \in Nat
  <2>1. CASE src = <<>>
    BY <1>2, <2>1
  <2>2. CASE src # <<>>
    <3>1. Len(src) \in 1 .. Len(src)
      BY <1>1, <2>2
    <3> QED
      BY <1>1, <1>2, <2>2, <3>1, KeysAreNumbers
  <2> QED
    BY <2>1, <2>2
<1>4. e \in Row /\ e.key = (IF src = <<>> THEN 0 ELSE src[Len(src)].key) + 1
  BY <1>2, <1>3 DEF Row
<1>5. /\ published' = [published EXCEPT ![g] = Append(src, e)] /\ spare > 0 /\ spare' = spare - 1
      /\ UNCHANGED <<raw, inner, outer, manifest, failed, run>>
  BY DEF Publish
<1> HIDE DEF e
<1>6. Append(src, e) \in Seq(Row)
  BY <1>1, <1>4
<1>7. /\ Ordered(Append(src, e))
      /\ \A rows \in Seq(Row) : CopyOf(rows, src) => CopyOf(rows, Append(src, e))
  <2> HIDE DEF src
  <2> QED
    BY <1>1, <1>4, CopyPublish
<1> QED
  BY <1>5, <1>6, <1>7, Republished

LEMMA WithdrawStep ==
    ASSUME DInv, NEW g \in Paged, NEW i \in 1 .. Len(published[g]), Withdraw(g, i)
    PROVE  DInv'
<1> DEFINE src == published[g]
<1>1. src \in Seq(Row) /\ Ordered(src) /\ i \in 1 .. Len(src) /\ i < Len(src)
  BY DEF DInv, TypeInv, PublisherInv, Files, Withdraw
<1>2. /\ published' = [published EXCEPT ![g] = RemoveAt(src, i)] /\ spare > 0 /\ spare' = spare - 1
      /\ UNCHANGED <<raw, inner, outer, manifest, failed, run>>
  BY DEF Withdraw
<1>3. RemoveAt(src, i) \in Seq(Row)
  BY <1>1, Removing
<1>4. /\ Ordered(RemoveAt(src, i))
      /\ \A rows \in Seq(Row) : CopyOf(rows, src) => CopyOf(rows, RemoveAt(src, i))
  <2> HIDE DEF src
  <2> QED
    BY <1>1, CopyWithdraw
<1> QED
  BY <1>2, <1>3, <1>4, Republished

\* The yearly file is replaced: nothing is claimed of older copies of it.
LEMMA ReissueStep == ASSUME DInv, NEW g \in Streamed, Reissue(g) PROVE DInv'
<1> DEFINE src == published[g]
           new == Issue(Len(src), src[1].edition + 1)
<1>1. g \in Files /\ g \notin Paged /\ src \in Seq(Row) /\ src # <<>> /\ Len(src) \in Nat \ {0}
  BY Kinds DEF DInv, TypeInv, Files, Reissue
<1>2. /\ published' = [published EXCEPT ![g] = new] /\ spare > 0 /\ spare' = spare - 1
      /\ UNCHANGED <<raw, inner, outer, manifest, failed, run>>
  BY DEF Reissue
<1>3. 1 \in 1 .. Len(src) /\ src[1] \in Row /\ src[1].edition \in Nat /\ src[1].edition >= 1
  <2>1. 1 \in 1 .. Len(src) /\ src[1] \in Row
    BY <1>1
  <2>2. \A k \in 1 .. Len(src) : src[k].edition >= 1
    BY DEF DInv, PublisherInv
  <2>3. \A r \in Row : r.edition \in Nat
    BY DEF Row
  <2> QED
    BY <2>1, <2>2, <2>3
<1>4. /\ new \in Seq(Row) /\ Len(new) = Len(src)
      /\ \A k \in 1 .. Len(src) : new[k].edition = src[1].edition + 1
  <2>1. \A k \in 1 .. Len(src) : [key |-> k, edition |-> src[1].edition + 1] \in Row
    BY <1>3 DEF Row
  <2> QED
    BY <1>1, <2>1 DEF Issue
<1> HIDE DEF new
<1>5. ~ M!NeverReissued(new) /\ \A k \in 1 .. Len(new) : new[k].edition >= 1
  BY <1>3, <1>4 DEF M!NeverReissued
<1>6. /\ published' \in [Files -> Seq(Row)] /\ published'[g] = new
      /\ \A f \in Files : f # g => published'[f] = published[f]
  BY <1>1, <1>2, <1>4 DEF DInv, TypeInv
<1>7. spare' \in 0 .. MaxFaults
  BY <1>2, Basics DEF DInv, TypeInv
<1>8. TypeInv'
  BY <1>2, <1>6, <1>7 DEF DInv, TypeInv
<1>9. /\ \A f \in Paged : f \in Files /\ published'[f] = published[f]
      /\ \A f \in Streamed : f \in Files
  BY <1>1, <1>6 DEF Files
<1>10. PublisherInv'
  BY <1>5, <1>6, <1>9 DEF DInv, PublisherInv
<1>11. CopyInv'
  BY <1>2, <1>9 DEF DInv, CopyInv, Rows
<1>12. PartialInv'
  BY <1>2, <1>5, <1>6, <1>9 DEF DInv, PartialInv
<1>13. File' = File /\ ScriptInv /\ Rows(File)' = Rows(File)
  BY <1>2 DEF File, Rows, DInv
<1>14. run.pc \in {"count", "page", "write"} => published'[File] = published[File]
  BY <1>9 DEF DInv, ScriptInv
<1>15. run.pc \in {"stream", "validate"} =>
           published'[File] = published[File] \/ ~ M!NeverReissued(published'[File])
  BY <1>5, <1>6, YearFacts
<1>16. ScriptInv'
  BY <1>2, <1>13, <1>14, <1>15, ZenonT(60) DEF ScriptInv
<1> QED
  BY <1>8, <1>10, <1>11, <1>12, <1>16 DEF DInv

-----------------------------------------------------------------------------
(* The invariant holds always *)

LEMMA DInvInit == ASSUME Init PROVE DInv
<1>1. \A n \in Nat : /\ Issue(n, 1) \in Seq(Row) /\ Len(Issue(n, 1)) = n
                     /\ \A k \in 1 .. n : Issue(n, 1)[k] = [key |-> k, edition |-> 1]
  BY DEF Issue, Row
<1>2. ASSUME NEW f \in Files
      PROVE  /\ published[f] \in Seq(Row) /\ Len(published[f]) \in Nat
             /\ \A k \in 1 .. Len(published[f]) : published[f][k] = [key |-> k, edition |-> 1]
  <2>1. published[f] = Issue(FirstSize[f], 1) /\ FirstSize[f] \in Nat
    BY DownloadsAssumption DEF Init
  <2> QED
    BY <1>1, <2>1
<1>3. published \in [Files -> Seq(Row)]
  BY <1>2 DEF Init
<1>4. ASSUME NEW f \in Files
      PROVE  Ordered(published[f]) /\ \A k \in 1 .. Len(published[f]) : published[f][k].edition >= 1
  <2>1. ASSUME NEW k \in 1 .. Len(published[f])
        PROVE  published[f][k].key = k /\ published[f][k].edition = 1
    <3>1. published[f][k] = [key |-> k, edition |-> 1]
      BY <1>2
    <3> QED
      BY <3>1
  <2>2. \A k \in 1 .. Len(published[f]) : k \in Nat
    OBVIOUS
  <2> QED
    BY <2>1, <2>2 DEF Ordered, Increasing
<1>5. PublisherInv
  BY <1>4 DEF PublisherInv, Files
<1>6. run \in Runs /\ run.pc = "idle"
  <2>1. 0 \in 0 .. MaxRetries - 1 /\ <<>> \in Seq(Files) /\ <<>> \in Seq(Row)
    BY Basics
  <2> QED
    BY <2>1 DEF Init, Idle, Runs, Pcs
<1>7. ASSUME NEW d \in Datasets PROVE manifest[d] \in [{} -> Seq(Row)] /\ {} \in SUBSET Files
  <2>1. manifest[d] = <<>>
    BY DEF Init
  <2>2. <<>> \in [{} -> Seq(Row)]
    OBVIOUS
  <2> QED
    BY <2>1, <2>2
<1>8. \A d \in Datasets : \E S \in SUBSET Files : manifest[d] \in [S -> Seq(Row)]
  BY <1>7
<1>9. TypeInv
  <2>1. /\ raw \in [Files -> RawFile \union {NONE}]
        /\ inner \in [Streamed -> Seq(Row) \union {NONE}]
        /\ outer \in [Streamed -> Seq(Row) \union {NONE}]
    BY DEF Init
  <2>2. DOMAIN manifest = Datasets /\ failed \subseteq Datasets
    BY DEF Init
  <2>3. spare \in 0 .. MaxFaults
    BY Basics DEF Init
  <2> QED
    BY <1>3, <1>6, <1>8, <2>1, <2>2, <2>3 DEF TypeInv
<1>10. CopyInv
  <2>1. \A f \in Paged : f \in Files /\ Rows(f) = <<>>
    BY DEF Init, Rows, Files
  <2> QED
    BY <1>2, <2>1, EmptyIsCopy DEF CopyInv
<1>11. PartialInv
  BY DEF Init, PartialInv
<1>12. ScriptInv
  BY <1>6 DEF ScriptInv
<1> QED
  BY <1>5, <1>9, <1>10, <1>11, <1>12 DEF DInv

LEMMA DInvStep == ASSUME DInv, [Next]_vars PROVE DInv'
<1>1. CASE UNCHANGED vars
  BY <1>1, ZenonT(60) DEF vars, DInv, TypeInv, PublisherInv, CopyInv, PartialInv, ScriptInv, Rows, File
<1>2. CASE \E c \in Commands, limit \in Limits : Begin(c, limit)
  BY <1>2, BeginStep
<1>3. CASE Preflight
  BY <1>3, PreflightStep
<1>4. CASE CountAnswered
  <2>1. File \in Files /\ run.pc = "count"
    BY <1>4, AtWork DEF CountAnswered
  <2>2. published[File] \in Seq(Row) /\ spare' \in 0 .. MaxFaults
    BY <1>4, <2>1 DEF CountAnswered, DInv, TypeInv
  <2>3. Len(published[File]) \in Nat \union {NONE}
    BY <2>2
  <2> QED
    BY <1>4, <2>1, <2>2, <2>3, CountedStep DEF CountAnswered
<1>5. CASE CountFails
  <2>1. spare' \in 0 .. MaxFaults
    BY <1>5, Basics DEF CountFails, DInv, TypeInv
  <2> QED
    BY <1>5, <2>1, CountedStep DEF CountFails
<1>6. CASE GetPage
  BY <1>6, GetPageStep
<1>7. CASE WritePage
  BY <1>7, WritePageStep
<1>8. CASE BeginYear
  BY <1>8, BeginYearStep
<1>9. CASE Get
  BY <1>9, GetStep
<1>10. CASE Stream
  BY <1>10, StreamStep
<1>11. CASE Validate
  BY <1>11, ValidateStep
<1>12. CASE RecordEntry
  BY <1>12, RecordEntryStep
<1>13. CASE RequestFails
  BY <1>13, RequestFailsStep
<1>14. CASE StreamBreaks
  BY <1>14, StreamBreaksStep
<1>15. CASE Kill
  BY <1>15, KillStep
<1>16. CASE \E f \in Paged : Publish(f)
  BY <1>16, PublishStep
<1>17. CASE \E f \in Paged : \E i \in 1 .. Len(published[f]) : Withdraw(f, i)
  BY <1>17, WithdrawStep
<1>18. CASE \E f \in Streamed : Reissue(f)
  BY <1>18, ReissueStep
<1> QED
  BY <1>1, <1>2, <1>3, <1>4, <1>5, <1>6, <1>7, <1>8, <1>9, <1>10, <1>11, <1>12, <1>13, <1>14,
     <1>15, <1>16, <1>17, <1>18 DEF Next, Progress

LEMMA AlwaysDInv == DownloadsSpec => []DInv
<1>1. Init => DInv
  BY DInvInit
<1>2. DInv /\ [Next]_vars => DInv'
  BY DInvStep
<1> QED
  BY <1>1, <1>2, PTL DEF DownloadsSpec

-----------------------------------------------------------------------------
(* The scripts implement Mirror *)

\* What Mirror sees: the copies and the entries.
Copies == [f \in Files |-> IF raw[f] = NONE THEN NONE ELSE raw[f].rows]
Entries == [f \in Files |-> IF manifest[Dataset[f]] = CORRUPT THEN NONE
                            ELSE IF f \in DOMAIN manifest[Dataset[f]]
                                 THEN manifest[Dataset[f]][f] ELSE NONE]

MirrorStep == M!MirrorNext \/ UNCHANGED <<published, Copies, Entries>>

LEMMA MirrorActions ==
    /\ \A f \in Files : M!Publication(f) <=>
          /\ published' = [published EXCEPT ![f] = published'[f]]
          /\ UNCHANGED <<Copies, Entries>>
    /\ \A f \in Files : M!List(f) <=>
          /\ Entries' = [Entries EXCEPT ![f] = M!RowsOf(Copies[f])]
          /\ UNCHANGED <<published, Copies>>
    /\ \A f \in Files : M!Extend(f) <=>
          /\ Copies' = [Copies EXCEPT ![f] = Copies'[f]]
          /\ IsPrefix(M!RowsOf(Copies[f]), M!RowsOf(Copies'[f]))
          /\ M!Faithful(M!RowsOf(Copies'[f]), published[f])
          /\ UNCHANGED <<published, Entries>>
    /\ \A f \in Files : M!Rewrite(f) <=>
          /\ Copies' = [Copies EXCEPT ![f] = Copies'[f]]
          /\ M!Faithful(M!RowsOf(Copies'[f]), published[f])
          /\ UNCHANGED <<published, Entries>>
    /\ \A f \in Files : M!Expose(f) <=>
          /\ Copies[f] = NONE
          /\ Copies' = [Copies EXCEPT ![f] = Copies'[f]]
          /\ Copies'[f] # NONE /\ Copies'[f] # <<>>
          /\ M!NeverReissued(published[f]) => Copies'[f] = published[f]
          /\ UNCHANGED <<published, Entries>>
    /\ \A d \in Datasets : M!Forget(d) <=>
          /\ Entries' = [f \in Files |-> IF Dataset[f] = d THEN NONE ELSE Entries[f]]
          /\ UNCHANGED <<published, Copies>>
  BY DEF M!Publication, M!List, M!Extend, M!Rewrite, M!Expose, M!Forget, M!Files, Files, Paged,
         M!IsPrefix, IsPrefix, Copies, Entries

LEMMA MirrorNextIs ==
    M!MirrorNext <=> \/ \E f \in Files : M!Publication(f) \/ M!List(f)
                     \/ \E f \in Appended : M!Extend(f)
                     \/ \E f \in Rewritten : M!Rewrite(f)
                     \/ \E f \in Streamed : M!Expose(f)
                     \/ \E d \in Datasets : M!Forget(d)
  BY DEF M!MirrorNext, M!Files, Files, Paged, Datasets

LEMMA SubscriptIs == MirrorStep => [M!MirrorNext]_(M!mirrorVars)
  BY DEF MirrorStep, M!mirrorVars, Copies, Entries, Files, Paged, M!Files

LEMMA CopyAt ==
    ASSUME TypeInv, NEW f \in Files
    PROVE  /\ Copies[f] = (IF raw[f] = NONE THEN NONE ELSE raw[f].rows)
           /\ Copies[f] = NONE <=> raw[f] = NONE
           /\ M!RowsOf(Copies[f]) = Rows(f) /\ Rows(f) \in Seq(Row)
<1>1. Copies[f] = (IF raw[f] = NONE THEN NONE ELSE raw[f].rows)
  BY DEF Copies
<1>2. raw[f] # NONE => raw[f].rows # NONE
  BY RowsTyped, Basics
<1> QED
  BY <1>1, <1>2, RowsTyped DEF M!RowsOf, Rows

LEMMA CopiesKept ==
    ASSUME \A f \in Files : /\ raw'[f] = NONE <=> raw[f] = NONE
                            /\ raw[f] # NONE => raw'[f].rows = raw[f].rows
    PROVE  Copies' = Copies
  BY DEF Copies

LEMMA OneCopyTaken ==
    ASSUME TypeInv, NEW g \in Files, NEW file, raw' = [raw EXCEPT ![g] = file]
    PROVE  Copies' = [Copies EXCEPT ![g] = Copies'[g]]
<1>1. \A f \in Files : f # g => raw'[f] = raw[f]
  BY DEF TypeInv
<1> DEFINE C == Copies
           N == Copies'
<1>2. \A f \in Files : f # g => N[f] = C[f]
  BY <1>1 DEF Copies
<1>3. C = [f \in Files |-> C[f]] /\ N = [f \in Files |-> N[f]]
  BY DEF Copies
<1> HIDE DEF C, N
<1>4. N = [C EXCEPT ![g] = N[g]]
  BY <1>2, <1>3
<1> QED
  BY <1>4 DEF C, N

LEMMA EntriesKept == ASSUME UNCHANGED manifest PROVE Entries' = Entries
  BY DEF Entries

\* A paged file is written.
LEMMA PageMirrored ==
    ASSUME DInv, DInv', NEW g \in Paged, NEW file, raw' = [raw EXCEPT ![g] = file],
           g \in Appended => IsPrefix(Rows(g), Rows(g)'), UNCHANGED <<published, manifest>>
    PROVE  MirrorStep
<1>1. g \in Files
  BY DEF Files
<1>2. Copies' = [Copies EXCEPT ![g] = Copies'[g]] /\ Entries' = Entries
  BY <1>1, OneCopyTaken, EntriesKept DEF DInv
<1>3. M!RowsOf(Copies[g]) = Rows(g)
  BY <1>1, CopyAt DEF DInv
<1>4. M!RowsOf(Copies'[g]) = Rows(g)' /\ Rows(g)' \in Seq(Row)
  <2>1. raw'[g] \in RawFile \union {NONE}
    BY <1>1 DEF DInv, TypeInv
  <2>2. \A r \in RawFile : r.rows \in Seq(Row)
    BY DEF RawFile
  <2>3. Copies'[g] = IF raw'[g] = NONE THEN NONE ELSE raw'[g].rows
    BY <1>1 DEF Copies
  <2>4. Rows(g)' = IF raw'[g] = NONE THEN <<>> ELSE raw'[g].rows
    BY DEF Rows
  <2> QED
    BY <2>1, <2>2, <2>3, <2>4, Basics DEF M!RowsOf
<1>5. M!Faithful(Rows(g)', published[g])
  <2>1. published[g] \in Seq(Row) /\ CopyOf(Rows(g)', published[g])
    BY <1>1 DEF DInv, CopyInv, TypeInv
  <2> QED
    BY <1>4, <2>1, CopyIsFaithful
<1>6. CASE g \in Appended
  BY <1>1, <1>2, <1>3, <1>4, <1>5, <1>6, MirrorActions, MirrorNextIs DEF MirrorStep
<1>7. CASE g \in Rewritten
  BY <1>1, <1>2, <1>4, <1>5, <1>7, MirrorActions, MirrorNextIs DEF MirrorStep
<1> QED
  BY <1>6, <1>7 DEF Paged

LEMMA PublicationMirrored ==
    ASSUME DInv, NEW g \in Files, NEW new, published' = [published EXCEPT ![g] = new],
           UNCHANGED <<raw, manifest>>
    PROVE  MirrorStep
<1>1. published' = [published EXCEPT ![g] = published'[g]]
  BY DEF DInv, TypeInv
<1>2. Copies' = Copies /\ Entries' = Entries
  BY CopiesKept, EntriesKept
<1> QED
  BY <1>1, <1>2, MirrorActions, MirrorNextIs DEF MirrorStep

LEMMA NothingMirrored ==
    ASSUME UNCHANGED <<published, raw, manifest>>
    PROVE  MirrorStep
  BY CopiesKept, EntriesKept DEF MirrorStep

LEMMA BeginMirrored ==
    ASSUME DInv, NEW c \in Commands, NEW limit \in Limits, Begin(c, limit)
    PROVE  MirrorStep
<1>1. ASSUME NEW f \in Files
      PROVE  /\ raw'[f] = NONE <=> raw[f] = NONE
             /\ raw[f] # NONE => raw'[f].rows = raw[f].rows
  <2>1. raw'[f] = IF f = c[1] /\ f \in Appended THEN RepairPartialLastLine(raw[f]) ELSE raw[f]
    BY DEF Begin
  <2>2. raw[f] \in RawFile \union {NONE}
    BY DEF DInv, TypeInv
  <2>3. ASSUME raw[f] # NONE
        PROVE  /\ RepairPartialLastLine(raw[f]) \in RawFile
               /\ RepairPartialLastLine(raw[f]).rows = raw[f].rows
    BY <2>2, <2>3 DEF RepairPartialLastLine, RawFile
  <2>4. raw[f] = NONE => RepairPartialLastLine(raw[f]) = NONE
    BY DEF RepairPartialLastLine
  <2> QED
    BY <2>1, <2>2, <2>3, <2>4, Basics
<1>2. Copies' = Copies
  BY <1>1, CopiesKept
<1> QED
  BY <1>2, EntriesKept DEF Begin, MirrorStep

LEMMA CountedMirrored ==
    ASSUME DInv, DInv', run.pc = "count", NEW n \in Nat \union {NONE}, Counted(n)
    PROVE  MirrorStep
<1>1. UNCHANGED <<published, manifest>>
  BY DEF Counted
<1>2. PICK g \in Paged : g = File
  BY DEF DInv, ScriptInv
<1>3. CASE g \in Appended
  <2>1. raw' = raw
    BY <1>2, <1>3 DEF Counted
  <2> QED
    BY <1>1, <2>1, NothingMirrored
<1>4. CASE g \notin Appended
  <2>1. raw' = [raw EXCEPT ![g] = Empty]
    BY <1>2, <1>4 DEF Counted
  <2> QED
    BY <1>1, <1>4, <2>1, PageMirrored
<1> QED
  BY <1>3, <1>4

LEMMA WritePageMirrored == ASSUME DInv, DInv', WritePage PROVE MirrorStep
<1> DEFINE new == Extended(IF raw[File] = NONE THEN Empty ELSE raw[File], run.body)
<1>1. /\ run.pc = "write" /\ raw' = [raw EXCEPT ![File] = new]
      /\ UNCHANGED <<published, manifest>>
  BY DEF WritePage
<1>2. PICK g \in Paged : g = File
  BY <1>1 DEF DInv, ScriptInv
<1>3. new \in RawFile /\ new.rows = Rows(g) \o run.body
  BY <1>1, <1>2, Written
<1> HIDE DEF new
<1>4. g \in Files /\ Rows(g) \in Seq(Row) /\ run.body \in Seq(Row)
  BY RowsTyped, RunFields DEF Files, DInv, TypeInv
<1>5. raw' = [raw EXCEPT ![g] = new] /\ raw'[g] = new
  BY <1>1, <1>2, <1>4 DEF DInv, TypeInv
<1>6. Rows(g)' = Rows(g) \o run.body
  BY <1>3, <1>5, Basics DEF Rows
<1>7. IsPrefix(Rows(g), Rows(g)')
  BY <1>4, <1>6, Joined
<1> QED
  BY <1>1, <1>5, <1>7, PageMirrored

LEMMA ValidateMirrored == ASSUME DInv, DInv', Validate PROVE MirrorStep
<1>1. run.pc = "validate" /\ UNCHANGED <<published, manifest>>
  BY DEF Validate
<1>2. PICK g \in Streamed : g = File
  BY <1>1, YearFacts
<1>3. g \in Files /\ outer[g] # NONE /\ outer[g] \in Seq(Row) /\ raw[g] = NONE
      /\ (M!NeverReissued(published[g]) => outer[g] = published[g])
  BY <1>1, <1>2 DEF DInv, TypeInv, ScriptInv, Files
<1>4. CASE outer[g] = <<>>
  BY <1>1, <1>2, <1>4, NothingMirrored DEF Validate
<1>5. CASE outer[g] # <<>>
  <2> DEFINE new == [rows |-> outer[g], torn |-> FALSE]
  <2>1. raw' = [raw EXCEPT ![g] = new]
    BY <1>2, <1>5 DEF Validate
  <2>2. new \in RawFile /\ new.rows = outer[g]
    BY <1>3 DEF RawFile
  <2> HIDE DEF new
  <2>3. raw'[g] = new
    BY <1>3, <2>1 DEF DInv, TypeInv
  <2>4. Copies'[g] = outer[g]
    BY <1>3, <2>2, <2>3, Basics DEF Copies
  <2>5. Copies[g] = NONE
    BY <1>3, CopyAt DEF DInv
  <2>6. Copies' = [Copies EXCEPT ![g] = Copies'[g]] /\ Entries' = Entries
    BY <1>1, <1>3, <2>1, OneCopyTaken, EntriesKept DEF DInv
  <2>7. M!Expose(g)
    BY <1>1, <1>3, <1>5, <2>4, <2>5, <2>6, MirrorActions
  <2> QED
    BY <2>7, MirrorNextIs DEF MirrorStep
<1> QED
  BY <1>4, <1>5

LEMMA RecordEntryMirrored == ASSUME DInv, RecordEntry PROVE MirrorStep
<1>1. run.pc = "record" /\ UNCHANGED <<published, raw>>
  BY DEF RecordEntry
<1>2. PICK g \in Files : g = File
  <2>1. run.pc # "idle"
    BY <1>1
  <2> QED
    BY <2>1, AtWork
<1> DEFINE d == Dataset[g]
           others == IF manifest[d] = CORRUPT THEN {} ELSE DOMAIN manifest[d] \ {g}
           new == [f \in others \union {g} |-> IF f = g THEN Rows(g) ELSE manifest[d][f]]
<1>3. d \in Datasets /\ DOMAIN manifest = Datasets /\ \A f \in Files : Dataset[f] \in Datasets
  BY DEF Datasets, DInv, TypeInv
<1>4. manifest' = [manifest EXCEPT ![d] = new]
  BY <1>2 DEF RecordEntry, Listed
<1>5. manifest'[d] = new /\ \A e \in Datasets : e # d => manifest'[e] = manifest[e]
  BY <1>3, <1>4
<1>6. new # CORRUPT
  <2>1. \E S \in SUBSET Files : Listed(d, g, Rows(g)) \in [S -> Seq(Row)]
    BY <1>3, ListedTyped, RowsTyped DEF DInv
  <2>2. Listed(d, g, Rows(g)) = new
    BY DEF Listed
  <2> QED
    BY <2>1, <2>2, NoFileAssumption
<1>7. Entries'[g] = Rows(g)
  BY <1>5, <1>6 DEF Entries
<1>8. ASSUME NEW f \in Files, f # g PROVE Entries'[f] = Entries[f]
  <2>1. CASE Dataset[f] # d
    BY <1>3, <1>5, <2>1 DEF Entries
  <2>2. CASE Dataset[f] = d
    <3>1. Entries'[f] = IF f \in others THEN manifest[d][f] ELSE NONE
      BY <1>5, <1>6, <1>8, <2>2 DEF Entries
    <3>2. Entries[f] = IF f \in others THEN manifest[d][f] ELSE NONE
      BY <1>8, <2>2 DEF Entries
    <3> QED
      BY <3>1, <3>2
  <2> QED
    BY <2>1, <2>2
<1>9. Entries' = [Entries EXCEPT ![g] = Rows(g)]
  <2> DEFINE E == Entries
             N == Entries'
  <2>1. E = [f \in Files |-> E[f]] /\ N = [f \in Files |-> N[f]]
    BY DEF Entries
  <2>2. N[g] = Rows(g) /\ \A f \in Files : f # g => N[f] = E[f]
    BY <1>7, <1>8
  <2> HIDE DEF E, N
  <2>3. N = [E EXCEPT ![g] = Rows(g)]
    BY <2>1, <2>2
  <2> QED
    BY <2>3 DEF E, N
<1>10. Copies' = Copies /\ M!RowsOf(Copies[g]) = Rows(g)
  BY <1>1, CopiesKept, CopyAt DEF DInv
<1>11. M!List(g)
  BY <1>1, <1>9, <1>10, MirrorActions
<1> QED
  BY <1>11, MirrorNextIs DEF MirrorStep

LEMMA KillMirrored == ASSUME DInv, DInv', Kill PROVE MirrorStep
<1>1. run.pc # "idle" /\ UNCHANGED published
  BY DEF Kill
<1>2. PICK g \in Files : g = File /\ Dataset[g] \in Datasets
  BY <1>1, AtWork
<1>3. CASE run.pc = "write" \/ (run.pc = "page" /\ File \in Rewritten)
  <2>1. manifest' = manifest /\ g \in Paged
    BY <1>2, <1>3 DEF Kill, DInv, ScriptInv
  <2>2. PICK file \in Leftovers(File) : raw' = [raw EXCEPT ![g] = file]
    BY <1>2, <1>3 DEF Kill
  <2>3. raw'[g] = file
    BY <2>2 DEF DInv, TypeInv
  <2>4. g \in Appended => IsPrefix(Rows(g), IF file = NONE THEN <<>> ELSE file.rows)
    BY <1>2, <1>3, LeftoversAreCopies
  <2>5. g \in Appended => IsPrefix(Rows(g), Rows(g)')
    BY <2>3, <2>4 DEF Rows
  <2> QED
    BY <1>1, <2>1, <2>2, <2>5, PageMirrored
<1>4. CASE ~ (run.pc = "write" \/ (run.pc = "page" /\ File \in Rewritten))
  <2>1. raw' = raw
    BY <1>4 DEF Kill
  <2>2. CASE manifest' = manifest
    BY <1>1, <2>1, <2>2, NothingMirrored
  <2>3. CASE manifest' = [manifest EXCEPT ![Dataset[g]] = CORRUPT]
    <3> DEFINE d == Dataset[g]
    <3>1. DOMAIN manifest = Datasets /\ \A f \in Files : Dataset[f] \in Datasets
      BY DEF Datasets, DInv, TypeInv
    <3>2. manifest'[d] = CORRUPT /\ \A e \in Datasets : e # d => manifest'[e] = manifest[e]
      BY <1>2, <2>3, <3>1
    <3>3. Entries' = [f \in Files |-> IF Dataset[f] = d THEN NONE ELSE Entries[f]]
      BY <3>1, <3>2 DEF Entries
    <3>4. M!Forget(d)
      BY <1>1, <1>2, <2>1, <3>3, CopiesKept, MirrorActions
    <3> QED
      BY <1>2, <3>4, MirrorNextIs DEF MirrorStep
  <2> QED
    BY <1>2, <2>2, <2>3 DEF Kill
<1> QED
  BY <1>3, <1>4

LEMMA NextMirrored == ASSUME DInv, DInv', [Next]_vars PROVE MirrorStep
<1>1. CASE \/ Preflight \/ GetPage \/ BeginYear \/ Get \/ Stream \/ RequestFails \/ StreamBreaks
           \/ UNCHANGED vars
  <2>1. UNCHANGED <<published, raw, manifest>>
    BY <1>1 DEF Preflight, GetPage, BeginYear, Get, Stream, RequestFails, StreamBreaks, vars
  <2> QED
    BY <2>1, NothingMirrored
<1>2. CASE \E c \in Commands, limit \in Limits : Begin(c, limit)
  BY <1>2, BeginMirrored
<1>3. CASE CountAnswered
  <2>1. File \in Files /\ run.pc = "count"
    BY <1>3, AtWork DEF CountAnswered
  <2>2. Len(published[File]) \in Nat \union {NONE}
    BY <2>1, RowsTyped DEF DInv
  <2> QED
    BY <1>3, <2>1, <2>2, CountedMirrored DEF CountAnswered
<1>4. CASE CountFails
  BY <1>4, CountedMirrored DEF CountFails
<1>5. CASE WritePage
  BY <1>5, WritePageMirrored
<1>6. CASE Validate
  BY <1>6, ValidateMirrored
<1>7. CASE RecordEntry
  BY <1>7, RecordEntryMirrored
<1>8. CASE Kill
  BY <1>8, KillMirrored
<1>9. CASE \/ \E f \in Paged : Publish(f)
           \/ \E f \in Paged : \E i \in 1 .. Len(published[f]) : Withdraw(f, i)
           \/ \E f \in Streamed : Reissue(f)
  <2>1. PICK g \in Files : \E new : /\ published' = [published EXCEPT ![g] = new]
                                    /\ UNCHANGED <<raw, manifest>>
    BY <1>9 DEF Publish, Withdraw, Reissue, Files
  <2> QED
    BY <2>1, PublicationMirrored
<1> QED
  BY <1>1, <1>2, <1>3, <1>4, <1>5, <1>6, <1>7, <1>8, <1>9 DEF Next, Progress

\* The download scripts implement the mirror, with any files, page size and
\* number of retries: pages, partial files, repairs, retries, kills and what
\* the publisher withdraws or issues anew never show in a raw file but as
\* another faithful copy.  (The safety part of it; Mirror has no other.)
THEOREM DownloadsImplementMirror == DownloadsSpec => ImplementsMirror
<1>1. Init => M!MirrorInit
  <2> SUFFICES ASSUME Init PROVE M!MirrorInit
    OBVIOUS
  <2>1. \A f \in Files : raw[f] = NONE
    BY DEF Init
  <2>2. \A f \in Files : manifest[Dataset[f]] = <<>>
    BY DEF Init, Datasets
  <2>3. <<>> # CORRUPT
    <3>1. <<>> \in [{} -> Seq(Row)] /\ {} \in SUBSET Files
      OBVIOUS
    <3> QED
      BY <3>1, NoFileAssumption
  <2>4. Copies = [f \in Files |-> NONE] /\ Entries = [f \in Files |-> NONE]
    BY <2>1, <2>2, <2>3 DEF Copies, Entries
  <2> QED
    BY <2>4 DEF M!MirrorInit, Copies, Entries, Files, Paged, M!Files
<1>2. DInv /\ DInv' /\ [Next]_vars => [M!MirrorNext]_(M!mirrorVars)
  BY NextMirrored, SubscriptIs
<1> QED
  BY <1>1, <1>2, AlwaysDInv, PTL DEF DownloadsSpec, ImplementsMirror, M!MirrorSpec

-----------------------------------------------------------------------------
(* What is listed stays in the file *)

\* The same, said of what Mirror sees.
ListedInv ==
    \A f \in Appended \union Streamed : Entries[f] # NONE => IsPrefix(Entries[f], Rows(f))

LEMMA EntriesTyped ==
    ASSUME TypeInv, NEW f \in Files
    PROVE  Entries[f] \in Seq(Row) \union {NONE}
<1>1. CASE manifest[Dataset[f]] = CORRUPT
  BY <1>1 DEF Entries
<1>2. CASE manifest[Dataset[f]] # CORRUPT
  <2>1. PICK S \in SUBSET Files : manifest[Dataset[f]] \in [S -> Seq(Row)]
    BY <1>2 DEF TypeInv, Datasets
  <2> QED
    BY <1>2, <2>1 DEF Entries
<1> QED
  BY <1>1, <1>2

LEMMA ListedStep ==
    ASSUME DInv, DInv', ListedInv, MirrorStep
    PROVE  ListedInv'
<1> SUFFICES ASSUME NEW f \in Appended \union Streamed, Entries'[f] # NONE
             PROVE  IsPrefix(Entries'[f], Rows(f)')
  BY DEF ListedInv
<1>1. f \in Files /\ f \notin Rewritten
  BY Kinds DEF Files, Paged
<1>2. /\ Rows(f) \in Seq(Row) /\ Entries[f] \in Seq(Row) \union {NONE}
      /\ Entries[f] # NONE => IsPrefix(Entries[f], Rows(f))
      /\ M!RowsOf(Copies[f]) = Rows(f) /\ (Copies[f] = NONE <=> raw[f] = NONE)
  BY <1>1, RowsTyped, EntriesTyped, CopyAt DEF DInv, ListedInv
<1>3. Rows(f)' \in Seq(Row) /\ M!RowsOf(Copies'[f]) = Rows(f)'
  <2>1. raw'[f] \in RawFile \union {NONE}
    BY <1>1 DEF DInv, TypeInv
  <2>2. \A r \in RawFile : r.rows \in Seq(Row)
    BY DEF RawFile
  <2>3. Copies'[f] = IF raw'[f] = NONE THEN NONE ELSE raw'[f].rows
    BY <1>1 DEF Copies
  <2>4. Rows(f)' = IF raw'[f] = NONE THEN <<>> ELSE raw'[f].rows
    BY DEF Rows
  <2> QED
    BY <2>1, <2>2, <2>3, <2>4, Basics DEF M!RowsOf
<1>4. DOMAIN Copies = Files /\ DOMAIN Entries = Files
  BY DEF Copies, Entries
<1>5. ASSUME IsPrefix(Rows(f), Rows(f)'), Entries' = Entries
      PROVE  IsPrefix(Entries'[f], Rows(f)')
  BY <1>2, <1>3, <1>5, PrefixTransitive
<1>6. ASSUME Copies'[f] = Copies[f]
      PROVE  Rows(f)' = Rows(f) /\ IsPrefix(Rows(f), Rows(f)')
  BY <1>2, <1>3, <1>6, PrefixOfSelf
<1>7. CASE Entries' = Entries /\ Copies' = Copies
  BY <1>5, <1>6, <1>7
<1>8. CASE \E g \in Files : M!Publication(g)
  BY <1>5, <1>6, <1>8, MirrorActions
<1>9. CASE \E g \in Files : M!List(g)
  <2>1. PICK g \in Files : /\ Entries' = [Entries EXCEPT ![g] = M!RowsOf(Copies[g])]
                           /\ Copies' = Copies
    BY <1>9, MirrorActions
  <2>2. CASE f = g
    BY <1>1, <1>2, <1>4, <1>6, <2>1, <2>2
  <2>3. CASE f # g
    <3>1. Entries'[f] = Entries[f]
      BY <1>1, <1>4, <2>1, <2>3
    <3> QED
      BY <1>2, <1>6, <2>1, <3>1
  <2> QED
    BY <2>2, <2>3
<1>10. CASE \E g \in Appended : M!Extend(g)
  <2>1. PICK g \in Files : /\ Copies' = [Copies EXCEPT ![g] = Copies'[g]] /\ Entries' = Entries
                           /\ IsPrefix(M!RowsOf(Copies[g]), M!RowsOf(Copies'[g]))
    BY <1>10, MirrorActions DEF Files, Paged
  <2>2. CASE f = g
    BY <1>2, <1>3, <1>5, <2>1, <2>2
  <2>3. CASE f # g
    <3>1. Copies'[f] = Copies[f]
      BY <1>1, <1>4, <2>1, <2>3
    <3> QED
      BY <1>5, <1>6, <2>1, <3>1
  <2> QED
    BY <2>2, <2>3
<1>11. CASE \E g \in Rewritten : M!Rewrite(g)
  <2>1. PICK g \in Rewritten : Copies' = [Copies EXCEPT ![g] = Copies'[g]] /\ Entries' = Entries
    BY <1>11, MirrorActions DEF Files, Paged
  <2>2. Copies'[f] = Copies[f]
    BY <1>1, <1>4, <2>1
  <2> QED
    BY <1>5, <1>6, <2>1, <2>2
<1>12. CASE \E g \in Streamed : M!Expose(g)
  <2>1. PICK g \in Files : /\ Copies[g] = NONE /\ Copies' = [Copies EXCEPT ![g] = Copies'[g]]
                           /\ Entries' = Entries
    BY <1>12, MirrorActions DEF Files
  <2>2. CASE f = g
    <3>1. Rows(f) = <<>>
      BY <1>2, <2>1, <2>2 DEF Rows
    <3> QED
      BY <1>3, <1>5, <2>1, <3>1, PrefixOfSelf
  <2>3. CASE f # g
    <3>1. Copies'[f] = Copies[f]
      BY <1>1, <1>4, <2>1, <2>3
    <3> QED
      BY <1>5, <1>6, <2>1, <3>1
  <2> QED
    BY <2>2, <2>3
<1>13. CASE \E d \in Datasets : M!Forget(d)
  <2>1. PICK d \in Datasets :
            /\ Entries' = [e \in Files |-> IF Dataset[e] = d THEN NONE ELSE Entries[e]]
            /\ Copies' = Copies
    BY <1>13, MirrorActions
  <2>2. Entries'[f] = Entries[f]
    BY <1>1, <2>1
  <2> QED
    BY <1>2, <1>6, <2>1, <2>2
<1> QED
  BY <1>7, <1>8, <1>9, <1>10, <1>11, <1>12, <1>13, MirrorNextIs DEF MirrorStep

\* What the manifest lists of Chicago's file and of the years is still in the
\* file, whatever is killed and run again, with any files, page size and number
\* of retries: it is what Mirror's steps may do to an appended file and to a
\* yearly one.  And the state is typed.
THEOREM ListedRowsAlwaysStay == DownloadsSpec => []ListedRowsStay
<1>1. Init => ListedInv
  <2> SUFFICES ASSUME Init, NEW f \in Appended \union Streamed PROVE Entries[f] = NONE
    BY DEF ListedInv
  <2>1. f \in Files /\ manifest[Dataset[f]] = <<>>
    BY DEF Init, Datasets, Files, Paged
  <2> QED
    BY <2>1 DEF Entries
<1>2. DInv /\ DInv' /\ ListedInv /\ [Next]_vars => ListedInv'
  BY NextMirrored, ListedStep
<1>3. DInv /\ ListedInv => ListedRowsStay
  <2> SUFFICES ASSUME DInv, ListedInv PROVE ListedRowsStay
    OBVIOUS
  <2>1. DownloadsTypeOK
    <3>1. \A f \in Files : published[f] \in Seq(Row) /\ (raw[f] # NONE => raw[f] \in RawFile)
      BY DEF DInv, TypeInv
    <3>2. run.tries < MaxRetries
      BY RunFields, Basics DEF DInv, TypeInv
    <3> QED
      BY <3>1, <3>2 DEF DInv, TypeInv, DownloadsTypeOK
  <2>2. ASSUME NEW f \in Appended \union Streamed, manifest[Dataset[f]] # CORRUPT,
               f \in DOMAIN manifest[Dataset[f]]
        PROVE  IsPrefix(manifest[Dataset[f]][f], Rows(f))
    <3>1. f \in Files /\ Entries[f] = manifest[Dataset[f]][f]
      BY <2>2 DEF Entries, Files, Paged
    <3>2. manifest[Dataset[f]][f] \in Seq(Row)
      BY <2>2, <3>1 DEF DInv, TypeInv, Datasets
    <3> QED
      BY <3>1, <3>2, Basics DEF ListedInv
  <2> QED
    BY <2>1, <2>2 DEF ListedRowsStay
<1> QED
  BY <1>1, <1>2, <1>3, AlwaysDInv, PTL DEF DownloadsSpec
=============================================================================
