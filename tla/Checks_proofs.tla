--------------------------- MODULE Checks_proofs ---------------------------
(***************************************************************************)
(* Theorems about the checks that look into a dataset, for any dataset,    *)
(* array and order.                                                        *)
(***************************************************************************)
EXTENDS Checks, FiniteSetTheorems, WellFoundedInduction, TLAPS

-----------------------------------------------------------------------------
(* Minima and maxima. *)

\* A non-empty set of natural numbers contains its minimum, which nothing in it is below.
LEMMA MinIn ==
    ASSUME NEW S \in SUBSET Nat, S # {}
    PROVE  Min(S) \in S /\ \A y \in S : Min(S) =< y
<1> DEFINE Below == OpToRel(<, Nat)
<1>1. Below = {p \in Nat \X Nat : p[1] < p[2]}
  BY DEF OpToRel
<1>2. PICK x \in S : \A y \in S : ~ (<<y, x>> \in Below)
  <2>1. IsWellFoundedOn(Below, Nat)
    BY NatLessThanWellFounded
  <2> HIDE DEF Below
  <2> QED
    BY <2>1, WFMin
<1>3. ASSUME NEW y \in S PROVE x =< y
  <2> HIDE DEF Below
  <2>1. <<y, x>> \in Nat \X Nat /\ ~ (<<y, x>> \in Below)
    BY <1>2
  <2>2. ~ (y < x)
    BY <1>1, <2>1
  <2> QED
    BY <2>2
<1> QED
  BY <1>3 DEF Min

\* A non-empty set of natural numbers up to some n contains its maximum, which nothing exceeds.
LEMMA MaxIn ==
    ASSUME NEW n \in Nat, NEW S \in SUBSET (0 .. n), S # {}
    PROVE  Max(S) \in S /\ \A y \in S : Max(S) >= y
<1> DEFINE Gaps == {n - x : x \in S}
<1>1. Gaps \in SUBSET Nat /\ Gaps # {}
  <2>1. \A x \in S : n - x \in Nat
    OBVIOUS
  <2> QED
    BY <2>1
<1>2. Min(Gaps) \in Gaps /\ \A y \in Gaps : Min(Gaps) =< y
  <2> HIDE DEF Gaps
  <2> QED
    BY <1>1, MinIn
<1>3. PICK x \in S : Min(Gaps) = n - x
  BY <1>2
<1>4. \A y \in S : x >= y
  BY <1>2, <1>3
<1> QED
  BY <1>4 DEF Max

\* The larger of two numbers.
LEMMA MaxOfTwo == ASSUME NEW m \in Int, NEW n \in Int PROVE Max({m, n}) = IF m >= n THEN m ELSE n
  BY DEF Max

\* The smaller of two numbers.
LEMMA MinOfTwo == ASSUME NEW m \in Int, NEW n \in Int PROVE Min({m, n}) = IF m =< n THEN m ELSE n
  BY DEF Min

-----------------------------------------------------------------------------
(* Ranks. *)

\* A later element has a higher rank, by one if it is the next.
LEMMA RanksRise ==
    ASSUME NEW S \in SUBSET Nat, IsFiniteSet(S), NEW p \in Nat, NEW e \in S, p < e
    PROVE  /\ Rank(S, p) \in Nat /\ Rank(S, e) \in Nat /\ Rank(S, p) + 1 =< Rank(S, e)
           /\ (\A i \in S : ~(p < i /\ i < e)) => Rank(S, e) = Rank(S, p) + 1
<1> DEFINE P == {i \in S : i <= p}
           E == {i \in S : i <= e}
<1>1. e \in Nat /\ \A i \in S : i \in Nat
  OBVIOUS
<1>2. IsFiniteSet(P) /\ IsFiniteSet(E)
  BY <1>1, FS_Subset
<1>3. e \notin P /\ P \cup {e} \subseteq E
  <2>1. \A i \in S : i <= p => i <= e
    BY <1>1
  <2>2. ~(e <= p) /\ e <= e
    BY <1>1
  <2> QED
    BY <2>1, <2>2, Zenon
<1>4. IsFiniteSet(P \cup {e}) /\ Cardinality(P \cup {e}) = Cardinality(P) + 1
  BY <1>2, <1>3, FS_AddElement
<1>5. Cardinality(P) \in Nat /\ Cardinality(E) \in Nat /\ Cardinality(P \cup {e}) =< Cardinality(E)
  BY <1>2, <1>3, <1>4, FS_CardinalityType, FS_Subset
<1>6. (\A i \in S : ~(p < i /\ i < e)) => E = P \cup {e}
  <2>1. \A i \in S : i <= e => i <= p \/ i = e \/ (p < i /\ i < e)
    BY <1>1
  <2> QED
    BY <1>3, <2>1, Zenon
<1> QED
  BY <1>4, <1>5, <1>6 DEF Rank

\* There is an element of every rank: the least one whose rank is not lower.
LEMMA NthIn ==
    ASSUME NEW n \in Nat, NEW S \in SUBSET (0 .. n), NEW k \in 1 .. Cardinality(S)
    PROVE  Nth(S, k) \in S /\ Rank(S, Nth(S, k)) = k
<1>1. IsFiniteSet(S) /\ S \in SUBSET Nat /\ Cardinality(S) \in Nat /\ k \in Nat /\ 1 <= k
  <2>1. IsFiniteSet(0 .. n)
    BY FS_Interval
  <2>2. IsFiniteSet(S)
    BY <2>1, FS_Subset
  <2>3. Cardinality(S) \in Nat
    BY <2>2, FS_CardinalityType
  <2> QED
    BY <2>2, <2>3
<1>2. k <= Cardinality(S)
  BY <1>1
<1> DEFINE High == {x \in S : k <= Rank(S, x)}
<1>3. High # {}
  <2>1. S # {}
    BY <1>1, <1>2, FS_EmptySet
  <2>2. Max(S) \in S /\ \A y \in S : Max(S) >= y
    BY <2>1, MaxIn
  <2>3. {y \in S : y <= Max(S)} = S
    BY <1>1, <2>2
  <2>4. Rank(S, Max(S)) = Cardinality(S)
    BY <2>3 DEF Rank
  <2> QED
    BY <1>2, <2>2, <2>4
<1>4. PICK x \in High : \A y \in High : x =< y
  <2>1. High \in SUBSET Nat
    BY <1>1
  <2> HIDE DEF High
  <2> QED
    BY <1>3, <2>1, MinIn
<1>5. x \in S /\ x \in Nat /\ k <= Rank(S, x)
  BY <1>1, <1>4
<1> DEFINE Low == {y \in S : y < x}
<1>6. Rank(S, x) = k
  <2>1. CASE Low = {}
    <3>1. {y \in S : y <= x} = {x}
      <4>1. \A y \in S : y \in Nat /\ ~(y < x)
        BY <1>1, <2>1
      <4>2. \A y \in S : y <= x => y = x
        BY <1>5, <4>1
      <4>3. x <= x
        BY <1>5
      <4> QED
        BY <1>5, <4>2, <4>3, Zenon
    <3>2. Rank(S, x) = 1
      BY <3>1, FS_Singleton DEF Rank
    <3> QED
      BY <1>1, <1>5, <3>2
  <2>2. CASE Low # {}
    <3>1. Low \in SUBSET (0 .. n)
      OBVIOUS
    <3>2. PICK p \in Low : \A y \in Low : p >= y
      <4> HIDE DEF Low
      <4> QED
        BY <2>2, <3>1, MaxIn
    <3>3. p \in S /\ p \in Nat /\ p < x /\ \A i \in S : ~(p < i /\ i < x)
      <4>1. p \in S /\ p \in Nat /\ p < x
        BY <1>1
      <4>2. ASSUME NEW i \in S, p < i, i < x PROVE FALSE
        <5>1. i \in Low /\ i \in Nat
          BY <1>1, <4>2
        <5>2. p >= i
          BY <3>2, <5>1
        <5> QED
          BY <4>1, <4>2, <5>1, <5>2
      <4> QED
        BY <4>1, <4>2
    <3>4. Rank(S, p) \in Nat /\ Rank(S, x) = Rank(S, p) + 1
      BY <1>1, <1>5, <3>3, RanksRise
    <3>5. ~(k <= Rank(S, p))
      BY <1>4, <1>5, <3>3
    <3> QED
      BY <1>1, <1>5, <3>4, <3>5
  <2> QED
    BY <2>1, <2>2
<1> QED
  BY <1>5, <1>6 DEF Nth

-----------------------------------------------------------------------------
(* Quotients and remainders. *)

\* The quotient and the remainder of p by n.
LEMMA QuotientAndRemainder ==
    ASSUME NEW n \in Nat \ {0}, NEW p \in Nat
    PROVE  /\ p \div n \in Nat /\ p % n \in 0 .. n - 1 /\ p = (p \div n) * n + (p % n)
           /\ \A c \in Nat : p < n * c => p \div n < c
<1> DEFINE q == p \div n
           r == p % n
<1>1. q \in Nat /\ r \in 0 .. n - 1 /\ p = q * n + r
  OBVIOUS
<1>2. ASSUME NEW c \in Nat, p < n * c, ~(q < c) PROVE FALSE
  <2> HIDE DEF q, r
  <2>1. \A x, y, z \in Nat : x <= y => x * z <= y * z
    OBVIOUS
  <2>2. c * n <= q * n
    BY <1>1, <1>2, <2>1
  <2>3. n * c = c * n /\ c * n \in Nat /\ q * n \in Nat
    BY <1>1
  <2> QED
    BY <1>1, <1>2, <2>2, <2>3
<1> QED
  BY <1>1, <1>2

\* There is one only.
LEMMA OneQuotient ==
    ASSUME NEW n \in Nat \ {0}, NEW q \in Nat, NEW r \in 0 .. n - 1
    PROVE  (q * n + r) \div n = q /\ (q * n + r) % n = r
<1> DEFINE p == q * n + r
           d == p \div n
           m == p % n
<1>1. p \in Nat
  OBVIOUS
<1>2. d \in Nat /\ m \in 0 .. n - 1 /\ p = d * n + m
  <2> HIDE DEF p
  <2> QED
    BY <1>1, QuotientAndRemainder
<1>3. q * n + r = d * n + m
  BY <1>2
<1> SUFFICES d = q /\ m = r
  OBVIOUS
<1> HIDE DEF d, m, p
<1>4. \A x, y, z \in Nat : x <= y => x * z <= y * z
  OBVIOUS
<1>5. \A x \in Nat : (x + 1) * n = x * n + n /\ x * n \in Nat
  OBVIOUS
<1>6. ~(q < d)
  <2> SUFFICES ASSUME q < d PROVE FALSE
    OBVIOUS
  <2>1. (q + 1) * n <= d * n
    BY <1>2, <1>4
  <2> QED
    BY <1>2, <1>3, <1>5, <2>1
<1>7. ~(d < q)
  <2> SUFFICES ASSUME d < q PROVE FALSE
    OBVIOUS
  <2>1. (d + 1) * n <= q * n
    BY <1>2, <1>4
  <2> QED
    BY <1>2, <1>3, <1>5, <2>1
<1>8. d = q
  BY <1>2, <1>6, <1>7
<1> QED
  BY <1>2, <1>3, <1>5, <1>8

-----------------------------------------------------------------------------
(* Splits. *)

\* The lists of partitions: positions are numbers up to some n, a form is by path or by field.
ListsOK == \A g \in Groups : /\ \E n \in Nat : Index(g) \subseteq 1 .. n
                             /\ \A i \in Index(g) : ds.parts[g][i].by \in {"path", "field"}

\* What an answer consists of.  The rows that it reports are those of its files, unless they are
\* a predicate's, for which nobody counts.
Given(g, want) ==
    /\ read.group = g
    /\ read.want = want
    /\ read.paths \subseteq FilesOf(g)
    /\ read.splits = SplitPaths(g, want)
    /\ read.split_rows = SplitRows(g, want)
    /\ read.how = "unsplit" => read.paths = Matching(Unsplit(g), want)
    /\ read.predicate = "none" \/ want # Flat => Reported(read.rows, read.paths, want)

\* Answers are given about what Gate A accepted, and it has not changed since.
SplitsInv ==
    /\ verdict \in {"declared", "landed", "accepted", "rejected"}
    /\ verdict = "declared" => ds \in Datasets
    /\ verdict # "declared" => ListsOK
    /\ verdict = "accepted" => Accepts
    /\ read # NoRead => /\ verdict = "accepted"
                        /\ \E g \in Groups, want \in Labels \cup {Flat} : Given(g, want)

\* Gate A's verdict depends on the dataset alone.
LEMMA SameVerdict ==
    ASSUME ds' = ds
    PROVE  Accepts' <=> Accepts
<1>1. MissingRequiredSplit' <=> MissingRequiredSplit
  BY DEF MissingRequiredSplit, Declared, Index
<1>2. ASSUME NEW g PROVE GlobEmpty(g)' <=> GlobEmpty(g)
  BY DEF GlobEmpty, ByPath, Index, Selects, Selected, FilesOf
<1>3. ASSUME NEW g PROVE NotAPartition(g)' <=> NotAPartition(g)
  BY DEF NotAPartition, NotDisjoint, NotCovered, PathsOf, ByName, Named, ByPath, Index, Selects,
     Selected, FilesOf
<1>4. ASSUME NEW g PROVE Leakage(g)' <=> Leakage(g)
  BY DEF Leakage, PathsOf, ByName, Named, ByPath, Index, Selects, Selected, FilesOf
<1>5. ASSUME NEW g PROVE RowsMissing(g)' <=> RowsMissing(g)
  BY DEF RowsMissing, Index
<1>6. ASSUME NEW g PROVE RowsWrong(g)' <=> RowsWrong(g)
  BY DEF RowsWrong, ByPath, Index, Selects, Selected, FilesOf, Countable, CountOf,
     MapThenSumSet, MapThenFoldSet
<1>7. ASSUME NEW g PROVE LabelsWrong(g)' <=> LabelsWrong(g)
  BY DEF LabelsWrong, FilesOf
<1>8. (UndeclaredSplit' <=> UndeclaredSplit) /\ (EmptySplit' <=> EmptySplit)
  BY DEF UndeclaredSplit, EmptySplit, Observed, AllDeclared, Declared, Index
<1> QED
  BY <1>1, <1>2, <1>3, <1>4, <1>5, <1>6, <1>7, <1>8 DEF Accepts

\* Neither do the lists and an answer change with a step that leaves the dataset alone.
LEMMA SameLists == ASSUME ds' = ds PROVE ListsOK' <=> ListsOK
  BY DEF ListsOK, Index

\* What an answer says depends on the dataset alone.
LEMMA SameHelpers ==
    ASSUME ds' = ds, NEW g, NEW want, NEW fs, NEW r
    PROVE  /\ FilesOf(g)' = FilesOf(g)
           /\ SplitPaths(g, want)' = SplitPaths(g, want)
           /\ SplitRows(g, want)' = SplitRows(g, want)
           /\ Unsplit(g)' = Unsplit(g)
           /\ Matching(fs, want)' = Matching(fs, want)
           /\ Reported(r, fs, want)' <=> Reported(r, fs, want)
<1>1. FilesOf(g)' = FilesOf(g)
  BY DEF FilesOf
<1>2. SplitPaths(g, want)' = SplitPaths(g, want)
  BY DEF SplitPaths, Declared, Named, Index, LastNamed, Selected, FilesOf, Matching
<1>3. SplitRows(g, want)' = SplitRows(g, want)
  BY DEF SplitRows, RowsOf, SumOf, OneUnit, SplitPaths, Declared, Named, Index, LastNamed,
     Selected, FilesOf, Matching, Countable, CountOf, MapThenSumSet, MapThenFoldSet
<1>4. Unsplit(g)' = Unsplit(g)
  BY DEF Unsplit, Declared, Named, Index, FirstNamed, Selected, FilesOf, NamedHeldOut
<1>5. Matching(fs, want)' = Matching(fs, want)
  BY DEF Matching
<1>6. Reported(r, fs, want)' <=> Reported(r, fs, want)
  BY DEF Reported, OneUnit, Countable, CountOf, MapThenSumSet, MapThenFoldSet
<1> QED
  BY <1>1, <1>2, <1>3, <1>4, <1>5, <1>6
\* What a partition of a name is: one in the list of its group.
LEMMA Chosen ==
    ASSUME ListsOK, NEW g \in Groups, NEW n \in Declared(g)
    PROVE  /\ \E i \in Index(g) : ds.parts[g][i].name = n /\ FirstNamed(g, n) = ds.parts[g][i]
           /\ \E i \in Index(g) : ds.parts[g][i].name = n /\ LastNamed(g, n) = ds.parts[g][i]
<1>1. PICK k \in Nat : Index(g) \subseteq 1 .. k
  BY DEF ListsOK
<1>2. Named(g, n) \in SUBSET Nat /\ Named(g, n) \in SUBSET (0 .. k) /\ Named(g, n) # {}
  BY <1>1 DEF Named, Declared
<1>3. Min(Named(g, n)) \in Named(g, n) /\ Max(Named(g, n)) \in Named(g, n)
  BY <1>1, <1>2, MinIn, MaxIn
<1> QED
  BY <1>3 DEF FirstNamed, LastNamed, Named

\* An accepted partition by path declares the rows of the files it selects.
LEMMA RowsOfAccepted ==
    ASSUME Accepts, NEW g \in Groups, NEW i \in Index(g), ds.parts[g][i].by = "path"
    PROVE  LET fs == Selected(g, ds.parts[g][i])
           IN  Reported(RowsOf(ds.parts[g][i], fs, Flat), fs, Flat)
<1>1. ~RowsWrong(g) /\ i \in ByPath(g)
  BY DEF Accepts, ByPath
<1>2. \A fs : OneUnit(fs) => Countable(fs) # {}
  BY DEF OneUnit
<1> QED
  BY <1>1, <1>2 DEF RowsWrong, Reported, RowsOf, Selects

\* Totals are nobody's but those of the files that are handed out.
LEMMA TotalsReported ==
    ASSUME NEW fs, NEW want
    PROVE  /\ Reported(SumOf(fs), fs, want) /\ Reported(NoRows, fs, Flat)
           /\ Reported(NoRows, {}, want)
<1>1. ~OneUnit({})
  BY DEF OneUnit, Countable
<1> QED
  BY <1>1 DEF Reported, SumOf

\* Every answer to a read is as it should be.
LEMMA ReadGiven ==
    ASSUME ListsOK, Accepts, Read
    PROVE  \E g \in Groups, want \in Labels \cup {Flat} : Given(g, want)'
<1>1. PICK g \in Groups, want \in Labels \cup {Flat} :
         ReadUnsplit(g, want) \/ ReadAll(g, want) \/ \E s \in SPLITS : ReadSplit(g, s, want)
  BY DEF Read
<1>2. ds' = ds
  BY <1>1 DEF ReadUnsplit, ReadAll, ReadSplit, Ask
<1>3. ASSUME NEW how, NEW paths, NEW total, NEW predicate,
             read' = Answer(g, how, want, paths, total, predicate),
             paths \subseteq FilesOf(g),
             how = "unsplit" => paths = Matching(Unsplit(g), want),
             predicate = "none" \/ want # Flat => Reported(total, paths, want)
      PROVE  Given(g, want)'
  <2>1. /\ read'.group = g /\ read'.want = want /\ read'.how = how /\ read'.paths = paths
        /\ read'.rows = total /\ read'.predicate = predicate
        /\ read'.splits = SplitPaths(g, want) /\ read'.split_rows = SplitRows(g, want)
    BY <1>3 DEF Answer
  <2>2. /\ FilesOf(g)' = FilesOf(g) /\ SplitPaths(g, want)' = SplitPaths(g, want)
        /\ SplitRows(g, want)' = SplitRows(g, want)
    BY <1>2, SameHelpers
  <2>3. how = "unsplit" => Matching(Unsplit(g), want)' = Matching(Unsplit(g), want)
    BY <1>2 DEF Matching, Unsplit, Declared, Named, Index, FirstNamed, Selected, FilesOf,
       NamedHeldOut
  <2>4. Reported(read.rows, read.paths, want)' <=> Reported(total, paths, want)
    BY <1>2, <2>1 DEF Reported, OneUnit, Countable, CountOf, MapThenSumSet, MapThenFoldSet
  <2> QED
    BY <1>3, <2>1, <2>2, <2>3, <2>4 DEF Given
<1>4. \A fs : fs \subseteq FilesOf(g) => Matching(fs, want) \subseteq FilesOf(g)
  BY DEF Matching
<1>5. \A p : Selected(g, p) \subseteq FilesOf(g)
  BY DEF Selected
<1>6. CASE ReadUnsplit(g, want)
  <2> DEFINE paths == Matching(Unsplit(g), want)
  <2>1. read' = Answer(g, "unsplit", want, paths, IF want = Flat THEN NoRows ELSE SumOf(paths), "none")
    BY <1>6 DEF ReadUnsplit
  <2>2. Unsplit(g) \subseteq FilesOf(g)
    BY <1>5 DEF Unsplit
  <2>3. paths \subseteq FilesOf(g)
    BY <1>4, <2>2
  <2>4. Reported(IF want = Flat THEN NoRows ELSE SumOf(paths), paths, want)
    BY TotalsReported
  <2> QED
    BY <1>3, <2>1, <2>3, <2>4
<1>7. CASE ReadAll(g, want)
  <2> DEFINE paths == Matching(FilesOf(g), want)
  <2>1. read' = Answer(g, "all", want, paths, IF want = Flat THEN NoRows ELSE SumOf(paths), "none")
    BY <1>7 DEF ReadAll
  <2>2. paths \subseteq FilesOf(g)
    BY <1>4
  <2>3. Reported(IF want = Flat THEN NoRows ELSE SumOf(paths), paths, want)
    BY TotalsReported
  <2> HIDE DEF paths
  <2> QED
    BY <1>3, <2>1, <2>2, <2>3
<1>8. ASSUME NEW s \in SPLITS, ReadSplit(g, s, want)
      PROVE  Given(g, want)'
  <2>0. s # "unsplit" /\ s # "none"
    BY DEF SPLITS
  <2>1. CASE s \in Declared(g)
    <3> DEFINE p     == FirstNamed(g, s)
               paths == Matching(Selected(g, p), want)
               total  == RowsOf(p, paths, want)
               predicate == IF p.by = "field" THEN s ELSE "none"
    <3>1. read' = Answer(g, s, want, paths, total, predicate)
      BY <1>8, <2>1 DEF ReadSplit
    <3>2. paths \subseteq FilesOf(g)
      BY <1>4, <1>5
    <3>3. PICK i \in Index(g) : p = ds.parts[g][i]
      BY <2>1, Chosen
    <3>4. p.by \in {"path", "field"}
      BY <3>3 DEF ListsOK
    <3>5. want # Flat => Reported(total, paths, want)
      BY TotalsReported DEF RowsOf
    <3>6. want = Flat /\ p.by = "path" => Reported(total, paths, want)
      BY <3>3, RowsOfAccepted DEF Matching
    <3>7. predicate = "none" \/ want # Flat => Reported(total, paths, want)
      BY <2>0, <3>4, <3>5, <3>6
    <3> HIDE DEF paths, total, predicate
    <3> QED
      BY <1>3, <2>0, <3>1, <3>2, <3>7
  <2>2. CASE s \notin Declared(g)
    <3>1. read' = Answer(g, s, want, {}, NoRows, "none")
      BY <1>8, <2>2 DEF ReadSplit
    <3> QED
      BY <1>3, <2>0, <3>1, TotalsReported
  <2> QED
    BY <2>1, <2>2
<1> QED
  BY <1>1, <1>6, <1>7, <1>8

\* What publish() does to the declarations: positions and forms stay.
LEMMA LandKeepsLists ==
    ASSUME Land, ds \in Datasets
    PROVE  ListsOK'
<1>1. ds.parts \in [Groups -> Seq(Partitions)] /\ ds \in DatasetRecs
  BY SplitsAssumption DEF DatasetRecs
<1>2. ASSUME NEW g \in Groups
      PROVE  /\ Len(ds.parts[g]) \in Nat /\ Index(g) = 1 .. Len(ds.parts[g])
             /\ \A i \in Index(g) : ds.parts[g][i] \in Partitions
  BY <1>1 DEF Index
<1>3. ASSUME NEW g \in Groups
      PROVE  /\ DOMAIN Complete(g) \subseteq Index(g)
             /\ \A i \in DOMAIN Complete(g) : Complete(g)[i] = FillIn(g, ds.parts[g][i])
  BY DEF Complete, Resolve, Restrict, Index
<1>4. ASSUME NEW g, NEW p \in Partitions PROVE FillIn(g, p).by = p.by
  BY DEF FillIn, Partitions
<1>5. \A p \in Partitions : p.by \in {"path", "field"}
  BY DEF Partitions
<1>6. ASSUME NEW g \in Groups
      PROVE  DOMAIN ds'.parts[g] \subseteq Index(g)
             /\ \A i \in DOMAIN ds'.parts[g] : ds'.parts[g][i].by \in {"path", "field"}
  <2>1. CASE ds.byHand
    <3>1. ds' = ds
      BY <2>1 DEF Land
    <3> QED
      BY <1>2, <1>5, <3>1 DEF Index
  <2>2. CASE ~ds.byHand
    <3>1. ds' = [ds EXCEPT !.parts = [h \in Groups |-> Complete(h)], !.label = ds.place]
      BY <2>2 DEF Land
    <3>2. ds'.parts = [h \in Groups |-> Complete(h)]
      BY <1>1, <3>1 DEF DatasetRecs
    <3>3. ds'.parts[g] = Complete(g)
      BY <3>2
    <3>4. ASSUME NEW i \in DOMAIN Complete(g) PROVE Complete(g)[i].by \in {"path", "field"}
      BY <1>2, <1>3, <1>4, <1>5
    <3> QED
      BY <1>3, <3>3, <3>4
  <2> QED
    BY <2>1, <2>2
<1> QED
  BY <1>2, <1>6 DEF ListsOK, Index

\* A dataset that a producer declares satisfies it.
LEMMA InitSplitsInv == SplitsInit => SplitsInv
  BY DEF SplitsInit, SplitsFresh, SplitsInv

\* Every step on a dataset keeps the invariant.
LEMMA NextSplitsInv == SplitsInv /\ [SplitsNext]_splitVars => SplitsInv'
<1> SUFFICES ASSUME SplitsInv, [SplitsNext]_splitVars PROVE SplitsInv'
  OBVIOUS
<1>1. CASE Land
  <2>1. ds \in Datasets /\ verdict' = "landed" /\ read' = read /\ read = NoRead
    BY <1>1 DEF Land, SplitsInv
  <2>2. NoRead' = NoRead
    BY DEF NoRead
  <2>3. ListsOK'
    BY <1>1, <2>1, LandKeepsLists
  <2> QED
    BY <2>1, <2>2, <2>3 DEF SplitsInv
<1>2. CASE Validate
  <2>1. /\ verdict = "landed" /\ ds' = ds /\ read' = read /\ read = NoRead
        /\ verdict' \in {"accepted", "rejected"} /\ (verdict' = "accepted" => Accepts)
    BY <1>2 DEF Validate, SplitsInv
  <2>2. NoRead' = NoRead
    BY DEF NoRead
  <2>3. ListsOK' /\ (Accepts' <=> Accepts)
    BY <2>1, SameLists, SameVerdict DEF SplitsInv
  <2> QED
    BY <2>1, <2>2, <2>3 DEF SplitsInv
<1>3. CASE Read
  <2>1. verdict = "accepted" /\ ds' = ds /\ verdict' = verdict
    BY <1>3 DEF Read, ReadUnsplit, ReadAll, ReadSplit, Ask
  <2>2. ListsOK /\ Accepts
    BY <2>1 DEF SplitsInv
  <2>3. ListsOK' /\ Accepts'
    BY <2>1, <2>2, SameLists, SameVerdict
  <2>4. \E g \in Groups, want \in Labels \cup {Flat} : Given(g, want)'
    BY <1>3, <2>2, ReadGiven
  <2> QED
    BY <2>1, <2>3, <2>4 DEF SplitsInv
<1>4. CASE UNCHANGED splitVars
  <2>1. ds' = ds /\ verdict' = verdict /\ read' = read /\ NoRead' = NoRead
    BY <1>4 DEF splitVars, NoRead
  <2>2. (ListsOK' <=> ListsOK) /\ (Accepts' <=> Accepts)
    BY <2>1, SameLists, SameVerdict
  <2>3. ASSUME NEW g, NEW want, Given(g, want) PROVE Given(g, want)'
    <3>1. /\ FilesOf(g)' = FilesOf(g) /\ SplitPaths(g, want)' = SplitPaths(g, want)
          /\ SplitRows(g, want)' = SplitRows(g, want)
      BY <2>1, SameHelpers
    <3>2. Matching(Unsplit(g), want)' = Matching(Unsplit(g), want)
      BY <2>1 DEF Matching, Unsplit, Declared, Named, Index, FirstNamed, Selected, FilesOf,
         NamedHeldOut
    <3>3. Reported(read.rows, read.paths, want)' <=> Reported(read.rows, read.paths, want)
      BY <2>1 DEF Reported, OneUnit, Countable, CountOf, MapThenSumSet, MapThenFoldSet
    <3> QED
      BY <2>1, <2>3, <3>1, <3>2, <3>3 DEF Given
  <2> QED
    BY <2>1, <2>2, <2>3 DEF SplitsInv
<1> QED
  BY <1>1, <1>2, <1>3, <1>4 DEF SplitsNext

\* In a group that names each partition once, a name stands for one position.
LEMMA OneOfAName ==
    ASSUME ListsOK, NEW g \in Groups, NamedOnce(g), NEW i \in Index(g)
    PROVE  LET n == ds.parts[g][i].name
           IN  /\ n \in Declared(g)
               /\ FirstNamed(g, n) = ds.parts[g][i]
               /\ LastNamed(g, n) = ds.parts[g][i]
               /\ i \in ByPath(g) => n \in ByName(g) /\ PathsOf(g, n) = Selects(g, i)
<1> DEFINE n == ds.parts[g][i].name
<1>1. PICK k \in Nat : Index(g) \subseteq 1 .. k
  BY DEF ListsOK
<1>2. Named(g, n) = {i}
  BY DEF Named, NamedOnce
<1>3. Min({i}) = i /\ Max({i}) = i
  BY <1>1 DEF Min, Max
<1>4. n \in Declared(g) /\ FirstNamed(g, n) = ds.parts[g][i] /\ LastNamed(g, n) = ds.parts[g][i]
  BY <1>2, <1>3 DEF Declared, FirstNamed, LastNamed
<1>5. ASSUME i \in ByPath(g) PROVE n \in ByName(g) /\ PathsOf(g, n) = Selects(g, i)
  <2>1. Named(g, n) \cap ByPath(g) = {i}
    BY <1>2, <1>5
  <2> QED
    BY <1>3, <1>5, <2>1 DEF ByName, PathsOf
<1> QED
  BY <1>4, <1>5

\* An accepted group shares no file between a trainable and a held-out partition by path.
LEMMA NothingLeaks ==
    ASSUME ListsOK, Accepts, NEW g \in Groups, NamedOnce(g), NEW i \in ByPath(g), NEW j \in ByPath(g),
           is_trainable(ds.parts[g][i].name), ds.parts[g][j].name \in HeldOutSplits
    PROVE  Selects(g, i) \cap Selects(g, j) = {}
<1> DEFINE t == ds.parts[g][i].name
           h == ds.parts[g][j].name
<1>1. i \in Index(g) /\ j \in Index(g)
  BY DEF ByPath
<1>2. t \in ByName(g) /\ PathsOf(g, t) = Selects(g, i)
  BY <1>1, OneOfAName
<1>3. h \in ByName(g) /\ PathsOf(g, h) = Selects(g, j)
  BY <1>1, OneOfAName
<1>4. ~Leakage(g)
  BY DEF Accepts
<1> QED
  BY <1>2, <1>3, <1>4 DEF Leakage, is_trainable

\* Every partition that an accepted dataset declares is a split of the vocabulary.
LEMMA DeclaredIsSplit == ASSUME Accepts, NEW g \in Groups PROVE Declared(g) \subseteq SPLITS
  BY DEF Accepts, EmptySplit, AllDeclared, Observed

\* What is accepted and asked for without a split is for training.
LEMMA SplitsInvUnsplit == SplitsInv => UnsplitIsTrainable
<1> SUFFICES ASSUME SplitsInv, read # NoRead, read.how = "unsplit"
             PROVE  LET g == read.group
                    IN  /\ \A f \in read.paths : ~NamedHeldOut(f)
                        /\ NamedOnce(g) /\ "train" \in ByName(g) => read.paths \cap HeldOutOf(g) = {}
  BY DEF UnsplitIsTrainable
<1>1. verdict = "accepted" /\ ListsOK /\ Accepts
  BY DEF SplitsInv
<1>2. PICK g \in Groups, want \in Labels \cup {Flat} : Given(g, want)
  BY DEF SplitsInv
<1>3. read.group = g /\ read.paths \subseteq Unsplit(g)
  BY <1>2 DEF Given, Matching
<1>4. \A f \in Unsplit(g) : ~NamedHeldOut(f)
  BY DEF Unsplit
<1>5. ASSUME NamedOnce(g), "train" \in ByName(g), NEW f \in read.paths, f \in HeldOutOf(g)
      PROVE  FALSE
  <2>1. PICK i \in ByPath(g) : ds.parts[g][i].name = "train"
    BY <1>5 DEF ByName
  <2>2. PICK j \in ByPath(g) : ds.parts[g][j].name \in HeldOutSplits /\ f \in Selects(g, j)
    BY <1>5 DEF HeldOutOf
  <2>3. i \in Index(g) /\ "train" \in Declared(g) /\ FirstNamed(g, "train") = ds.parts[g][i]
    BY <1>1, <1>5, <2>1, OneOfAName DEF ByPath
  <2>4. {n \in Declared(g) : is_trainable(n)} = {"train"}
    BY <2>3 DEF is_trainable, TRAINABLE_SPLITS
  <2>5. f \in Selected(g, FirstNamed(g, "train"))
    BY <1>3, <2>4 DEF Unsplit
  <2>6. f \in Selects(g, i)
    BY <2>3, <2>5 DEF Selects
  <2>7. is_trainable("train")
    BY DEF is_trainable, TRAINABLE_SPLITS
  <2> QED
    BY <1>1, <1>5, <2>1, <2>2, <2>6, <2>7, NothingLeaks
<1> QED
  BY <1>3, <1>4, <1>5

\* A file in both unions would lie in a trainable and in a held-out partition.
LEMMA SplitsInvTrainVal == SplitsInv => TrainValDisjoint
<1> SUFFICES ASSUME SplitsInv, read # NoRead, NamedOnce(read.group), AllByPath(read.group),
                    NEW f, f \in Train(read), f \in Val(read)
             PROVE  FALSE
  BY DEF TrainValDisjoint
<1>1. verdict = "accepted" /\ ListsOK /\ Accepts
  BY DEF SplitsInv
<1>2. PICK g \in Groups, want \in Labels \cup {Flat} : Given(g, want)
  BY DEF SplitsInv
<1>3. read.group = g /\ read.splits = SplitPaths(g, want)
  BY <1>2 DEF Given
<1>4. /\ DOMAIN read.splits = Declared(g)
      /\ \A n \in Declared(g) : read.splits[n] \subseteq Selected(g, LastNamed(g, n))
  BY <1>3 DEF SplitPaths, Matching
<1>5. PICK m \in Declared(g) : is_trainable(m) /\ f \in Selected(g, LastNamed(g, m))
  BY <1>4 DEF Train
<1>6. PICK n \in Declared(g) : ~is_trainable(n) /\ f \in Selected(g, LastNamed(g, n))
  BY <1>4 DEF Val
<1>7. PICK i \in Index(g) : ds.parts[g][i].name = m /\ LastNamed(g, m) = ds.parts[g][i]
  BY <1>1, Chosen
<1>8. PICK j \in Index(g) : ds.parts[g][j].name = n /\ LastNamed(g, n) = ds.parts[g][j]
  BY <1>1, Chosen
<1>9. i \in ByPath(g) /\ j \in ByPath(g) /\ NamedOnce(g)
  BY <1>3 DEF AllByPath
<1>10. n \in HeldOutSplits
  BY <1>1, <1>6, DeclaredIsSplit DEF HeldOutSplits, is_trainable
<1>11. f \in Selects(g, i) /\ f \in Selects(g, j)
  BY <1>5, <1>6, <1>7, <1>8 DEF Selects
<1> QED
  BY <1>1, <1>5, <1>7, <1>8, <1>9, <1>10, <1>11, NothingLeaks

\* A partition that is disjoint and covers everything gives every file one split.
LEMMA SplitsInvCoverage == SplitsInv => CoverageIsExact
<1> SUFFICES ASSUME SplitsInv, read # NoRead, ds.coverage[read.group] = "partition",
                    Index(read.group) # {}, NamedOnce(read.group), AllByPath(read.group),
                    NEW f \in Matching(FilesOf(read.group), read.want)
             PROVE  \E n \in DOMAIN read.splits : \A m \in DOMAIN read.splits :
                       f \in read.splits[m] <=> m = n
  BY DEF CoverageIsExact
<1>1. verdict = "accepted" /\ ListsOK /\ Accepts
  BY DEF SplitsInv
<1>2. PICK g \in Groups, want \in Labels \cup {Flat} : Given(g, want)
  BY DEF SplitsInv
<1>3. read.group = g /\ read.want = want /\ read.splits = SplitPaths(g, want) /\ NamedOnce(g)
  BY <1>2 DEF Given
<1>4. ASSUME NEW n \in Declared(g)
      PROVE  n \in ByName(g) /\ read.splits[n] = Matching(PathsOf(g, n), want)
  <2>1. PICK i \in Index(g) : ds.parts[g][i].name = n /\ LastNamed(g, n) = ds.parts[g][i]
    BY <1>1, Chosen
  <2>2. i \in ByPath(g)
    BY <1>3 DEF AllByPath
  <2>3. n \in ByName(g) /\ PathsOf(g, n) = Selects(g, i)
    BY <1>1, <1>3, <2>1, <2>2, OneOfAName
  <2> QED
    BY <1>3, <2>1, <2>3 DEF SplitPaths, Selects
<1>5. ByName(g) # {} /\ ByName(g) \subseteq Declared(g)
  BY <1>3 DEF AllByPath, ByName, ByPath, Declared
<1>6. ~NotDisjoint(g) /\ ~NotCovered(g)
  BY <1>1, <1>3, <1>5 DEF Accepts, NotAPartition
<1>7. PICK n \in ByName(g) : f \in PathsOf(g, n)
  BY <1>3, <1>6 DEF NotCovered, Matching
<1>8. \A m \in ByName(g) : f \in PathsOf(g, m) => m = n
  BY <1>6, <1>7 DEF NotDisjoint
<1>9. \A fs : f \in Matching(fs, want) <=> f \in fs
  BY <1>3 DEF Matching
<1>10. DOMAIN read.splits = Declared(g)
  BY <1>3 DEF SplitPaths
<1> QED
  BY <1>4, <1>5, <1>7, <1>8, <1>9, <1>10

\* Rows come from an accepted partition, or are summed up.
LEMMA SplitsInvRows == SplitsInv => RowsAreSelected
<1> SUFFICES ASSUME SplitsInv, read # NoRead
             PROVE  /\ read.predicate = "none" \/ read.want # Flat =>
                          Reported(read.rows, read.paths, read.want)
                    /\ \A n \in DOMAIN read.splits :
                          LastNamed(read.group, n).by = "path" \/ read.want # Flat =>
                              Reported(read.split_rows[n], read.splits[n], read.want)
  BY DEF RowsAreSelected
<1>1. verdict = "accepted" /\ ListsOK /\ Accepts
  BY DEF SplitsInv
<1>2. PICK g \in Groups, want \in Labels \cup {Flat} : Given(g, want)
  BY DEF SplitsInv
<1>3. /\ read.group = g /\ read.want = want
      /\ read.splits = SplitPaths(g, want) /\ read.split_rows = SplitRows(g, want)
  BY <1>2 DEF Given
<1>4. ASSUME NEW n \in DOMAIN read.splits, LastNamed(g, n).by = "path" \/ want # Flat
      PROVE  Reported(read.split_rows[n], read.splits[n], want)
  <2> DEFINE p     == LastNamed(g, n)
             paths == Matching(Selected(g, p), want)
  <2>1. n \in Declared(g) /\ read.splits[n] = paths
    BY <1>3 DEF SplitPaths
  <2>2. read.split_rows[n] = RowsOf(p, paths, want)
    BY <1>3, <2>1 DEF SplitRows
  <2>3. CASE want = Flat
    <3>1. PICK i \in Index(g) : p = ds.parts[g][i]
      BY <1>1, <2>1, Chosen
    <3>2. Reported(RowsOf(p, Selected(g, p), Flat), Selected(g, p), Flat)
      BY <1>1, <1>4, <2>3, <3>1, RowsOfAccepted
    <3> QED
      BY <2>1, <2>2, <2>3, <3>2 DEF Matching
  <2>4. CASE want # Flat
    <3> HIDE DEF paths
    <3> QED
      BY <2>1, <2>2, <2>4, TotalsReported DEF RowsOf
  <2> QED
    BY <2>3, <2>4
<1> QED
  BY <1>2, <1>3, <1>4 DEF Given

-----------------------------------------------------------------------------
(* Tokens. *)

\* The numbers of a shard.
LEMMA ArrayIs ==
    ASSUME array \in Arrays
    PROVE  /\ array.file.ids \in Seq(Nat) /\ Len(array.file.ids) \in Nat
           /\ Width \in {1, 2} /\ array.file.as.width \in {1, 2} /\ Size \in Nat
           /\ Size = Len(array.file.ids) * array.file.as.width - array.file.cut
           /\ array.file.cut \in Nat /\ array.group.vocab \in Nat /\ Base \in Nat \ {0, 1}
           /\ array.file.as.order \in {"little", "big"} /\ array.entry.as.order \in {"little", "big"}
<1>1. array \in ArrayRecs /\ array.file.cut <= Len(array.file.ids) * array.file.as.width
  BY TokensAssumption
<1>2. /\ array.file.ids \in Seq(Nat) /\ array.file.as \in Layouts /\ array.entry.as \in Layouts
      /\ array.file.cut \in Nat /\ array.group.vocab \in Nat
  BY <1>1 DEF ArrayRecs
<1>3. /\ array.file.as.width \in {1, 2} /\ array.entry.as.width \in {1, 2}
      /\ array.file.as.order \in {"little", "big"} /\ array.entry.as.order \in {"little", "big"}
  BY <1>2 DEF Layouts
<1>4. Len(array.file.ids) \in Nat
  BY <1>2
<1>5. Size \in Nat
  <2> DEFINE l == Len(array.file.ids) * array.file.as.width
  <2>1. l \in Nat
    BY <1>3, <1>4
  <2>2. Size = l - array.file.cut
    BY DEF Size
  <2> HIDE DEF l
  <2>3. array.file.cut \in Nat /\ array.file.cut <= l
    BY <1>1, <1>2 DEF l
  <2> QED
    BY <2>1, <2>2, <2>3
<1> QED
  BY <1>2, <1>3, <1>4, <1>5, TokensAssumption DEF Width, Size

\* How many elements a window holds: two of them, unless the shard has fewer.
LEMMA WindowIs ==
    ASSUME array \in Arrays
    PROVE  /\ Window \in Nat /\ 2 * Width <= Window /\ PerWindow \in Nat
           /\ PerWindow = (IF Size <= Window THEN Size ELSE Window) \div Width
           /\ Size >= Width => PerWindow >= 1
           /\ Size >= 2 * Width => PerWindow >= 2
<1>1. Width \in {1, 2} /\ Size \in Nat
  BY ArrayIs
<1> DEFINE share == SampleBytes \div 4
<1>2. share \in Nat /\ share >= 4
  BY TokensAssumption DEF N_WINDOWS
<1>3. Window = Max({share - (share % Width), Width})
  BY DEF Window, N_WINDOWS
<1> HIDE DEF share
<1>4. Window \in Nat /\ 2 * Width <= Window
  <2>1. CASE Width = 1
    <3>1. share % Width = 0
      BY <1>2, <2>1
    <3> QED
      BY <1>2, <1>3, <2>1, <3>1, MaxOfTwo
  <2>2. CASE Width = 2
    <3>1. share % Width \in {0, 1}
      BY <1>2, <2>2
    <3>2. share - (share % Width) \in Nat /\ share - (share % Width) >= 4
      <4>1. share % Width = 1 => share # 4
        BY <2>2
      <4> QED
        BY <1>2, <3>1, <4>1
    <3> QED
      BY <1>3, <2>2, <3>2, MaxOfTwo
  <2> QED
    BY <1>1, <2>1, <2>2
<1>5. PerWindow = (IF Size <= Window THEN Size ELSE Window) \div Width
  <2>1. Min({Window, Size}) = IF Size <= Window THEN Size ELSE Window
    BY <1>1, <1>4, MinOfTwo
  <2> QED
    BY <2>1 DEF PerWindow
<1>6. /\ PerWindow \in Nat /\ (Size >= Width => PerWindow >= 1)
      /\ (Size >= 2 * Width => PerWindow >= 2)
  <2> DEFINE m == IF Size <= Window THEN Size ELSE Window
  <2>1. m \in Nat /\ (Size >= Width => m >= Width) /\ (Size >= 2 * Width => m >= 2 * Width)
    BY <1>1, <1>4
  <2>2. PerWindow = m \div Width
    BY <1>5
  <2> HIDE DEF m
  <2>3. CASE Width = 1
    BY <2>1, <2>2, <2>3
  <2>4. CASE Width = 2
    BY <2>1, <2>2, <2>4
  <2> QED
    BY <1>1, <2>3, <2>4
<1> QED
  BY <1>4, <1>5, <1>6

\* Window q of s is the stretch of the shard that follows its first `start` elements.
IsWindow(s, n, q, start) ==
    \A r \in 0 .. n - 1 : /\ start + r + 1 \in DOMAIN AllOf
                          /\ q * n + r + 1 \in DOMAIN s
                          /\ s[q * n + r + 1] = AllOf[start + r + 1]

\* s is made of c windows of n elements, each of them a stretch of the shard.
Windows(s, n, c) ==
    /\ n \in Nat /\ c \in 1 .. 4 /\ DOMAIN s = 1 .. n * c /\ s \in Seq({s[i] : i \in DOMAIN s})
    /\ Len(s) = n * c
    /\ \A q \in 0 .. c - 1 : \E start \in Nat : IsWindow(s, n, q, start)

\* Where the r-th element of a window is in the shard.
LEMMA InShard ==
    ASSUME array \in Arrays, NEW o \in Offsets, NEW r \in 0 .. PerWindow - 1
    PROVE  /\ o \in Nat /\ o <= Size /\ o \div Width \in Nat /\ o \div Width + r + 1 \in DOMAIN AllOf
           /\ Element(o + r * Width) = AllOf[o \div Width + r + 1]
<1>1. /\ Width \in {1, 2} /\ Size \in Nat /\ Window \in Nat /\ PerWindow \in Nat
      /\ PerWindow = (IF Size <= Window THEN Size ELSE Window) \div Width
  BY ArrayIs, WindowIs
<1>2. r \in Nat /\ r < PerWindow
  BY <1>1
<1>3. /\ o \in Nat /\ o <= Size /\ o % Width = 0
      /\ o + (IF Size <= Window THEN Size ELSE Window) <= Size
  <2>1. CASE Size <= Window
    BY <1>1, <2>1 DEF Offsets
  <2>2. CASE ~(Size <= Window)
    BY <1>1, <2>2 DEF Offsets
  <2> QED
    BY <2>1, <2>2
<1> DEFINE k == o \div Width
           m == IF Size <= Window THEN Size ELSE Window
<1>4. k \in Nat /\ k * Width = o /\ k + r + 1 <= Size \div Width /\ (k + r) * Width = o + r * Width
  <2>0. m \in Nat /\ o + m <= Size /\ r < m \div Width
    BY <1>1, <1>2, <1>3
  <2> HIDE DEF m
  <2>1. CASE Width = 1
    BY <1>1, <1>2, <1>3, <2>0, <2>1
  <2>2. CASE Width = 2
    BY <1>1, <1>2, <1>3, <2>0, <2>2
  <2> QED
    BY <1>1, <2>1, <2>2
<1>5. k + r + 1 \in 1 .. (Size \div Width) /\ (k + r + 1) - 1 = k + r
  <2> HIDE DEF k
  <2>1. Size \div Width \in Nat
    <3>1. CASE Width = 1
      BY <1>1, <3>1
    <3>2. CASE Width = 2
      BY <1>1, <3>2
    <3> QED
      BY <1>1, <3>1, <3>2
  <2> QED
    BY <1>2, <1>4, <2>1
<1>6. AllOf[k + r + 1] = Element(o + r * Width)
  <2> HIDE DEF k
  <2>1. AllOf[k + r + 1] = Element(((k + r + 1) - 1) * Width)
    BY <1>5 DEF AllOf
  <2> QED
    BY <1>4, <1>5, <2>1
<1>7. DOMAIN AllOf = 1 .. (Size \div Width)
  BY DEF AllOf
<1> QED
  BY <1>3, <1>4, <1>5, <1>6, <1>7

\* What is sampled is made of windows; a shard of one element is sampled once.
LEMMA SampleIsWindows ==
    ASSUME array \in Arrays, NEW at \in SUBSET Offsets, Cardinality(at) \in 1 .. N_WINDOWS
    PROVE  /\ Windows(Joined(at), PerWindow, Cardinality(at))
           /\ PerWindow = 1 => Cardinality(at) = 1
<1> DEFINE n == PerWindow
           c == Cardinality(at)
           s == Joined(at)
<1>1. /\ Width \in {1, 2} /\ Size \in Nat /\ Window \in Nat /\ n \in Nat /\ 2 * Width <= Window
      /\ Size >= 2 * Width => n >= 2
  BY ArrayIs, WindowIs
<1>2. c \in 1 .. 4 /\ c \in Nat
  BY DEF N_WINDOWS
<1>3. \A o \in Offsets : o \in Nat /\ o <= Size
  BY <1>1 DEF Offsets
<1>4. at \in SUBSET (0 .. Size)
  <2>1. \A o \in at : o \in Nat /\ o <= Size
    BY <1>3
  <2> QED
    BY <1>1, <2>1
<1>5. /\ DOMAIN s = 1 .. n * c
      /\ \A i \in 1 .. n * c : s[i] = Element(Nth(at, (i - 1) \div n + 1) + ((i - 1) % n) * Width)
  BY DEF Joined
<1>6. n * c \in Nat /\ s = [i \in 1 .. n * c |-> s[i]]
  <2>1. n * c \in Nat
    BY <1>1, <1>2
  <2> QED
    BY <2>1 DEF Joined
<1> DEFINE T == {s[i] : i \in DOMAIN s}
<1>7. s \in Seq(T) /\ Len(s) = n * c
  <2> HIDE DEF s, n, c
  <2>1. s \in [1 .. n * c -> T]
    BY <1>5, <1>6
  <2> HIDE DEF T
  <2> QED
    BY <1>5, <1>6, <2>1
<1>8. ASSUME NEW q \in 0 .. c - 1
      PROVE  \E start \in Nat : IsWindow(s, n, q, start)
  <2> DEFINE o == Nth(at, q + 1)
  <2>1. o \in at
    <3>1. q + 1 \in 1 .. c
      BY <1>2
    <3> HIDE DEF c
    <3> QED
      BY <1>1, <1>4, <3>1, NthIn DEF c
  <2>2. o \in Offsets
    BY <2>1
  <2>3. o \div Width \in Nat
    <3> HIDE DEF o
    <3>1. o \in Nat
      BY <1>3, <2>2
    <3>2. CASE Width = 1
      BY <3>1, <3>2
    <3>3. CASE Width = 2
      BY <3>1, <3>3
    <3> QED
      BY <1>1, <3>2, <3>3
  <2>4. ASSUME NEW r \in 0 .. n - 1
        PROVE  /\ o \div Width + r + 1 \in DOMAIN AllOf
               /\ q * n + r + 1 \in DOMAIN s
               /\ s[q * n + r + 1] = AllOf[o \div Width + r + 1]
    <3>1. n \in Nat \ {0} /\ q \in Nat /\ r \in Nat /\ q + 1 <= c
      BY <1>1, <1>2
    <3>2. (q * n + r) \div n = q /\ (q * n + r) % n = r
      <4> HIDE DEF n
      <4> QED
        BY <3>1, OneQuotient
    <3>3. q * n + r + 1 \in 1 .. n * c /\ (q * n + r + 1) - 1 = q * n + r
      <4> HIDE DEF n, c
      <4>1. \A x, y, z \in Nat : x <= y => x * z <= y * z
        OBVIOUS
      <4>2. (q + 1) * n <= c * n /\ (q + 1) * n = q * n + n
        BY <1>2, <3>1, <4>1
      <4>3. q * n \in Nat /\ c * n = n * c /\ c * n \in Nat /\ r + 1 <= n
        BY <1>2, <3>1
      <4> QED
        BY <3>1, <4>2, <4>3
    <3>4. s[q * n + r + 1] = Element(o + r * Width)
      <4> HIDE DEF s, n, c
      <4>1. s[q * n + r + 1]
             = Element(Nth(at, (q * n + r) \div n + 1) + ((q * n + r) % n) * Width)
        BY <1>5, <3>3
      <4> QED
        BY <3>2, <4>1
    <3>5. Element(o + r * Width) = AllOf[o \div Width + r + 1] /\ o \div Width + r + 1 \in DOMAIN AllOf
      <4> HIDE DEF o
      <4> QED
        BY <2>2, InShard
    <3> HIDE DEF s, n, c, o
    <3> QED
      BY <1>5, <3>3, <3>4, <3>5
  <2> HIDE DEF s, n, c, o
  <2> QED
    BY <2>3, <2>4 DEF IsWindow
<1>9. n = 1 => c = 1
  <2> SUFFICES ASSUME n = 1 PROVE c = 1
    OBVIOUS
  <2>1. Size < 2 * Width
    BY <1>1
  <2>2. Size <= Window
    BY <1>1, <2>1
  <2>3. at = {0}
    <3>1. at \subseteq {0}
      BY <2>2 DEF Offsets
    <3>2. at # {}
      BY <1>2, FS_EmptySet
    <3> QED
      BY <3>1, <3>2
  <2> QED
    BY <2>3, FS_Singleton
<1> HIDE DEF s, n, c
<1>10. Windows(s, n, c)
  BY <1>1, <1>2, <1>5, <1>7, <1>8 DEF Windows
<1> QED
  BY <1>9, <1>10 DEF s, n, c

\* So everything that was sampled is in the shard.
LEMMA SampledIsThere ==
    ASSUME NEW s, NEW n, NEW c, Windows(s, n, c), NEW i \in DOMAIN s
    PROVE  /\ n # 0
           /\ \E k \in DOMAIN AllOf : s[i] = AllOf[k]
           /\ \E q \in Nat, r \in 0 .. n - 1, start \in Nat :
                i = q * n + r + 1 /\ IsWindow(s, n, q, start)
<1>1. n \in Nat /\ c \in 1 .. 4 /\ i \in 1 .. n * c
  BY DEF Windows
<1>2. n # 0
  <2> SUFFICES ASSUME n = 0 PROVE FALSE
    OBVIOUS
  <2>1. 0 * c = 0
    BY <1>1
  <2> QED
    BY <1>1, <2>1
<1>3. n * c \in Nat /\ i - 1 \in Nat /\ i - 1 < n * c
  <2>1. n * c \in Nat
    BY <1>1
  <2> QED
    BY <1>1, <2>1
<1> DEFINE q == (i - 1) \div n
           r == (i - 1) % n
<1>4. q \in Nat /\ r \in 0 .. n - 1 /\ i - 1 = q * n + r /\ q < c
  <2>1. n \in Nat \ {0} /\ c \in Nat /\ i - 1 \in Nat
    BY <1>1, <1>2, <1>3
  <2>2. \A p \in Nat : /\ p \div n \in Nat /\ p % n \in 0 .. n - 1 /\ p = (p \div n) * n + (p % n)
                       /\ p < n * c => p \div n < c
    BY <2>1, QuotientAndRemainder
  <2> QED
    BY <1>3, <2>1, <2>2
<1> HIDE DEF q, r
<1>5. q \in 0 .. c - 1 /\ i = q * n + r + 1
  <2>1. q * n \in Nat /\ r \in Nat
    BY <1>1, <1>4
  <2> QED
    BY <1>1, <1>4, <2>1
<1>6. PICK start \in Nat : IsWindow(s, n, q, start)
  BY <1>5 DEF Windows
<1>7. start + r + 1 \in DOMAIN AllOf /\ s[i] = AllOf[start + r + 1]
  BY <1>4, <1>5, <1>6 DEF IsWindow
<1> QED
  BY <1>2, <1>4, <1>5, <1>6, <1>7

\* The length of a shard, and what it takes of it to be sampled.
LEMMA AllOfIs ==
    ASSUME array \in Arrays
    PROVE  /\ AllOf \in Seq({AllOf[i] : i \in DOMAIN AllOf}) /\ DOMAIN AllOf = 1 .. Len(AllOf)
           /\ Len(AllOf) = Size \div Width /\ Len(AllOf) \in Nat
           /\ Len(AllOf) >= 1 <=> Size >= Width
           /\ Len(AllOf) >= 2 <=> Size >= 2 * Width
<1> DEFINE l == Size \div Width
           T == {AllOf[i] : i \in DOMAIN AllOf}
<1>1. l \in Nat /\ (l >= 1 <=> Size >= Width) /\ (l >= 2 <=> Size >= 2 * Width)
  <2>1. Width \in {1, 2} /\ Size \in Nat
    BY ArrayIs
  <2>2. CASE Width = 1
    BY <2>1, <2>2
  <2>3. CASE Width = 2
    BY <2>1, <2>3
  <2> QED
    BY <2>1, <2>2, <2>3
<1>2. DOMAIN AllOf = 1 .. l /\ AllOf = [i \in 1 .. l |-> AllOf[i]]
  BY DEF AllOf
<1> HIDE DEF l
<1>3. AllOf \in [1 .. l -> T]
  BY <1>2
<1> HIDE DEF T
<1>4. AllOf \in Seq(T) /\ Len(AllOf) = l
  BY <1>1, <1>2, <1>3
<1> QED
  BY <1>1, <1>2, <1>4 DEF l, T

\* How many values a sequence has: it is finite, and those of a part are fewer.
LEMMA RangeIs ==
    ASSUME NEW T, NEW s \in Seq(T)
    PROVE  /\ Range(s) = {s[i] : i \in DOMAIN s} /\ IsFiniteSet(Range(s))
           /\ Cardinality(Range(s)) \in Nat
<1>1. Range(s) = {s[i] : i \in DOMAIN s}
  BY DEF Range
<1>2. IsFiniteSet(1 .. Len(s)) /\ DOMAIN s = 1 .. Len(s)
  <2>1. Len(s) \in Nat /\ DOMAIN s = 1 .. Len(s)
    OBVIOUS
  <2> QED
    BY <2>1, FS_Interval
<1>3. s \in Surjection(DOMAIN s, Range(s))
  <2>1. s \in [DOMAIN s -> Range(s)]
    <3>1. s = [i \in DOMAIN s |-> s[i]]
      OBVIOUS
    <3> QED
      BY <1>1, <3>1
  <2>2. \A x \in Range(s) : \E i \in DOMAIN s : s[i] = x
    BY <1>1
  <2> QED
    BY <2>1, <2>2 DEF Surjection
<1>4. IsFiniteSet(Range(s))
  BY <1>2, <1>3, FS_Surjection
<1> QED
  BY <1>1, <1>4, FS_CardinalityType

\* The floor of a sample.
LEMMA FloorIs ==
    ASSUME array \in Arrays
    PROVE  /\ MinDistinct \in Nat \ {0}
           /\ FamilyBound(array.family.distinct, DefaultDistinct) \in Nat \ {0}
           /\ FamilyBound(array.family.distinct, DefaultDistinct) <= MinDistinct
<1> DEFINE f == FamilyBound(array.family.distinct, DefaultDistinct)
           g == array.group.distinct
<1>1. f \in Nat \ {0}
  BY TokensAssumption DEF FamilyBound, Valid
<1>2. MinDistinct = IF Valid(g) THEN Max({g, f}) ELSE f
  BY DEF MinDistinct, Floor
<1> HIDE DEF f, g
<1>3. CASE Valid(g)
  <2>1. g \in Nat
    BY <1>3 DEF Valid
  <2>2. Max({g, f}) = IF g >= f THEN g ELSE f
    BY <1>1, <2>1, MaxOfTwo
  <2> QED
    BY <1>1, <1>2, <1>3, <2>1, <2>2 DEF f
<1>4. CASE ~Valid(g)
  BY <1>1, <1>2, <1>4 DEF f
<1> QED
  BY <1>3, <1>4

\* A shard of two elements or more is sampled at two of them; if the sample has too few values, it
\* does not pass.
LEMMA DegenerateIsFound ==
    ASSUME array \in Arrays, NEW c, Windows(sampled, PerWindow, c),
           Recorded = {}, Decoded, Len(AllOf) > 1,
           FamilyBound(array.family.distinct, DefaultDistinct) > 1
    PROVE  Cardinality(Range(AllOf)) > 1
<1>1. Windows(sampled, PerWindow, c)
  OBVIOUS
<1> DEFINE n == PerWindow
           l == Len(sampled)
<1>2. n >= 2 /\ n \in Nat
  <2>1. Len(AllOf) \in Nat
    BY AllOfIs
  <2>2. Size >= 2 * Width
    BY <2>1, AllOfIs
  <2> QED
    BY <2>2, WindowIs
<1>3. l \in Nat /\ l > 1 /\ sampled \in Seq({sampled[i] : i \in DOMAIN sampled})
  <2>1. c \in 1 .. 4 /\ l = n * c /\ sampled \in Seq({sampled[i] : i \in DOMAIN sampled})
    BY <1>1 DEF Windows
  <2> HIDE DEF n, l
  <2>2. n * c >= n /\ n * c \in Nat
    <3>1. c \in {1, 2, 3, 4}
      BY <2>1
    <3> QED
      BY <1>2, <3>1
  <2> QED
    BY <1>2, <2>1, <2>2
<1>4. sampled # <<>>
  <2>1. CASE sampled = <<>>
    <3>1. Len(sampled) = 0
      BY <2>1
    <3> QED
      BY <1>3, <3>1
  <2> QED
    BY <2>1
<1>5. ~TooFewDistinct
  BY <1>4 DEF Recorded, Smoke
<1>6. EffectiveMin(l) >= 2 /\ EffectiveMin(l) \in Nat
  <2>1. MinDistinct \in Nat /\ MinDistinct >= 2
    BY FloorIs
  <2> HIDE DEF l
  <2>2. l \div 4 \in Int
    BY <1>3
  <2> DEFINE m == Max({l \div 4, IF l > 1 THEN 2 ELSE 1})
  <2>3. m \in Nat /\ m >= 2
    <3>1. (IF l > 1 THEN 2 ELSE 1) = 2
      BY <1>3
    <3>2. m = IF l \div 4 >= 2 THEN l \div 4 ELSE 2
      BY <2>2, <3>1, MaxOfTwo
    <3> HIDE DEF m
    <3> QED
      BY <2>2, <3>2
  <2>4. EffectiveMin(l) = Min({MinDistinct, m})
    BY DEF EffectiveMin
  <2> HIDE DEF m
  <2> QED
    BY <2>1, <2>3, <2>4, MinOfTwo
<1>7. Range(sampled) \in SUBSET Range(AllOf)
  <2>1. ASSUME NEW i \in DOMAIN sampled PROVE \E j \in DOMAIN AllOf : sampled[i] = AllOf[j]
    BY <1>1, SampledIsThere
  <2> QED
    BY <2>1 DEF Range
<1>8. /\ Cardinality(Range(sampled)) \in Nat /\ IsFiniteSet(Range(AllOf))
      /\ Cardinality(Range(AllOf)) \in Nat
  BY <1>3, AllOfIs, RangeIs
<1>9. Cardinality(Range(sampled)) <= Cardinality(Range(AllOf))
  BY <1>7, <1>8, FS_Subset
<1> QED
  BY <1>5, <1>6, <1>8, <1>9 DEF TooFewDistinct

\* The p-th byte of the i-th id.
LEMMA ByteIs ==
    ASSUME array \in Arrays, NEW i \in DOMAIN array.file.ids, NEW p \in 1 .. array.file.as.width
    PROVE  /\ i \in Nat /\ array.file.ids[i] \in Nat
           /\ Byte((i - 1) * array.file.as.width + p)
                = (array.file.ids[i] \div Weight(array.file.as, p)) % Base
<1> DEFINE w == array.file.as.width
           k == (i - 1) * w + p
<1>1. w \in {1, 2} /\ array.file.ids \in Seq(Nat)
  BY ArrayIs
<1>2. i \in Nat \ {0} /\ array.file.ids[i] \in Nat
  BY <1>1
<1>3. (k - 1) \div w + 1 = i /\ 1 + ((k - 1) % w) = p
  <2>1. CASE w = 1
    BY <1>2, <2>1
  <2>2. CASE w = 2
    <3>1. p \in {1, 2}
      BY <2>2
    <3>2. k - 1 = (i - 1) * 2 + (p - 1)
      BY <1>2, <2>2, <3>1
    <3> HIDE DEF k
    <3>3. i - 1 \in Nat /\ p - 1 \in 0 .. 1
      BY <1>2, <3>1
    <3>4. (k - 1) \div 2 = i - 1 /\ (k - 1) % 2 = p - 1
      BY <3>2, <3>3
    <3> QED
      BY <1>2, <2>2, <3>1, <3>4
  <2> QED
    BY <1>1, <2>1, <2>2
<1> HIDE DEF k
<1>4. Byte(k) = (array.file.ids[(k - 1) \div w + 1] \div Weight(array.file.as, 1 + ((k - 1) % w))) % Base
  BY DEF Byte
<1> QED
  BY <1>2, <1>3, <1>4 DEF k

\* What two digits of an id are.
LEMMA Digits ==
    ASSUME NEW b \in Nat \ {0, 1}, NEW id \in Nat
    PROVE  /\ id \div 1 = id /\ id % b \in 0 .. b - 1 /\ id \div b \in Nat
           /\ id = (id \div b) * b + (id % b)
           /\ id < b => id % b = id /\ (id \div b) % b = 0
           /\ id < b * b => (id \div b) % b = id \div b
<1> DEFINE q == id \div b
           r == id % b
<1>1. q \in Nat /\ r \in 0 .. b - 1 /\ id = q * b + r /\ \A c \in Nat : id < b * c => q < c
  BY QuotientAndRemainder
<1> HIDE DEF q, r
<1>2. \A x \in Nat : x < b => x % b = x
  OBVIOUS
<1>3. id < b => q = 0 /\ r = id
  <2> SUFFICES ASSUME id < b PROVE q = 0 /\ r = id
    OBVIOUS
  <2>1. id < b * 1
    OBVIOUS
  <2>2. q < 1
    BY <1>1, <2>1
  <2>3. q = 0
    BY <1>1, <2>2
  <2>4. 0 * b = 0
    OBVIOUS
  <2> QED
    BY <1>1, <2>3, <2>4
<1>4. id < b * b => q % b = q
  BY <1>1, <1>2
<1>5. id < b => q % b = 0
  <2>1. 0 % b = 0
    BY <1>2
  <2> QED
    BY <1>3, <2>1
<1> QED
  BY <1>1, <1>3, <1>4, <1>5 DEF q, r

\* The elements of a shard that is read as it was written are its ids.
LEMMA ReadsBack ==
    ASSUME array \in Arrays, array.file.cut = 0, Honest,
           Width = array.file.as.width, Width = 1 \/ array.entry.as.order = array.file.as.order
    PROVE  AllOf = array.file.ids /\ Len(AllOf) = Len(array.file.ids)
<1> DEFINE ids == array.file.ids
           w   == array.file.as.width
<1>1. /\ ids \in Seq(Nat) /\ Len(ids) \in Nat /\ w \in {1, 2} /\ Width = w /\ Base \in Nat \ {0, 1}
      /\ array.entry.as.order \in {"little", "big"} /\ array.group.vocab \in Nat
      /\ array.file.as.order \in {"little", "big"} /\ Size = Len(ids) * w - array.file.cut
  BY ArrayIs
<1>2. Size \div Width = Len(ids) /\ DOMAIN ids = 1 .. Len(ids)
  <2> DEFINE m == Len(ids)
  <2>1. m \in Nat /\ Width = w /\ Size = m * w - 0 /\ DOMAIN ids = 1 .. m
    BY <1>1
  <2> HIDE DEF m
  <2>2. CASE w = 1
    <3>1. Size = m
      BY <2>1, <2>2
    <3>2. m \div 1 = m
      BY <2>1
    <3> QED
      BY <2>1, <2>2, <3>1, <3>2 DEF m
  <2>3. CASE w = 2
    <3>1. Size = m * 2
      BY <2>1, <2>3
    <3>2. (m * 2) \div 2 = m
      BY <2>1
    <3> QED
      BY <2>1, <2>3, <3>1, <3>2 DEF m
  <2> QED
    BY <1>1, <2>2, <2>3
<1>3. ASSUME NEW i \in 1 .. Len(ids) PROVE Element((i - 1) * Width) = ids[i]
  <2> DEFINE id == ids[i]
             B(p) == Byte((i - 1) * w + p)
  <2>1. id \in Nat /\ id < array.group.vocab /\ array.group.vocab <= Values(w)
    BY <1>1, <1>2 DEF Honest
  <2>2. id < Values(w)
    <3>1. Values(w) \in Nat
      BY <1>1 DEF Values
    <3> HIDE DEF id
    <3> QED
      BY <1>1, <2>1, <3>1
  <2>3. \A p \in 1 .. w : B(p) = (id \div Weight(array.file.as, p)) % Base
    BY <1>2, ByteIs
  <2>4. CASE w = 1
    <3>1. Weight(array.file.as, 1) = 1 /\ Weight(array.entry.as, 1) = 1
      BY <1>1, <2>4 DEF Weight, Width
    <3>2. Element((i - 1) * Width) = B(1) * 1
      BY <1>1, <2>4, <3>1 DEF Element
    <3>3. B(1) = (id \div 1) % Base
      BY <2>3, <2>4, <3>1
    <3>4. id < Base
      BY <2>2, <2>4 DEF Values
    <3> HIDE DEF B, id
    <3>5. B(1) = id
      BY <1>1, <2>1, <3>3, <3>4, Digits
    <3>6. Element((i - 1) * Width) = id
      BY <2>1, <3>2, <3>5
    <3> QED
      BY <3>6 DEF id
  <2>5. CASE w = 2
    <3>1. /\ \A p \in 1 .. 2 : Weight(array.entry.as, p) = Weight(array.file.as, p)
          /\ \/ Weight(array.file.as, 1) = 1 /\ Weight(array.file.as, 2) = Base
             \/ Weight(array.file.as, 1) = Base /\ Weight(array.file.as, 2) = 1
      BY <1>1, <2>5 DEF Weight, Width
    <3>2. Element((i - 1) * Width)
           = B(1) * Weight(array.file.as, 1) + B(2) * Weight(array.file.as, 2)
      BY <1>1, <2>5, <3>1 DEF Element
    <3>3. /\ B(1) = (id \div Weight(array.file.as, 1)) % Base
          /\ B(2) = (id \div Weight(array.file.as, 2)) % Base
      BY <2>3, <2>5
    <3>4. id < Base * Base
      BY <2>2, <2>5 DEF Values
    <3> HIDE DEF B, id
    <3>5. /\ id \div 1 = id /\ (id \div Base) % Base = id \div Base /\ id \div Base \in Nat
          /\ id % Base \in Nat /\ id = (id \div Base) * Base + (id % Base)
      <4>1. \A b \in Nat \ {0, 1}, x \in Nat :
                /\ x \div 1 = x /\ x % b \in 0 .. b - 1 /\ x \div b \in Nat
                /\ x = (x \div b) * b + (x % b)
                /\ x < b * b => (x \div b) % b = x \div b
        BY Digits
      <4>2. \A x \in Nat : /\ x \div 1 = x /\ x % Base \in 0 .. Base - 1 /\ x \div Base \in Nat
                           /\ x = (x \div Base) * Base + (x % Base)
                           /\ x < Base * Base => (x \div Base) % Base = x \div Base
        BY <1>1, <4>1
      <4>3. id % Base \in Nat
        <5>1. id % Base \in 0 .. Base - 1
          BY <2>1, <4>2
        <5> QED
          BY <5>1
      <4> QED
        BY <2>1, <3>4, <4>2, <4>3
    <3>6. Element((i - 1) * Width) = (id \div Base) * Base + (id % Base)
      <4> DEFINE q == id \div Base
                 r == id % Base
                 e == Element((i - 1) * Width)
      <4>1. \/ e = r * 1 + q * Base
            \/ e = q * Base + r * 1
        BY <3>1, <3>2, <3>3, <3>5
      <4>0. q \in Nat /\ r \in Nat /\ Base \in Nat
        BY <1>1, <3>5
      <4> HIDE DEF e, q, r
      <4>2. q * Base \in Nat /\ r \in Nat
        BY <4>0
      <4>3. e = q * Base + r
        BY <4>1, <4>2
      <4> QED
        BY <4>3 DEF e, q, r
    <3>7. Element((i - 1) * Width) = id
      BY <3>5, <3>6
    <3> QED
      BY <3>7 DEF id
  <2> QED
    BY <1>1, <2>4, <2>5
<1>4. AllOf = [i \in 1 .. Len(ids) |-> ids[i]]
  BY <1>2, <1>3 DEF AllOf
<1> QED
  BY <1>1, <1>4

\* Where ids that need one byte are read as two, or with their bytes swapped, each element has a
\* byte that is no 0 for its higher digit.
LEMMA MisreadIsBig ==
    ASSUME array \in Arrays, array.file.cut = 0, Honest, 0 \notin Range(array.file.ids),
           array.group.vocab <= Base, Width = 2,
           array.file.as.width = 1 \/ array.entry.as.order # array.file.as.order,
           NEW k \in DOMAIN AllOf
    PROVE  AllOf[k] \in Nat /\ AllOf[k] >= Base
<1> DEFINE ids == array.file.ids
           w   == array.file.as.width
           W(p) == Weight(array.entry.as, p)
           m   == Len(ids)
<1>1. /\ ids \in Seq(Nat) /\ m \in Nat /\ w \in {1, 2} /\ Base \in Nat \ {0, 1}
      /\ array.entry.as.order \in {"little", "big"} /\ array.group.vocab \in Nat
      /\ array.file.as.order \in {"little", "big"} /\ Size = m * w - 0 /\ DOMAIN ids = 1 .. m
  BY ArrayIs
<1>2. ASSUME NEW i \in 1 .. m PROVE ids[i] \in Nat \ {0} /\ ids[i] < Base
  <2>1. ids[i] \in Nat /\ ids[i] < array.group.vocab
    BY <1>1 DEF Honest
  <2>2. ids[i] # 0
    BY <1>1 DEF Range
  <2> QED
    BY <1>1, <2>1, <2>2
<1>3. k \in Nat \ {0} /\ k <= Size \div 2 /\ AllOf[k] = Element((k - 1) * 2)
  <2>1. DOMAIN AllOf = 1 .. (Size \div 2)
    BY DEF AllOf
  <2>2. Size \div 2 \in Int
    BY ArrayIs
  <2>3. k \in 1 .. (Size \div 2)
    BY <2>1
  <2> HIDE DEF AllOf
  <2>4. k \in Nat \ {0} /\ k <= Size \div 2
    BY <2>2, <2>3
  <2>5. AllOf[k] = Element((k - 1) * 2)
    BY <2>3 DEF AllOf
  <2> QED
    BY <2>4, <2>5
<1>4. Element((k - 1) * 2) = Byte((k - 1) * 2 + 1) * W(1) + Byte((k - 1) * 2 + 2) * W(2)
  BY <1>1 DEF Element
<1>5. \/ W(1) = 1 /\ W(2) = Base /\ array.entry.as.order = "little"
      \/ W(1) = Base /\ W(2) = 1 /\ array.entry.as.order = "big"
  BY <1>1 DEF Weight, Width
<1>6. CASE w = 1
  <2>1. Size = m /\ 2 * k <= m
    <3>1. Size = m
      BY <1>1, <1>6
    <3> HIDE DEF m
    <3> QED
      BY <1>1, <1>3, <3>1
  <2>2. (k - 1) * 2 + 1 \in 1 .. m /\ (k - 1) * 2 + 2 \in 1 .. m
    <3> HIDE DEF m
    <3> QED
      BY <1>1, <1>3, <2>1
  <2>3. ASSUME NEW i \in 1 .. m PROVE Byte(i) = ids[i]
    <3>1. Byte((i - 1) * w + 1) = (ids[i] \div Weight(array.file.as, 1)) % Base
      <4>1. i \in DOMAIN ids /\ 1 \in 1 .. w
        BY <1>1, <1>6
      <4> QED
        BY <4>1, ByteIs
    <3>2. (i - 1) * w + 1 = i /\ Weight(array.file.as, 1) = 1
      BY <1>1, <1>6 DEF Weight
    <3>3. (ids[i] \div 1) % Base = ids[i]
      <4>1. \A x \in Nat : x \div 1 = x /\ (x < Base => x % Base = x)
        BY <1>1, Digits
      <4>2. ids[i] \in Nat /\ ids[i] < Base
        BY <1>2
      <4> QED
        BY <4>1, <4>2
    <3> QED
      BY <3>1, <3>2, <3>3
  <2> DEFINE x == Byte((k - 1) * 2 + 1)
             y == Byte((k - 1) * 2 + 2)
  <2>4. x \in Nat \ {0} /\ y \in Nat \ {0}
    BY <1>2, <2>2, <2>3
  <2>5. AllOf[k] = x * W(1) + y * W(2)
    BY <1>3, <1>4
  <2> HIDE DEF x, y, W
  <2>6. \A z \in Nat \ {0} : z * Base \in Nat /\ z * Base >= Base
    BY <1>1
  <2>7. AllOf[k] = x + y * Base \/ AllOf[k] = x * Base + y
    BY <1>5, <2>4, <2>5
  <2> QED
    BY <1>1, <2>4, <2>6, <2>7
<1>7. CASE w = 2 /\ array.entry.as.order # array.file.as.order
  <2>1. k \in 1 .. m
    <3> HIDE DEF m
    <3>1. Size = m * 2
      BY <1>1, <1>7
    <3>2. (m * 2) \div 2 = m
      BY <1>1
    <3> QED
      BY <1>1, <1>3, <3>1, <3>2
  <2> DEFINE id == ids[k]
  <2>2. id \in Nat \ {0} /\ id < Base
    BY <1>2, <2>1
  <2>3. /\ Byte((k - 1) * 2 + 1) = (id \div Weight(array.file.as, 1)) % Base
        /\ Byte((k - 1) * 2 + 2) = (id \div Weight(array.file.as, 2)) % Base
    BY <1>1, <1>7, <2>1, ByteIs
  <2>4. /\ Weight(array.file.as, 1) = W(2) /\ Weight(array.file.as, 2) = W(1)
    BY <1>1, <1>7 DEF Weight, Width
  <2>5. AllOf[k] = ((id \div W(2)) % Base) * W(1) + ((id \div W(1)) % Base) * W(2)
    BY <1>3, <1>4, <2>3, <2>4
  <2> HIDE DEF id, W
  <2>6. (id \div 1) % Base = id /\ (id \div Base) % Base = 0
    <3>1. \A x \in Nat : /\ x \div 1 = x
                         /\ x < Base => x % Base = x /\ (x \div Base) % Base = 0
      BY <1>1, Digits
    <3> QED
      BY <2>2, <3>1
  <2>7. AllOf[k] = 0 * 1 + id * Base \/ AllOf[k] = id * Base + 0 * 1
    BY <1>5, <2>5, <2>6
  <2>8. id * Base \in Nat /\ id * Base >= Base
    <3>1. \A z \in Nat \ {0} : z * Base \in Nat /\ z * Base >= Base
      BY <1>1
    <3> QED
      BY <2>2, <3>1
  <2> QED
    BY <2>7, <2>8
<1> QED
  BY <1>1, <1>6, <1>7

\* What slips through: a shard that passed was read back as it was written, or was misread within its
\* vocabulary.
LEMMA LiesAreFound ==
    ASSUME array \in Arrays, NEW c, Windows(sampled, PerWindow, c), Recorded = {},
           Decoded, array.group.derived, Honest, array.file.cut = 0, 0 \notin Range(array.file.ids)
    PROVE  \/ AllOf = array.file.ids
           \/ Width < array.file.as.width /\ array.group.vocab <= Values(Width)
           \/ Width = array.file.as.width /\ array.group.vocab > Values(Width) \div Base
<1>1. /\ Width \in {1, 2} /\ array.file.as.width \in {1, 2} /\ array.group.vocab \in Nat
      /\ Base \in Nat \ {0, 1}
  BY ArrayIs
<1>2. sampled # <<>> /\ ~OutOfVocab /\ array.group.vocab # 0 /\ ~WidthNotCredible
  BY DEF Recorded, Smoke
<1>3. Width >= RequiredWidth
  <2>1. array.entry.unit = "tokens"
    BY DEF Recorded
  <2>2. ~(Width < RequiredWidth)
    BY <1>2, <2>1 DEF WidthNotCredible, Decoded, Sized
  <2> QED
    BY <1>1, <2>2 DEF RequiredWidth
<1>4. Base * Base \in Nat /\ (Base * Base) \div Base = Base
  <2>1. Base * Base + 0 = Base * Base /\ Base * Base \in Nat
    BY <1>1
  <2>2. (Base * Base + 0) \div Base = Base
    BY <1>1, OneQuotient
  <2> QED
    BY <2>1, <2>2
<1>5. CASE Width < array.file.as.width
  <2>1. Width = 1 /\ RequiredWidth = 1
    BY <1>1, <1>3, <1>5 DEF RequiredWidth
  <2> QED
    BY <1>1, <1>5, <2>1 DEF RequiredWidth, Values
<1>6. CASE Width = array.file.as.width /\ (Width = 1 \/ array.entry.as.order = array.file.as.order)
  BY <1>6, ReadsBack
<1>7. ASSUME Width = 2, array.file.as.width = 1 \/ array.entry.as.order # array.file.as.order,
             array.group.vocab <= Base
      PROVE  FALSE
  <2>1. PICK i \in DOMAIN sampled : TRUE
    BY <1>2 DEF Windows
  <2>2. PICK k \in DOMAIN AllOf : sampled[i] = AllOf[k]
    BY SampledIsThere
  <2>3. AllOf[k] \in Nat /\ AllOf[k] >= Base
    BY <1>7, MisreadIsBig
  <2> QED
    BY <1>1, <1>2, <1>7, <2>2, <2>3 DEF OutOfVocab
<1>8. CASE Width = 2 /\ array.file.as.width = 1
  BY <1>7, <1>8 DEF Honest, Values
<1>9. CASE Width = 2 /\ array.file.as.width = 2 /\ array.entry.as.order # array.file.as.order
  <2>1. ~(array.group.vocab <= Base)
    BY <1>7, <1>9
  <2>2. array.group.vocab > Values(Width) \div Base
    BY <1>1, <1>4, <1>9, <2>1 DEF Values
  <2> QED
    BY <1>9, <2>2
<1> QED
  BY <1>1, <1>5, <1>6, <1>8, <1>9

\* A shard without repeated ids that is sampled as it was written.
Clean(s, n, c) ==
    /\ Windows(s, n, c) /\ n >= 1 /\ (n = 1 => c = 1)
    /\ \A i, j \in DOMAIN AllOf : AllOf[i] = AllOf[j] => i = j

\* The lengths of its sample.
LEMMA CleanLength ==
    ASSUME NEW s, NEW n, NEW c, Clean(s, n, c)
    PROVE  /\ n \in Nat \ {0} /\ c \in 1 .. 4 /\ Len(s) = n * c /\ Len(s) \in Nat /\ s # <<>>
           /\ Len(s) >= n /\ Len(s) \div 4 \in Int /\ Len(s) \div 4 <= n /\ (Len(s) > 1 => n >= 2)
<1>1. n \in Nat \ {0} /\ c \in 1 .. 4 /\ Len(s) = n * c /\ (n = 1 => c = 1)
  BY DEF Clean, Windows
<1>2. n * c \in Nat /\ n * c >= n /\ n * c <= n * 4 /\ (n * c > 1 => n >= 2)
  <2>1. c \in {1, 2, 3, 4}
    BY <1>1
  <2> QED
    BY <1>1, <2>1
<1> DEFINE l == Len(s)
<1>3. l \in Nat /\ l >= n /\ l <= n * 4 /\ l > 0
  BY <1>1, <1>2
<1>4. s # <<>>
  <2> SUFFICES ASSUME s = <<>> PROVE FALSE
    OBVIOUS
  <2>1. l = 0
    OBVIOUS
  <2> HIDE DEF l
  <2> QED
    BY <1>3, <2>1
<1> HIDE DEF l
<1>5. l \div 4 \in Int /\ l \div 4 <= n
  BY <1>1, <1>3
<1> QED
  BY <1>1, <1>2, <1>3, <1>4, <1>5 DEF l

\* It shows a whole window of different ids.
LEMMA WindowIsDistinct ==
    ASSUME NEW s, NEW n, NEW c, Clean(s, n, c)
    PROVE  Cardinality(Range(s)) \in Nat /\ n <= Cardinality(Range(s))
<1>1. n \in Nat \ {0} /\ c \in 1 .. 4 /\ s \in Seq({s[i] : i \in DOMAIN s})
  BY CleanLength DEF Clean, Windows
<1>2. Range(s) = {s[i] : i \in DOMAIN s} /\ IsFiniteSet(Range(s)) /\ Cardinality(Range(s)) \in Nat
  BY <1>1, RangeIs
<1>3. PICK start \in Nat : IsWindow(s, n, 0, start)
  <2>1. 0 \in 0 .. c - 1
    BY <1>1
  <2> QED
    BY <2>1 DEF Clean, Windows
<1>4. ASSUME NEW x \in 1 .. n
      PROVE  start + x \in DOMAIN AllOf /\ x \in DOMAIN s /\ s[x] = AllOf[start + x]
  <2>1. x - 1 \in 0 .. n - 1 /\ start + (x - 1) + 1 = start + x /\ 0 * n + (x - 1) + 1 = x
    BY <1>1
  <2> QED
    BY <1>3, <2>1 DEF IsWindow
<1> DEFINE f == [x \in 1 .. n |-> s[x]]
<1>5. f \in Injection(1 .. n, Range(s))
  <2>1. f \in [1 .. n -> Range(s)]
    BY <1>2, <1>4
  <2>2. ASSUME NEW x \in 1 .. n, NEW y \in 1 .. n, s[x] = s[y] PROVE x = y
    <3>1. start + x = start + y
      BY <1>4, <2>2 DEF Clean
    <3> QED
      BY <1>1, <3>1
  <2>3. IsInjective(f)
    BY <2>2 DEF IsInjective
  <2> HIDE DEF f
  <2> QED
    BY <2>1, <2>3 DEF Injection
<1> HIDE DEF f
<1>6. Cardinality(1 .. n) <= Cardinality(Range(s))
  BY <1>2, <1>5, FS_Injection
<1>7. Cardinality(1 .. n) = n
  <2>1. \A m \in Nat : Cardinality(1 .. m) = m
    BY FS_Interval
  <2> QED
    BY <1>1, <2>1
<1> QED
  BY <1>2, <1>6, <1>7

\* Two neighbours in a window are different; of three elements in a row, two are in one window.
LEMMA NoThreeAlike ==
    ASSUME NEW s, NEW n, NEW c, Clean(s, n, c), NEW i \in Nat,
           i + 1 \in DOMAIN s, i + 2 \in DOMAIN s, i + 3 \in DOMAIN s, s[i + 1] = 0, s[i + 2] = 0,
           s[i + 3] = 0
    PROVE  FALSE
<1>1. n \in Nat \ {0} /\ n >= 2
  <2>1. DOMAIN s = 1 .. n * c /\ n * c = Len(s) /\ Len(s) \in Nat /\ n \in Nat \ {0}
    BY CleanLength DEF Clean, Windows
  <2>2. i + 3 <= Len(s)
    BY <2>1
  <2>3. Len(s) > 1
    BY <2>1, <2>2
  <2> QED
    BY <2>1, <2>3, CleanLength
<1>2. ASSUME NEW q \in Nat, NEW r \in Nat, r + 1 < n, NEW start \in Nat, IsWindow(s, n, q, start),
             s[q * n + r + 1] = 0, s[q * n + (r + 1) + 1] = 0
      PROVE  FALSE
  <2>1. r \in 0 .. n - 1 /\ r + 1 \in 0 .. n - 1
    BY <1>1, <1>2
  <2>2. /\ AllOf[start + r + 1] = AllOf[start + (r + 1) + 1]
        /\ start + r + 1 \in DOMAIN AllOf /\ start + (r + 1) + 1 \in DOMAIN AllOf
    BY <1>2, <2>1 DEF IsWindow
  <2>3. start + r + 1 = start + (r + 1) + 1
    BY <2>2 DEF Clean
  <2> QED
    BY <2>3
<1>3. \A j \in DOMAIN s : \E q \in Nat, r \in 0 .. n - 1, start \in Nat :
                j = q * n + r + 1 /\ IsWindow(s, n, q, start)
  BY SampledIsThere DEF Clean
<1>4. PICK q \in Nat, r \in 0 .. n - 1, start \in Nat :
         i + 1 = q * n + r + 1 /\ IsWindow(s, n, q, start)
  BY <1>3
<1>5. q \in Nat /\ r \in Nat /\ r <= n - 1 /\ q * n \in Nat
  BY <1>1
<1>6. r = n - 1
  <2> SUFFICES ASSUME r # n - 1 PROVE FALSE
    OBVIOUS
  <2>1. r + 1 < n /\ q * n + (r + 1) + 1 = i + 2 /\ q * n + r + 1 = i + 1
    BY <1>1, <1>4, <1>5
  <2> QED
    BY <1>2, <1>4, <1>5, <2>1
<1>7. PICK u \in Nat, v \in 0 .. n - 1, begin \in Nat :
         i + 2 = u * n + v + 1 /\ IsWindow(s, n, u, begin)
  BY <1>3
<1>8. u \in Nat /\ v \in Nat /\ v <= n - 1 /\ u * n \in Nat
  BY <1>1
<1>9. v = 0
  <2>1. (u * n + v) % n = v
    BY <1>1, <1>8, OneQuotient
  <2>2. u * n + v = (q + 1) * n + 0
    <3>1. (q + 1) * n = q * n + n
      BY <1>1, <1>5
    <3> QED
      BY <1>1, <1>4, <1>5, <1>6, <1>7, <1>8, <3>1
  <2>3. ((q + 1) * n + 0) % n = 0
    <3>1. q + 1 \in Nat /\ 0 \in 0 .. n - 1
      BY <1>1, <1>5
    <3> QED
      BY <1>1, <3>1, OneQuotient
  <2> QED
    BY <2>1, <2>2, <2>3
<1>10. v + 1 < n /\ u * n + (v + 1) + 1 = i + 3 /\ u * n + v + 1 = i + 2
  BY <1>1, <1>7, <1>8, <1>9
<1> QED
  BY <1>2, <1>7, <1>8, <1>10

\* A clean sample reaches the floor, whatever that is, ...
LEMMA CleanReachesFloor ==
    ASSUME array \in Arrays, NEW n, NEW c, Clean(sampled, n, c)
    PROVE  ~TooFewDistinct
<1> DEFINE l == Len(sampled)
           d == Cardinality(Range(sampled))
           a == l \div 4
           b == IF l > 1 THEN 2 ELSE 1
<1>1. /\ n \in Nat \ {0} /\ l \in Nat /\ a \in Int /\ a <= n /\ (l > 1 => n >= 2)
  BY CleanLength
<1>2. d \in Nat /\ n <= d
  BY WindowIsDistinct
<1>3. MinDistinct \in Nat
  BY FloorIs
<1>4. EffectiveMin(l) = Min({MinDistinct, Max({a, b})})
  BY DEF EffectiveMin
<1>5. b \in Int /\ b <= n
  BY <1>1
<1> HIDE DEF a, b, l, d
<1>6. Max({a, b}) \in Int /\ Max({a, b}) <= n
  <2>1. Max({a, b}) = IF a >= b THEN a ELSE b
    BY <1>1, <1>5, MaxOfTwo
  <2> QED
    BY <1>1, <1>5, <2>1
<1>7. EffectiveMin(l) \in Int /\ EffectiveMin(l) <= n
  <2> DEFINE m == Max({a, b})
  <2>1. m \in Int /\ m <= n
    BY <1>6
  <2> HIDE DEF m
  <2>2. Min({MinDistinct, m}) = IF MinDistinct <= m THEN MinDistinct ELSE m
    BY <1>3, <2>1, MinOfTwo
  <2>3. EffectiveMin(l) = Min({MinDistinct, m})
    BY <1>4 DEF m
  <2> QED
    BY <1>1, <1>3, <2>1, <2>2, <2>3
<1>8. ~(d < EffectiveMin(l))
  BY <1>1, <1>2, <1>7
<1> QED
  BY <1>8 DEF TooFewDistinct, l, d

\* ... and has no three zeros in a row.
LEMMA CleanHasNoHole ==
    ASSUME array \in Arrays, MaxZeroRun > 2, NEW n, NEW c, Clean(sampled, n, c)
    PROVE  ~ZeroFill
<1> DEFINE runs == {m \in 1 .. Len(sampled) :
                       \E i \in 0 .. (Len(sampled) - m) : \A k \in 1 .. m : sampled[i + k] = 0}
           S == {0} \cup runs
<1>1. Len(sampled) \in Nat /\ DOMAIN sampled = 1 .. Len(sampled)
  BY CleanLength DEF Clean, Windows
<1>2. LongestZeroRun(sampled) = Max(S)
  BY DEF LongestZeroRun
<1>3. ASSUME NEW m \in runs
      PROVE  m \in 0 .. 2
  <2>0. m \in 1 .. Len(sampled)
    OBVIOUS
  <2> PICK i \in 0 .. (Len(sampled) - m) : \A k \in 1 .. m : sampled[i + k] = 0
    OBVIOUS
  <2> SUFFICES ASSUME ~(m <= 2)
               PROVE  FALSE
    BY <1>1, <2>0
  <2>1. i \in Nat /\ 3 <= m /\ i + 3 <= Len(sampled)
    BY <1>1, <2>0
  <2>2. /\ i + 1 \in DOMAIN sampled /\ i + 2 \in DOMAIN sampled /\ i + 3 \in DOMAIN sampled
    BY <1>1, <2>1
  <2>3. sampled[i + 1] = 0 /\ sampled[i + 2] = 0 /\ sampled[i + 3] = 0
    <3>1. 1 \in 1 .. m /\ 2 \in 1 .. m /\ 3 \in 1 .. m
      BY <2>0, <2>1
    <3> QED
      BY <3>1
  <2> QED
    BY <2>1, <2>2, <2>3, NoThreeAlike
<1> HIDE DEF runs
<1>4. Max(S) \in S /\ \A m \in S : m \in Nat /\ m <= 2
  <2>1. \A m \in S : m \in 0 .. 2
    BY <1>3
  <2>2. S \in SUBSET (0 .. 2)
    BY <2>1
  <2>3. 0 \in S
    OBVIOUS
  <2> HIDE DEF S
  <2>4. S # {}
    BY <2>3
  <2>5. Max(S) \in S
    BY <2>2, <2>4, MaxIn
  <2> QED
    BY <2>1, <2>5
<1>5. MaxZeroRun \in Nat
  <2> DEFINE f == FamilyBound(array.family.run, DefaultRun)
             g == array.group.run
  <2>1. f \in Nat
    BY TokensAssumption DEF FamilyBound, Valid
  <2>2. MaxZeroRun = IF Valid(g) THEN Min({g, f}) ELSE f
    BY DEF MaxZeroRun, Ceiling
  <2> HIDE DEF f, g
  <2>3. Valid(g) => g \in Nat
    BY DEF Valid
  <2>4. Valid(g) => Min({g, f}) = IF g <= f THEN g ELSE f
    BY <2>1, <2>3, MinOfTwo
  <2> QED
    BY <2>1, <2>2, <2>3, <2>4
<1> DEFINE z == LongestZeroRun(sampled)
<1>6. z \in Nat /\ z <= 2
  BY <1>2, <1>3, <1>4
<1> HIDE DEF z
<1>7. ~(z >= MaxZeroRun)
  BY <1>5, <1>6
<1> QED
  BY <1>7 DEF ZeroFill, z

\* What makes a shard healthy.
Healthy ==
    /\ Honest /\ NoRepeat /\ array.file.ids # <<>> /\ array.file.cut = 0 /\ ~array.file.npy
    /\ array.entry.as = array.file.as /\ array.entry.dtype = "int" /\ array.entry.packing = "raw"
    /\ array.entry.ext \in {NoBound, array.entry.as}
    /\ array.entry.unit = "tokens" /\ array.entry.count = Len(array.file.ids)
    /\ ~Misaligned /\ ~InvalidBound /\ MaxZeroRun > 2
    /\ array.group.eos = NoBound

\* Nothing is recorded of a healthy shard.
LEMMA HealthyIsClean ==
    ASSUME array \in Arrays, Healthy, NEW c, Windows(sampled, PerWindow, c),
           PerWindow = 1 => c = 1
    PROVE  Recorded = {}
<1> DEFINE ids == array.file.ids
<1>1. /\ ids \in Seq(Nat) /\ Len(ids) \in Nat /\ Width \in {1, 2} /\ Width = array.file.as.width
      /\ Size = Len(ids) * Width - 0 /\ array.group.vocab \in Nat /\ Base \in Nat \ {0, 1}
      /\ DOMAIN ids = 1 .. Len(ids)
  BY ArrayIs DEF Healthy, Width
<1>2. AllOf = ids /\ Len(AllOf) = Len(ids)
  BY ReadsBack DEF Healthy, Width
<1>3. 1 \in DOMAIN ids /\ Len(ids) >= 1
  BY <1>1 DEF Healthy
<1>4. PerWindow >= 1
  <2>1. Size >= Width
    BY <1>2, <1>3, AllOfIs
  <2> QED
    BY <2>1, WindowIs
<1>5. Clean(sampled, PerWindow, c)
  BY <1>2, <1>4 DEF Clean, Healthy, NoRepeat
<1>6. sampled # <<>> /\ ~TooFewDistinct /\ ~ZeroFill
  BY <1>5, CleanLength, CleanReachesFloor, CleanHasNoHole DEF Healthy
<1>7. array.group.vocab # 0 /\ \A i \in DOMAIN ids : ids[i] \in Nat /\ ids[i] < array.group.vocab
  <2>1. \A i \in DOMAIN ids : ids[i] < array.group.vocab
    BY DEF Healthy, Honest
  <2>2. \A i \in DOMAIN ids : ids[i] \in Nat
    BY <1>1
  <2> QED
    BY <1>1, <1>3, <2>1, <2>2
<1>8. ~OutOfVocab
  <2>1. \A i \in DOMAIN sampled : \E k \in DOMAIN ids : sampled[i] = ids[k]
    BY <1>2, SampledIsThere
  <2>2. \A i \in DOMAIN sampled : ~(sampled[i] >= array.group.vocab)
    BY <1>1, <1>7, <2>1
  <2> QED
    BY <2>2 DEF OutOfVocab
<1>9. Smoke = {}
  BY <1>6, <1>8 DEF Smoke, TooManyEos, Healthy
<1>10. ~CountArithmetic
  <2>1. array.entry.count * Width = Size
    BY <1>1 DEF Healthy
  <2> QED
    BY <2>1 DEF CountArithmetic
<1>11. ~WidthNotCredible
  <2>1. array.group.vocab <= Values(Width)
    BY <1>1 DEF Healthy, Honest
  <2>2. ~(Width < RequiredWidth)
    BY <1>1, <2>1 DEF RequiredWidth, Values
  <2> QED
    BY <2>2 DEF WidthNotCredible, Healthy, Sized
<1>12. ~ExtensionMismatch
  BY DEF ExtensionMismatch, Healthy
<1> QED
  BY <1>7, <1>9, <1>10, <1>11, <1>12 DEF Recorded, Healthy

\* The count of a shard that passed.
LEMMA CountIsCovered ==
    ASSUME array \in Arrays, Recorded = {}, array.group.derived,
           array.entry.ext # NoBound
               \/ (array.entry.packing # "codec" /\ array.entry.dtype # "null")
    PROVE  array.entry.unit = "tokens" /\ array.entry.count * Width = Size
<1>1. array.entry.packing \in {"raw", "codec", "box"} /\ array.entry.dtype \in Names
  BY TokensAssumption DEF ArrayRecs
<1>2. /\ ~(array.group.vocab = 0) /\ ~(array.entry.unit # "tokens")
      /\ ~CountArithmetic /\ ~WidthNotCredible /\ ~ExtensionMismatch
  BY DEF Recorded
<1>3. Sized
  BY <1>1, <1>2 DEF WidthNotCredible, ExtensionMismatch, Names, Sized
<1>4. array.entry.packing = "raw"
  BY <1>1, <1>2, <1>3 DEF WidthNotCredible, ExtensionMismatch
<1> QED
  BY <1>2, <1>3, <1>4 DEF CountArithmetic

\* Tokens: one array all along, a sample made of windows of it, and a verdict about that sample.
TokensInv ==
    /\ array \in Arrays
    /\ arrayPc \in {"sample", "judge", "done"}
    /\ arrayPc # "sample" => \E c : /\ Windows(sampled, PerWindow, c)
                                    /\ PerWindow = 1 => c = 1
    /\ arrayPc = "done" => faults = Recorded

\* It holds before a shard is judged ...
LEMMA InitTokensInv == TokensInit => TokensInv
  BY DEF TokensInit, TokensFresh, TokensInv

\* ... and every step keeps it.
LEMMA NextTokensInv == TokensInv /\ [TokensNext]_tokenVars => TokensInv'
<1> SUFFICES ASSUME TokensInv, [TokensNext]_tokenVars PROVE TokensInv'
  OBVIOUS
<1>1. array' = array /\ array \in Arrays
  BY DEF TokensNext, Sample, Judge, tokenVars, TokensInv
<1>2. /\ PerWindow' = PerWindow /\ AllOf' = AllOf
  BY <1>1 DEF PerWindow, Window, Width, Size, AllOf, Element, Byte, Weight
<1>3. CASE Sample
  <2>1. PICK at \in SUBSET Offsets : Cardinality(at) \in 1 .. N_WINDOWS /\ sampled' = Joined(at)
    BY <1>3 DEF Sample
  <2>2. /\ Windows(sampled', PerWindow, Cardinality(at))
        /\ PerWindow = 1 => Cardinality(at) = 1
    BY <1>1, <2>1, SampleIsWindows
  <2>3. Windows(sampled', PerWindow, Cardinality(at)) => Windows(sampled, PerWindow, Cardinality(at))'
    BY <1>2 DEF Windows, IsWindow
  <2>4. arrayPc' = "judge"
    BY <1>3 DEF Sample
  <2> QED
    BY <1>1, <1>2, <2>2, <2>3, <2>4 DEF TokensInv
<1>4. ASSUME UNCHANGED <<array, sampled>>, arrayPc # "sample"
      PROVE  \E c : Windows(sampled, PerWindow, c)' /\ (PerWindow' = 1 => c = 1)
  BY <1>2, <1>4 DEF TokensInv, Windows, IsWindow
<1>5. UNCHANGED <<array, sampled>> => Recorded' = Recorded
  BY DEF Recorded, Smoke, OutOfVocab, TooFewDistinct, EffectiveMin, MinDistinct, TooManyEos, Places,
         ZeroFill, LongestZeroRun, MaxZeroRun, CountArithmetic, WidthNotCredible, RequiredWidth,
         Decoded, Sized, ExtensionMismatch, Misaligned, InvalidBound, Width, Size
<1>6. CASE Judge
  BY <1>1, <1>4, <1>5, <1>6 DEF Judge, TokensInv
<1>7. CASE UNCHANGED tokenVars
  BY <1>1, <1>4, <1>5, <1>7 DEF tokenVars, TokensInv
<1> QED
  BY <1>3, <1>6, <1>7 DEF TokensNext

\* The properties are part of it.
LEMMA TokensInvSays ==
    ASSUME TokensInv
    PROVE  CountCovers /\ DtypeLies /\ DegenerateNeverPasses /\ HealthyPasses
<1>1. arrayPc = "done" => \E c : Windows(sampled, PerWindow, c) /\ (PerWindow = 1 => c = 1)
  BY DEF TokensInv
<1>2. array \in Arrays /\ (arrayPc = "done" => faults = Recorded)
  BY DEF TokensInv
<1>3. CountCovers
  BY <1>2, CountIsCovered DEF CountCovers, Passed
<1>4. DtypeLies
  BY <1>1, <1>2, LiesAreFound DEF DtypeLies, Passed
<1>5. DegenerateNeverPasses
  BY <1>1, <1>2, DegenerateIsFound DEF DegenerateNeverPasses, Passed
<1>6. HealthyPasses
  BY <1>1, <1>2, HealthyIsClean DEF HealthyPasses, Healthy
<1> QED
  BY <1>3, <1>4, <1>5, <1>6

-----------------------------------------------------------------------------
(* Orders. *)

\* A vector's indices are numbers at positions 1 .. Length; a block count is a number or missing.
LEMMA VectorFacts ==
    ASSUME vector \in Vectors
    PROVE  /\ Length \in Nat /\ vector.indices \in [1 .. Length -> Nat] /\ Indices \in SUBSET Nat
           /\ vector.kind \in {"permutation", "subset", "repeating", "other"}
           /\ vector.ragged \in BOOLEAN /\ vector.cap \in Nat
           /\ BlockCount # NoBlocks => BlockCount \in Nat
<1>1. vector \in VectorRecs
  BY OrdersAssumption
<1>2. /\ vector.indices \in Seq(Nat) /\ vector.parents \in Seq(Nat \cup {NoBlocks})
      /\ vector.blocks \in Nat \cup {NoBlocks}
      /\ vector.kind \in {"permutation", "subset", "repeating", "other"}
      /\ vector.ragged \in BOOLEAN /\ vector.cap \in Nat
  BY <1>1 DEF VectorRecs
<1>3. Length \in Nat /\ vector.indices \in [1 .. Length -> Nat]
  BY <1>2 DEF Length
<1>4. Indices \in SUBSET Nat
  BY <1>3 DEF Indices, Range
<1>5. BlockCount # NoBlocks => BlockCount \in Nat
  <2> DEFINE counts  == <<vector.blocks>> \o vector.parents
             carried == {i \in DOMAIN counts : counts[i] # NoBlocks}
  <2>1. counts \in Seq(Nat \cup {NoBlocks})
    BY <1>2
  <2>2. carried \in SUBSET Nat /\ \A i \in carried : counts[i] \in Nat
    <3> HIDE DEF counts
    <3> QED
      BY <2>1
  <2>3. BlockCount = IF carried = {} THEN NoBlocks ELSE counts[Min(carried)]
    BY DEF BlockCount
  <2> HIDE DEF carried, counts
  <2> QED
    BY <2>2, <2>3, MinIn
<1> QED
  BY <1>2, <1>3, <1>4, <1>5

\* The indices of an order that has any are bounded, so one of them is the greatest.
LEMMA TopIsGreatest ==
    ASSUME vector \in Vectors, Length # 0
    PROVE  TopIndex \in Indices /\ \A k \in Indices : k =< TopIndex
<1>1. Length \in Nat /\ vector.indices \in [1 .. Length -> Nat] /\ Indices \in SUBSET Nat
  BY VectorFacts
<1>2. \A f \in [1 .. Length -> Nat] : \E n \in Nat : \A i \in 1 .. Length : f[i] =< n
  <2> SUFFICES ASSUME NEW f \in [1 .. Length -> Nat]
               PROVE  \E n \in Nat : \A i \in 1 .. Length : f[i] =< n
    OBVIOUS
  <2> DEFINE Bounded(m) == \E n \in Nat : \A i \in 1 .. m : f[i] =< n
             Unbounded  == {m \in 0 .. Length : ~Bounded(m)}
  <2>1. Unbounded \in SUBSET Nat
    BY <1>1
  <2>2. Bounded(0)
    OBVIOUS
  <2>3. ASSUME NEW m \in 1 .. Length, Bounded(m - 1) PROVE Bounded(m)
    <3>1. PICK n \in Nat : \A i \in 1 .. (m - 1) : f[i] =< n
      BY <2>3
    <3>2. m \in Nat /\ f[m] \in Nat /\ n + f[m] \in Nat
      BY <1>1
    <3>3. ASSUME NEW i \in 1 .. m PROVE f[i] =< n + f[m]
      <4>1. i \in 1 .. Length /\ f[i] \in Nat
        BY <1>1
      <4>2. i = m \/ i \in 1 .. (m - 1)
        BY <3>2
      <4> QED
        BY <3>1, <3>2, <4>1, <4>2
    <3> QED
      BY <3>2, <3>3
  <2> HIDE DEF Bounded
  <2>4. ASSUME Unbounded # {} PROVE FALSE
    <3>1. PICK m \in Unbounded : \A k \in Unbounded : m =< k
      BY <2>1, <2>4, MinIn
    <3>2. m \in 1 .. Length
      BY <1>1, <2>2
    <3>3. Bounded(m - 1)
      <4>1. m - 1 \in 0 .. Length /\ ~(m =< m - 1)
        BY <1>1, <3>2
      <4> QED
        BY <3>1, <4>1
    <3> QED
      BY <2>3, <3>2, <3>3
  <2>5. Bounded(Length)
    BY <1>1, <2>4
  <2> QED
    BY <2>5 DEF Bounded
<1>3. PICK n \in Nat : \A i \in 1 .. Length : vector.indices[i] =< n
  BY <1>1, <1>2
<1>4. Indices \in SUBSET (0 .. n)
  <2> SUFFICES ASSUME NEW k \in Indices PROVE k \in 0 .. n
    OBVIOUS
  <2>1. PICK i \in 1 .. Length : vector.indices[i] = k
    BY <1>1 DEF Indices, Range
  <2>2. k \in Nat
    BY <1>1
  <2> QED
    BY <1>3, <2>1, <2>2
<1>5. Indices # {}
  <2>1. 1 \in DOMAIN vector.indices
    BY <1>1
  <2> QED
    BY <2>1 DEF Indices, Range
<1> QED
  BY <1>1, <1>4, <1>5, MaxIn DEF TopIndex

\* What lies within a number of blocks.
LEMMA WithinIsBelow ==
    ASSUME vector \in Vectors, Length # 0, NEW n \in Nat
    PROVE  Within(n) <=> TopIndex < n
<1>1. TopIndex \in Nat /\ Indices \in SUBSET Nat /\ TopIndex \in Indices
      /\ \A k \in Indices : k =< TopIndex
  BY VectorFacts, TopIsGreatest
<1> QED
  BY <1>1 DEF Within

\* Indices are counted as many times as there are positions exactly when none repeats.
LEMMA UniqueIsInjective ==
    ASSUME vector \in Vectors
    PROVE  NotUnique <=> ~Injective
<1>1. Length \in Nat /\ vector.indices \in [1 .. Length -> Nat]
  BY VectorFacts
<1>2. vector.indices \in Surjection(1 .. Length, Indices)
  BY <1>1 DEF Surjection, Indices, Range
<1>3. IsFiniteSet(1 .. Length) /\ Cardinality(1 .. Length) = Length
  BY <1>1, FS_Interval
<1>4. Cardinality(Indices) = Length <=> vector.indices \in Injection(1 .. Length, Indices)
  BY <1>2, <1>3, FS_Surjection
<1>5. vector.indices \in Injection(1 .. Length, Indices) <=> Injective
  BY <1>1, <1>2 DEF Injection, Surjection, IsInjective, Injective
<1> QED
  BY <1>4, <1>5 DEF NotUnique

\* Every block occurs once exactly when no index repeats and the blocks are all there.
LEMMA OnceEach ==
    ASSUME vector \in Vectors, NEW n \in Nat, Within(n)
    PROVE  (\A k \in 0 .. n - 1 : Occurrences(k) = 1) <=> Injective /\ Indices = 0 .. n - 1
<1> DEFINE At(k) == {i \in DOMAIN vector.indices : vector.indices[i] = k}
<1>1. Length \in Nat /\ vector.indices \in [1 .. Length -> Nat]
  BY VectorFacts
<1>2. \A k : IsFiniteSet(At(k))
  <2>1. IsFiniteSet(1 .. Length)
    BY <1>1, FS_Interval
  <2>2. \A k : At(k) \in SUBSET (1 .. Length)
    BY <1>1
  <2> HIDE DEF At
  <2> QED
    BY <2>1, <2>2, FS_Subset
<1>3. ASSUME NEW k PROVE Occurrences(k) = 1 <=> \E i : At(k) = {i}
  <2>1. Occurrences(k) = Cardinality(At(k))
    BY DEF Occurrences
  <2> HIDE DEF At
  <2> QED
    BY <1>2, <2>1, FS_Singleton
<1>4. ASSUME \A k \in 0 .. n - 1 : Occurrences(k) = 1
      PROVE  Injective /\ Indices = 0 .. n - 1
  <2>1. \A k \in 0 .. n - 1 : \E i : At(k) = {i}
    BY <1>3, <1>4
  <2>2. \A k \in 0 .. n - 1 : k \in Indices
    BY <2>1 DEF Indices, Range
  <2>3. ASSUME NEW i \in DOMAIN vector.indices, NEW j \in DOMAIN vector.indices,
               vector.indices[i] = vector.indices[j]
        PROVE  i = j
    <3>1. vector.indices[i] \in 0 .. n - 1
      BY DEF Within, Indices, Range
    <3>2. PICK x : At(vector.indices[i]) = {x}
      BY <2>1, <3>1
    <3>3. i \in At(vector.indices[i]) /\ j \in At(vector.indices[i])
      BY <2>3
    <3> QED
      BY <3>2, <3>3
  <2> QED
    BY <2>2, <2>3 DEF Injective, Within
<1>5. ASSUME Injective, Indices = 0 .. n - 1, NEW k \in 0 .. n - 1
      PROVE  Occurrences(k) = 1
  <2>1. PICK i \in DOMAIN vector.indices : vector.indices[i] = k
    BY <1>5 DEF Indices, Range
  <2>2. At(k) = {i}
    BY <1>5, <2>1 DEF Injective
  <2> QED
    BY <1>3, <2>2
<1> QED
  BY <1>4, <1>5

\* A bijection onto n blocks has n positions.
LEMMA BijectionHasLength ==
    ASSUME vector \in Vectors, NEW n \in Nat, Injective, Indices = 0 .. n - 1
    PROVE  Length = n
<1>1. Cardinality(Indices) = Length
  BY UniqueIsInjective DEF NotUnique
<1>2. Cardinality(0 .. n - 1) = n
  BY FS_Interval
<1> QED
  BY <1>1, <1>2

\* What makes an order pass.
TrueOrder ==
    /\ ~vector.ragged /\ Length \in 1 .. vector.cap /\ vector.length \in {NoBlocks, Length}
    /\ IF BlockCount # NoBlocks THEN Claim(BlockCount)
       ELSE CASE vector.kind = "permutation" -> Claim(Length) \/ ~Within(Length)
              [] vector.kind = "subset"      -> Injective
              [] OTHER                       -> vector.kind = "repeating"

\* The two checks together complain of everything else, and of nothing else.
LEMMA CodesAreExact ==
    ASSUME vector \in Vectors
    PROVE  LengthCodes \cup DomainCodes = {} <=> TrueOrder
<1> DEFINE Whole == ~vector.ragged /\ vector.length \in {NoBlocks, Length}
           Known == vector.kind # "other" /\ Length =< vector.cap
           Sound == /\ ~OutOfRange
                    /\ vector.kind = "permutation" => ~WrongLength /\ ~NotBijective
                    /\ vector.kind = "subset" => ~NotUnique
<1>1. /\ Length \in Nat /\ vector.cap \in Nat /\ vector.ragged \in BOOLEAN
      /\ vector.kind \in {"permutation", "subset", "repeating", "other"}
      /\ BlockCount # NoBlocks => BlockCount \in Nat
  BY VectorFacts
<1>2. LengthCodes = {} <=> Whole
  BY DEF LengthCodes
<1>3. ASSUME Whole PROVE DomainCodes = {} <=> Known /\ Length # 0 /\ Sound
  <2>1. CASE ~Known \/ Length = 0
    BY <1>1, <1>3, <2>1 DEF DomainCodes
  <2>2. CASE Known /\ Length # 0
    <3>1. DomainCodes =
            {c \in {"order-index-out-of-range", "permutation-wrong-length",
                    "permutation-not-bijective", "subset-not-unique"} :
               \/ c = "order-index-out-of-range" /\ OutOfRange
               \/ vector.kind = "permutation" /\ \/ c = "permutation-wrong-length" /\ WrongLength
                                                 \/ c = "permutation-not-bijective" /\ NotBijective
               \/ vector.kind = "subset" /\ c = "subset-not-unique" /\ NotUnique}
      BY <1>1, <1>3, <2>2 DEF DomainCodes
    <3>2. DomainCodes = {} <=> Sound
      BY <1>1, <3>1
    <3> QED
      BY <2>2, <3>2
  <2> QED
    BY <1>1, <2>1, <2>2
<1>4. ASSUME Length # 0, vector.kind # "other"
      PROVE  Sound <=> IF BlockCount # NoBlocks THEN Claim(BlockCount)
                       ELSE CASE vector.kind = "permutation" -> Claim(Length) \/ ~Within(Length)
                              [] vector.kind = "subset"      -> Injective
                              [] OTHER                       -> vector.kind = "repeating"
  <2>1. NotUnique <=> ~Injective
    BY UniqueIsInjective
  <2>2. ASSUME NEW n \in Nat, Within(n)
        PROVE  (~ \E k \in 0 .. n - 1 : Occurrences(k) # 1) <=> Injective /\ Indices = 0 .. n - 1
    BY <2>2, OnceEach
  <2>3. ASSUME NEW n \in Nat PROVE Within(n) <=> TopIndex < n
    BY <1>4, WithinIsBelow
  <2>4. TopIndex \in Nat
    BY <1>4, VectorFacts, TopIsGreatest
  <2>5. CASE BlockCount # NoBlocks
    <3> DEFINE n == BlockCount
    <3>0. n \in Nat
      BY <1>1, <2>5
    <3>1. OutOfRange <=> ~Within(n)
      BY <2>3, <2>4, <2>5, <3>0 DEF OutOfRange
    <3>2. WrongLength <=> Length # n
      BY <2>5 DEF WrongLength
    <3>3. Within(n) => (NotBijective <=> \E k \in 0 .. n - 1 : Occurrences(k) # 1)
      BY <2>3, <2>5, <3>0 DEF NotBijective
    <3>4. CASE vector.kind = "permutation"
      <4>1. Claim(n) <=> Injective /\ Indices = 0 .. n - 1
        BY <3>4 DEF Claim
      <4>2. Claim(n) => Within(n) /\ Length = n
        BY <3>0, <4>1, BijectionHasLength DEF Within
      <4>3. Within(n) => (~NotBijective <=> Claim(n))
        BY <2>2, <3>0, <3>3, <4>1
      <4> QED
        BY <2>5, <3>1, <3>2, <3>4, <4>2, <4>3
    <3>5. CASE vector.kind = "subset"
      BY <2>1, <2>5, <3>1, <3>5 DEF Claim
    <3>6. CASE vector.kind = "repeating"
      BY <2>5, <3>1, <3>6 DEF Claim
    <3> QED
      BY <1>1, <1>4, <3>4, <3>5, <3>6
  <2>6. CASE BlockCount = NoBlocks
    <3>1. ~OutOfRange /\ ~WrongLength
      BY <2>6 DEF OutOfRange, WrongLength
    <3>2. CASE vector.kind = "permutation"
      <4>1. Claim(Length) <=> Injective /\ Indices = 0 .. Length - 1
        BY <3>2 DEF Claim
      <4>2. NotBijective <=> Within(Length) /\ \E k \in 0 .. Length - 1 : Occurrences(k) # 1
        BY <1>1, <2>3, <2>6 DEF NotBijective
      <4>3. Within(Length) => (~NotBijective <=> Claim(Length))
        BY <1>1, <2>2, <4>1, <4>2
      <4>4. ~NotBijective <=> Claim(Length) \/ ~Within(Length)
        BY <4>2, <4>3
      <4> QED
        BY <2>6, <3>1, <3>2, <4>4
    <3>3. CASE vector.kind = "subset"
      BY <2>1, <2>6, <3>1, <3>3
    <3>4. CASE vector.kind = "repeating"
      BY <2>6, <3>1, <3>4
    <3> QED
      BY <1>1, <1>4, <3>2, <3>3, <3>4
  <2> QED
    BY <2>5, <2>6
<1>5. TrueOrder => vector.kind # "other"
  BY DEF TrueOrder, Claim
<1>6. Length \in 1 .. vector.cap <=> Length # 0 /\ Length =< vector.cap
  BY <1>1
<1> HIDE DEF Sound
<1> QED
  BY <1>2, <1>3, <1>4, <1>5, <1>6 DEF TrueOrder

\* Orders: one vector all along, first its length, then the rest.
OrdersInv ==
    /\ vector \in Vectors
    /\ orderPc = "domain" => complaints = LengthCodes
    /\ orderPc = "done" => (complaints = {} <=> TrueOrder)

\* It holds before an order is checked ...
LEMMA InitOrdersInv == OrdersInit => OrdersInv
  BY DEF OrdersInit, OrdersFresh, OrdersInv

\* ... and every step keeps it: the vector, and so its codes, stay the same.
LEMMA NextOrdersInv == OrdersInv /\ [OrdersNext]_orderVars => OrdersInv'
<1> SUFFICES ASSUME OrdersInv, [OrdersNext]_orderVars PROVE OrdersInv'
  OBVIOUS
<1>1. vector' = vector
  BY DEF OrdersNext, CheckOrderLength, CheckOrderDomain, orderVars
<1>2. (LengthCodes' = LengthCodes) /\ (TrueOrder' <=> TrueOrder)
  <2>1. /\ Length' = Length /\ Indices' = Indices /\ BlockCount' = BlockCount
        /\ (Injective' <=> Injective)
    BY <1>1 DEF Length, Indices, BlockCount, Injective, Range
  <2>2. ASSUME NEW n PROVE (Within(n)' <=> Within(n)) /\ (Claim(n)' <=> Claim(n))
    BY <1>1, <2>1 DEF Within, Claim
  <2>3. (Within(Length)' <=> Within(Length)) /\ (Claim(Length)' <=> Claim(Length))
        /\ (Claim(BlockCount)' <=> Claim(BlockCount))
    BY <1>1, <2>1 DEF Within, Claim
  <2> QED
    BY <1>1, <2>1, <2>3 DEF LengthCodes, TrueOrder
<1>3. CASE CheckOrderLength
  BY <1>1, <1>2, <1>3 DEF CheckOrderLength, OrdersInv
<1>4. CASE CheckOrderDomain
  <2>1. complaints' = LengthCodes \cup DomainCodes /\ orderPc' = "done"
    BY <1>4 DEF CheckOrderDomain, OrdersInv
  <2> QED
    BY <1>1, <1>2, <2>1, CodesAreExact DEF OrdersInv
<1>5. CASE UNCHANGED orderVars
  BY <1>1, <1>2, <1>5 DEF orderVars, OrdersInv
<1> QED
  BY <1>3, <1>4, <1>5 DEF OrdersNext

\* TrueOrder spells the property out.
LEMMA OrdersInvTrue == OrdersInv => OrderIsWhatItClaims
  BY DEF OrdersInv, OrderIsWhatItClaims, TrueOrder

-----------------------------------------------------------------------------
(* Text corpora. *)

\* At least one candidate is kept.
LEMMA SlotsPositive == ASSUME shard \in Shards PROVE Slots \in Nat \ {0}
<1> DEFINE f == shard.fraction
           n == (f[2] + f[1] - 1) \div f[1] - 1
<1>1. f[1] \in Nat \ {0} /\ f[2] \in Nat
  BY CorpusAssumption
<1>2. n \in Int
  BY <1>1
<1>3. Slots = Max({1, n})
  BY DEF Slots
<1> HIDE DEF n
<1> QED
  BY <1>2, <1>3, MaxOfTwo

\* Counters of candidates: not too many of them, all of them positive.
CandidatesOK(c) ==
    /\ IsFiniteSet(DOMAIN c)
    /\ Cardinality(DOMAIN c) =< Slots
    /\ \A t \in DOMAIN c : c[t] \in Nat \ {0}

\* Counting one more text keeps the candidates within their slots.
LEMMA HeavyHittersFit ==
    ASSUME shard \in Shards, NEW c, CandidatesOK(c), NEW t
    PROVE  CandidatesOK(AddHeavyHitter(c, t))
<1> DEFINE d == AddHeavyHitter(c, t)
<1> SUFFICES CandidatesOK(d)
  OBVIOUS
<1>0. /\ IsFiniteSet(DOMAIN c) /\ Cardinality(DOMAIN c) =< Slots /\ Cardinality(DOMAIN c) \in Nat
      /\ \A u \in DOMAIN c : c[u] \in Nat \ {0}
      /\ Slots \in Nat
  BY SlotsPositive, FS_CardinalityType DEF CandidatesOK
<1>1. CASE t \in DOMAIN c
  <2>1. d = [c EXCEPT ![t] = @ + 1]
    BY <1>1 DEF AddHeavyHitter
  <2>2. DOMAIN d = DOMAIN c /\ \A u \in DOMAIN c : d[u] \in Nat \ {0}
    BY <1>0, <1>1, <2>1
  <2> HIDE DEF d
  <2> QED
    BY <1>0, <2>2 DEF CandidatesOK
<1>2. CASE t \notin DOMAIN c /\ Cardinality(DOMAIN c) < Slots
  <2>1. d = [u \in DOMAIN c \cup {t} |-> IF u = t THEN 1 ELSE c[u]]
    BY <1>2 DEF AddHeavyHitter
  <2>2. DOMAIN d = DOMAIN c \cup {t} /\ \A u \in DOMAIN d : d[u] \in Nat \ {0}
    BY <1>0, <2>1
  <2>3. IsFiniteSet(DOMAIN c \cup {t}) /\ Cardinality(DOMAIN c \cup {t}) = Cardinality(DOMAIN c) + 1
    BY <1>0, <1>2, FS_AddElement
  <2> HIDE DEF d
  <2> QED
    BY <1>0, <1>2, <2>2, <2>3 DEF CandidatesOK
<1>3. CASE t \notin DOMAIN c /\ ~(Cardinality(DOMAIN c) < Slots)
  <2>1. d = [u \in {w \in DOMAIN c : c[w] > 1} |-> c[u] - 1]
    BY <1>3 DEF AddHeavyHitter
  <2>2. DOMAIN d \in SUBSET DOMAIN c /\ \A u \in DOMAIN d : d[u] \in Nat \ {0}
    BY <1>0, <2>1
  <2>3. IsFiniteSet(DOMAIN d) /\ Cardinality(DOMAIN d) =< Cardinality(DOMAIN c)
        /\ Cardinality(DOMAIN d) \in Nat
    <3> HIDE DEF d
    <3> QED
      BY <1>0, <2>2, FS_Subset, FS_CardinalityType
  <2> HIDE DEF d
  <2> QED
    BY <1>0, <2>2, <2>3 DEF CandidatesOK
<1> QED
  BY <1>1, <1>2, <1>3

\* Reading: a tail that is kept is no longer than a record, and a chunk comes on top of it.
CorpusInv ==
    /\ shard \in Shards
    /\ corpusPc \in {"read", "split", "compare", "verify", "done"}
    /\ pos \in 0 .. Len(shard.body)
    /\ buf \in Seq(Bytes)
    /\ Len(buf) =< MaxRecord + Chunk
    /\ corpusPc = "read" => Len(buf) =< MaxRecord
    /\ CandidatesOK(candidates)

\* Nothing has been read at first.
LEMMA InitCorpusInv == CorpusInit => CorpusInv
<1> SUFFICES ASSUME CorpusInit PROVE CorpusInv
  OBVIOUS
<1>1. /\ shard \in Shards /\ corpusPc = "read" /\ pos = 0 /\ buf = <<>> /\ candidates = <<>>
  BY DEF CorpusInit, CorpusFresh
<1>2. shard.body \in Seq(Bytes) /\ MaxRecord \in Nat /\ Chunk \in Nat
  BY <1>1, CorpusAssumption DEF ShardRecs
<1>3. DOMAIN candidates = {} /\ Slots \in Nat
  BY <1>1, SlotsPositive
<1>4. CandidatesOK(candidates)
  BY <1>3, FS_EmptySet DEF CandidatesOK
<1> QED
  BY <1>1, <1>2, <1>4 DEF CorpusInv

\* Every step of the reading keeps the bounds.
LEMMA NextCorpusInv == CorpusInv /\ [CorpusNext]_corpusVars => CorpusInv'
<1> SUFFICES ASSUME CorpusInv, [CorpusNext]_corpusVars PROVE CorpusInv'
  OBVIOUS
<1>0. /\ shard.body \in Seq(Bytes) /\ MaxRecord \in Nat /\ Chunk \in Nat \ {0}
      /\ Len(shard.body) \in Nat /\ pos \in 0 .. Len(shard.body) /\ buf \in Seq(Bytes)
      /\ Len(buf) \in Nat /\ Len(buf) =< MaxRecord + Chunk /\ shard \in Shards
      /\ CandidatesOK(candidates)
      /\ corpusPc \in {"read", "split", "compare", "verify", "done"}
  BY CorpusAssumption DEF CorpusInv, ShardRecs
<1>1. shard' = shard /\ Slots' = Slots
  BY DEF CorpusNext, ReadChunk, NextRecord, KeepTail, EndOfStream, Compare, Verify, corpusVars, Slots
<1>2. ASSUME CandidatesOK(candidates') PROVE CandidatesOK(candidates)'
  BY <1>1, <1>2 DEF CandidatesOK
<1>3. ASSUME NEW line, Account(line) PROVE CandidatesOK(candidates')
  BY <1>0, <1>3, HeavyHittersFit DEF Account
<1>4. CASE ReadChunk
  <2>1. PICK n \in 1 .. Min({Chunk, Len(shard.body) - pos}) :
           buf' = buf \o SubSeq(shard.body, pos + 1, pos + n) /\ pos' = pos + n
    BY <1>4 DEF ReadChunk
  <2>2. n \in Nat /\ n =< Chunk /\ pos + n =< Len(shard.body)
    <3> DEFINE rest == Len(shard.body) - pos
    <3>1. Chunk \in Int /\ rest \in Int
      BY <1>0
    <3>2. Min({Chunk, rest}) \in Int /\ Min({Chunk, rest}) =< Chunk /\ Min({Chunk, rest}) =< rest
      <4> HIDE DEF rest
      <4> QED
        BY <3>1, MinOfTwo
    <3>3. n \in 1 .. Min({Chunk, rest})
      BY <2>1
    <3>4. n \in Nat /\ n =< Chunk /\ n =< rest
      <4> HIDE DEF rest
      <4> QED
        BY <3>1, <3>2, <3>3
    <3> QED
      BY <1>0, <3>4
  <2>3. SubSeq(shard.body, pos + 1, pos + n) \in Seq(Bytes)
        /\ Len(SubSeq(shard.body, pos + 1, pos + n)) = n
    BY <1>0, <2>2
  <2>4. buf' \in Seq(Bytes) /\ Len(buf') = Len(buf) + n
    BY <1>0, <2>1, <2>3
  <2>5. corpusPc = "read" /\ corpusPc' = "split" /\ candidates' = candidates
    BY <1>4 DEF ReadChunk
  <2>6. Len(buf) =< MaxRecord
    BY <2>5 DEF CorpusInv
  <2> QED
    BY <1>0, <1>1, <1>2, <2>1, <2>2, <2>4, <2>5, <2>6 DEF CorpusInv
<1>5. CASE NextRecord
  <2> DEFINE i    == Min(Breaks(buf))
             line == SubSeq(buf, 1, i - 1)
  <2>1. i \in 1 .. Len(buf)
    <3>1. Breaks(buf) \in SUBSET Nat /\ Breaks(buf) \subseteq 1 .. Len(buf) /\ Breaks(buf) # {}
      BY <1>0, <1>5 DEF Breaks, NextRecord
    <3> QED
      BY <3>1, MinIn
  <2>2. corpusPc = "split" /\ pos' = pos
    BY <1>5 DEF NextRecord
  <2>3. CASE Len(line) > MaxRecord \/ IsBad(line)
    <3>1. corpusPc' = "done" /\ buf' = buf /\ candidates' = candidates
      BY <1>5, <2>3 DEF NextRecord, Unreadable
    <3> QED
      BY <1>0, <1>1, <1>2, <2>2, <3>1 DEF CorpusInv
  <2>4. CASE ~(Len(line) > MaxRecord \/ IsBad(line))
    <3>1. Account(line) /\ buf' = SubSeq(buf, i + 1, Len(buf)) /\ corpusPc' = corpusPc
      BY <1>5, <2>4 DEF NextRecord
    <3>2. buf' \in Seq(Bytes) /\ Len(buf') =< Len(buf) /\ Len(buf') \in Nat
      <4> HIDE DEF i
      <4> QED
        BY <1>0, <2>1, <3>1
    <3>3. CandidatesOK(candidates)'
      BY <1>2, <1>3, <3>1
    <3> QED
      BY <1>0, <1>1, <2>2, <3>1, <3>2, <3>3 DEF CorpusInv
  <2> QED
    BY <2>3, <2>4
<1>6. CASE KeepTail
  <2>1. buf' = buf /\ pos' = pos /\ candidates' = candidates
    BY <1>6 DEF KeepTail
  <2>2. corpusPc' = "done" \/ (corpusPc' = "read" /\ ~(Len(buf) > MaxRecord))
    BY <1>6 DEF KeepTail, Unreadable
  <2> QED
    BY <1>0, <1>1, <1>2, <2>1, <2>2 DEF CorpusInv
<1>7. CASE EndOfStream
  <2>1. pos' = pos
    BY <1>7 DEF EndOfStream
  <2>2. CASE IsBad(buf)
    <3>1. corpusPc' = "done" /\ buf' = buf /\ candidates' = candidates
      BY <1>7, <2>2 DEF EndOfStream, Unreadable
    <3> QED
      BY <1>0, <1>1, <1>2, <2>1, <3>1 DEF CorpusInv
  <2>3. CASE ~IsBad(buf)
    <3>1. /\ corpusPc' = "compare" /\ buf' = <<>>
          /\ candidates' = candidates \/ Account(buf)
      BY <1>7, <2>3 DEF EndOfStream
    <3>2. CandidatesOK(candidates)'
      BY <1>0, <1>2, <1>3, <3>1
    <3> QED
      BY <1>0, <1>1, <2>1, <3>1, <3>2 DEF CorpusInv
  <2> QED
    BY <2>2, <2>3
<1>8. CASE Compare
  <2>1. /\ buf' = buf /\ pos' = pos /\ candidates' = candidates
        /\ corpusPc' \in {"verify", "done"}
    BY <1>8 DEF Compare
  <2> QED
    BY <1>0, <1>1, <1>2, <2>1 DEF CorpusInv
<1>9. CASE Verify
  <2>1. buf' = buf /\ pos' = pos /\ candidates' = candidates /\ corpusPc' = "done"
    BY <1>9 DEF Verify
  <2> QED
    BY <1>0, <1>1, <1>2, <2>1 DEF CorpusInv
<1>10. CASE UNCHANGED corpusVars
  <2>1. buf' = buf /\ pos' = pos /\ candidates' = candidates /\ corpusPc' = corpusPc
    BY <1>10 DEF corpusVars
  <2> QED
    BY <1>0, <1>1, <1>2, <2>1 DEF CorpusInv
<1> QED
  BY <1>4, <1>5, <1>6, <1>7, <1>8, <1>9, <1>10 DEF CorpusNext

\* The bounds are the type invariant of the reading.
LEMMA CorpusInvTyped == CorpusInv => CorpusTypeOK
  BY DEF CorpusInv, CorpusTypeOK, CandidatesOK

-----------------------------------------------------------------------------
(* How a text corpus is cut into lines. *)

\* Lines end at positions of the object, and one of them may end just behind it.
LEMMA EndsAre ==
    ASSUME NEW s \in Seq(Bytes)
    PROVE  /\ Ends(s) \subseteq 1 .. Len(s) + 1 /\ IsFiniteSet(Ends(s)) /\ Len(s) \in Nat
           /\ \A e \in Ends(s) : e =< Len(s) => s[e] = NL
           /\ \A e \in 1 .. Len(s) : s[e] = NL => e \in Ends(s)
           /\ Len(s) + 1 \in Ends(s) <=> s # <<>> /\ s[Len(s)] # NL
<1>1. Breaks(s) \subseteq 1 .. Len(s) /\ Len(s) \in Nat
  BY DEF Breaks
<1>2. Ends(s) \subseteq 1 .. Len(s) + 1
  BY <1>1 DEF Ends
<1>3. IsFiniteSet(1 .. Len(s) + 1)
  BY <1>1, FS_Interval
<1>4. IsFiniteSet(Ends(s))
  BY <1>2, <1>3, FS_Subset
<1> QED
  BY <1>1, <1>2, <1>4 DEF Ends, Breaks, Last

\* A later end has a higher rank.
LEMMA RanksGrow ==
    ASSUME NEW s \in Seq(Bytes), NEW p \in Nat, NEW e \in Ends(s), p < e
    PROVE  /\ Rank(Ends(s), p) \in Nat /\ Rank(Ends(s), e) \in Nat
           /\ Rank(Ends(s), p) + 1 =< Rank(Ends(s), e)
           /\ (\A i \in Ends(s) : ~(p < i /\ i < e)) => Rank(Ends(s), e) = Rank(Ends(s), p) + 1
<1>1. Ends(s) \in SUBSET Nat /\ IsFiniteSet(Ends(s))
  BY EndsAre
<1> QED
  BY <1>1, RanksRise

\* Whatever its rank, it is found by it.
LEMMA EndIs == ASSUME NEW s \in Seq(Bytes), NEW e \in Ends(s) PROVE End(s, Rank(Ends(s), e)) = e
<1> DEFINE f == End(s, Rank(Ends(s), e))
<1>1. f \in Ends(s) /\ Rank(Ends(s), f) = Rank(Ends(s), e)
  BY DEF End, Nth
<1>2. e \in Nat /\ f \in Nat
  BY <1>1, EndsAre
<1> HIDE DEF f
<1>3. ~(e < f) /\ ~(f < e)
  BY <1>1, <1>2, RanksGrow
<1>4. e = f
  BY <1>2, <1>3
<1> QED
  BY <1>4 DEF f

\* The end that follows p.
NextEnd(s, p, e) == e \in Ends(s) /\ p < e /\ \A i \in Ends(s) : ~(p < i /\ i < e)

\* The line between two ends, or before the first one.
LEMMA NextLine ==
    ASSUME NEW s \in Seq(Bytes), NEW p \in Nat, p = 0 \/ p \in Ends(s), NEW e, NextEnd(s, p, e)
    PROVE  /\ Rank(Ends(s), p) \in Nat /\ Rank(Ends(s), e) = Rank(Ends(s), p) + 1 /\ Rank(Ends(s), e) =< Cardinality(Ends(s))
           /\ Rank(Ends(s), e) \in DOMAIN LinesOf(s)
           /\ LinesOf(s)[Rank(Ends(s), e)] = SubSeq(s, p + 1, e - 1)
<1>1. Ends(s) \subseteq Nat \ {0} /\ IsFiniteSet(Ends(s)) /\ e \in Ends(s)
  BY EndsAre DEF NextEnd
<1>2. Rank(Ends(s), p) \in Nat /\ Rank(Ends(s), e) = Rank(Ends(s), p) + 1
  BY RanksGrow DEF NextEnd
<1>3. Rank(Ends(s), e) =< Cardinality(Ends(s)) /\ Cardinality(Ends(s)) \in Nat
  BY <1>1, FS_Subset, FS_CardinalityType DEF Rank
<1> DEFINE k == Rank(Ends(s), e)
<1>4. k \in 1 .. Cardinality(Ends(s))
  BY <1>2, <1>3
<1>5. LinesOf(s)[k] = SubSeq(s, IF k = 1 THEN 1 ELSE End(s, k - 1) + 1, End(s, k) - 1)
  <2> HIDE DEF k
  <2> QED
    BY <1>4 DEF LinesOf
<1>6. End(s, k) = e
  BY <1>1, EndIs
<1>7. (IF k = 1 THEN 1 ELSE End(s, k - 1) + 1) = p + 1
  <2>1. CASE p = 0
    <3>1. {i \in Ends(s) : i <= p} = {}
      BY <1>1, <2>1
    <3>2. Rank(Ends(s), p) = 0
      BY <3>1, FS_EmptySet DEF Rank
    <3> QED
      BY <1>2, <2>1, <3>2
  <2>2. CASE p # 0
    <3>1. p \in Ends(s) /\ End(s, Rank(Ends(s), p)) = p
      BY <2>2, EndIs
    <3>2. p \in {i \in Ends(s) : i <= p}
      BY <3>1, <1>1
    <3>3. Rank(Ends(s), p) # 0
      BY <1>1, <3>2, FS_EmptySet, FS_Subset DEF Rank
    <3> QED
      BY <1>2, <3>1, <3>3
  <2> QED
    BY <2>1, <2>2
<1>8. DOMAIN LinesOf(s) = 1 .. Cardinality(Ends(s))
  BY DEF LinesOf
<1> QED
  BY <1>2, <1>3, <1>4, <1>5, <1>6, <1>7, <1>8

\* What a part of a sequence is.
LEMMA PartIs ==
    ASSUME NEW T, NEW s \in Seq(T), NEW p \in Nat, NEW q \in Nat, p <= q, q <= Len(s)
    PROVE  /\ SubSeq(s, p + 1, q) \in Seq(T) /\ Len(SubSeq(s, p + 1, q)) = q - p
           /\ \A i \in 1 .. q - p : SubSeq(s, p + 1, q)[i] = s[p + i]
  OBVIOUS

\* Sequences that agree everywhere are equal.
LEMMA SameSeq ==
    ASSUME NEW T, NEW s \in Seq(T), NEW t \in Seq(T), Len(s) = Len(t),
           \A i \in 1 .. Len(s) : s[i] = t[i]
    PROVE  s = t
  OBVIOUS

\* Two parts that meet make one.
LEMMA PartsMeet ==
    ASSUME NEW T, NEW s \in Seq(T), NEW p \in Nat, NEW q \in Nat, NEW r \in Nat,
           p <= q, q <= r, r <= Len(s)
    PROVE  SubSeq(s, p + 1, q) \o SubSeq(s, q + 1, r) = SubSeq(s, p + 1, r)
<1> DEFINE a == SubSeq(s, p + 1, q)
           b == SubSeq(s, q + 1, r)
           c == SubSeq(s, p + 1, r)
<1>1. /\ a \in Seq(T) /\ Len(a) = q - p /\ \A i \in 1 .. q - p : a[i] = s[p + i]
      /\ b \in Seq(T) /\ Len(b) = r - q /\ \A i \in 1 .. r - q : b[i] = s[q + i]
      /\ c \in Seq(T) /\ Len(c) = r - p /\ \A i \in 1 .. r - p : c[i] = s[p + i]
  <2>1. Len(s) \in Nat /\ q <= Len(s) /\ p <= r
    OBVIOUS
  <2> QED
    BY <2>1, PartIs
<1> HIDE DEF a, b, c
<1>2. a \o b \in Seq(T) /\ Len(a \o b) = r - p
  <2>1. a \in Seq(T) /\ b \in Seq(T) /\ Len(a) = q - p /\ Len(b) = r - q
    BY <1>1
  <2>2. a \o b \in Seq(T) /\ Len(a \o b) = Len(a) + Len(b)
    BY <2>1
  <2> QED
    BY <2>1, <2>2
<1>3. ASSUME NEW i \in 1 .. r - p PROVE (a \o b)[i] = c[i]
  <2>1. CASE i <= q - p
    <3>1. (a \o b)[i] = a[i]
      BY <1>1, <2>1
    <3> QED
      BY <1>1, <2>1, <3>1
  <2>2. CASE ~(i <= q - p)
    <3>1. (a \o b)[i] = b[i - (q - p)]
      BY <1>1, <2>2
    <3>2. i - (q - p) \in 1 .. r - q /\ q + (i - (q - p)) = p + i
      BY <2>2
    <3>3. b[i - (q - p)] = s[q + (i - (q - p))]
      BY <1>1, <3>2
    <3> QED
      BY <1>1, <3>1, <3>2, <3>3
  <2> QED
    BY <2>1, <2>2
<1>4. a \o b = c
  BY <1>1, <1>2, <1>3, SameSeq
<1> QED
  BY <1>4 DEF a, b, c

\* A part of a part is a part.
LEMMA PartOfPart ==
    ASSUME NEW T, NEW s \in Seq(T), NEW p \in Nat, NEW q \in Nat, p <= q, q <= Len(s),
           NEW i \in Nat, NEW j \in Nat, i <= j, j <= q - p
    PROVE  SubSeq(SubSeq(s, p + 1, q), i + 1, j) = SubSeq(s, p + i + 1, p + j)
<1> DEFINE a == SubSeq(s, p + 1, q)
           b == SubSeq(a, i + 1, j)
           c == SubSeq(s, (p + i) + 1, p + j)
<1>1. a \in Seq(T) /\ Len(a) = q - p /\ \A k \in 1 .. q - p : a[k] = s[p + k]
  BY PartIs
<1>2. b \in Seq(T) /\ Len(b) = j - i /\ \A k \in 1 .. j - i : b[k] = a[i + k]
  <2>1. \A t \in Seq(T) : j <= Len(t) =>
            /\ SubSeq(t, i + 1, j) \in Seq(T) /\ Len(SubSeq(t, i + 1, j)) = j - i
            /\ \A k \in 1 .. j - i : SubSeq(t, i + 1, j)[k] = t[i + k]
    BY PartIs
  <2> HIDE DEF a
  <2> QED
    BY <1>1, <2>1
<1>3. c \in Seq(T) /\ Len(c) = j - i /\ \A k \in 1 .. j - i : c[k] = s[(p + i) + k]
  <2>1. /\ p + i \in Nat /\ p + j \in Nat /\ p + i <= p + j /\ p + j <= Len(s)
        /\ (p + j) - (p + i) = j - i
    <3>1. Len(s) \in Nat
      OBVIOUS
    <3> QED
      BY <3>1
  <2>2. \A u, v \in Nat : u <= v /\ v <= Len(s) =>
            /\ SubSeq(s, u + 1, v) \in Seq(T) /\ Len(SubSeq(s, u + 1, v)) = v - u
            /\ \A k \in 1 .. v - u : SubSeq(s, u + 1, v)[k] = s[u + k]
    BY PartIs
  <2> QED
    BY <2>1, <2>2
<1> HIDE DEF a, b, c
<1>4. \A k \in 1 .. j - i : b[k] = c[k]
  <2>1. \A k \in 1 .. j - i : i + k \in 1 .. q - p /\ p + (i + k) = (p + i) + k
    OBVIOUS
  <2> QED
    BY <1>1, <1>2, <1>3, <2>1
<1>5. b = c
  BY <1>2, <1>3, <1>4, SameSeq
<1> QED
  BY <1>5 DEF a, b, c

\* How many bytes have become lines.
Consumed == pos - Len(buf)

Usable(line) == ~(Len(line) > MaxRecord \/ IsBad(line))

\* Lines that were cut out are those of the object, and can be used.
SoFar(ls, s) == /\ ls \in Seq(Seq(Bytes)) /\ Len(ls) <= Cardinality(Ends(s))
                /\ \A k \in 1 .. Len(ls) : ls[k] = LinesOf(s)[k] /\ Usable(ls[k])

\* The next line cannot be used.
Spoilt(ls, s) == Len(ls) + 1 \in DOMAIN LinesOf(s) /\ ~Usable(LinesOf(s)[Len(ls) + 1])

CutInv ==
    /\ SoFar(lines, shard.body)
    /\ corpusPc \in {"read", "split"} =>
          /\ Len(buf) <= pos
          /\ buf = SubSeq(shard.body, Consumed + 1, pos)
          /\ Consumed = 0 \/ Consumed \in Ends(shard.body)
          /\ Len(lines) = Rank(Ends(shard.body), Consumed)
    /\ corpusPc = "read" => Breaks(buf) = {}
    /\ "row-read-failed" \in codes => corpusPc = "done" /\ Spoilt(lines, shard.body)
    /\ corpusPc \in {"compare", "verify", "done"} /\ "row-read-failed" \notin codes =>
          Len(lines) = Cardinality(Ends(shard.body))

\* There is a line for each end, whatever was cut so far.
LEMMA LinesAre ==
    ASSUME NEW s \in Seq(Bytes)
    PROVE  /\ Cardinality(Ends(s)) \in Nat /\ DOMAIN LinesOf(s) = 1 .. Cardinality(Ends(s))
           /\ Len(LinesOf(s)) = Cardinality(Ends(s))
           /\ \A ls : SoFar(ls, s) => IsPrefix(ls, LinesOf(s))
                                      /\ (Len(ls) = Cardinality(Ends(s)) => ls = LinesOf(s))
<1> DEFINE n == Cardinality(Ends(s))
           all == LinesOf(s)
           T == Seq(Bytes) \cup {all[k] : k \in 1 .. n}
<1>1. n \in Nat /\ DOMAIN all = 1 .. n
  BY EndsAre, FS_CardinalityType DEF LinesOf
<1>2. all = [k \in 1 .. n |-> all[k]]
  BY DEF LinesOf
<1>3. all \in [1 .. n -> T]
  <2> HIDE DEF n, all
  <2> QED
    BY <1>2
<1> HIDE DEF T
<1>4. all \in Seq(T) /\ Len(all) = n
  <2> HIDE DEF n, all
  <2> QED
    BY <1>1, <1>3
<1> HIDE DEF n, all
<1>5. ASSUME NEW ls, SoFar(ls, s)
      PROVE  IsPrefix(ls, all) /\ (Len(ls) = n => ls = all)
  <2>1. /\ ls \in Seq(T) /\ Len(ls) \in Nat /\ Len(ls) <= n
        /\ \A k \in 1 .. Len(ls) : ls[k] = all[k]
    <3>1. ls \in Seq(Seq(Bytes)) /\ Len(ls) \in Nat
      BY <1>5 DEF SoFar
    <3>2. Seq(Bytes) \subseteq T
      BY DEF T
    <3>3. ls \in Seq(T)
      BY <3>1, <3>2
    <3> QED
      BY <1>5, <3>1, <3>3 DEF SoFar, n, all
  <2> DEFINE a == SubSeq(ls, 0 + 1, Len(ls))
             b == SubSeq(all, 0 + 1, Len(ls))
  <2>2. /\ a \in Seq(T) /\ Len(a) = Len(ls) /\ \A k \in 1 .. Len(ls) : a[k] = ls[k]
        /\ b \in Seq(T) /\ Len(b) = Len(ls) /\ \A k \in 1 .. Len(ls) : b[k] = all[k]
    BY <1>4, <2>1
  <2> HIDE DEF a, b
  <2>3. a = b
    BY <2>1, <2>2, SameSeq
  <2>4. SubSeq(ls, 1, Len(ls)) = SubSeq(all, 1, Len(ls))
    BY <2>3 DEF a, b
  <2>5. Len(ls) = n => ls = all
    BY <1>4, <2>1, SameSeq
  <2> QED
    BY <1>4, <2>1, <2>4, <2>5 DEF IsPrefix
<1> QED
  BY <1>1, <1>4, <1>5 DEF n, all

\* The property is part of this.
LEMMA CutInvInvisible == CorpusInv /\ CutInv => ChunkingIsInvisible
<1> SUFFICES ASSUME CorpusInv, CutInv PROVE ChunkingIsInvisible
  OBVIOUS
<1> DEFINE s == shard.body
           all == LinesOf(s)
<1>1. s \in Seq(Bytes)
  BY CorpusAssumption DEF CorpusInv, ShardRecs
<1>2. /\ DOMAIN all = 1 .. Cardinality(Ends(s)) /\ IsPrefix(lines, all)
      /\ Len(lines) = Cardinality(Ends(s)) => lines = all
  BY <1>1, LinesAre DEF CutInv
<1>3. /\ "row-read-failed" \in codes => corpusPc = "done" /\ Spoilt(lines, s)
      /\ corpusPc \in {"compare", "verify", "done"} /\ "row-read-failed" \notin codes =>
            Len(lines) = Cardinality(Ends(s))
      /\ \A k \in 1 .. Len(lines) : Usable(lines[k])
  BY DEF CutInv, SoFar
<1> HIDE DEF s, all
<1>4. ASSUME corpusPc = "done", "row-read-failed" \in codes
      PROVE  \E k \in DOMAIN all : k = Len(lines) + 1 /\ (Len(all[k]) > MaxRecord \/ IsBad(all[k]))
  <2>1. Len(lines) + 1 \in DOMAIN all /\ ~Usable(all[Len(lines) + 1])
    BY <1>3, <1>4 DEF Spoilt, all
  <2>2. Len(all[Len(lines) + 1]) > MaxRecord \/ IsBad(all[Len(lines) + 1])
    BY <2>1 DEF Usable
  <2> QED
    BY <2>1, <2>2
<1>5. ASSUME corpusPc = "done", "row-read-failed" \notin codes
      PROVE  lines = all /\ \A k \in DOMAIN all : Len(all[k]) <= MaxRecord /\ ~IsBad(all[k])
  <2>1. lines = all
    BY <1>2, <1>3, <1>5
  <2>2. \A k \in 1 .. Len(lines) : Len(lines[k]) \in Nat /\ MaxRecord \in Nat
    BY CorpusAssumption DEF CutInv, SoFar
  <2>3. DOMAIN lines = 1 .. Len(lines)
    BY DEF CutInv, SoFar
  <2>4. \A k \in DOMAIN lines : Len(lines[k]) <= MaxRecord /\ ~IsBad(lines[k])
    BY <1>3, <2>2, <2>3 DEF Usable
  <2> QED
    BY <2>1, <2>4
<1>6. corpusPc \in {"compare", "verify"} => lines = all
  BY <1>2, <1>3
<1> QED
  BY <1>2, <1>4, <1>5, <1>6 DEF ChunkingIsInvisible, s, all

\* Nothing is cut out at first.
LEMMA InitCutInv == CorpusInit => CutInv
<1> SUFFICES ASSUME CorpusInit PROVE CutInv
  OBVIOUS
<1> DEFINE s == shard.body
<1>1. shard \in Shards /\ corpusPc = "read" /\ pos = 0 /\ buf = <<>> /\ lines = <<>> /\ codes = {}
  BY DEF CorpusInit, CorpusFresh
<1>2. s \in Seq(Bytes)
  BY <1>1, CorpusAssumption DEF ShardRecs
<1>3. Consumed = 0 /\ Len(lines) = 0 /\ Breaks(buf) = {}
  <2>1. Len(buf) = 0 /\ Len(lines) = 0 /\ DOMAIN buf = {}
    BY <1>1
  <2>2. Breaks(buf) = {}
    BY <2>1 DEF Breaks
  <2>3. Consumed = 0
    <3>1. pos = 0 /\ Len(buf) = 0
      BY <1>1, <2>1
    <3> QED
      BY <3>1 DEF Consumed
  <2> QED
    BY <2>1, <2>2, <2>3
<1>4. SubSeq(s, 1, 0) = <<>>
  BY <1>2
<1>5. Ends(s) \subseteq Nat \ {0} /\ Cardinality(Ends(s)) \in Nat
  BY <1>2, EndsAre, FS_CardinalityType
<1>6. Rank(Ends(s), 0) = 0
  <2>1. {i \in Ends(s) : i <= 0} = {}
    BY <1>5
  <2> QED
    BY <2>1, FS_EmptySet DEF Rank
<1>7. SoFar(lines, s)
  BY <1>1, <1>5 DEF SoFar
<1> HIDE DEF s
<1>8. buf = SubSeq(s, Consumed + 1, pos) /\ Len(buf) <= pos
  BY <1>1, <1>3, <1>4
<1> QED
  BY <1>1, <1>3, <1>6, <1>7, <1>8 DEF CutInv, s

\* While the object is read: what is known of the buffer, and of where its next line ends.
LEMMA Reading ==
    ASSUME CorpusInv, CutInv, corpusPc \in {"read", "split"}, NEW s, s = shard.body
    PROVE  /\ s \in Seq(Bytes) /\ Len(s) \in Nat /\ Consumed \in Nat /\ pos \in Nat /\ pos <= Len(s)
           /\ Len(buf) \in Nat /\ Consumed + Len(buf) = pos
           /\ \A i \in 1 .. Len(buf) : buf[i] = s[Consumed + i]
           /\ \A e \in Ends(s) : e <= pos /\ Consumed < e =>
                 e - Consumed \in Breaks(buf) /\ e \in Nat
           /\ \A i \in Breaks(buf) : i \in 1 .. Len(buf) /\ Consumed + i \in Ends(s)
           /\ Len(buf) > 0 /\ Breaks(buf) = {} =>
                 \E e \in Ends(s) : /\ pos < e /\ \A i \in Ends(s) : ~(Consumed < i /\ i < e)
                                    /\ pos = Len(s) => e = Len(s) + 1
<1>0. /\ s \in Seq(Bytes) /\ Len(s) \in Nat /\ pos \in 0 .. Len(s) /\ buf \in Seq(Bytes)
      /\ Len(buf) \in Nat /\ Len(buf) <= pos /\ buf = SubSeq(s, Consumed + 1, pos)
  BY CorpusAssumption DEF CorpusInv, CutInv, ShardRecs
<1>1. Consumed \in Nat /\ Consumed + Len(buf) = pos /\ pos \in Nat /\ pos <= Len(s)
  BY <1>0 DEF Consumed
<1>2. \A i \in 1 .. Len(buf) : buf[i] = s[Consumed + i]
  <2>1. Consumed \in Nat /\ pos \in Nat /\ Consumed <= pos /\ pos - Consumed = Len(buf) /\ pos <= Len(s)
    BY <1>0, <1>1
  <2>2. \A p, q \in Nat : p <= q /\ q <= Len(s) =>
            \A i \in 1 .. q - p : SubSeq(s, p + 1, q)[i] = s[p + i]
    BY <1>0, PartIs
  <2>3. \A i \in 1 .. pos - Consumed : SubSeq(s, Consumed + 1, pos)[i] = s[Consumed + i]
    BY <2>1, <2>2
  <2> QED
    BY <1>0, <2>1, <2>3
<1>3. Breaks(buf) = {i \in 1 .. Len(buf) : buf[i] = NL}
  BY <1>0 DEF Breaks
<1>4. /\ Ends(s) \subseteq 1 .. Len(s) + 1
      /\ \A e \in Ends(s) : e <= Len(s) => s[e] = NL
      /\ \A e \in 1 .. Len(s) : s[e] = NL => e \in Ends(s)
      /\ Len(s) + 1 \in Ends(s) <=> s # <<>> /\ s[Len(s)] # NL
  BY <1>0, EndsAre
<1>5. ASSUME NEW e \in Ends(s), e <= pos, Consumed < e
      PROVE  e - Consumed \in Breaks(buf) /\ e \in Nat
  <2>1. e \in Nat /\ s[e] = NL /\ e - Consumed \in 1 .. Len(buf) /\ Consumed + (e - Consumed) = e
    BY <1>0, <1>1, <1>4, <1>5
  <2> QED
    BY <1>2, <1>3, <2>1
<1>6. ASSUME NEW i \in Breaks(buf) PROVE i \in 1 .. Len(buf) /\ Consumed + i \in Ends(s)
  <2>1. i \in 1 .. Len(buf) /\ s[Consumed + i] = NL
    BY <1>2, <1>3
  <2>2. Consumed + i \in 1 .. Len(s)
    <3>1. i \in Nat /\ 1 <= i /\ i <= Len(buf)
      BY <1>0, <2>1
    <3>2. Consumed + i \in Nat /\ 1 <= Consumed + i /\ Consumed + i <= Len(s)
      BY <1>0, <1>1, <3>1, SMTT(30)
    <3> QED
      BY <1>0, <3>2
  <2> QED
    BY <1>4, <2>1, <2>2
<1>7. ASSUME Len(buf) > 0, Breaks(buf) = {}
      PROVE  \E e \in Ends(s) : /\ pos < e /\ \A i \in Ends(s) : ~(Consumed < i /\ i < e)
                                /\ pos = Len(s) => e = Len(s) + 1
  <2> DEFINE Later == {e \in Ends(s) : Consumed < e}
  <2>1. Later \in SUBSET Nat
    BY <1>4
  <2>2. Later # {}
    <3>1. CASE Len(s) + 1 \in Ends(s)
      BY <1>0, <1>1, <3>1
    <3>2. CASE Len(s) + 1 \notin Ends(s)
      <4>1. Len(s) > 0
        BY <1>0, <1>1, <1>7
      <4>2. s # <<>> /\ Len(s) \in 1 .. Len(s)
        BY <1>0, <4>1
      <4>3. Len(s) \in Ends(s) /\ Consumed < Len(s)
        BY <1>0, <1>1, <1>4, <1>7, <3>2, <4>2
      <4> QED
        BY <4>3
    <3> QED
      BY <3>1, <3>2
  <2>3. PICK e \in Later : \A i \in Later : e <= i
    <3> HIDE DEF Later
    <3> QED
      BY <2>1, <2>2, MinIn
  <2>4. pos < e
    <3>1. ~(e <= pos)
      BY <1>5, <1>7
    <3> QED
      BY <1>1, <2>1, <3>1
  <2>5. \A i \in Ends(s) : ~(Consumed < i /\ i < e)
    <3>1. \A i \in Later : i \in Nat /\ e \in Nat /\ ~(i < e)
      BY <2>1, <2>3
    <3> QED
      BY <3>1
  <2>6. pos = Len(s) => e = Len(s) + 1
    BY <1>0, <1>4, <2>4
  <2> QED
    BY <2>4, <2>5, <2>6
<1> QED
  BY <1>0, <1>1, <1>2, <1>5, <1>6, <1>7

\* After p, where the last of the lines ls ended, comes this one, which ends at e.
Follows(s, ls, p, line, e) ==
    /\ s \in Seq(Bytes) /\ SoFar(ls, s) /\ line \in Seq(Bytes)
    /\ p \in Nat /\ (p = 0 \/ p \in Ends(s)) /\ Len(ls) = Rank(Ends(s), p)
    /\ NextEnd(s, p, e) /\ line = SubSeq(s, p + 1, e - 1)

\* A line more: what was cut out is still what the object says.
LEMMA OneMoreLine ==
    ASSUME NEW s, NEW ls, NEW p, NEW line, NEW e, Follows(s, ls, p, line, e)
    PROVE  /\ Len(ls) + 1 \in DOMAIN LinesOf(s) /\ LinesOf(s)[Len(ls) + 1] = line
           /\ Usable(line) => /\ SoFar(Append(ls, line), s)
                              /\ Len(Append(ls, line)) = Rank(Ends(s), e)
<1>1. /\ Rank(Ends(s), e) = Len(ls) + 1 /\ Rank(Ends(s), e) <= Cardinality(Ends(s))
      /\ Rank(Ends(s), e) \in DOMAIN LinesOf(s) /\ LinesOf(s)[Rank(Ends(s), e)] = line
  <2>1. \A q \in Nat : /\ q = 0 \/ q \in Ends(s)
                       /\ NextEnd(s, q, e)
                       => /\ Rank(Ends(s), e) = Rank(Ends(s), q) + 1 /\ Rank(Ends(s), e) <= Cardinality(Ends(s))
                          /\ Rank(Ends(s), e) \in DOMAIN LinesOf(s)
                          /\ LinesOf(s)[Rank(Ends(s), e)] = SubSeq(s, q + 1, e - 1)
    BY NextLine DEF Follows
  <2> QED
    BY <2>1 DEF Follows
<1>2. ls \in Seq(Seq(Bytes)) /\ Len(ls) \in Nat /\ line \in Seq(Bytes) /\ SoFar(ls, s)
  BY DEF Follows, SoFar
<1>3. /\ Append(ls, line) \in Seq(Seq(Bytes)) /\ Len(Append(ls, line)) = Len(ls) + 1
      /\ \A k \in 1 .. Len(ls) : Append(ls, line)[k] = ls[k]
      /\ Append(ls, line)[Len(ls) + 1] = line
  BY <1>2
<1>4. ASSUME Usable(line), NEW k \in 1 .. Len(ls) + 1
      PROVE  Append(ls, line)[k] = LinesOf(s)[k] /\ Usable(Append(ls, line)[k])
  <2>1. CASE k = Len(ls) + 1
    BY <1>1, <1>3, <1>4, <2>1
  <2>2. CASE k # Len(ls) + 1
    <3>1. k \in 1 .. Len(ls)
      BY <1>2, <2>2
    <3> QED
      BY <1>2, <1>3, <3>1 DEF SoFar
  <2> QED
    BY <2>1, <2>2
<1>5. Usable(line) => SoFar(Append(ls, line), s)
  BY <1>1, <1>3, <1>4 DEF SoFar
<1> QED
  BY <1>1, <1>3, <1>5

\* Every step of the reading cuts out what the object says.
LEMMA NextCutInv == CorpusInv /\ CorpusInv' /\ CutInv /\ [CorpusNext]_corpusVars => CutInv'
<1> SUFFICES ASSUME CorpusInv, CorpusInv', CutInv, [CorpusNext]_corpusVars PROVE CutInv'
  OBVIOUS
<1>0. PICK s : s = shard.body
  OBVIOUS
<1>1. shard' = shard /\ shard'.body = s
  BY <1>0 DEF CorpusNext, ReadChunk, NextRecord, KeepTail, EndOfStream, Compare, Verify, corpusVars
<1>2. /\ s \in Seq(Bytes) /\ SoFar(lines, s) /\ buf \in Seq(Bytes) /\ Len(s) \in Nat
      /\ Cardinality(Ends(s)) \in Nat
  BY <1>0, CorpusAssumption, EndsAre, FS_CardinalityType DEF CorpusInv, ShardRecs, CutInv
<1>3. CASE ReadChunk
  <2>1. PICK n \in 1 .. Min({Chunk, Len(s) - pos}) :
           buf' = buf \o SubSeq(s, pos + 1, pos + n) /\ pos' = pos + n
    BY <1>0, <1>3 DEF ReadChunk
  <2>2. corpusPc = "read" /\ corpusPc' = "split" /\ lines' = lines /\ codes' = codes
    BY <1>3 DEF ReadChunk
  <2>3. /\ Consumed \in Nat /\ pos \in Nat /\ pos <= Len(s) /\ Consumed + Len(buf) = pos
        /\ Len(buf) \in Nat /\ buf = SubSeq(s, Consumed + 1, pos)
    BY <1>0, <2>2, Reading DEF CutInv
  <2>4. pos' \in Nat /\ pos' <= Len(s)
    BY <1>1, <1>2 DEF CorpusInv
  <2>5. n \in Nat /\ pos + n \in Nat /\ pos + n <= Len(s)
    <3>1. n \in Int /\ 1 <= n
      <4> DEFINE m == Min({Chunk, Len(s) - pos})
      <4>1. n \in 1 .. m
        OBVIOUS
      <4> HIDE DEF m
      <4> QED
        BY <4>1
    <3> QED
      BY <2>1, <2>3, <2>4, <3>1
  <2>6. buf' = SubSeq(s, Consumed + 1, pos')
    BY <1>2, <2>1, <2>3, <2>5, PartsMeet
  <2>7. Len(buf') = Len(buf) + n
    <3>1. Len(SubSeq(s, pos + 1, pos + n)) = n /\ SubSeq(s, pos + 1, pos + n) \in Seq(Bytes)
      BY <1>2, <2>3, <2>5, PartIs
    <3> QED
      BY <1>2, <2>1, <3>1
  <2>8. Consumed' = Consumed /\ Len(buf') <= pos'
    BY <2>1, <2>3, <2>5, <2>7 DEF Consumed
  <2> QED
    BY <1>0, <1>1, <2>2, <2>6, <2>8 DEF CutInv
<1>4. CASE NextRecord
  <2> DEFINE i    == Min(Breaks(buf))
             line == SubSeq(buf, 1, i - 1)
             p    == Consumed
             e    == Consumed + i
  <2>1. /\ corpusPc = "split" /\ pos' = pos /\ Breaks(buf) # {}
        /\ IF ~Usable(line) THEN Unreadable /\ UNCHANGED <<buf, lines>>
           ELSE Account(line) /\ buf' = SubSeq(buf, i + 1, Len(buf)) /\ corpusPc' = corpusPc
    BY <1>4 DEF NextRecord, Usable
  <2>2. /\ p \in Nat /\ pos \in Nat /\ pos <= Len(s) /\ p + Len(buf) = pos /\ Len(buf) \in Nat
        /\ \A j \in Breaks(buf) : j \in 1 .. Len(buf) /\ p + j \in Ends(s)
        /\ \A j \in Ends(s) : j <= pos /\ p < j => j - p \in Breaks(buf) /\ j \in Nat
    BY <1>0, <2>1, Reading
  <2>3. i \in Breaks(buf) /\ \A j \in Breaks(buf) : i <= j
    <3>1. Breaks(buf) \in SUBSET Nat
      BY <2>2
    <3> QED
      BY <2>1, <3>1, MinIn
  <2>4. i \in 1 .. Len(buf)
    BY <2>2, <2>3
  <2> HIDE DEF i
  <2>5. NextEnd(s, p, e)
    <3>1. e \in Ends(s) /\ p < e /\ e <= pos /\ e \in Nat
      BY <2>2, <2>3, <2>4
    <3>2. ASSUME NEW j \in Ends(s), p < j, j < e PROVE FALSE
      <4>1. j \in Nat
        BY <1>2, EndsAre
      <4>2. j - p \in Breaks(buf)
        BY <2>2, <3>1, <3>2, <4>1
      <4> QED
        BY <2>2, <2>3, <2>4, <3>2, <4>1, <4>2
    <3> QED
      BY <3>1, <3>2 DEF NextEnd
  <2>6. line = SubSeq(s, p + 1, e - 1) /\ line \in Seq(Bytes)
    <3>1. buf = SubSeq(s, p + 1, pos)
      BY <1>0, <2>1 DEF CutInv
    <3>2. /\ 0 \in Nat /\ i - 1 \in Nat /\ 0 <= i - 1 /\ i - 1 <= pos - p /\ p <= pos
          /\ p + (i - 1) = e - 1 /\ p + 0 + 1 = p + 1 /\ 0 + 1 = 1
      BY <2>2, <2>4
    <3>3. SubSeq(SubSeq(s, p + 1, pos), 0 + 1, i - 1) = SubSeq(s, p + 0 + 1, p + (i - 1))
      BY <1>2, <2>2, <3>2, PartOfPart
    <3>4. line \in Seq(Bytes)
      BY <1>2, <2>2, <2>4
    <3> QED
      BY <3>1, <3>2, <3>3, <3>4
  <2>7. /\ Len(lines) + 1 \in DOMAIN LinesOf(s) /\ LinesOf(s)[Len(lines) + 1] = line
        /\ Usable(line) => /\ SoFar(Append(lines, line), s)
                           /\ Len(Append(lines, line)) = Rank(Ends(s), e)
    <3>1. (p = 0 \/ p \in Ends(s)) /\ Len(lines) = Rank(Ends(s), p)
      BY <1>0, <2>1 DEF CutInv
    <3> HIDE DEF line, e, p
    <3> QED
      <4>1. p \in Nat /\ s \in Seq(Bytes) /\ SoFar(lines, s) /\ line \in Seq(Bytes)
        BY <1>2, <2>2, <2>6
      <4>2. line = SubSeq(s, p + 1, e - 1) /\ NextEnd(s, p, e)
        BY <2>5, <2>6
      <4>3. Follows(s, lines, p, line, e)
        BY <3>1, <4>1, <4>2 DEF Follows
      <4> QED
        BY <4>3, OneMoreLine
  <2>8. "row-read-failed" \notin codes
    BY <2>1 DEF CutInv
  <2>9. CASE ~Usable(line)
    <3>1. corpusPc' = "done" /\ lines' = lines /\ "row-read-failed" \in codes'
      BY <2>1, <2>9 DEF Unreadable
    <3>2. Spoilt(lines, s)
      BY <2>7, <2>9 DEF Spoilt
    <3> QED
      BY <1>1, <1>2, <3>1, <3>2 DEF CutInv
  <2>10. CASE Usable(line)
    <3>1. /\ Account(line) /\ buf' = SubSeq(buf, i + 1, Len(buf)) /\ corpusPc' = "split"
          /\ lines' = Append(lines, line) /\ "row-read-failed" \notin codes'
      BY <2>1, <2>8, <2>10 DEF Account
    <3>2. /\ i \in Nat /\ Len(buf) \in Nat /\ i <= Len(buf) /\ Len(buf) <= pos - p /\ p <= pos
          /\ p + Len(buf) = pos /\ p + i = e
      BY <2>2, <2>4
    <3>3. SubSeq(SubSeq(s, p + 1, pos), i + 1, Len(buf)) = SubSeq(s, p + i + 1, p + Len(buf))
      BY <1>2, <2>2, <3>2, PartOfPart
    <3>4. buf' = SubSeq(s, e + 1, pos)
      <4>1. buf = SubSeq(s, p + 1, pos)
        BY <1>0, <2>1 DEF CutInv
      <4> QED
        BY <3>1, <3>2, <3>3, <4>1
    <3>5. Len(buf') = Len(buf) - i
      BY <1>2, <3>1, <3>2
    <3>6. Consumed' = e /\ Len(buf') <= pos'
      BY <2>1, <2>2, <3>2, <3>5 DEF Consumed
    <3>7. e \in Ends(s)
      BY <2>5 DEF NextEnd
    <3> HIDE DEF e, p, line
    <3> QED
      BY <1>1, <2>1, <3>7, <2>7, <2>10, <3>1, <3>4, <3>6 DEF CutInv
  <2> QED
    BY <2>9, <2>10
<1>5. CASE KeepTail
  <2>1. /\ corpusPc = "split" /\ Breaks(buf) = {} /\ pos' = pos /\ buf' = buf /\ lines' = lines
        /\ IF Len(buf) > MaxRecord THEN Unreadable ELSE corpusPc' = "read" /\ codes' = codes
    BY <1>5 DEF KeepTail
  <2>2. CASE Len(buf) > MaxRecord
    <3>1. /\ Consumed \in Nat /\ pos \in Nat /\ pos <= Len(s) /\ Consumed + Len(buf) = pos
          /\ Len(buf) \in Nat /\ MaxRecord \in Nat
      BY <1>0, <2>1, Reading, CorpusAssumption
    <3>2. PICK e \in Ends(s) : pos < e /\ \A i \in Ends(s) : ~(Consumed < i /\ i < e)
      BY <1>0, <2>1, <2>2, <3>1, Reading
    <3>3. e \in Nat /\ e <= Len(s) + 1
      BY <1>2, EndsAre
    <3> DEFINE line == SubSeq(s, Consumed + 1, e - 1)
    <3>4. line \in Seq(Bytes) /\ Len(line) = (e - 1) - Consumed
      BY <1>2, <3>1, <3>2, <3>3, PartIs
    <3>5. ~Usable(line)
      BY <2>2, <3>1, <3>2, <3>3, <3>4 DEF Usable
    <3>6. NextEnd(s, Consumed, e)
      BY <3>1, <3>2, <3>3 DEF NextEnd
    <3>7. (Consumed = 0 \/ Consumed \in Ends(s)) /\ Len(lines) = Rank(Ends(s), Consumed)
      BY <1>0, <2>1 DEF CutInv
    <3>8. Len(lines) + 1 \in DOMAIN LinesOf(s) /\ LinesOf(s)[Len(lines) + 1] = line
      <4> HIDE DEF line
      <4>1. line = SubSeq(s, Consumed + 1, e - 1)
        BY DEF line
      <4> QED
        <5>1. Consumed \in Nat /\ s \in Seq(Bytes) /\ SoFar(lines, s) /\ line \in Seq(Bytes)
          BY <1>2, <3>1, <3>4
        <5>2. Follows(s, lines, Consumed, line, e)
          BY <3>6, <3>7, <4>1, <5>1 DEF Follows
        <5> QED
          BY <5>2, OneMoreLine
    <3>9. Spoilt(lines, s)
      BY <3>5, <3>8 DEF Spoilt
    <3>10. corpusPc' = "done" /\ "row-read-failed" \in codes'
      BY <2>1, <2>2 DEF Unreadable
    <3> QED
      BY <1>1, <1>2, <2>1, <3>9, <3>10 DEF CutInv
  <2>3. CASE ~(Len(buf) > MaxRecord)
    BY <1>1, <2>1, <2>3 DEF CutInv, Consumed
  <2> QED
    BY <2>2, <2>3
<1>6. CASE EndOfStream
  <2>1. /\ corpusPc = "read" /\ pos = Len(s) /\ pos' = pos
        /\ IF IsBad(buf) THEN Unreadable /\ UNCHANGED <<buf, lines>>
           ELSE /\ IF buf = <<>> THEN UNCHANGED <<lines, codes>> ELSE Account(buf)
                /\ buf' = <<>> /\ corpusPc' = "compare"
    BY <1>0, <1>6 DEF EndOfStream
  <2>2. /\ Consumed \in Nat /\ Consumed + Len(buf) = pos /\ Len(buf) \in Nat /\ Breaks(buf) = {}
        /\ buf = SubSeq(s, Consumed + 1, pos) /\ (Consumed = 0 \/ Consumed \in Ends(s))
        /\ Len(lines) = Rank(Ends(s), Consumed) /\ "row-read-failed" \notin codes
        /\ Len(buf) <= MaxRecord /\ MaxRecord \in Nat
    BY <1>0, <2>1, Reading, CorpusAssumption DEF CutInv, CorpusInv
  <2>3. CASE buf = <<>>
    <3>1. Consumed = Len(s) /\ ~IsBad(buf)
      <4>1. Len(buf) = 0 /\ DOMAIN buf = {}
        BY <2>3
      <4> QED
        BY <2>1, <2>2, <4>1 DEF IsBad
    <3>2. corpusPc' = "compare" /\ lines' = lines /\ codes' = codes
      BY <2>1, <2>3, <3>1
    <3>3. Rank(Ends(s), Consumed) = Cardinality(Ends(s))
      <4>1. \A e \in Ends(s) : e <= Len(s)
        <5>1. Ends(s) \subseteq 1 .. Len(s) + 1
          BY <1>2, EndsAre
        <5>2. Len(s) + 1 \notin Ends(s)
          <6>1. CASE Consumed = 0
            <7>1. s = <<>>
              <8>1. Len(s) = 0
                BY <3>1, <6>1
              <8> QED
                BY <1>2, <8>1
            <7> QED
              BY <1>2, <7>1, EndsAre
          <6>2. CASE Consumed \in Ends(s)
            BY <1>2, <3>1, <6>2, EndsAre
          <6> QED
            BY <2>2, <6>1, <6>2
        <5> QED
          BY <1>2, <5>1, <5>2
      <4>2. {e \in Ends(s) : e <= Consumed} = Ends(s)
        BY <3>1, <4>1
      <4> QED
        BY <4>2 DEF Rank
    <3> QED
      BY <1>1, <1>2, <2>2, <3>2, <3>3 DEF CutInv
  <2>4. CASE buf # <<>>
    <3>1. Len(buf) > 0
      BY <1>2, <2>2, <2>4
    <3>2. PICK e \in Ends(s) : e = Len(s) + 1 /\ \A i \in Ends(s) : ~(Consumed < i /\ i < e)
      BY <1>0, <2>1, <2>2, <3>1, Reading
    <3>3. NextEnd(s, Consumed, e) /\ e - 1 = pos
      BY <1>2, <2>1, <2>2, <3>2 DEF NextEnd
    <3>4. /\ Len(lines) + 1 \in DOMAIN LinesOf(s) /\ LinesOf(s)[Len(lines) + 1] = buf
          /\ Usable(buf) => /\ SoFar(Append(lines, buf), s)
                            /\ Len(Append(lines, buf)) = Rank(Ends(s), e)
      <4>1. /\ buf = SubSeq(s, Consumed + 1, e - 1) /\ (Consumed = 0 \/ Consumed \in Ends(s))
            /\ Len(lines) = Rank(Ends(s), Consumed) /\ Consumed \in Nat
        BY <2>2, <3>3
      <4>2. s \in Seq(Bytes) /\ SoFar(lines, s) /\ buf \in Seq(Bytes) /\ NextEnd(s, Consumed, e)
        BY <1>2, <3>3
      <4>3. Follows(s, lines, Consumed, buf, e)
        BY <4>1, <4>2 DEF Follows
      <4> QED
        BY <4>3, OneMoreLine
    <3>5. Rank(Ends(s), e) = Cardinality(Ends(s))
      <4>1. {i \in Ends(s) : i <= e} = Ends(s)
        BY <1>2, <3>2, EndsAre
      <4> QED
        BY <4>1 DEF Rank
    <3>6. CASE IsBad(buf)
      <4>1. corpusPc' = "done" /\ lines' = lines /\ "row-read-failed" \in codes'
        BY <2>1, <3>6 DEF Unreadable
      <4>2. Spoilt(lines, s)
        BY <3>4, <3>6 DEF Spoilt, Usable
      <4> QED
        BY <1>1, <1>2, <4>1, <4>2 DEF CutInv
    <3>7. CASE ~IsBad(buf)
      <4>1. /\ corpusPc' = "compare" /\ lines' = Append(lines, buf)
            /\ "row-read-failed" \notin codes'
        BY <2>1, <2>2, <2>4, <3>7 DEF Account
      <4>2. Usable(buf)
        <5>1. Len(buf) \in Nat /\ MaxRecord \in Nat /\ Len(buf) <= MaxRecord
          BY <2>2
        <5> QED
          BY <3>7, <5>1 DEF Usable
      <4> QED
        BY <1>1, <3>4, <3>5, <4>1, <4>2 DEF CutInv
    <3> QED
      BY <3>6, <3>7
  <2> QED
    BY <2>3, <2>4
<1>7. CASE Compare \/ Verify
  <2>1. /\ corpusPc \in {"compare", "verify"} /\ corpusPc' \in {"verify", "done"} /\ lines' = lines
        /\ codes' \subseteq codes \cup {"row-count-mismatch", "empty-shard", "text-all-identical"}
    BY <1>7 DEF Compare, Verify
  <2>2. "row-read-failed" \notin codes /\ "row-read-failed" \notin codes'
    BY <2>1 DEF CutInv
  <2> QED
    BY <1>0, <1>1, <2>1, <2>2 DEF CutInv
<1>8. CASE UNCHANGED corpusVars
  BY <1>8 DEF corpusVars, CutInv, Consumed
<1> QED
  BY <1>3, <1>4, <1>5, <1>6, <1>7, <1>8 DEF CorpusNext

-----------------------------------------------------------------------------
(* Candidates for a text that repeats too often: the counters of Misra and Gries. *)

\* Where the lines of a kind are, and how many there are.
Where(ls, P)   == {i \in DOMAIN ls : ls[i] \in P}
HowMany(ls, P) == Cardinality(Where(ls, P))

\* The lines that are documents, those with a usable text, and those that carry this one.
Documents   == {l \in Seq(Bytes) : IsDocument(l)}
WithText    == {l \in Seq(Bytes) : HasText(l)}
Carrying(t) == {l \in Seq(Bytes) : HasText(l) /\ TextOf(l) = t}

\* One line more is one more of its kinds.
LEMMA OneMoreOfAKind ==
    ASSUME NEW ls \in Seq(Seq(Bytes)), NEW line \in Seq(Bytes), NEW P
    PROVE  /\ IsFiniteSet(Where(ls, P)) /\ HowMany(ls, P) \in Nat /\ HowMany(ls, P) <= Len(ls)
           /\ HowMany(Append(ls, line), P) = HowMany(ls, P) + IF line \in P THEN 1 ELSE 0
<1> DEFINE more == Append(ls, line)
           W    == Where(ls, P)
<1>1. Len(ls) \in Nat /\ DOMAIN ls = 1 .. Len(ls)
  OBVIOUS
<1>2. /\ DOMAIN more = 1 .. Len(ls) + 1 /\ more[Len(ls) + 1] = line
      /\ \A i \in 1 .. Len(ls) : more[i] = ls[i]
  OBVIOUS
<1>3. IsFiniteSet(1 .. Len(ls)) /\ Cardinality(1 .. Len(ls)) = Len(ls)
  <2>1. \A n \in Nat : IsFiniteSet(1 .. n) /\ Cardinality(1 .. n) = n
    BY FS_Interval
  <2> QED
    BY <1>1, <2>1
<1>4. W \in SUBSET (1 .. Len(ls)) /\ Len(ls) + 1 \notin W
  BY <1>1 DEF Where
<1>5. IsFiniteSet(W) /\ Cardinality(W) \in Nat /\ Cardinality(W) <= Len(ls)
  <2> HIDE DEF W
  <2> QED
    BY <1>3, <1>4, FS_Subset, FS_CardinalityType
<1>6. Where(more, P) = IF line \in P THEN W \cup {Len(ls) + 1} ELSE W
  <2> HIDE DEF more
  <2> QED
    BY <1>1, <1>2 DEF Where
<1>7. Cardinality(W \cup {Len(ls) + 1}) = Cardinality(W) + 1
  <2> HIDE DEF W
  <2> QED
    BY <1>4, <1>5, FS_AddElement
<1> HIDE DEF more
<1>8. HowMany(more, P) = HowMany(ls, P) + IF line \in P THEN 1 ELSE 0
  <2>1. HowMany(more, P) = Cardinality(Where(more, P)) /\ HowMany(ls, P) = Cardinality(W)
    BY DEF HowMany
  <2> HIDE DEF W
  <2> QED
    BY <1>5, <1>6, <1>7, <2>1
<1> QED
  BY <1>5, <1>8 DEF HowMany, more

\* A wider kind has more lines.
LEMMA WiderKind ==
    ASSUME NEW ls \in Seq(Seq(Bytes)), NEW P, NEW Q, P \subseteq Q
    PROVE  HowMany(ls, P) <= HowMany(ls, Q)
<1>1. IsFiniteSet(1 .. Len(ls))
  <2>1. Len(ls) \in Nat
    OBVIOUS
  <2> QED
    BY <2>1, FS_Interval
<1>2. Where(ls, Q) \in SUBSET (1 .. Len(ls)) /\ Where(ls, P) \in SUBSET Where(ls, Q)
  BY DEF Where
<1>3. IsFiniteSet(Where(ls, Q))
  BY <1>1, <1>2, FS_Subset
<1> QED
  BY <1>2, <1>3, FS_Subset DEF HowMany

\* What the counters hold, one pair for each time that a text was counted and not crossed out.
Pairs(c)      == {x \in (DOMAIN c) \X Nat : 1 <= x[2] /\ x[2] <= c[x[1]]}
Counter(c, t) == IF t \in DOMAIN c THEN c[t] ELSE 0

\* Whenever the table was full, Slots + 1 texts were crossed out, each another one.
CrossedOut(ls, c, d) ==
    /\ Cardinality(Pairs(c)) + d * (Slots + 1) = HowMany(ls, WithText)
    /\ \A t : HowMany(ls, Carrying(t)) <= Counter(c, t) + d
MisraGries(ls, c) == IsFiniteSet(Pairs(c)) /\ \E d \in Nat : CrossedOut(ls, c, d)

\* Counting one more text: either one more pair and no crossing out, or the top of every counter.
LEMMA PairsOf ==
    ASSUME shard \in Shards, NEW c, CandidatesOK(c), IsFiniteSet(Pairs(c)), NEW t
    PROVE  LET d == AddHeavyHitter(c, t)
           IN  /\ IsFiniteSet(Pairs(d)) /\ Cardinality(Pairs(c)) \in Nat /\ Cardinality(Pairs(d)) \in Nat
               /\ \/ /\ Cardinality(Pairs(d)) = Cardinality(Pairs(c)) + 1
                     /\ \A u : Counter(d, u) = Counter(c, u) + IF u = t THEN 1 ELSE 0
                  \/ /\ Cardinality(Pairs(d)) + Slots = Cardinality(Pairs(c))
                     /\ \A u : Counter(c, u) + (IF u = t THEN 1 ELSE 0) <= Counter(d, u) + 1
<1> DEFINE d == AddHeavyHitter(c, t)
<1> SUFFICES /\ IsFiniteSet(Pairs(d)) /\ Cardinality(Pairs(c)) \in Nat /\ Cardinality(Pairs(d)) \in Nat
             /\ \/ /\ Cardinality(Pairs(d)) = Cardinality(Pairs(c)) + 1
                   /\ \A u : Counter(d, u) = Counter(c, u) + IF u = t THEN 1 ELSE 0
                \/ /\ Cardinality(Pairs(d)) + Slots = Cardinality(Pairs(c))
                   /\ \A u : Counter(c, u) + (IF u = t THEN 1 ELSE 0) <= Counter(d, u) + 1
  OBVIOUS
<1>0. /\ IsFiniteSet(DOMAIN c) /\ Cardinality(DOMAIN c) =< Slots /\ Cardinality(DOMAIN c) \in Nat
      /\ \A u \in DOMAIN c : c[u] \in Nat \ {0}
      /\ Slots \in Nat /\ Cardinality(Pairs(c)) \in Nat
  BY SlotsPositive, FS_CardinalityType DEF CandidatesOK
<1>1. CASE t \in DOMAIN c
  <2>1. d = [c EXCEPT ![t] = @ + 1]
    BY <1>1 DEF AddHeavyHitter
  <2>2. DOMAIN d = DOMAIN c /\ d[t] = c[t] + 1 /\ \A u \in DOMAIN c : u # t => d[u] = c[u]
    BY <1>1, <2>1
  <2> HIDE DEF d
  <2>3. <<t, c[t] + 1>> \notin Pairs(c)
    BY <1>0, <1>1 DEF Pairs
  <2>4. Pairs(d) = Pairs(c) \cup {<<t, c[t] + 1>>}
    <3>1. ASSUME NEW u \in DOMAIN c, NEW n \in Nat
          PROVE  <<u, n>> \in Pairs(d) <=> <<u, n>> \in Pairs(c) \/ (u = t /\ n = c[t] + 1)
      <4>1. d[u] \in Nat /\ c[u] \in Nat \ {0} /\ c[t] \in Nat
        BY <1>0, <1>1, <2>2
      <4>2. 1 <= n /\ n <= d[u] <=> (1 <= n /\ n <= c[u]) \/ (u = t /\ n = c[t] + 1)
        BY <2>2, <4>1
      <4> QED
        BY <2>2, <4>2 DEF Pairs
    <3>2. Pairs(d) \subseteq (DOMAIN c) \X Nat /\ Pairs(c) \subseteq (DOMAIN c) \X Nat
      BY <2>2 DEF Pairs
    <3>3. t \in DOMAIN c /\ c[t] + 1 \in Nat
      BY <1>0, <1>1
    <3> QED
      BY <3>1, <3>2, <3>3
  <2>5. IsFiniteSet(Pairs(d)) /\ Cardinality(Pairs(d)) = Cardinality(Pairs(c)) + 1
    BY <2>3, <2>4, FS_AddElement
  <2>6. \A u : Counter(d, u) = Counter(c, u) + IF u = t THEN 1 ELSE 0
    BY <1>0, <1>1, <2>2 DEF Counter
  <2> QED
    BY <1>0, <2>5, <2>6
<1>2. CASE t \notin DOMAIN c /\ Cardinality(DOMAIN c) < Slots
  <2>1. d = [u \in DOMAIN c \cup {t} |-> IF u = t THEN 1 ELSE c[u]]
    BY <1>2 DEF AddHeavyHitter
  <2>2. DOMAIN d = DOMAIN c \cup {t} /\ d[t] = 1 /\ \A u \in DOMAIN c : d[u] = c[u]
    BY <1>2, <2>1
  <2> HIDE DEF d
  <2>3. <<t, 1>> \notin Pairs(c)
    BY <1>2 DEF Pairs
  <2>4. Pairs(d) = Pairs(c) \cup {<<t, 1>>}
    <3>1. ASSUME NEW u \in DOMAIN d, NEW n \in Nat
          PROVE  <<u, n>> \in Pairs(d) <=> <<u, n>> \in Pairs(c) \/ (u = t /\ n = 1)
      <4>1. CASE u = t
        BY <1>2, <2>2, <4>1 DEF Pairs
      <4>2. CASE u # t
        BY <1>2, <2>2, <4>2 DEF Pairs
      <4> QED
        BY <4>1, <4>2
    <3>2. Pairs(d) \subseteq (DOMAIN d) \X Nat /\ Pairs(c) \subseteq (DOMAIN d) \X Nat
      BY <2>2 DEF Pairs
    <3>3. t \in DOMAIN d /\ 1 \in Nat
      BY <2>2
    <3> QED
      BY <3>1, <3>2, <3>3
  <2>5. IsFiniteSet(Pairs(d)) /\ Cardinality(Pairs(d)) = Cardinality(Pairs(c)) + 1
    BY <2>3, <2>4, FS_AddElement
  <2>6. \A u : Counter(d, u) = Counter(c, u) + IF u = t THEN 1 ELSE 0
    <3> TAKE u
    <3>1. CASE u = t
      BY <1>2, <2>2, <3>1 DEF Counter
    <3>2. CASE u # t /\ u \in DOMAIN c
      BY <1>0, <2>2, <3>2 DEF Counter
    <3>3. CASE u # t /\ u \notin DOMAIN c
      BY <2>2, <3>3 DEF Counter
    <3> QED
      BY <3>1, <3>2, <3>3
  <2> QED
    BY <1>0, <2>5, <2>6
<1>3. CASE t \notin DOMAIN c /\ ~(Cardinality(DOMAIN c) < Slots)
  <2>1. d = [u \in {w \in DOMAIN c : c[w] > 1} |-> c[u] - 1]
    BY <1>3 DEF AddHeavyHitter
  <2>2. DOMAIN d = {w \in DOMAIN c : c[w] > 1} /\ \A u \in DOMAIN d : d[u] = c[u] - 1
    BY <2>1
  <2> HIDE DEF d
  <2> DEFINE top  == [u \in DOMAIN c |-> <<u, c[u]>>]
             Tops == {<<u, c[u]>> : u \in DOMAIN c}
  <2>3. IsFiniteSet(Tops) /\ Cardinality(Tops) = Slots
    <3>1. top \in Bijection(DOMAIN c, Tops)
      <4>1. top \in [DOMAIN c -> Tops]
        OBVIOUS
      <4>2. \A u, w \in DOMAIN c : top[u] = top[w] => u = w
        OBVIOUS
      <4>3. \A x \in Tops : \E u \in DOMAIN c : top[u] = x
        OBVIOUS
      <4> HIDE DEF top, Tops
      <4> QED
        BY <4>1, <4>2, <4>3 DEF Bijection, Injection, IsInjective, Surjection
    <3>2. ExistsBijection(DOMAIN c, Tops)
      <4> HIDE DEF top, Tops
      <4> QED
        BY <3>1 DEF ExistsBijection
    <3>3. Cardinality(DOMAIN c) = Slots
      BY <1>0, <1>3
    <3> HIDE DEF Tops
    <3> QED
      BY <1>0, <3>2, <3>3, FS_Bijection
  <2>4. Pairs(c) = Pairs(d) \cup Tops /\ Pairs(d) \cap Tops = {}
    <3>1. ASSUME NEW u \in DOMAIN c, NEW n \in Nat
          PROVE  /\ <<u, n>> \in Pairs(c) <=> <<u, n>> \in Pairs(d) \/ n = c[u]
                 /\ ~(<<u, n>> \in Pairs(d) /\ n = c[u])
      <4>1. <<u, n>> \in Pairs(c) <=> 1 <= n /\ n <= c[u]
        BY DEF Pairs
      <4>2. <<u, n>> \in Pairs(d) <=> c[u] > 1 /\ 1 <= n /\ n <= c[u] - 1
        BY <2>2 DEF Pairs
      <4>3. c[u] \in Nat \ {0}
        BY <1>0
      <4> QED
        BY <4>1, <4>2, <4>3
    <3>2. Pairs(d) \subseteq (DOMAIN c) \X Nat /\ Pairs(c) \subseteq (DOMAIN c) \X Nat
      BY <2>2 DEF Pairs
    <3>3. \A u \in DOMAIN c : c[u] \in Nat
      BY <1>0
    <3>4. \A u \in DOMAIN c, n \in Nat : <<u, n>> \in Tops <=> n = c[u]
      OBVIOUS
    <3>5. Tops \subseteq (DOMAIN c) \X Nat
      BY <3>3
    <3> HIDE DEF Tops
    <3> QED
      BY <3>1, <3>2, <3>4, <3>5
  <2> HIDE DEF Tops
  <2>5. IsFiniteSet(Pairs(d))
    <3>1. Pairs(d) \in SUBSET Pairs(c)
      BY <2>4
    <3> QED
      BY <3>1, FS_Subset
  <2>6. Cardinality(Pairs(c)) = Cardinality(Pairs(d)) + Slots /\ Cardinality(Pairs(d)) \in Nat
    <3>1. Cardinality(Pairs(d)) \in Nat /\ Cardinality(Tops) \in Nat
      BY <2>3, <2>5, FS_CardinalityType
    <3>2. Cardinality(Pairs(d) \cup Tops)
           = Cardinality(Pairs(d)) + Cardinality(Tops) - Cardinality(Pairs(d) \cap Tops)
      BY <2>3, <2>5, FS_Union
    <3>3. Cardinality(Pairs(d) \cap Tops) = 0
      BY <2>4, FS_EmptySet
    <3> QED
      BY <1>0, <2>3, <2>4, <3>1, <3>2, <3>3
  <2>7. \A u : Counter(c, u) + (IF u = t THEN 1 ELSE 0) <= Counter(d, u) + 1
    <3> TAKE u
    <3>1. CASE u \in DOMAIN d
      <4>1. u \in DOMAIN c /\ u # t /\ d[u] = c[u] - 1 /\ c[u] \in Nat
        BY <1>0, <1>3, <2>2, <3>1
      <4> QED
        BY <3>1, <4>1 DEF Counter
    <3>2. CASE u \in DOMAIN c /\ u \notin DOMAIN d
      <4>1. u # t /\ c[u] = 1
        BY <1>0, <1>3, <2>2, <3>2
      <4> QED
        BY <3>2, <4>1 DEF Counter
    <3>3. CASE u \notin DOMAIN c
      <4>1. u \notin DOMAIN d
        BY <2>2, <3>3
      <4> QED
        BY <3>3, <4>1 DEF Counter
    <3> QED
      BY <2>2, <3>1, <3>2, <3>3
  <2> QED
    BY <1>0, <2>5, <2>6, <2>7
<1> QED
  BY <1>1, <1>2, <1>3

\* Counting a line, whether it carries a text or not, keeps the account.
LEMMA AccountKept ==
    ASSUME shard \in Shards, NEW c, CandidatesOK(c), NEW ls \in Seq(Seq(Bytes)),
           NEW line \in Seq(Bytes), MisraGries(ls, c)
    PROVE  /\ HasText(line) => MisraGries(Append(ls, line), AddHeavyHitter(c, TextOf(line)))
           /\ ~HasText(line) => MisraGries(Append(ls, line), c)
<1> DEFINE more == Append(ls, line)
           t    == TextOf(line)
           e    == AddHeavyHitter(c, t)
<1>1. PICK d \in Nat : CrossedOut(ls, c, d)
  BY DEF MisraGries
<1>2. Slots \in Nat /\ IsFiniteSet(Pairs(c))
  BY SlotsPositive DEF MisraGries
<1>3. \A P : /\ HowMany(ls, P) \in Nat
             /\ HowMany(more, P) = HowMany(ls, P) + IF line \in P THEN 1 ELSE 0
  BY OneMoreOfAKind
<1>4. \A u : u # t => line \notin Carrying(u)
  BY DEF Carrying
<1>5. HasText(line) => line \in WithText /\ line \in Carrying(t)
  BY DEF WithText, Carrying
<1>6. ~HasText(line) => line \notin WithText /\ line \notin Carrying(t)
  BY DEF WithText, Carrying
<1>7. \A u : Counter(c, u) \in Nat
  BY DEF Counter, CandidatesOK
<1>8. d * (Slots + 1) \in Nat /\ (d + 1) * (Slots + 1) = d * (Slots + 1) + Slots + 1
  BY <1>2
<1> HIDE DEF more, t
<1>9. ASSUME HasText(line) PROVE MisraGries(more, e)
  <2>1. /\ IsFiniteSet(Pairs(e)) /\ Cardinality(Pairs(c)) \in Nat /\ Cardinality(Pairs(e)) \in Nat
        /\ \/ /\ Cardinality(Pairs(e)) = Cardinality(Pairs(c)) + 1
              /\ \A u : Counter(e, u) = Counter(c, u) + IF u = t THEN 1 ELSE 0
           \/ /\ Cardinality(Pairs(e)) + Slots = Cardinality(Pairs(c))
              /\ \A u : Counter(c, u) + (IF u = t THEN 1 ELSE 0) <= Counter(e, u) + 1
    BY <1>2, PairsOf
  <2>2. \A u : Counter(e, u) \in Nat
    <3>1. CandidatesOK(e)
      BY HeavyHittersFit
    <3> HIDE DEF e
    <3> QED
      BY <3>1 DEF Counter, CandidatesOK
  <2> HIDE DEF e
  <2>3. HowMany(more, WithText) = HowMany(ls, WithText) + 1
    BY <1>3, <1>5, <1>9
  <2>4. \A u : HowMany(more, Carrying(u)) = HowMany(ls, Carrying(u)) + IF u = t THEN 1 ELSE 0
    BY <1>3, <1>4, <1>5, <1>9
  <2>5. CASE /\ Cardinality(Pairs(e)) = Cardinality(Pairs(c)) + 1
             /\ \A u : Counter(e, u) = Counter(c, u) + IF u = t THEN 1 ELSE 0
    <3>1. Cardinality(Pairs(e)) + d * (Slots + 1) = HowMany(more, WithText)
      BY <1>1, <1>3, <1>8, <2>1, <2>3, <2>5 DEF CrossedOut
    <3>2. \A u : HowMany(more, Carrying(u)) <= Counter(e, u) + d
      <4> TAKE u
      <4>1. HowMany(ls, Carrying(u)) <= Counter(c, u) + d
        BY <1>1 DEF CrossedOut
      <4> QED
        BY <1>3, <1>7, <2>2, <2>4, <2>5, <4>1
    <3>3. CrossedOut(more, e, d)
      BY <3>1, <3>2 DEF CrossedOut
    <3> QED
      BY <2>1, <3>3 DEF MisraGries
  <2>6. CASE /\ Cardinality(Pairs(e)) + Slots = Cardinality(Pairs(c))
             /\ \A u : Counter(c, u) + (IF u = t THEN 1 ELSE 0) <= Counter(e, u) + 1
    <3>1. Cardinality(Pairs(e)) + (d + 1) * (Slots + 1) = HowMany(more, WithText)
      BY <1>1, <1>2, <1>3, <1>8, <2>1, <2>3, <2>6 DEF CrossedOut
    <3>2. \A u : HowMany(more, Carrying(u)) <= Counter(e, u) + (d + 1)
      <4> TAKE u
      <4>1. HowMany(ls, Carrying(u)) <= Counter(c, u) + d
        BY <1>1 DEF CrossedOut
      <4>2. Counter(c, u) + (IF u = t THEN 1 ELSE 0) <= Counter(e, u) + 1
        BY <2>6
      <4> QED
        BY <1>3, <1>7, <2>2, <2>4, <4>1, <4>2
    <3>3. CrossedOut(more, e, d + 1) /\ d + 1 \in Nat
      BY <3>1, <3>2 DEF CrossedOut
    <3> QED
      BY <2>1, <3>3 DEF MisraGries
  <2> QED
    BY <2>1, <2>5, <2>6
<1>10. ASSUME ~HasText(line) PROVE MisraGries(more, c)
  <2>1. HowMany(more, WithText) = HowMany(ls, WithText)
    BY <1>3, <1>6, <1>10
  <2>2. \A u : HowMany(more, Carrying(u)) = HowMany(ls, Carrying(u))
    <3> TAKE u
    <3>1. line \notin Carrying(u)
      BY <1>4, <1>6, <1>10
    <3>2. /\ HowMany(ls, Carrying(u)) \in Nat
          /\ HowMany(more, Carrying(u)) = HowMany(ls, Carrying(u)) + IF line \in Carrying(u) THEN 1 ELSE 0
      BY <1>3
    <3> QED
      BY <3>1, <3>2
  <2>3. CrossedOut(more, c, d)
    BY <1>1, <2>1, <2>2 DEF CrossedOut
  <2> QED
    BY <1>2, <2>3 DEF MisraGries
<1> QED
  BY <1>9, <1>10 DEF more, t, e

\* There are enough slots for every text that could exceed the fraction.
LEMMA SlotsSuffice ==
    ASSUME shard \in Shards
    PROVE  /\ shard.fraction[1] \in Nat \ {0} /\ shard.fraction[2] \in Nat
           /\ shard.fraction[2] <= (Slots + 1) * shard.fraction[1]
<1> DEFINE a == shard.fraction[1]
           b == shard.fraction[2]
           q == (b + a - 1) \div a
<1>1. a \in Nat \ {0} /\ b \in Nat
  BY CorpusAssumption
<1>2. Slots = Max({1, q - 1})
  BY DEF Slots
<1> HIDE DEF a, b
<1>3. q \in Int /\ b <= q * a
  BY <1>1
<1> HIDE DEF q
<1>4. Slots \in Int /\ Slots + 1 >= q
  BY <1>2, <1>3, MaxOfTwo
<1>5. \A m, n \in Int : m >= n => n * a <= m * a
  BY <1>1
<1>6. q * a <= (Slots + 1) * a
  BY <1>3, <1>4, <1>5
<1>7. b <= (Slots + 1) * a
  <2>1. q * a \in Int /\ (Slots + 1) * a \in Int
    BY <1>1, <1>3, <1>4
  <2> QED
    BY <1>1, <1>3, <1>6, <2>1
<1> QED
  BY <1>1, <1>7 DEF a, b

\* This text makes up more than the allowed fraction of the documents.
TooOften(ls, t) ==
    HowMany(ls, Carrying(t)) * shard.fraction[2] > shard.fraction[1] * HowMany(ls, Documents)

\* Such a text is still among the candidates.
LEMMA OftenIsKept ==
    ASSUME shard \in Shards, NEW c, CandidatesOK(c), NEW ls \in Seq(Seq(Bytes)),
           MisraGries(ls, c), NEW t, TooOften(ls, t)
    PROVE  t \in DOMAIN c
<1> SUFFICES ASSUME t \notin DOMAIN c PROVE FALSE
  OBVIOUS
<1>1. PICK d \in Nat : CrossedOut(ls, c, d)
  BY DEF MisraGries
<1> DEFINE a == shard.fraction[1]
           b == shard.fraction[2]
           k == HowMany(ls, Carrying(t))
           m == HowMany(ls, WithText)
           n == HowMany(ls, Documents)
<1>2. Slots \in Nat /\ a \in Nat \ {0} /\ b \in Nat /\ b <= (Slots + 1) * a
  BY SlotsPositive, SlotsSuffice
<1>3. k \in Nat /\ m \in Nat /\ n \in Nat
  <2>1. <<>> \in Seq(Bytes)
    OBVIOUS
  <2>2. \A P : HowMany(ls, P) \in Nat
    BY <2>1, OneMoreOfAKind
  <2> QED
    BY <2>2
<1>4. m <= n
  <2>1. WithText \subseteq Documents
    BY DEF WithText, Documents, HasText
  <2> QED
    BY <2>1, WiderKind
<1>5. k <= d
  <2>1. Counter(c, t) = 0 /\ k <= Counter(c, t) + d
    BY <1>1 DEF Counter, CrossedOut
  <2> QED
    BY <1>3, <2>1
<1>6. d * (Slots + 1) <= m
  <2>1. Cardinality(Pairs(c)) \in Nat /\ Cardinality(Pairs(c)) + d * (Slots + 1) = m
    BY <1>1, FS_CardinalityType DEF MisraGries, CrossedOut
  <2>2. d * (Slots + 1) \in Nat
    BY <1>2
  <2> QED
    BY <1>3, <2>1, <2>2
<1>7. k * b > a * n
  BY DEF TooOften
<1> HIDE DEF a, b, k, m, n
<1> DEFINE z == Slots + 1
<1>8. z \in Nat /\ b <= z * a /\ d * z <= n
  <2>1. z \in Nat /\ d * z \in Nat
    BY <1>2
  <2> QED
    BY <1>2, <1>3, <1>4, <1>6, <2>1
<1> HIDE DEF z
<1>9. \A x, y, w \in Nat : x <= y => x * w <= y * w
  OBVIOUS
<1>10. k * b <= d * b
  BY <1>2, <1>3, <1>5, <1>9
<1>11. d * b <= d * (z * a)
  <2>1. z * a \in Nat /\ b * d = d * b /\ (z * a) * d = d * (z * a)
    BY <1>2, <1>8
  <2> QED
    BY <1>2, <1>8, <1>9, <2>1
<1>12. d * (z * a) = (d * z) * a /\ (d * z) * a <= n * a
  <2>1. d * z \in Nat
    BY <1>8
  <2>2. (d * z) * a <= n * a
    BY <1>2, <1>3, <1>8, <1>9, <2>1
  <2>3. d * (z * a) = (d * z) * a
    BY <1>2, <1>8
  <2> QED
    BY <2>2, <2>3
<1>13. n * a = a * n
  BY <1>2, <1>3
<1>14. k * b \in Nat /\ d * b \in Nat /\ d * (z * a) \in Nat /\ a * n \in Nat
  <2>1. z * a \in Nat
    BY <1>2, <1>8
  <2> QED
    BY <1>2, <1>3, <2>1
<1> QED
  BY <1>7, <1>10, <1>11, <1>12, <1>13, <1>14

\* What the second pass looks for.
Repeats(ls) ==
    /\ Checked
    /\ HowMany(ls, Documents) >= 2
    /\ \E i \in DOMAIN ls : HasText(ls[i]) /\ TooOften(ls, TextOf(ls[i]))

\* The candidates account for the lines so far, and the verdict is about all of them.
HeavyInv ==
    /\ rows = HowMany(lines, Documents)
    /\ Checked => MisraGries(lines, candidates)
    /\ corpusPc # "done" => "text-all-identical" \notin codes
    /\ corpusPc = "verify" => Checked /\ rows >= 2 /\ DOMAIN candidates # {}
    /\ corpusPc = "done" /\ "row-read-failed" \notin codes =>
          ("text-all-identical" \in codes <=> Repeats(lines))

\* The model's own count is the one used here.
LEMMA CountIs ==
    ASSUME NEW ls \in Seq(Seq(Bytes))
    PROVE  /\ \A t : CountIn(ls, t) = HowMany(ls, Carrying(t))
           /\ Cardinality({i \in DOMAIN ls : IsDocument(ls[i])}) = HowMany(ls, Documents)
<1>1. \A i \in DOMAIN ls : ls[i] \in Seq(Bytes)
  OBVIOUS
<1>2. \A t : {i \in DOMAIN ls : HasText(ls[i]) /\ TextOf(ls[i]) = t} = Where(ls, Carrying(t))
  BY <1>1 DEF Where, Carrying
<1>3. {i \in DOMAIN ls : IsDocument(ls[i])} = Where(ls, Documents)
  BY <1>1 DEF Where, Documents
<1> QED
  BY <1>2, <1>3 DEF CountIn, HowMany

\* The property is part of this.
LEMMA HeavyInvReported == CorpusInv /\ CutInv /\ HeavyInv => RepeatsReported
<1> SUFFICES ASSUME CorpusInv, CutInv, HeavyInv, corpusPc = "done", "row-read-failed" \notin codes
             PROVE  LET all == LinesOf(shard.body)
                        n   == Cardinality({i \in DOMAIN all : IsDocument(all[i])})
                    IN  "text-all-identical" \in codes <=>
                            /\ Checked
                            /\ n >= 2
                            /\ \E i \in DOMAIN all : /\ HasText(all[i])
                                                     /\ CountIn(all, TextOf(all[i])) * shard.fraction[2]
                                                          > shard.fraction[1] * n
  BY DEF RepeatsReported
<1>1. LinesOf(shard.body) = lines /\ lines \in Seq(Seq(Bytes))
  <2>1. shard.body \in Seq(Bytes)
    BY CorpusAssumption DEF CorpusInv, ShardRecs
  <2>2. SoFar(lines, shard.body) /\ Len(lines) = Cardinality(Ends(shard.body))
    BY DEF CutInv
  <2> QED
    BY <2>1, <2>2, LinesAre DEF SoFar
<1>2. /\ \A t : CountIn(lines, t) = HowMany(lines, Carrying(t))
      /\ Cardinality({i \in DOMAIN lines : IsDocument(lines[i])}) = HowMany(lines, Documents)
  BY <1>1, CountIs
<1>3. "text-all-identical" \in codes <=> Repeats(lines)
  BY DEF HeavyInv
<1> QED
  BY <1>1, <1>2, <1>3 DEF Repeats, TooOften

\* No line, no account to keep.
LEMMA InitHeavyInv == CorpusInit => HeavyInv
<1> SUFFICES ASSUME CorpusInit PROVE HeavyInv
  OBVIOUS
<1>1. /\ shard \in Shards /\ corpusPc = "read" /\ lines = <<>> /\ rows = 0 /\ candidates = <<>>
      /\ codes = {}
  BY DEF CorpusInit, CorpusFresh
<1>2. \A P : HowMany(lines, P) = 0
  <2>1. \A P : Where(lines, P) = {}
    BY <1>1 DEF Where
  <2> QED
    BY <2>1, FS_EmptySet DEF HowMany
<1>3. Pairs(candidates) = {}
  BY <1>1 DEF Pairs
<1>4. \A t : Counter(candidates, t) = 0
  BY <1>1 DEF Counter
<1>5. CrossedOut(lines, candidates, 0)
  <2>1. Cardinality(Pairs(candidates)) = 0
    BY <1>3, FS_EmptySet
  <2>2. 0 * (Slots + 1) = 0
    <3>1. Slots + 1 \in Nat
      BY <1>1, SlotsPositive
    <3>2. \A x \in Nat : 0 * x = 0
      OBVIOUS
    <3> QED
      BY <3>1, <3>2
  <2> QED
    BY <1>2, <1>4, <2>1, <2>2 DEF CrossedOut
<1>6. MisraGries(lines, candidates)
  BY <1>3, <1>5, FS_EmptySet DEF MisraGries
<1> QED
  BY <1>1, <1>2, <1>6 DEF HeavyInv

\* Accounting for one line.
LEMMA AccountHeavy ==
    ASSUME CorpusInv, HeavyInv, lines \in Seq(Seq(Bytes)), NEW line \in Seq(Bytes), Account(line),
           shard' = shard
    PROVE  /\ rows' = HowMany(lines', Documents)
           /\ Checked' => MisraGries(lines, candidates)'
           /\ "text-all-identical" \in codes' <=> "text-all-identical" \in codes
<1>1. /\ lines' = Append(lines, line)
      /\ rows' = IF IsDocument(line) THEN rows + 1 ELSE rows
      /\ candidates' = IF HasText(line) /\ Checked THEN AddHeavyHitter(candidates, TextOf(line))
                       ELSE candidates
      /\ "text-all-identical" \in codes' <=> "text-all-identical" \in codes
  BY DEF Account
<1>2. rows' = HowMany(lines', Documents)
  <2>1. IsDocument(line) <=> line \in Documents
    BY DEF Documents
  <2>2. /\ HowMany(lines, Documents) \in Nat
        /\ HowMany(lines', Documents) = HowMany(lines, Documents) + IF line \in Documents THEN 1 ELSE 0
    BY <1>1, OneMoreOfAKind
  <2>3. rows = HowMany(lines, Documents)
    BY DEF HeavyInv
  <2> QED
    BY <1>1, <2>1, <2>2, <2>3
<1>3. Slots' = Slots /\ Checked' = Checked
  BY DEF Slots, Checked
<1>4. ASSUME Checked PROVE MisraGries(lines', candidates')
  <2>1. CandidatesOK(candidates) /\ shard \in Shards /\ MisraGries(lines, candidates)
    BY <1>4 DEF CorpusInv, HeavyInv
  <2>2. /\ HasText(line) => MisraGries(Append(lines, line), AddHeavyHitter(candidates, TextOf(line)))
        /\ ~HasText(line) => MisraGries(Append(lines, line), candidates)
    BY <2>1, AccountKept
  <2> QED
    BY <1>1, <1>4, <2>2
<1>5. MisraGries(lines', candidates') => MisraGries(lines, candidates)'
  BY <1>3 DEF MisraGries, CrossedOut, HowMany, Where, Pairs, Counter, WithText, Carrying
<1> QED
  BY <1>1, <1>2, <1>3, <1>4, <1>5

\* Where neither the lines nor the candidates change, neither does the account.
LEMMA HeavyKept ==
    ASSUME HeavyInv, UNCHANGED <<shard, lines, rows, candidates>>
    PROVE  /\ rows' = HowMany(lines', Documents)
           /\ Checked' => MisraGries(lines, candidates)'
           /\ Repeats(lines)' <=> Repeats(lines)
<1>1. Slots' = Slots /\ Checked' = Checked
  BY DEF Slots, Checked
<1>2. MisraGries(lines, candidates)' <=> MisraGries(lines, candidates)
  BY <1>1 DEF MisraGries, CrossedOut, HowMany, Where, Pairs, Counter, WithText, Carrying
<1>3. Repeats(lines)' <=> Repeats(lines)
  BY <1>1 DEF Repeats, TooOften, HowMany, Where, Documents, Carrying
<1> QED
  BY <1>1, <1>2, <1>3 DEF HeavyInv

\* The second pass reports what it looks for.
LEMMA VerifyReports ==
    ASSUME CorpusInv, HeavyInv, lines \in Seq(Seq(Bytes)), Verify
    PROVE  "text-all-identical" \in codes' <=> Repeats(lines)
<1> DEFINE a == shard.fraction[1]
           b == shard.fraction[2]
           S == {CountIn(lines, t) : t \in DOMAIN candidates}
           top == Max(S)
<1>1. /\ codes' = IF top * b > a * rows THEN codes \cup {"text-all-identical"} ELSE codes
      /\ corpusPc = "verify"
  BY DEF Verify
<1>2. /\ "text-all-identical" \notin codes /\ Checked /\ rows >= 2 /\ DOMAIN candidates # {}
      /\ rows = HowMany(lines, Documents) /\ MisraGries(lines, candidates)
  BY <1>1 DEF HeavyInv
<1>3. shard \in Shards /\ CandidatesOK(candidates) /\ a \in Nat \ {0} /\ b \in Nat
  BY SlotsSuffice DEF CorpusInv
<1>4. \A t : CountIn(lines, t) = HowMany(lines, Carrying(t))
  BY CountIs
<1>5. \A P : HowMany(lines, P) \in 0 .. Len(lines) /\ Len(lines) \in Nat
  <2>1. <<>> \in Seq(Bytes)
    OBVIOUS
  <2>2. \A P : HowMany(lines, P) \in Nat /\ HowMany(lines, P) <= Len(lines)
    BY <2>1, OneMoreOfAKind
  <2>3. Len(lines) \in Nat
    OBVIOUS
  <2> QED
    BY <2>2, <2>3
<1>6. S \in SUBSET (0 .. Len(lines)) /\ S # {}
  BY <1>2, <1>4, <1>5
<1>7. top \in S /\ \A y \in S : top >= y
  <2>1. Len(lines) \in Nat
    BY <1>5
  <2> HIDE DEF S
  <2> QED
    BY <1>6, <2>1, MaxIn
<1>8. top \in Nat /\ rows \in Nat
  <2>1. rows \in 0 .. Len(lines) /\ Len(lines) \in Nat /\ top \in 0 .. Len(lines)
    <3> HIDE DEF S, top
    <3> QED
      BY <1>2, <1>5, <1>6, <1>7
  <2> HIDE DEF top
  <2> QED
    BY <2>1
<1>9. ASSUME top * b > a * rows PROVE Repeats(lines)
  <2>1. PICK t \in DOMAIN candidates : top = HowMany(lines, Carrying(t))
    BY <1>4, <1>7
  <2> HIDE DEF top, S
  <2>2. TooOften(lines, t)
    BY <1>2, <1>9, <2>1 DEF TooOften
  <2>3. top # 0
    <3> HIDE DEF a, b
    <3>1. a * rows \in Nat /\ 0 * b = 0
      BY <1>3, <1>8
    <3> QED
      BY <1>9, <3>1
  <2>4. Where(lines, Carrying(t)) # {}
    BY <2>1, <2>3, FS_EmptySet DEF HowMany
  <2>5. PICK i \in DOMAIN lines : HasText(lines[i]) /\ TextOf(lines[i]) = t
    BY <2>4 DEF Where, Carrying
  <2> QED
    BY <1>2, <2>2, <2>5 DEF Repeats
<1>10. ASSUME Repeats(lines) PROVE top * b > a * rows
  <2>1. PICK i \in DOMAIN lines : HasText(lines[i]) /\ TooOften(lines, TextOf(lines[i]))
    BY <1>10 DEF Repeats
  <2> DEFINE t == TextOf(lines[i])
             k == HowMany(lines, Carrying(t))
  <2>2. t \in DOMAIN candidates
    BY <1>2, <1>3, <2>1, OftenIsKept
  <2>3. k \in S
    BY <1>4, <2>2
  <2>4. k * b > a * rows
    BY <1>2, <2>1 DEF TooOften
  <2>5. k \in Nat /\ top >= k
    <3> HIDE DEF top, S
    <3>1. top >= k
      BY <1>7, <2>3
    <3>2. k \in 0 .. Len(lines) /\ Len(lines) \in Nat
      BY <1>5
    <3> HIDE DEF k
    <3> QED
      BY <3>1, <3>2
  <2> HIDE DEF a, b, k, top, S
  <2>6. \A x, y, w \in Nat : x <= y => x * w <= y * w
    OBVIOUS
  <2>7. k * b <= top * b
    BY <1>3, <1>8, <2>5, <2>6
  <2>8. k * b \in Nat /\ top * b \in Nat /\ a * rows \in Nat
    BY <1>3, <1>8, <2>5
  <2> QED
    BY <2>4, <2>7, <2>8
<1> QED
  BY <1>1, <1>2, <1>9, <1>10

\* Every step keeps the account.
LEMMA NextHeavyInv == CorpusInv /\ CutInv /\ HeavyInv /\ [CorpusNext]_corpusVars => HeavyInv'
<1> SUFFICES ASSUME CorpusInv, CutInv, HeavyInv, [CorpusNext]_corpusVars PROVE HeavyInv'
  OBVIOUS
<1>1. shard' = shard /\ Checked' = Checked
  BY DEF CorpusNext, ReadChunk, NextRecord, KeepTail, EndOfStream, Compare, Verify, corpusVars, Checked
<1>2. lines \in Seq(Seq(Bytes)) /\ buf \in Seq(Bytes)
  BY DEF CorpusInv, CutInv, SoFar
<1>3. ASSUME NEW line \in Seq(Bytes), Account(line), corpusPc \in {"read", "split"},
             corpusPc' \in {"split", "compare"}
      PROVE  HeavyInv'
  <2>1. /\ rows' = HowMany(lines', Documents)
        /\ Checked' => MisraGries(lines, candidates)'
        /\ "text-all-identical" \in codes' <=> "text-all-identical" \in codes
    BY <1>1, <1>2, <1>3, AccountHeavy
  <2>2. "text-all-identical" \notin codes'
    BY <1>3, <2>1 DEF HeavyInv
  <2> QED
    BY <1>3, <2>1, <2>2 DEF HeavyInv, HowMany, Where, Documents
<1>4. ASSUME UNCHANGED <<lines, rows, candidates>>, corpusPc \in {"read", "split"},
             \/ Unreadable
             \/ codes' = codes /\ corpusPc' \in {"read", "split", "compare"}
      PROVE  HeavyInv'
  <2>1. rows' = HowMany(lines', Documents) /\ (Checked' => MisraGries(lines, candidates)')
    BY <1>1, <1>4, HeavyKept
  <2> QED
    BY <1>4, <2>1 DEF HeavyInv, Unreadable, HowMany, Where, Documents
<1>5. CASE ReadChunk
  BY <1>4, <1>5 DEF ReadChunk
<1>6. CASE NextRecord
  <2> DEFINE line == SubSeq(buf, 1, Min(Breaks(buf)) - 1)
  <2>1. /\ corpusPc = "split" /\ Breaks(buf) # {}
        /\ \/ Unreadable /\ UNCHANGED <<lines, rows, candidates>>
           \/ Account(line) /\ corpusPc' = corpusPc
    BY <1>6 DEF NextRecord
  <2>2. line \in Seq(Bytes)
    <3> DEFINE i == Min(Breaks(buf))
    <3>1. Breaks(buf) \in SUBSET Nat /\ Breaks(buf) \subseteq 1 .. Len(buf)
      BY <1>2 DEF Breaks
    <3>2. i \in 1 .. Len(buf)
      BY <2>1, <3>1, MinIn
    <3> HIDE DEF i
    <3>3. i - 1 \in Nat /\ 0 <= i - 1 /\ i - 1 <= Len(buf) /\ 0 \in Nat
      <4>1. Len(buf) \in Nat
        BY <1>2
      <4> QED
        BY <3>2, <4>1
    <3>4. SubSeq(buf, 0 + 1, i - 1) \in Seq(Bytes)
      BY <1>2, <3>3, PartIs
    <3> QED
      BY <3>4 DEF i
  <2> HIDE DEF line
  <2> QED
    BY <1>3, <1>4, <2>1, <2>2
<1>7. CASE KeepTail
  BY <1>4, <1>7 DEF KeepTail
<1>8. CASE EndOfStream
  <2>1. /\ corpusPc = "read"
        /\ \/ Unreadable /\ UNCHANGED <<lines, rows, candidates>>
           \/ UNCHANGED <<lines, rows, candidates, codes>> /\ corpusPc' = "compare"
           \/ Account(buf) /\ corpusPc' = "compare"
    BY <1>8 DEF EndOfStream
  <2> QED
    BY <1>2, <1>3, <1>4, <2>1
<1>9. CASE Compare
  <2>1. /\ corpusPc = "compare" /\ UNCHANGED <<shard, lines, rows, candidates>>
        /\ "text-all-identical" \in codes' <=> "text-all-identical" \in codes
        /\ corpusPc' = IF Checked /\ rows >= 2 /\ DOMAIN candidates # {} THEN "verify" ELSE "done"
    BY <1>9 DEF Compare
  <2>2. /\ rows' = HowMany(lines', Documents) /\ (Checked' => MisraGries(lines, candidates)')
        /\ Repeats(lines)' <=> Repeats(lines)
    BY <2>1, HeavyKept
  <2>3. "text-all-identical" \notin codes'
    BY <2>1 DEF HeavyInv
  <2>4. ASSUME Repeats(lines) PROVE corpusPc' = "verify"
    <3>1. Checked /\ rows >= 2 /\ MisraGries(lines, candidates)
      BY <2>4 DEF Repeats, HeavyInv
    <3>2. PICK i \in DOMAIN lines : TooOften(lines, TextOf(lines[i]))
      BY <2>4 DEF Repeats
    <3>3. TextOf(lines[i]) \in DOMAIN candidates
      BY <1>2, <3>1, <3>2, OftenIsKept DEF CorpusInv
    <3> QED
      BY <2>1, <3>1, <3>3
  <2>5. Repeats(lines)' <=> Repeats(lines')
    BY <1>1 DEF Repeats, TooOften, HowMany, Where, Documents, Carrying
  <2> QED
    BY <1>1, <2>1, <2>2, <2>3, <2>4, <2>5 DEF HeavyInv, HowMany, Where, Documents
<1>10. CASE Verify
  <2>1. corpusPc' = "done" /\ UNCHANGED <<shard, lines, rows, candidates>>
    BY <1>10 DEF Verify
  <2>2. /\ rows' = HowMany(lines', Documents) /\ (Checked' => MisraGries(lines, candidates)')
        /\ Repeats(lines)' <=> Repeats(lines)
    BY <2>1, HeavyKept
  <2>3. "text-all-identical" \in codes' <=> Repeats(lines)
    BY <1>2, <1>10, VerifyReports
  <2> QED
    BY <2>1, <2>2, <2>3 DEF HeavyInv, HowMany, Where, Documents
<1>11. CASE UNCHANGED corpusVars
  <2>1. /\ UNCHANGED <<shard, lines, rows, candidates>> /\ corpusPc' = corpusPc /\ codes' = codes
    BY <1>11 DEF corpusVars
  <2>2. /\ rows' = HowMany(lines', Documents) /\ (Checked' => MisraGries(lines, candidates)')
        /\ Repeats(lines)' <=> Repeats(lines)
    BY <2>1, HeavyKept
  <2> QED
    BY <1>1, <2>1, <2>2 DEF HeavyInv, HowMany, Where, Documents
<1> QED
  BY <1>5, <1>6, <1>7, <1>8, <1>9, <1>10, <1>11 DEF CorpusNext

-----------------------------------------------------------------------------
(* Totals: a fold over a finite set of files is a number. *)

One(s) == CHOOSE x \in s : TRUE

\* g holds the total of every part of T: nothing, or one element's and that of the rest.
Sums(val, T, g) == g = [s \in SUBSET T |-> IF s = {} THEN 0 ELSE val[One(s)] + g[s \ {One(s)}]]

\* Taking the chosen element out of a finite set makes it smaller.
LEMMA OneLess ==
    ASSUME NEW s, IsFiniteSet(s), s # {}
    PROVE  /\ One(s) \in s /\ IsFiniteSet(s \ {One(s)})
           /\ Cardinality(s) \in Nat /\ Cardinality(s \ {One(s)}) \in Nat
           /\ Cardinality(s \ {One(s)}) < Cardinality(s)
<1>1. One(s) \in s
  BY DEF One
<1>2. /\ IsFiniteSet(s \ {One(s)}) /\ Cardinality(s \ {One(s)}) = Cardinality(s) - 1
      /\ Cardinality(s) \in Nat /\ Cardinality(s \ {One(s)}) \in Nat
  BY <1>1, FS_RemoveElement, FS_CardinalityType
<1> QED
  BY <1>1, <1>2

\* A part's total does not depend on what it is a part of, and is a number.
LEMMA SumsAgree ==
    ASSUME NEW val, NEW T, NEW U, NEW g, NEW h, Sums(val, T, g), Sums(val, U, h),
           NEW s, s \subseteq T, s \subseteq U, IsFiniteSet(s)
    PROVE  g[s] = h[s]
<1> DEFINE Apart == {u \in SUBSET s : g[u] # h[u]}
           Sizes == {Cardinality(u) : u \in Apart}
<1>1. SUFFICES ASSUME Apart # {} PROVE FALSE
  OBVIOUS
<1>2. \A u \in Apart : IsFiniteSet(u) /\ Cardinality(u) \in Nat /\ u \subseteq T /\ u \subseteq U
  BY FS_Subset, FS_CardinalityType
<1>3. Sizes \in SUBSET Nat /\ Sizes # {}
  BY <1>1, <1>2
<1>4. PICK u \in Apart : \A w \in Apart : Cardinality(u) =< Cardinality(w)
  <2>1. Min(Sizes) \in Sizes /\ \A y \in Sizes : Min(Sizes) =< y
    <3> HIDE DEF Sizes
    <3> QED
      BY <1>3, MinIn
  <2> QED
    BY <2>1
<1>5. g[u] = IF u = {} THEN 0 ELSE val[One(u)] + g[u \ {One(u)}]
  BY <1>2 DEF Sums
<1>6. h[u] = IF u = {} THEN 0 ELSE val[One(u)] + h[u \ {One(u)}]
  BY <1>2 DEF Sums
<1>7. u # {} /\ IsFiniteSet(u)
  BY <1>2, <1>5, <1>6
<1>8. g[u \ {One(u)}] = h[u \ {One(u)}]
  <2>1. ~(Cardinality(u) =< Cardinality(u \ {One(u)}))
    BY <1>7, OneLess
  <2>2. u \ {One(u)} \notin Apart
    BY <1>4, <2>1
  <2> QED
    BY <2>2
<1> QED
  BY <1>5, <1>6, <1>7, <1>8

\* The totals of the parts of a finite set exist.
LEMMA SumsExist ==
    ASSUME NEW val, NEW S, IsFiniteSet(S)
    PROVE  \E g : Sums(val, S, g)
<1> DEFINE Lacking == {T \in SUBSET S : ~ \E g : Sums(val, T, g)}
           Sizes   == {Cardinality(T) : T \in Lacking}
<1>1. SUFFICES ASSUME Lacking # {} PROVE FALSE
  OBVIOUS
<1>2. \A T \in Lacking : IsFiniteSet(T) /\ Cardinality(T) \in Nat
  BY FS_Subset, FS_CardinalityType
<1>3. Sizes \in SUBSET Nat /\ Sizes # {}
  BY <1>1, <1>2
<1>4. PICK T \in Lacking : \A U \in Lacking : Cardinality(T) =< Cardinality(U)
  <2>1. Min(Sizes) \in Sizes /\ \A y \in Sizes : Min(Sizes) =< y
    <3> HIDE DEF Sizes
    <3> QED
      BY <1>3, MinIn
  <2> QED
    BY <2>1
<1>5. T \subseteq S /\ IsFiniteSet(T) /\ ~ \E g : Sums(val, T, g)
  BY <1>2
<1> DEFINE Of(u) == CHOOSE g : Sums(val, u, g)
           G     == [s \in SUBSET T |-> IF s = {} THEN 0
                                        ELSE val[One(s)] + Of(s \ {One(s)})[s \ {One(s)}]]
<1>6. ASSUME NEW u, u \subseteq T, u # T PROVE Sums(val, u, Of(u))
  <2>1. Cardinality(u) \in Nat /\ Cardinality(T) \in Nat /\ Cardinality(u) < Cardinality(T)
    BY <1>5, <1>6, FS_Subset, FS_CardinalityType
  <2>2. u \notin Lacking
    BY <1>4, <2>1
  <2>3. \E g : Sums(val, u, g)
    BY <1>5, <1>6, <2>2
  <2> QED
    BY <2>3
<1>7. ASSUME NEW s, s \subseteq T, s # {}
      PROVE  /\ s \ {One(s)} \subseteq T /\ s \ {One(s)} # T
             /\ IsFiniteSet(s \ {One(s)})
  BY <1>5, <1>7, OneLess, FS_Subset
<1>8. ASSUME NEW u, u \subseteq T, u # T, IsFiniteSet(u) PROVE G[u] = Of(u)[u]
  <2>1. Of(u)[u] = IF u = {} THEN 0 ELSE val[One(u)] + Of(u)[u \ {One(u)}]
    <3>1. Sums(val, u, Of(u))
      BY <1>6, <1>8
    <3> HIDE DEF Of
    <3> QED
      BY <3>1 DEF Sums
  <2>2. CASE u = {}
    BY <1>8, <2>1, <2>2
  <2>3. CASE u # {}
    <3> DEFINE w == u \ {One(u)}
    <3>1. w \subseteq T /\ w # T /\ IsFiniteSet(w) /\ w \subseteq u
      BY <1>7, <1>8, <2>3
    <3>2. Sums(val, u, Of(u)) /\ Sums(val, w, Of(w))
      BY <1>6, <1>8, <3>1
    <3>3. Of(u)[w] = Of(w)[w]
      <4> HIDE DEF Of, w
      <4> QED
        BY <3>1, <3>2, SumsAgree
    <3>4. G[u] = val[One(u)] + Of(w)[w]
      BY <1>8, <2>3
    <3> QED
      BY <2>1, <2>3, <3>3, <3>4
  <2> QED
    BY <2>2, <2>3
<1>9. Sums(val, T, G)
  <2>1. ASSUME NEW s \in SUBSET T
        PROVE  G[s] = IF s = {} THEN 0 ELSE val[One(s)] + G[s \ {One(s)}]
    <3>1. CASE s = {}
      BY <3>1
    <3>2. CASE s # {}
      <4>1. G[s] = val[One(s)] + Of(s \ {One(s)})[s \ {One(s)}]
        BY <3>2
      <4>2. G[s \ {One(s)}] = Of(s \ {One(s)})[s \ {One(s)}]
        BY <1>7, <1>8, <3>2
      <4> QED
        BY <3>2, <4>1, <4>2
    <3> QED
      BY <3>1, <3>2
  <2>2. G = [s \in SUBSET T |-> G[s]]
    OBVIOUS
  <2> HIDE DEF G
  <2>3. G = [s \in SUBSET T |-> IF s = {} THEN 0 ELSE val[One(s)] + G[s \ {One(s)}]]
    BY <2>1, <2>2
  <2> QED
    BY <2>3 DEF Sums
<1> QED
  BY <1>5, <1>9

\* Totals of numbers are numbers.
LEMMA SumsAreNat ==
    ASSUME NEW S, IsFiniteSet(S), NEW val \in [S -> Nat], NEW g, Sums(val, S, g)
    PROVE  g[S] \in Nat
<1> DEFINE Odd   == {u \in SUBSET S : g[u] \notin Nat}
           Sizes == {Cardinality(u) : u \in Odd}
<1>1. SUFFICES ASSUME Odd # {} PROVE FALSE
  OBVIOUS
<1>2. \A u \in Odd : IsFiniteSet(u) /\ Cardinality(u) \in Nat /\ u \subseteq S
  BY FS_Subset, FS_CardinalityType
<1>3. Sizes \in SUBSET Nat /\ Sizes # {}
  BY <1>1, <1>2
<1>4. PICK u \in Odd : \A w \in Odd : Cardinality(u) =< Cardinality(w)
  <2>1. Min(Sizes) \in Sizes /\ \A y \in Sizes : Min(Sizes) =< y
    <3> HIDE DEF Sizes
    <3> QED
      BY <1>3, MinIn
  <2> QED
    BY <2>1
<1>5. g[u] = IF u = {} THEN 0 ELSE val[One(u)] + g[u \ {One(u)}]
  BY <1>2 DEF Sums
<1>6. u # {} /\ IsFiniteSet(u) /\ One(u) \in u /\ val[One(u)] \in Nat
  BY <1>2, <1>5, OneLess
<1>7. g[u \ {One(u)}] \in Nat
  <2>1. ~(Cardinality(u) =< Cardinality(u \ {One(u)}))
    BY <1>6, OneLess
  <2>2. u \ {One(u)} \notin Odd
    BY <1>4, <2>1
  <2> QED
    BY <1>2, <2>2
<1> QED
  BY <1>5, <1>6, <1>7

\* The fold that CountOf is written with computes such totals.
LEMMA CountIsNat ==
    ASSUME ds.count \in [Files -> [unit : Units, n : Nat]], NEW fs \in SUBSET Files
    PROVE  CountOf(fs) \in Nat
<1> DEFINE S   == Countable(fs)
           val == [f \in S |-> ds.count[f].n]
           Is(g) == g = [s \in SUBSET S |->
                           IF s = {} THEN 0 ELSE ds.count[One(s)].n + g[s \ {One(s)}]]
           g0  == CHOOSE g : Is(g)
<1>1. S \in SUBSET Files /\ IsFiniteSet(S)
  BY SplitsAssumption, FS_Subset DEF Countable
<1>2. val \in [S -> Nat]
  BY <1>1
<1>3. CountOf(fs) = g0[S]
  BY DEF CountOf, MapThenSumSet, MapThenFoldSet, One
<1>4. ASSUME NEW g PROVE Is(g) <=> Sums(val, S, g)
  <2>1. ASSUME NEW s \in SUBSET S
        PROVE  (IF s = {} THEN 0 ELSE ds.count[One(s)].n + g[s \ {One(s)}])
                = (IF s = {} THEN 0 ELSE val[One(s)] + g[s \ {One(s)}])
    <3>1. CASE s = {}
      BY <3>1
    <3>2. CASE s # {}
      <4>1. One(s) \in S
        BY <3>2 DEF One
      <4>2. val[One(s)] = ds.count[One(s)].n
        BY <4>1
      <4> QED
        BY <4>2
    <3> QED
      BY <3>1, <3>2
  <2> HIDE DEF S, val
  <2>2. [s \in SUBSET S |-> IF s = {} THEN 0 ELSE ds.count[One(s)].n + g[s \ {One(s)}]]
         = [s \in SUBSET S |-> IF s = {} THEN 0 ELSE val[One(s)] + g[s \ {One(s)}]]
    BY <2>1
  <2> QED
    BY <2>2 DEF Sums
<1>5. Is(g0)
  <2>1. \E g : Sums(val, S, g)
    <3> HIDE DEF S, val
    <3> QED
      BY <1>1, SumsExist
  <2>2. \E g : Is(g)
    <3> HIDE DEF Is, val, S
    <3> QED
      BY <1>4, <2>1
  <2> HIDE DEF Is
  <2> QED
    BY <2>2
<1>6. Sums(val, S, g0)
  <2> HIDE DEF Is, val, S, g0
  <2> QED
    BY <1>4, <1>5
<1>7. g0[S] \in Nat
  <2> HIDE DEF Is, val, S, g0
  <2> QED
    BY <1>1, <1>2, <1>6, SumsAreNat
<1> QED
  BY <1>3, <1>7

-----------------------------------------------------------------------------
(* The checks together: one is at work, the others rest. *)

ChecksInv ==
    /\ checking \in CheckKinds
    /\ IF checking = "splits" THEN SplitsInv ELSE SplitsFresh
    /\ IF checking = "pretrain-tokens/v1" THEN TokensInv ELSE TokensFresh
    /\ IF checking = "token-order/v1" THEN OrdersInv ELSE OrdersFresh

\* Each check begins as it does alone.
LEMMA InitChecksInv == ChecksInit => ChecksInv
  BY InitSplitsInv, InitTokensInv, InitOrdersInv DEF ChecksInit, ChecksInv

\* A step of a check is one that it takes alone, and the others rest.
LEMMA NextChecksInv == ChecksInv /\ [ChecksNext]_checksVars => ChecksInv'
<1> SUFFICES ASSUME ChecksInv, [ChecksNext]_checksVars PROVE ChecksInv'
  OBVIOUS
<1>1. checking' = checking
  BY DEF ChecksNext, checksVars
<1>2. /\ checking = "splits" => [SplitsNext]_splitVars
      /\ checking = "pretrain-tokens/v1" => [TokensNext]_tokenVars
      /\ checking = "token-order/v1" => [OrdersNext]_orderVars
  BY DEF ChecksNext, checksVars
<1>3. /\ checking # "splits" => UNCHANGED splitVars
      /\ checking # "pretrain-tokens/v1" => UNCHANGED tokenVars
      /\ checking # "token-order/v1" => UNCHANGED orderVars
  BY DEF ChecksNext, checksVars
<1>4. /\ SplitsFresh /\ UNCHANGED splitVars => SplitsFresh'
      /\ TokensFresh /\ UNCHANGED tokenVars => TokensFresh'
      /\ OrdersFresh /\ UNCHANGED orderVars => OrdersFresh'
  BY DEF SplitsFresh, TokensFresh, OrdersFresh, splitVars, tokenVars, orderVars, NoRead
<1>5. CheckKinds' = CheckKinds
  BY DEF CheckKinds
<1> QED
  BY <1>1, <1>2, <1>3, <1>4, <1>5, NextSplitsInv, NextTokensInv, NextOrdersInv DEF ChecksInv

\* So the invariants of the checks hold together.
LEMMA ChecksInvariance == ChecksSpec => []ChecksInv
  BY InitChecksInv, NextChecksInv, PTL DEF ChecksSpec

\* An unsplit read of anything that Gate A accepted hands out no shard that is named held out,
\* and, when the training files are marked by path, none of a held-out partition.
THEOREM UnsplitReadsAreTrainable == ChecksSpec => []UnsplitIsTrainable
<1>1. ChecksInv => UnsplitIsTrainable
  BY SplitsInvUnsplit DEF ChecksInv, SplitsFresh, UnsplitIsTrainable
<1> QED
  BY <1>1, ChecksInvariance, PTL

\* .train and .val of an accepted group that is split by path share no file, whatever coverage the
\* group claims.
THEOREM TrainAndValAreApart == ChecksSpec => []TrainValDisjoint
<1>1. ChecksInv => TrainValDisjoint
  BY SplitsInvTrainVal DEF ChecksInv, SplitsFresh, TrainValDisjoint
<1> QED
  BY <1>1, ChecksInvariance, PTL

\* Under coverage "partition" every file is in exactly one of the splits that a reader gets.
THEOREM PartitionsAreExact == ChecksSpec => []CoverageIsExact
<1>1. ChecksInv => CoverageIsExact
  BY SplitsInvCoverage DEF ChecksInv, SplitsFresh, CoverageIsExact
<1> QED
  BY <1>1, ChecksInvariance, PTL

\* The rows that a reader gets are those of the files it gets.
THEOREM RowsAreTheirFiles == ChecksSpec => []RowsAreSelected
<1>1. ChecksInv => RowsAreSelected
  BY SplitsInvRows DEF ChecksInv, SplitsFresh, RowsAreSelected
<1> QED
  BY <1>1, ChecksInvariance, PTL

\* Wherever the sample falls, a shard that passes holds the tokens that its entry counts.
THEOREM TokensAreCounted == ChecksSpec => []CountCovers
<1>1. ChecksInv => CountCovers
  BY TokensInvSays DEF ChecksInv, TokensFresh, CountCovers, Passed
<1> QED
  BY <1>1, ChecksInvariance, PTL

\* A shard of an honest writer that passes is read back as it was written, unless the vocabulary
\* fits the narrower width that is declared or nearly fills the one that is: the two gaps through
\* which a wrong dtype gets, wherever the sample falls.
THEOREM LiesAreCaught == ChecksSpec => []DtypeLies
<1>1. ChecksInv => DtypeLies
  BY TokensInvSays DEF ChecksInv, TokensFresh, DtypeLies, Passed
<1> QED
  BY <1>1, ChecksInvariance, PTL

\* A shard that repeats one id does not pass, however small it is, whatever its group declares and
\* wherever the sample falls.
THEOREM DegenerateShardsFail == ChecksSpec => []DegenerateNeverPasses
<1>1. ChecksInv => DegenerateNeverPasses
  BY TokensInvSays DEF ChecksInv, TokensFresh, DegenerateNeverPasses, Passed
<1> QED
  BY <1>1, ChecksInvariance, PTL

\* A shard that is what its entry says and repeats no id is not rejected, whatever its size and
\* wherever the windows fall.
THEOREM HealthyShardsPass == ChecksSpec => []HealthyPasses
<1>1. ChecksInv => HealthyPasses
  BY TokensInvSays DEF ChecksInv, TokensFresh, HealthyPasses
<1> QED
  BY <1>1, ChecksInvariance, PTL

\* An order of any length passes exactly when it is what it claims to be.
THEOREM OrdersAreTrue == ChecksSpec => []OrderIsWhatItClaims
<1>1. ChecksInv => OrderIsWhatItClaims
  BY OrdersInvTrue DEF ChecksInv, OrdersFresh, OrderIsWhatItClaims
<1> QED
  BY <1>1, ChecksInvariance, PTL

-----------------------------------------------------------------------------
(* Types: of the dataset, whose rows publish() fills in, and of what was read of a corpus. *)

DatasetTyped ==
    /\ [ds EXCEPT !.parts = [g \in Groups |-> <<>>]] \in DatasetRecs
    /\ \A g \in Groups : Index(g) \subseteq Nat /\ Range(ds.parts[g]) \subseteq Partitions

\* publish() completes the declarations to declarations: the rows that it fills in are numbers.
LEMMA LandIsTyped ==
    ASSUME Land, ds \in Datasets
    PROVE  DatasetTyped'
<1> DEFINE bare(d) == [d EXCEPT !.parts = [g \in Groups |-> <<>>]]
<1>1. ds \in DatasetRecs
  BY SplitsAssumption
<1>2. /\ ds.parts \in [Groups -> Seq(Partitions)] /\ ds.group \in [Files -> Groups]
      /\ ds.count \in [Files -> [unit : Units, n : Nat]]
      /\ ds.place \in [Files -> Labels \cup {Flat}]
  BY <1>1 DEF DatasetRecs
<1>3. bare(ds) \in DatasetRecs
  <2>1. [g \in Groups |-> <<>>] \in [Groups -> Seq(Partitions)]
    OBVIOUS
  <2> QED
    BY <1>1, <2>1 DEF DatasetRecs
<1>4. ASSUME NEW g \in Groups
      PROVE  /\ Index(g) \subseteq Nat
             /\ \A i \in Index(g) : ds.parts[g][i] \in Partitions
  BY <1>2 DEF Index
<1>5. ASSUME NEW g, NEW p \in Partitions PROVE FillIn(g, p) \in Partitions
  <2>1. Selected(g, p) \in SUBSET Files
    BY DEF Selected, FilesOf
  <2>2. CountOf(Selected(g, p)) \in Nat
    BY <1>2, <2>1, CountIsNat
  <2> QED
    BY <2>2 DEF FillIn, Partitions
<1>6. CASE ds.byHand
  <2>1. ds' = ds
    BY <1>6 DEF Land
  <2>2. [ds' EXCEPT !.parts = [g \in Groups |-> <<>>]] \in DatasetRecs
    BY <1>3, <2>1
  <2>3. DatasetRecs' = DatasetRecs /\ Partitions' = Partitions
    BY DEF DatasetRecs, Partitions, Words, SPLITS, Units, Coverages
  <2> QED
    BY <1>4, <2>1, <2>2 DEF DatasetTyped, Index, Range
<1>7. CASE ~ds.byHand
  <2>1. ds' = [ds EXCEPT !.parts = [h \in Groups |-> Complete(h)], !.label = ds.place]
    BY <1>7 DEF Land
  <2>2. ds'.parts = [h \in Groups |-> Complete(h)]
    BY <1>1, <2>1 DEF DatasetRecs
  <2>3. bare(ds') \in DatasetRecs
    <3>1. bare(ds') = [bare(ds) EXCEPT !.label = ds.place]
      BY <1>1, <2>1 DEF DatasetRecs
    <3>2. [bare(ds) EXCEPT !.label = ds.place] \in DatasetRecs
      <4> HIDE DEF bare
      <4> QED
        BY <1>2, <1>3 DEF DatasetRecs
    <3> HIDE DEF bare
    <3> QED
      BY <3>1, <3>2
  <2>4. ASSUME NEW g \in Groups
        PROVE  DOMAIN ds'.parts[g] \subseteq Nat
               /\ \A i \in DOMAIN ds'.parts[g] : ds'.parts[g][i] \in Partitions
    <3>1. /\ ds'.parts[g] = Complete(g) /\ DOMAIN Complete(g) \subseteq Index(g)
          /\ \A i \in DOMAIN Complete(g) : Complete(g)[i] = FillIn(g, ds.parts[g][i])
      BY <2>2 DEF Complete, Resolve, Restrict, Index
    <3> QED
      BY <1>4, <1>5, <3>1
  <2> QED
    BY <2>3, <2>4 DEF DatasetTyped, Index, Range
<1> QED
  BY <1>6, <1>7

\* Datasets are typed by assumption ...
LEMMA InitDatasetTyped == SplitsInit => DatasetTyped
<1> SUFFICES ASSUME SplitsInit PROVE DatasetTyped
  OBVIOUS
<1>1. ds \in DatasetRecs
  BY SplitsAssumption DEF SplitsInit
<1>2. ds.parts \in [Groups -> Seq(Partitions)]
  BY <1>1 DEF DatasetRecs
<1>3. [g \in Groups |-> <<>>] \in [Groups -> Seq(Partitions)]
  OBVIOUS
<1>4. [ds EXCEPT !.parts = [g \in Groups |-> <<>>]] \in DatasetRecs
  BY <1>1, <1>3 DEF DatasetRecs
<1> QED
  BY <1>2, <1>4 DEF DatasetTyped, Index, Range

\* ... and landing is the only step that changes one.
LEMMA NextDatasetTyped == SplitsInv /\ DatasetTyped /\ [SplitsNext]_splitVars => DatasetTyped'
<1> SUFFICES ASSUME SplitsInv, DatasetTyped, [SplitsNext]_splitVars PROVE DatasetTyped'
  OBVIOUS
<1>1. CASE Land
  <2>1. ds \in Datasets
    BY <1>1 DEF Land, SplitsInv
  <2> QED
    BY <1>1, <2>1, LandIsTyped
<1>2. CASE ds' = ds
  BY <1>2 DEF DatasetTyped, Index, Range
<1> QED
  BY <1>1, <1>2 DEF SplitsNext, Validate, Read, ReadUnsplit, ReadAll, ReadSplit, Ask, splitVars

\* Answers are about files of their group.
LEMMA SplitsInvTyped == SplitsInv /\ DatasetTyped => SplitsTypeOK
<1> SUFFICES ASSUME SplitsInv, DatasetTyped PROVE SplitsTypeOK
  OBVIOUS
<1>1. ASSUME read # NoRead
      PROVE  /\ verdict = "accepted"
             /\ read.paths \subseteq FilesOf(read.group)
             /\ \A n \in DOMAIN read.splits : read.splits[n] \subseteq FilesOf(read.group)
  <2>1. PICK g \in Groups, want \in Labels \cup {Flat} : Given(g, want)
    BY <1>1 DEF SplitsInv
  <2>2. \A n \in Declared(g) : SplitPaths(g, want)[n] \subseteq FilesOf(g)
    BY DEF SplitPaths, Matching, Selected
  <2>3. DOMAIN SplitPaths(g, want) = Declared(g)
    BY DEF SplitPaths
  <2> QED
    BY <1>1, <2>1, <2>2, <2>3 DEF SplitsInv, Given
<1> QED
  BY <1>1 DEF SplitsTypeOK, DatasetTyped, SplitsInv

\* Every check keeps its types; and however long a shard and its lines are, reading it takes a
\* buffer of a record and a chunk, and no more candidates than there are slots.
THEOREM ChecksAreTyped ==
    ASSUME Datasets # {}, Shards # {}
    PROVE  ChecksSpec => []ChecksTypeOK
<1> DEFINE Inv == checking \in CheckKinds /\ SplitsInv /\ DatasetTyped /\ CorpusInv
<1>1. ChecksInit => Inv
  <2> SUFFICES ASSUME ChecksInit PROVE Inv
    OBVIOUS
  <2>1. SplitsInit
    BY DEF ChecksInit, SplitsInit, SomeDataset
  <2>2. CorpusInit
    BY DEF ChecksInit, CorpusInit, SomeShard
  <2> QED
    BY <2>1, <2>2, InitSplitsInv, InitDatasetTyped, InitCorpusInv DEF ChecksInit
<1>2. Inv /\ [ChecksNext]_checksVars => Inv'
  <2> SUFFICES ASSUME Inv, [ChecksNext]_checksVars PROVE Inv'
    OBVIOUS
  <2>1. checking' = checking /\ CheckKinds' = CheckKinds
    BY DEF ChecksNext, checksVars, CheckKinds
  <2>2. [SplitsNext]_splitVars /\ [CorpusNext]_corpusVars
    BY DEF ChecksNext, checksVars
  <2> QED
    BY <2>1, <2>2, NextSplitsInv, NextDatasetTyped, NextCorpusInv
<1>3. Inv => ChecksTypeOK
  BY SplitsInvTyped, CorpusInvTyped DEF ChecksTypeOK
<1> HIDE DEF Inv
<1> QED
  BY <1>1, <1>2, <1>3, PTL DEF ChecksSpec

\* Whatever else is checked, the reading of a text corpus keeps what is known of it.
LEMMA CorpusInvariance ==
    ASSUME Shards # {}
    PROVE  ChecksSpec => [](CorpusInv /\ CutInv /\ HeavyInv)
<1> DEFINE Inv == CorpusInv /\ CutInv /\ HeavyInv
<1>1. ChecksInit => Inv
  <2> SUFFICES ASSUME ChecksInit PROVE Inv
    OBVIOUS
  <2>1. CorpusInit
    BY DEF ChecksInit, CorpusInit, SomeShard
  <2> QED
    BY <2>1, InitCorpusInv, InitCutInv, InitHeavyInv
<1>2. Inv /\ [ChecksNext]_checksVars => Inv'
  <2> SUFFICES ASSUME Inv, [ChecksNext]_checksVars PROVE Inv'
    OBVIOUS
  <2>1. [CorpusNext]_corpusVars
    BY DEF ChecksNext, checksVars
  <2>2. CorpusInv'
    BY <2>1, NextCorpusInv
  <2> QED
    BY <2>1, <2>2, NextCutInv, NextHeavyInv
<1> HIDE DEF Inv
<1>3. ChecksSpec => []Inv
  BY <1>1, <1>2, PTL DEF ChecksSpec
<1> QED
  BY <1>3 DEF Inv

\* However the chunks fall, and even where one ends inside a line or at its break, a shard of a text
\* corpus is cut into the lines that it has, and is unreadable because of its first bad one.
THEOREM ChunksAreInvisible ==
    ASSUME Shards # {}
    PROVE  ChecksSpec => []ChunkingIsInvisible
<1>1. CorpusInv /\ CutInv /\ HeavyInv => ChunkingIsInvisible
  BY CutInvInvisible
<1> QED
  BY <1>1, CorpusInvariance, PTL

\* Two passes with Slots counters report exactly the shards in which some text makes up more than
\* the allowed fraction of the documents, however many texts there are and in whatever order.
THEOREM RepeatsAreReported ==
    ASSUME Shards # {}
    PROVE  ChecksSpec => []RepeatsReported
<1>1. CorpusInv /\ CutInv /\ HeavyInv => RepeatsReported
  BY HeavyInvReported
<1> QED
  BY <1>1, CorpusInvariance, PTL
=============================================================================
