------------------------------- MODULE Splits -------------------------------
(***************************************************************************)
(* Held-out data, slices and counts of rows.  A dataset declares           *)
(* partitions (splits) per group; publish() fills in their rows, Gate A    *)
(* compares them with each other, with the counts of the entries and with  *)
(* the words in the keys of the objects, and dataset_paths() hands out     *)
(* paths and rows per split and per label.  A partition is by path, when   *)
(* its glob selects files of its group, or by something else (field,       *)
(* range, indices), when it is a predicate on rows and selects every file. *)
(***************************************************************************)
EXTENDS Naturals, Sequences, FiniteSetsExt

CONSTANTS
    Files,      \* payload files
    Groups,     \* groups
    Labels,     \* subtrees of a group that are slices of it
    Flat,       \* no subtree, no label
    NoRows,     \* a number of rows that is not there
    Null,       \* a number of rows that is given as null
    Datasets    \* what producers may have put in landing, see DatasetRecs

SPLITS           == {"train", "val", "test"}
TRAINABLE_SPLITS == {"train"}
HeldOutSplits    == SPLITS \ TRAINABLE_SPLITS

is_trainable(split) == split \in TRAINABLE_SPLITS

\* The split word of a file's name; "cas" stands for a content-addressed name, "other" for any
\* other word and for a name that is no shard name at all (tokenizer, vendored).
Words      == SPLITS \cup {"cas", "other"}
Partitions == [name : Words, by : {"path", "field"}, glob : SUBSET Files,
               rows : Nat \cup {NoRows, Null}]
Units      == {"tokens", "rows", "bytes"}
Coverages  == {"partition", "overlapping", "incomplete"}
Profiles   == {"vendor", "vendored", "tokenizer", "other"}   \* what a profile's name begins with

DatasetRecs ==
    [word     : [Files -> Words],
     group    : [Files -> Groups],             \* the group whose manifest lists the file
     place    : [Files -> Labels \cup {Flat}], \* the subtree its key lies in
     label    : [Files -> Labels \cup {Flat}], \* the labels of its entry
     count    : [Files -> [unit : Units, n : Nat]],
     parts    : [Groups -> Seq(Partitions)],
     inherits : SUBSET Groups,                 \* the partitions are the family's templates
     byHand   : BOOLEAN,                       \* not written by publish()
     coverage : [Groups -> Coverages],
     profile  : [Groups -> Profiles],
     required : BOOLEAN]                       \* the family's validation_required

ASSUME SplitsAssumption == IsFiniteSet(Files) /\ Datasets \subseteq DatasetRecs

VARIABLES
    ds,        \* the dataset
    verdict,   \* "declared", "landed", "accepted", "rejected"
    read       \* the answer to the last read, NoRead before

splitVars == <<ds, verdict, read>>

-----------------------------------------------------------------------------
(* Helpers on declarations. *)

FilesOf(g)  == {f \in Files : ds.group[f] = g}
Index(g)    == DOMAIN ds.parts[g]
Declared(g) == {ds.parts[g][i].name : i \in Index(g)}
Named(g, n) == {i \in Index(g) : ds.parts[g][i].name = n}

\* The files that a partition of the group selects.
Selected(g, p) == IF p.by = "path" THEN p.glob \cap FilesOf(g) ELSE FilesOf(g)
Selects(g, i)  == Selected(g, ds.parts[g][i])

\* _COUNTABLE_UNITS; files that count in one unit have a total.
Countable(fs) == {f \in fs : ds.count[f].unit # "bytes"}
CountOf(fs)   == MapThenSumSet(LAMBDA f : ds.count[f].n, Countable(fs))
OneUnit(fs)   == \E u \in Units : {ds.count[f].unit : f \in Countable(fs)} = {u}

-----------------------------------------------------------------------------
(* publish().  The labels of an entry are the subtree of its key. *)

\* _fill_missing_partition_rows: rows that a producer declares are left alone.
FillIn(g, p) == IF p.by = "path" /\ p.rows = NoRows /\ Selected(g, p) # {}
                THEN [p EXCEPT !.rows = CountOf(Selected(g, p))] ELSE p

\* _resolve_path_partitions: a template that selects nothing is dropped.  The others keep their
\* place in the list; only the order of the places matters.
Resolve(g) == Restrict(ds.parts[g], {i \in Index(g) : Selects(g, i) # {}})

Complete(g) == LET parts == IF g \in ds.inherits THEN Resolve(g) ELSE ds.parts[g]
               IN  [i \in DOMAIN parts |-> FillIn(g, parts[i])]

-----------------------------------------------------------------------------
(* Gate A.  Each operator is one way to be rejected. *)

MissingRequiredSplit ==
    /\ ds.required
    /\ \A g \in Groups : Declared(g) \subseteq TRAINABLE_SPLITS

ByPath(g)    == {i \in Index(g) : ds.parts[g][i].by = "path"}
GlobEmpty(g) == \E i \in ByPath(g) : Selects(g, i) = {}

\* by_name: what the partitions by path select; a name declared twice stands for the last one.
ByName(g)     == {ds.parts[g][i].name : i \in ByPath(g)}
PathsOf(g, n) == Selects(g, Max(Named(g, n) \cap ByPath(g)))

NotDisjoint(g) == \E m, n \in ByName(g) : m # n /\ PathsOf(g, m) \cap PathsOf(g, n) # {}
\* Mutant: one covered file is enough.
NotCoveredAtAll(g) == FilesOf(g) # {} /\ \A f \in FilesOf(g), n \in ByName(g) : f \notin PathsOf(g, n)

NotCovered(g)  == \E f \in FilesOf(g) : \A n \in ByName(g) : f \notin PathsOf(g, n)
NotAPartition(g) ==
    /\ ds.coverage[g] = "partition"
    /\ ByName(g) # {}
    /\ NotDisjoint(g) \/ NotCovered(g)

\* Mutant: overlapping partitions may share anything.
LeakageUnlessOverlapping(g) ==
    /\ ds.coverage[g] # "overlapping"
    /\ \E t \in ByName(g) \cap TRAINABLE_SPLITS, h \in ByName(g) \cap HeldOutSplits :
          PathsOf(g, t) \cap PathsOf(g, h) # {}

Leakage(g) ==
    \E t \in ByName(g) \cap TRAINABLE_SPLITS, h \in ByName(g) \cap HeldOutSplits :
        PathsOf(g, t) \cap PathsOf(g, h) # {}

\* _check_partition_rows: every partition has rows, of a partition by path they are a number and
\* the sum of what its files count, whatever the units.
RowsMissing(g) == \E i \in Index(g) : ds.parts[g][i].rows = NoRows
RowsWrong(g)   == \E i \in ByPath(g) :
                     \/ ds.parts[g][i].rows = Null
                     \/ /\ Countable(Selects(g, i)) # {}
                        /\ ds.parts[g][i].rows # CountOf(Selects(g, i))

\* _check_labels_match_path
LabelsWrong(g) ==
    /\ ds.profile[g] \notin {"vendored", "tokenizer"}
    /\ \E f \in FilesOf(g) : ds.word[f] # "cas" /\ ds.label[f] # ds.place[f]

\* Split words in use, over the whole dataset, of the groups whose names make a claim.
Observed    == {ds.word[f] : f \in {e \in Files :
                   ds.profile[ds.group[e]] \notin {"vendor", "tokenizer"}}} \cap SPLITS
AllDeclared == UNION {Declared(g) : g \in Groups}

UndeclaredSplit == ~(Observed \subseteq AllDeclared)
EmptySplit      == ~(AllDeclared \subseteq Observed)

Accepts ==
    /\ ~MissingRequiredSplit
    /\ \A g \in Groups :
          /\ ~GlobEmpty(g) /\ ~NotAPartition(g) /\ ~Leakage(g)
          /\ ~RowsMissing(g) /\ ~RowsWrong(g) /\ ~LabelsWrong(g)
    /\ ~UndeclaredSplit
    /\ ~EmptySplit

-----------------------------------------------------------------------------
(* dataset_paths(). *)

\* _find_partition takes the first of a name, the dictionary .splits keeps the last.
FirstNamed(g, n) == ds.parts[g][Min(Named(g, n))]
LastNamed(g, n)  == ds.parts[g][Max(Named(g, n))]

\* A caller may ask for a label; Flat stands for none.
Matching(fs, want) == IF want = Flat THEN fs ELSE {f \in fs : ds.label[f] = want}
Unlabelled(g)      == \A f \in FilesOf(g) : ds.label[f] = Flat

\* Mutant: whatever counts is added up.
SumRegardless(fs) == IF Countable(fs) = {} THEN NoRows ELSE CountOf(fs)

\* _sum_counts: no total over different units.
SumOf(fs) == IF OneUnit(fs) THEN CountOf(fs) ELSE NoRows
RowsOf(p, fs, want) == IF want # Flat THEN SumOf(fs) ELSE IF p.rows = Null THEN NoRows ELSE p.rows

\* A shard whose name says held out is dropped from an unsplit read, whatever is declared.
NamedHeldOut(f) == ds.word[f] \in HeldOutSplits

\* Mutant: an unsplit read trusts the declarations.
UnsplitDeclared(g) ==
    LET trainable == {n \in Declared(g) : is_trainable(n)}
    IN  IF trainable = {} THEN FilesOf(g) ELSE UNION {Selected(g, FirstNamed(g, n)) : n \in trainable}

Unsplit(g) ==
    LET trainable == {n \in Declared(g) : is_trainable(n)}
        selected  == IF trainable = {} THEN FilesOf(g)
                     ELSE UNION {Selected(g, FirstNamed(g, n)) : n \in trainable}
    IN  {f \in selected : ~NamedHeldOut(f)}

\* .splits: every declared split; .train and .val are unions of them.
SplitPaths(g, want) == [n \in Declared(g) |-> Matching(Selected(g, LastNamed(g, n)), want)]
SplitRows(g, want)  == [n \in Declared(g) |->
                          RowsOf(LastNamed(g, n), SplitPaths(g, want)[n], want)]
Train(r)            == UNION {r.splits[n] : n \in {m \in DOMAIN r.splits : is_trainable(m)}}
Val(r)              == UNION {r.splits[n] : n \in {m \in DOMAIN r.splits : ~is_trainable(m)}}

\* predicate: the partition whose row predicate the loader is to apply.
NoRead == [group |-> "none"]
Answer(g, how, want, paths, rows, predicate) ==
    [group |-> g, how |-> how, want |-> want, paths |-> paths, rows |-> rows,
     predicate |-> predicate, splits |-> SplitPaths(g, want), split_rows |-> SplitRows(g, want)]

-----------------------------------------------------------------------------
SplitsFresh == verdict = "declared" /\ read = NoRead

SplitsInit == ds \in Datasets /\ SplitsFresh

\* The documents are written to landing.
Land ==
    /\ verdict = "declared"
    /\ verdict' = "landed"
    /\ ds' = IF ds.byHand THEN ds
             ELSE [ds EXCEPT !.parts = [g \in Groups |-> Complete(g)], !.label = ds.place]
    /\ UNCHANGED read

Validate ==
    /\ verdict = "landed"
    /\ verdict' = IF Accepts THEN "accepted" ELSE "rejected"
    /\ UNCHANGED <<ds, read>>

\* dataset_paths(): asking an unlabelled group for a label raises.
Ask(g, want) == /\ verdict = "accepted"
                /\ want = Flat \/ ~Unlabelled(g)
                /\ UNCHANGED <<ds, verdict>>

\* split=None
ReadUnsplit(g, want) ==
    /\ Ask(g, want)
    /\ LET paths == Matching(Unsplit(g), want)
       IN  read' = Answer(g, "unsplit", want, paths, IF want = Flat THEN NoRows ELSE SumOf(paths), "none")

\* split=s: empty for a word of the vocabulary that is not declared.
ReadSplit(g, s, want) ==
    /\ Ask(g, want)
    /\ IF s \in Declared(g)
       THEN LET p     == FirstNamed(g, s)
                paths == Matching(Selected(g, p), want)
            IN  read' = Answer(g, s, want, paths, RowsOf(p, paths, want),
                               IF p.by = "field" THEN s ELSE "none")
       ELSE read' = Answer(g, s, want, {}, NoRows, "none")

\* include_held_out=True
ReadAll(g, want) ==
    /\ Ask(g, want)
    /\ LET paths == Matching(FilesOf(g), want)
       IN  read' = Answer(g, "all", want, paths, IF want = Flat THEN NoRows ELSE SumOf(paths), "none")

Read == \E g \in Groups, want \in Labels \cup {Flat} :
           ReadUnsplit(g, want) \/ ReadAll(g, want) \/ \E s \in SPLITS : ReadSplit(g, s, want)

SplitsNext == Land \/ Validate \/ Read

SplitsSpec == SplitsInit /\ [][SplitsNext]_splitVars

-----------------------------------------------------------------------------
\* An answer is about one group and never names a file of another.
SplitsTypeOK ==
    /\ [ds EXCEPT !.parts = [g \in Groups |-> <<>>]] \in DatasetRecs
    /\ \A g \in Groups : Index(g) \subseteq Nat /\ Range(ds.parts[g]) \subseteq Partitions
    /\ verdict \in {"declared", "landed", "accepted", "rejected"}
    /\ read # NoRead =>
          /\ verdict = "accepted"
          /\ read.paths \subseteq FilesOf(read.group)
          /\ \A n \in DOMAIN read.splits : read.splits[n] \subseteq FilesOf(read.group)

NamedOnce(g) == \A i, j \in Index(g) : ds.parts[g][i].name = ds.parts[g][j].name => i = j
AllByPath(g) == ByPath(g) = Index(g)
HeldOutOf(g) == UNION {Selects(g, i) : i \in {j \in ByPath(g) : ds.parts[g][j].name \in HeldOutSplits}}

\* Silence means the safe subset: an unsplit read returns no shard named held out, and, when
\* the group marks its training files by path, no file of a held-out partition either.
UnsplitIsTrainable ==
    read # NoRead /\ read.how = "unsplit" =>
        LET g == read.group
        IN  /\ \A f \in read.paths : ~NamedHeldOut(f)
            /\ NamedOnce(g) /\ "train" \in ByName(g) => read.paths \cap HeldOutOf(g) = {}

\* Whatever coverage a group claims, .train and .val of an accepted group that is split by path
\* under distinct names share no file.
TrainValDisjoint ==
    read # NoRead /\ NamedOnce(read.group) /\ AllByPath(read.group) =>
        Train(read) \cap Val(read) = {}

\* coverage "partition" makes sums over .splits sound: every file of the group is in exactly one
\* of them.
CoverageIsExact ==
    LET g == read.group
    IN  read # NoRead /\ ds.coverage[g] = "partition" /\ Index(g) # {}
          /\ NamedOnce(g) /\ AllByPath(g) =>
            \A f \in Matching(FilesOf(g), read.want) :
                \E n \in DOMAIN read.splits : \A m \in DOMAIN read.splits : f \in read.splits[m] <=> m = n

\* The rows that a read reports are those of the files it hands out, for a split by path and for
\* every slice: nobody's total is inherited, and a slice has a total only if its files count in
\* one unit.  Without labels a split has the rows it declares, which Gate A adds up over units.
Reported(rows, fs, want) ==
    IF OneUnit(fs) THEN rows = CountOf(fs) \/ (want = Flat /\ rows = NoRows)
    ELSE want # Flat => rows = NoRows
RowsAreSelected ==
    read # NoRead =>
        /\ read.predicate = "none" \/ read.want # Flat => Reported(read.rows, read.paths, read.want)
        /\ \A n \in DOMAIN read.splits :
              LastNamed(read.group, n).by = "path" \/ read.want # Flat =>
                  Reported(read.split_rows[n], read.splits[n], read.want)

-----------------------------------------------------------------------------
(* What the documents say, and the code does not keep. *)

\* No object belongs to both a trainable and a held-out partition, ever.
NoOverlapEver ==
    verdict = "accepted" =>
        \A g \in Groups : \A i, j \in ByPath(g) :
            is_trainable(ds.parts[g][i].name) /\ ds.parts[g][j].name \in HeldOutSplits =>
                Selects(g, i) \cap Selects(g, j) = {}

\* What a loader trains on, as <<file, partition of its rows by field>>: an unsplit read never
\* silently returns the whole set as if it were the split.
ByField(g) == {n \in Declared(g) : FirstNamed(g, n).by = "field"}
Loaded(r)  == r.paths \X (IF r.predicate = "none" THEN ByField(r.group) ELSE {r.predicate})
NoHeldOutRows ==
    read # NoRead /\ read.how = "unsplit" /\ "train" \in ByField(read.group) =>
        \A x \in Loaded(read) : is_trainable(x[2])
=============================================================================
