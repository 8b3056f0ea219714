# A TLA+ verification of edullm-data

`edullm-data` moves training data from producers to trainers through an *airlock*: producers
write to a landing bucket, a validator job judges what lies there, copies what passes to the
bucket `edullm-data`, and seals it. Readers trust the seal. This directory models the program
(`src/src/edullm_data`, cited below by file name) in TLA+, checks the models with TLC, and proves
the theorems about its core with TLAPS.

- [1 Inventory](#1-inventory)
- [2 Modules and how they correspond to the code](#2-modules-and-how-they-correspond-to-the-code)
- [3 What the runs check](#3-what-the-runs-check)
- [4 Where code and documents disagree](#4-where-code-and-documents-disagree)
- [5 What is proved](#5-what-is-proved)
- [6 What is not modelled](#6-what-is-not-modelled)
- [7 Plan](#7-plan)
- [8 Running it](#8-running-it)

## 1 Inventory

### 1.1 Components

| component | code | state | operations |
| --- | --- | --- | --- |
| publish | `publish.py` | keys under `_staging/<id>/` and `landing/<id>/vN/`; what one run hashed | `publish()`: stage, enumerate, `_next_version`, hash, HEAD and PUT of `dataset.json` (`_put_create_only`), copy, manifests, cleanup; retry on a taken version |
| validate and promote | `validate.py` | markers `_VALIDATED.json`, `_REJECTED.json` in landing; payload, manifests, `dataset.json`, catalog entry and seal in `edullm-data` | `discover_prefixes`, `validate_dataset` (Gate A), `promote`, `main` |
| buckets | `s3.py` | two S3 buckets | GET, HEAD, LIST, PUT, copy |
| deployment | `infra/` | lifecycle rules, job queue, periodic sweep | expiry after 14 days, one attempt per job, a new sweep every five minutes |
| reader | `read.py` | none of its own | `dataset_paths`, `verify_seal`, `resolve_latest`, loads of the payload |
| mixture | `read.py` | the selection | `build_mixture` |
| fsck | `fsck.py` | findings | the weekly sweep over the catalog |
| text corpus | `jsonl.py`, `profiles/text_corpus_v1.py` | buffer, counters of candidate texts | `iter_jsonl`, `check_documents` |
| token profiles | `profiles/pretrain_tokens_v1.py`, `token_order_v1.py`, `tokenizer_v1.py` | none | decode smoke test on sampled windows, alignment, order length and domain |
| manifests, contracts | `manifest.py`, `contracts.py` | none | count arithmetic, extension claims, labels and split words of paths, naming rules |
| profile registry | `profiles/registry.py`, `base.py` | dictionary of profiles | lookup by name, seeded sample offsets |
| record profiles | `profiles/sft_conversations_v1.py`, `eval_results_v1.py` | none | schema checks on single records |
| readme generator, helpers | `readme.py`, `dependencies.py`, `__init__.py` | none | text layout, small predicates |

`PROJECT.json` lists the same parts with their status.

### 1.2 How they interact

Nothing but S3 connects the components: no lock, no queue of their own, no database. A producer
may run anywhere. The validator is a Batch job that is started when something was written and by
a periodic sweep, so that two of them may overlap (`infra/04-event-wiring.yaml:85-91`). What one
writes the other finds by LIST and GET, later:

    producer --stage/copy--> landing/<id>/vN --Gate A--> promote --copy--> edullm-data/<id>/vN
                 dataset.json (reservation)                 catalog entry, then seal (last)
                 manifests    (commit point)                _VALIDATED / _REJECTED back in landing
    reader   <--seal, root, chain, dataset.json, manifest, payload-- edullm-data
    fsck     <--LIST of the catalog, then the same-------------------- edullm-data

### 1.3 What is hard about it, and what correctness means

- *publish.* Two runs for one dataset id interleave at every request; the reservation is a HEAD
  followed by a plain PUT; copies are parallel; the manifests are the commit point. Correct: what
  a run leaves in landing is what its producer gave it, and each run ends.
- *validate and promote.* The job is killed half-way, overlaps with another one, meets prefixes
  that are still being written, and reads documents a second time after judging them. Correct: a
  version becomes readable in one step, as a whole, fit to be read, and never changes again; every
  finished publication gets one verdict.
- *reader.* Its check is a dozen requests during which a promotion may go on. Correct: it gets the
  sealed tree or a refusal, and no false alarm.
- *fsck.* It runs beside promotions. Correct: it reports all decay that a sweep can see and nothing
  else.
- *lineage.* A dataset pins manifests of parents that live in `edullm-data` and may be promoted,
  broken off, published again or lost while `publish()`, Gate A and fsck read them, each in several
  requests. Correct: no byte of a parent is published again, token ids are bounded by the pinned
  tokenizer, a good child is not rejected, and a parent that is gone is reported.
- *splits.* Partitions, coverage claims, labels, row totals and split words in file names overlap;
  what Gate A accepts must be what the reader's selection relies on. Correct: held-out data is never
  handed to training, and a total is that of the files it comes with.
- *tokens and orders.* A shard is bytes without a header; counts, dtype, byte order and bounds are
  claims, and Gate A sees four windows. Correct: lies that can be told from the bytes are caught,
  degenerate shards and curricula never pass, healthy ones always do.
- *mixture.* A ceiling, a budget and repeated passes meet at the last shard. Correct: the ceiling is
  a limit, the budget a goal, and the loop ends.
- *text corpus.* Line breaks fall anywhere in a chunk; repeated texts are counted in bounded memory.
  Correct: chunks are invisible, memory is bounded, a text that repeats too often is reported.

`PROJECT.json` lists the hazards one by one with the line where each bites.

## 2 Modules and how they correspond to the code

    Buckets <- Publish, Promote <- Airlock <- Decay <- Reader, Fsck      Airlock refines Shelf
    Sorted <- Tokens, Corpus        Splits, Tokens, Orders, Corpus <- Checks
    Mixture        Lineage

`MC*` modules give the constants their values; `*_proofs` modules hold the theorems. Operators
marked "Mutant" change one action the way a plausible bug would (a dropped wait, a swapped order,
a missing test). The specifications do not use them: each is there so that one can see a property
fall when it takes its original's place (`PROJECT.json`, "mutants").

**`Buckets`** is the state all share, for one dataset id. `lds`, `lman`, `lobj` and `marks` are
landing's `dataset.json`, manifests, payload and markers per version; `dds`, `dman`, `dobj`,
`catalog` and `seal` are those of `edullm-data`. An object is its content, and a digest is the
content it is taken from. A *tree* maps files to contents; it stands for a payload, for a manifest
and for what a `dataset.json` pins. A request to S3 is atomic, and so is each action that makes one.

**`Publish`** is `publish()`. One member of `Publishers` is one run; its record `pub[p]` has the
phase, the producer's tree `src`, the version, what was enumerated (`plan`) and what is still to
be copied. `Stage`, `Enumerate`, `NextVersion`, `Hash`, `Head`, `Reserve`, `Copy`, `PutManifest`,
`Cleanup` are the calls in the order of the code; `HeadSameNumber` and other names with a suffix
are mutants. `Head` and `Reserve` are two steps, as `_put_create_only` is. A run may die at any
step (`PubCrash`), and its cleanup may fail.

**`Promote`** is `main()` with `--promote`. One member of `Jobs` is one job. `Discover` builds
the work list; `LoadDs`, then per group `LoadManifest`, `HeadEntry` for each entry, `ListGroup`,
`SampleEntry` for each entry and `EndGroup`, then `Sweep` are Gate A, a request to landing per
action; `LeaveIncomplete`, `Reject` or `promote()` follow: `CheckSeal`, `ReloadDs`,
`ReloadManifest`, `CopyDs`, `CopyManifest`, `CopyPayload` in any order, `HeadCrc` for each object in
any order, `ReadRoot`, `PutCatalog`, `PutSeal`, `MarkValidated`. A HEAD of a file of `Crcless` may
answer without a CRC; the reference in the seal then leaves the file out. `RunNamed` is an operator's
`--prefix`; `JobCrash` kills a job. The profiles' checks are a set `Unfit` of contents that do not
pass.

**`Airlock`** composes the two with landing's lifecycle (`Expire`). It states the properties, and
that it implements **`Shelf`**: numbered places, each filled once, in one step, with a whole fit
tree that a producer offered. The mapping of a place is what a reader can get: nothing without a
seal, else the content of all the files the manifests list.

**`Reader`** adds a consumer to the airlock. It may ask for any version (the answer of
`resolve_latest` is one of them). `Require`, `GetSeal`, `GetRoot`, `GetChain` are the seal check,
`GetDataset`, `GetManifest`, `LoadPayload` are what follows, each a request. It ends `served`,
`refused`, `mismatch` (the check raised `SealMismatch`) or `lost` (the payload that was answered
is not there).

**`Decay`** is what may happen to a version that was published long ago, up to `MaxDecays` times:
a document, a seal or an object is lost, an object is overwritten with bytes of the same or of
another length, or `dataset.json` or a manifest is edited (`RewriteDataset`, `RewriteManifest`) so
that it says something else of one file. `Reader` and `Fsck` run beside it.

**`Fsck`** is the sweep over the catalog (`StartSweep` to `CompareCrcs`), a request per action. Its
HEADs, too, may lack a CRC; a file without an observed or a recorded one is passed over, as
`_check_crc64nvme` does. The history variable `sweep.blind` keeps the versions in which that hid
replaced bytes.

**`Lineage`** is `depends_on`. Its state is a parent with two groups and two versions in both
buckets, the child, and Gate A and fsck at work on the child. `CopyKey`, `PutCatalog`, `PutSeal`,
`JobDies` and `PublishAgain` are what `promote()` and landing's lifecycle do to the parent; the child
is declared by hand (`DeclareByHand`) or by `tokenizer=` (`NameLatest`, `NameVersion`, `PinParent`);
`GetParent`, `GetParentManifest`, `CheckEntries`, `GetTokenizer`, `GetTokenizerManifest`,
`GetTokenizerJson` are `_register_parent_shas` and `_resolve_tokenizer`; `ParentExists` and
`ParentPinned` are fsck's two GETs. A group of the parent has one file, so that a manifest, its
digest and the file's digest are one value; a parent of before digests were recorded is `legacy`.
The promotion of the parent is a small one of its own, not `Promote`: what matters here is which
keys are there at which moment, and `Airlock` shows that its order is the one taken here.

**`Splits`** has no concurrency: `SplitsInit` chooses any dataset that a producer may declare, `Land`
is what `publish()` adds to it (templates that select nothing are dropped, rows filled in, labels
taken from the paths), `Validate` gives Gate A's verdict on partitions, rows, labels, coverage,
leakage, undeclared and missing splits, and the `Read` actions give the reader's three selections
with or without a label, their rows and the row predicate. `PathsOf` is `by_name` of the validator,
which keeps the last of a name, `FirstNamed` is `_find_partition` of the reader, and `LastNamed` its
dictionary `.splits`: the code differs there, and so does the model. `SumOf` is `_sum_counts`, which
gives no total over files that count in different units (`OneUnit`); `CountOf` is Gate A's and
`publish()`'s sum, which does not look at units. Rows may be missing (`NoRows`) or given as `Null`. A
group's `profile` is one of four prefixes of its name, since labels are not compared for `vendored/` and
`tokenizer/`, and file names make no claim for `vendor/` and `tokenizer/`.

**`Tokens`** is `pretrain-tokens/v1` on one shard, from the bytes up: a file is the ids a writer meant
in the layout it used, possibly cut short; `Element` reads it in the layout that is declared.
`Sample` draws any windows `sample_offsets` may give and joins them by rising offset (`Sorted` is
`sorted(set(...))`; every window holds `PerWindow` elements), `Judge` collects the violations of Gate A
and of the profile: each operator is one of them, and `Recorded` is all. An entry's dtype is an integer
or a float that `DTYPE_SIZES` has, an alias that numpy takes for an integer, or null (`Names`):
`Sized` says which of them the arithmetic looks at, `Decoded` which the profile does. A byte has eight values
in the run, an element one or two bytes; `SampleBytes`, 64 KiB in the code, is assumed to give each of
the four windows two elements at least.

**`Orders`** is `token-order/v1`: `CheckOrderLength` and `CheckOrderDomain`, in the order of `CHECKS`.

**`Checks`** puts `Splits`, `Tokens`, `Orders` and `Corpus` side by side, as the registry does: one
of them is at work in a behaviour.

**`Mixture`** is the loop of `build_mixture` for one component: `BeginPass`, `Skip`, `Pick`,
`EndPass`, `Finish`. Ratios are pairs of numbers; truncation is that of the code.

**`Corpus`** is `iter_jsonl` with `check_documents` over it: `ReadChunk` takes any number of bytes
up to the chunk size (a decompressing stream may give fewer than asked), `NextRecord`, `KeepTail`,
`EndOfStream` cut lines, `AddHeavyHitter` is the table of candidates (Misra and Gries), `Compare`
and `Verify` are the checks after the stream's end.

## 3 What the runs check

| run | question | bounds | distinct states |
| --- | --- | --- | --- |
| `airlock_sequential` | producers follow one another, two jobs overlap, landing expires: is everything readable whole, fit, unchanged, what the producer gave? Do catalog and seal agree? Is the airlock a `Shelf`? | 3 files in 2 groups, 1 version that is handed out again, 2 local producers, 4 trees (one unfit, one with a duplicate), 2 jobs of which one may be killed | 1 040 000 |
| `airlock_races` | producers overlap, die and expire, an operator names the prefix: what holds even then? | 2 files, 1 version, 2 producers, 3 trees, 1 job, 1 fault on either side, 1 file that may lack its CRC | 1 880 000 |
| `airlock_progress` | runs of `publish()` interleave and retry: do they end, with what they hashed? Does a finished publication get its verdict, a good one its seal? | 2 files, 2 versions, 2 producers, 2 attempts, 1 job, nobody is killed | 18 000 |
| `reader_two_jobs` | two jobs overlap and may die while a reader asks and documents decay or are edited | 2 files, 1 version, 3 trees, 2 decays, 1 file that may lack its CRC | 491 000 |
| `fsck` | sweeps beside promotions and decay | 2 files, 2 versions, 1 job, 2 decays, 1 file that may lack its CRC | 2 900 000 |
| `mixture` | ceiling, overshoot, even repeats, termination | 3 shards that count 0 to 3, budgets to 8, nine knob settings | 34 000 (every input is an initial state) |
| `checks` | what do the checks on splits, tokens, orders and text let through? | 3 files, up to 3 partitions, rows and labels; shards of up to a few elements under every draw of windows; orders of up to 3 indices; up to 4 documents, chunks and records to 3 bytes | 1 320 000 (every input is an initial state) |
| `lineage` | a child beside its parent's promotions, in `publish()`, Gate A and fsck | 2 groups of the child, 2 versions of the parent, the first published (or of before digests were recorded) or not, 1 death, 1 decay | 6 000 000 |

Four more runs end in a violation: section 4.

*What the properties say.* Each has a comment in its module; the most telling ones are:

- `ImplementsShelf`, `SealImpliesComplete`, `SourceFaithful`, `CatalogMatchesSeal` (sequential): a
  killed job, a second job at any other point of the same prefix and a number that is handed out again
  never show a reader half a version, another producer's bytes or content that Gate A rejects; a
  sealed version's hash chain closes, and its catalog entry names the sealed `dataset.json`. These
  are about producers who follow one another. For `CatalogMatchesSeal` one job would do instead
  (`CatalogAgrees`); with two jobs and overlapping producers it is false, see section 4.
- `SealImpliesPresent`, `PromotedIsThere`, `MarkedImpliesSealed`, `NothingDeleted` (races): the order of
  `promote()`, copies, then CRCs, root, catalog, seal, landing's marker, holds while producers write the
  prefix meanwhile. The run has one job; that it holds for any number of them is proved (section 5).
- `LandingMatchesPlan`, `PublishEnds`, `EventuallyDecided`, `EventuallySealed` (progress).
- `Frozen`, `OneVerdict`, `ServedIsSealed`, `NoFalseAlarm` (two jobs and a reader): jobs that both
  passed the early HEAD on the seal write the same bytes; the reader's check, spread over many
  requests, never reports tampering when there was none, and a document that was edited before the
  reader asked is never served. One edited between the check and the second GET of it is
  (`read.py:263-273`), and payload that was overwritten is (no read looks at its digest): the
  property excepts exactly these.
- `SweepSound`, `SweepComplete` (fsck): a finding needs a decay of its kind or one that causes it; a
  decay before the sweep began is reported, or lies behind a document that is gone, which is itself
  reported. Three kinds are not: a lost seal (deliberately no finding, `fsck.py:251-253`); bytes
  replaced at the same length where the sweep has no CRC to compare, because the seal is gone, or the
  seal's reference or the sweep's own HEAD leaves the file out (`validate.py:1326-1345`,
  `fsck.py:157-174`; `sweep.blind`); and a version of which a document was edited: fsck believes
  documents and leaves their digests to the readers.
- `NoCopiedBytes`, `VocabIsPinned`, `GoodChildAccepted`, `ParentsSwept` (lineage). Each names the
  exceptions the code has, and each exception occurs in the run.
- `UnsplitIsTrainable`, `TrainValDisjoint`, `CoverageIsExact`, `RowsAreSelected` (splits). Rows that
  are reported are the count of the files handed out when these count in one unit; a slice over
  several units has no total. A split that is read without a label reports the rows it declares,
  which Gate A compares with a sum over units.
- `CountCovers`, `DtypeLies`, `DegenerateNeverPasses`, `HealthyPasses` (tokens): together, what a
  shard that passes may still hide. `CountCovers` names the two ways around the count arithmetic that
  are open, a codec and a null dtype, both under an extension that claims nothing (`.bin`); the next
  two are about dtypes that the profile decodes. `OrderIsWhatItClaims` (orders) is an equivalence with a
  reference definition of the three kinds of orders.
- `ChunkingIsInvisible`, `RepeatsReported` (corpus): `RepeatsReported` rests on the claim of Misra
  and Gries and on the number of slots that `text_corpus_v1.py:282` computes.

*Why the bounds are enough.* `Crcless` has one file where CRCs matter: one file with a CRC and one that
may lack it is every case of a comparison that looks at one file at a time; in the sequential run it
is empty, since no property there looks at a missing CRC. Symmetry among publishers is sound: they
differ in nothing but what happens to them, and no liveness property is checked in a run that uses it.
Two groups and three files let one group be complete while the other
is not, and one group hold a duplicate. Two versions and two producers give every pair that can
race, and a run that loses starts over with the next number in `airlock_progress` (`MaxAttempts = 2`), and
gives up in `airlock_races` (`MaxAttempts = 1`). Two jobs suffice for what a job does to another: a third has the same state to meet. One
version is enough where the versions do not touch each other (each action of a job works on one
version; only `_next_version` looks at several). Contents a, b, c have one length and d a different
one: Gate A compares lengths, so both cases matter. The mixture's budgets go above what three
shards hold, so that passes repeat; its fractions are such that the ceiling binds, does not bind,
or is equal. The text corpora have three slot counts, four documents and lines on either side of
the limit. The token shards are shorter and longer than a window and than all four together, with
vocabularies on either side of the one-byte width. In `lineage` two versions let one be published
while the other is being promoted, two groups of the child let one depend and the other not, and
two groups of the parent let a pin name the wrong one; one death leaves a broken promotion, and one
decay is enough for each exception of the properties to occur, and the theorems cover several.

*Fairness.* A run of `publish()` goes on until it returns or dies, so each publisher's steps are
weakly fair. The sweep is submitted every five minutes for ever (`infra/04-event-wiring.yaml:85-91`)
and a job goes on until it ends or is killed, so each job's steps, `Discover` among them, are weakly
fair. Neither is set up by the templates: the event rule is created disabled (`RuleState`, line 110), and
the sweep is what the file recommends instead (option 3) and leaves to whoever deploys it. So
`EventuallyDecided` and `EventuallySealed` are about a deployment that runs the sweep; `PublishEnds`
needs no sweep. Nobody is obliged to start a publication, to expire or to kill. `build_mixture` is a loop in
one thread: weak fairness of `Next`. Every cfg has `CHECK_DEADLOCK FALSE`: once all producers have
returned and everything is marked, or the loop has ended, the program is at rest.

*Other bounds.* `MaxAttempts` is a parameter of the code. `MaxPubFaults`, `MaxJobCrashes` and
`MaxDecays` bound faults; `MaxVersion` bounds the numbers: a run
that needs a higher one waits there, so the liveness run has a number for each producer.
`MaxDeaths` bounds the jobs and validations killed in `Lineage`; a number of the parent is published
again at most once.

## 4 Where code and documents disagree

Four runs are expected to end in a violation.

- **`seal_of_a_race`**: two overlapping runs of `publish()` pass the HEAD on the same
  `dataset.json`, both PUT it, and mix their files under one prefix. Gate A compares lengths, so
  two files of one length hide the mix, and the seal covers digests that the payload does not have.
  The comment at `publish.py:785-788` counts on the server to reject the second PUT, but the call
  asks for no condition; `validate.py:1402-1403` says the seal "always implies a complete, readable
  dataset".
- **`mixture_reuse`**: with `max_repetition_ratio = 1` and a ceiling that binds, `build_mixture`
  begins a second pass and picks small shards again (`read.py:801`), against `read.py:618`,
  `read.py:799` and `docs/CONSUMER-CONTRACT.md:208`.
- **`splits_duplicate_name`**: of two partitions with one name Gate A checks the last
  (`validate.py:922`) and the reader hands out the first (`read.py:498`). The first may be the
  validation file, against `validate.py:999`.

- **`unsplit_by_field`**: when `train` is a partition by field, an unsplit read selects its files, all
  of the group, and drops the predicate on rows (`read.py:367`), so that a loader trains on the rows
  of `val` in them. In the trace the group has two files, both named `train`, and partitions `train`
  and `val`, both by field; a file named `val`, without which Gate A would refuse the declaration of
  `val`, lies in another group. The unsplit read hands out both files and no predicate, against `read.py:317-319` ("never silently return the whole set as if it were the
  split") and `read.py:231`.

Other disagreements show when a constant of a passing run is changed; the runs keep the setting in
which the property holds, and here is what lies beyond:

| change | what falls | what it means |
| --- | --- | --- |
| `MaxPubFaults = 1` in `airlock_sequential` | `SourceFaithful` | staged files of a run that died, or whose cleanup failed, are listed by the next local run of the same id and published with it; `publish.py:777` calls the cleanup "not load-bearing" |
| `SourceKinds = {"local"}` in `airlock_progress` | `LandingMatchesPlan` | two overlapping local runs share one staging prefix; after hashing, the copy may take the other's bytes. `publish.py:693-695` calls the staged source indistinguishable from an `s3://` one |
| `MaxJobCrashes = 1` in `airlock_progress` | `EventuallySealed` | a job killed between the seal and landing's marker leaves the prefix pending; `promote()` then raises on each later sweep (`validate.py:1284`, called at 1507), and what is sorted after it is not reached |
| `Named = {1}` in `reader_two_jobs` | `OneVerdict` | `--prefix` on a prefix that is unfinished, or that another run is completing, writes a `_REJECTED.json` that stays when the version is promoted later |

| `Jobs = {1, 2}` in `airlock_races` | `CatalogMatchesSeal` | the catalog entry and the seal name different documents: a job writes the entry for D1, an overlapping producer writes D2 to landing, a second job writes the entry for D2, and the first one then seals D1 |

`airlock_races` has runs that die, a job that is killed, overlap and a named prefix at once and lists what
survives them. One disagreement
does no harm to readers: `_next_version` looks at landing only, so after 14 days a number that is
sealed in `edullm-data` is handed out again, while its docstring (`publish.py:541`) says "(in landing
OR the catalog)". `airlock_sequential` has `Expiry = TRUE`: the late publication is copied nowhere,
because `promote()` refuses it, and the `Shelf` keeps what it has.

Observed while modelling, and not made a run: objects that an aborted promotion left in
`edullm-data` may stay unlisted under a prefix that is sealed later (`validate.py:426` and
`docs/ONBOARDING.md:50-51` exclude stray files in landing only); when the budget is below the
ceiling, the selection may exceed the ceiling by the overshoot of its last shard (`read.py:791`,
`docs/CONSUMER-CONTRACT.md:209`); an evaluation set without a partition is emptied by the filter
on file names (`read.py:375-391`, `docs/CONSUMER-CONTRACT.md:350-352`).

And, from the modules of lineage and of the checks:

- `tokenizer=` without a version takes the highest *catalogued* number, which may not be sealed yet
  or never will be (`publish.py:584-598`; the docstring says "PUBLISHED"), and Gate A asks for no
  seal either: a child may be sealed on a parent that is published again with other content.
- The bytes of `tokenizer.json` are compared with no digest when the vocabulary is derived
  (`validate.py:1230`); `VocabIsPinned` says when they can differ.
- A copied byte is found only in the group that depends on the parent and in later ones of
  `dataset.json` (`validate.py:245-277`), and only against the pinned group of the parent.
- fsck compares a pin with the digests that a parent records, so for a parent that records none,
  which Gate A accepts (`validate.py:1092-1112`), each sweep reports `parent-changed`
  (`fsck.py:201-204`). A parent that goes away between its two GETs is passed over in silence until
  the next sweep (`fsck.py:205-206`).
- `verify_arithmetic` skips anything encoded and entries without a dtype, so a codec or `dtype: null`
  under an extension that claims nothing (`.bin`) leaves the count unchecked: of a null dtype the width
  check (`validate.py:862`), the decode (`pretrain_tokens_v1.py:307`) and the alignment (459) say nothing
  either, and any token count passes. A shard declared as floats is not decoded; all zeros pass there.
  The width is not checked when the vocabulary is only a family's default (`validate.py:460-462`).
- An object whose CRC could not be read at promotion, or at the sweep, may be overwritten at the same
  length without a finding, then or ever (`validate.py:1333-1345`, `fsck.py:157-174`), against
  `fsck.py:140-147`, which promises that this check sees a replacement of the same length.
- Gate A adds counts up whatever their units (`validate.py:940-993`), the reader refuses to
  (`read.py:435-460`): the rows of a split over several units, read without a label, are Gate A's sum.
- A partition by field may give its rows as null (`validate.py:914` asks for the key only).
- When a group declares only `val`, over files whose names do not say so, an unsplit read returns them
  (`read.py:364-391`): without a trainable partition it goes by names alone.
- A `uint32` shard declared `uint16` passes when the vocabulary fits two bytes, and a byte-swapped
  one when the vocabulary nearly fills its width: the two exceptions of `DtypeLies`.
- Windows are spliced before runs of zeros are measured (`pretrain_tokens_v1.py:371-395`), so in a
  shard with few zeros a run may be reported that is up to twice as long as any that is there.
- A permutation without a block count passes when its top index is not below its own length
  (`token_order_v1.py:208`), whatever it repeats.
- `publish()` gives every raw array the unit `tokens` (`publish.py:145-146`), so an order's count is
  never compared as `indices`; and it sums rows without `indices` (`publish.py:447-467`), which Gate A
  counts.
- Rows that a producer declares are compared with nothing when a partition is by field, or its files
  count nothing but bytes (`validate.py:940-993`).

## 5 What is proved

The theorems hold for every value of the constants that the modules' assumptions admit: any finite
number of files, groups, producers and jobs, any sizes, any number of faults and decays. The
assumptions fix the constants' types, and that `Files` is finite in `Splits`. A theorem that needs a
setting of `Overlap`, `Expiry`, `Named` or the like says so (ASSUME ... PROVE), and the setting is
that of the run which checks the property. Section 4 shows why it is needed: with overlapping
producers two of them may mix their files under one prefix (`seal_of_a_race`), and staged files of a
dead local run get into the next one (`CleanSources` excludes both: sources are `s3://`, or producers
follow one another and none dies). `Expiry = FALSE` is asked where landing itself is what a property
compares with, `Named = {}` where a prefix that is promoted a second time by hand would get a second
verdict.

| module | theorem | property | under |
| --- | --- | --- | --- |
| `Airlock_proofs` | `TypeCorrect` | `TypeOK` | |
| | `SealIsNeverAhead` | `SealImpliesPresent` | |
| | `CopiesComeFirst` | `PromotedIsThere` | |
| | `MarkerComesLast` | `MarkedImpliesSealed` | |
| | `DataBucketOnlyGrows` | `NothingDeleted` | |
| `Landing_proofs` | `PublishesItsSource` | `SourceFaithful` | `CleanSources` |
| | `LandsWhatItPlanned` | `LandingMatchesPlan` | `s3` sources, no dead runs, no expiry; runs may overlap |
| `Shelf_proofs` | `SealedIsComplete` | `SealImpliesComplete` | no overlap |
| | `AirlockIsAShelf` | `ImplementsShelf` | no overlap, `CleanSources` |
| | `CatalogAgrees` | `CatalogMatchesSeal` | one job, or no overlap |
| | `VerdictsAgree` | `OneVerdict` | no overlap, nothing named, no expiry |
| `Reader_proofs` | `SealedStaysFrozen` | `Frozen` | no overlap |
| | `ReaderIsNotAlarmed` | `NoFalseAlarm` | no overlap |
| | `ReaderGetsTheSealed` | `ServedIsSealed` | no overlap, no expiry |
| | `VerdictsSurviveDecay` | `OneVerdict` | no overlap, nothing named, no expiry |
| `Fsck_proofs` | `SweepIsSound` | `SweepSound` | no overlap, no expiry |
| | `SweepIsComplete` | `SweepComplete` | the same, nothing named |
| `Lineage_proofs` | `NothingIsCopied`, `VocabularyIsThePinned` | `NoCopiedBytes`, `VocabIsPinned` | |
| | `GoodChildrenPass`, `ParentsAreSwept` | `GoodChildAccepted`, `ParentsSwept` | |
| `Mixture_proofs` | `CeilingHolds`, `OvershootsByLessThanOneShard` | `CeilingBinds`, `WithinOneShard` | |
| | `StopsOnlyWhenFull`, `RepeatsGoRound` | `NothingMoreFits`, `EvenRepeats` | |
| `Checks_proofs` | `ChecksAreTyped` | `ChecksTypeOK` | there is a dataset and a shard |
| | `UnsplitReadsAreTrainable`, `TrainAndValAreApart` | `UnsplitIsTrainable`, `TrainValDisjoint` | |
| | `PartitionsAreExact`, `RowsAreTheirFiles` | `CoverageIsExact`, `RowsAreSelected` | |
| | `TokensAreCounted`, `LiesAreCaught` | `CountCovers`, `DtypeLies` | |
| | `DegenerateShardsFail`, `HealthyShardsPass` | `DegenerateNeverPasses`, `HealthyPasses` | |
| | `OrdersAreTrue` | `OrderIsWhatItClaims` | |
| | `ChunksAreInvisible`, `RepeatsAreReported` | `ChunkingIsInvisible`, `RepeatsReported` | there is a shard |

"No overlap" is about producers (`Overlap = FALSE`); any number of jobs overlap in all of them.

**`Airlock_proofs`.** The invariant is

    IInv == PubGood /\ JobInv /\ SealImpliesPresent /\ MarkedImpliesSealed

`SealImpliesPresent` alone is not inductive: when a job writes the seal one has to know that the
catalog entry, the manifests and the objects it is about to vouch for are there. `JobInv` says,
for each phase of a job, which copies are made already (`Placed`), which documents the job holds
and what the keys still to be copied are. Since no step removes anything from `edullm-data`
(`KeepsKeys`), what one job has placed stays placed whatever the other jobs do (`StaysPlaced`,
`OneJobMoves`), and that is the reason why overlapping jobs do no harm here. `PubGood` types
landing: what a job reads there, and copies, is a tree. Each action has a lemma of its own
(`CopyKeeps`, `GateAKeeps`, ...); `NextIInv` puts them together, and shows `KeepsKeys` in the
same induction. Minima of sets of numbers come from `WellFoundedInduction`'s facts on `Nat`.

**`Landing_proofs`** is about one publication after another. `LandingInv` says what landing holds
at each phase of the run that owns a version: the reservation carries the run's plan, each object
copied so far is the planned one, a manifest comes when the copies are complete, and what a
finished run leaves never changes again unless it expires. `SourceInv` adds that the plan is the
source, or was listed from a staging prefix that holds just the source (`StagingInv`). For runs that
overlap, `SoleInv` says what survives of this: between `Reserve` and its commit a run of which no other
run has taken the version has landing to itself. That is the premise of `LandingMatchesPlan`, and as
the two HEADs show, it may be false.

**`Shelf_proofs`** links the two buckets. `WorkInv` says that every document and every content a job
holds is that of the one finished publication of its version; `Shown`, for each version, that what
lies in `edullm-data` agrees with one tree that passed Gate A (`ShelfInv` is both). So two
jobs that both passed the early HEAD on the seal write the same bytes, and a version that a
second publication fills after landing expired is not touched, because its seal or its
`dataset.json` is found. `OnePlaceMoves` is the step lemma: a step of the airlock changes what
readers can get in at most one place, and then from nothing to a whole fit tree. The refinement
follows: initial states map to initial states, and each step is a `Fill` of `Shelf` or a stutter.
`CatalogInv` follows the object count from the listing to the catalog entry and the seal;
`VerdictInv` says that a verdict in sight (`Sure`) is the one that the content deserves (`Verdict`).
Its last sections are about decay, for the two modules that follow: `Order` (`IInv` without its part
on presence, which decay breaks) survives every step and decay, and `Remains` says what is left of a
sealed version after the decays on record.

**`Reader_proofs`.** `FreshIsShown` and `Undisturbed`: what a reader has found and what no decay has
touched since it asked is what `Shown` says of the version, so its comparisons agree.
`ReadsTheSealed` adds the request that is due.

**`Fsck_proofs`.** `SoundInv` says of each document the sweep holds how it may differ from the sealed
one (`Knows`), so that a finding has a decay behind it. `CompleteInv` is the converse and says, for
each decay before the sweep began that the sweep can see, that it is reported or that the request
which will see it is still ahead (`Ahead`, `Reported`). It rests on `Rests`: a version that is
catalogued and sealed when the sweep begins is not worked on any more.

**`Lineage_proofs`.** What three programs read of a parent that moves under them is reduced to what
one step may do to a version of it (`MovesTo`): nothing, a copy of what landing holds (`Promoted`), a
new draft under its number (`Renewed`), or a decay. Every step of the parent is one of these
(`NextMoves`), and `Original` says what lies on the shelf meanwhile. From this it follows what does
not go away once it was seen: a pin that was resolved stays `Traced`, a pin that was honoured stays so
or its parent is `Excused`. `GateOK` is a predicate on Gate A's record: what it is through with, and
has found nothing wrong with, is clean (`GateClean`), and if a good child is found wrong there is an
excuse (`GateFair`). `SweepOf` says, for each dependency of the child, how what fsck saw when it began
differs from what it reads now. The constants are assumed to have at least one group, `Absent` and
`NoPin` apart from all contents, and `NoDoc` apart from all documents. An attempt to prove
`ParentsSwept` as it was first written failed, and showed that it was wrong for two decays and more: a
document that is lost between fsck's two GETs and put back after them goes unreported, although it is
the same before the sweep and after it. The property now asks for what was lost or replaced since the
sweep began (`sweep.old`).

**`Mixture_proofs`.** The invariant adds `PassInv`: during a pass the selection has not shrunk, the
pass began below the target, and as long as the pass added nothing, every shard it has looked at
counts zero or does not fit. `Rounds` is the invariant of `RepeatsGoRound`: a pass has taken every
shard before `next` once more than the others.

**`Checks_proofs`.** The checks read one dataset, shard or order that is chosen at the start, so these
are proofs about operators more than about steps. *Splits:* `SplitsInv` says what Gate A's acceptance
implies of the lists of partitions, and that each selection is one the reader computes from them.
*Tokens:* `TokensInv` says that the sample is made of `Windows`, stretches of the shard at different
places (`SampleIsWindows`; that an element of a set can be found by its rank, `NthIn`, is shown by a
minimal counterexample). A shard of one id has samples of one id, and the floor on distinct ids is two
as soon as a sample is longer than one (`DegenerateIsFound`). A shard without repeats shows no id in
more windows than there are, four at most, which is why a quarter of the sample is a floor it reaches
(`CleanReachesFloor`), and never zero three times in a row, since neighbours within a window differ
(`NoThreeAlike`). Bytes are digits: read in the layout they were written in they give the ids back
(`ReadsBack`); ids of one byte that are not zero, read two bytes wide in a layout they were not written
in, are all too big for their vocabulary, so every window shows it (`MisreadIsBig`). *Orders:* an order
that passes is what its kind says, and conversely (`TopIsGreatest`, `OnceEach`, `BijectionHasLength`: a
vector of n indices below n without repeats is onto). *Corpus:* the table of candidates never has
more entries than slots (`HeavyHittersFit`). `CutInv`: the buffer is the part of the shard between the
end of the last line (`Consumed`) and what was read, and the lines so far are the first ones of the
shard. `LinesOf` finds a line by the rank of its end among all ends, so a step has to show that the end
it finds in the buffer is the next one in the shard (`Reading`, `NextLine`, `OneMoreLine`), and
that a tail which is too long belongs to a line which is. `HeavyInv` is the argument of Misra and
Gries: each time the table was full, `Slots + 1` different texts were crossed out once (`CrossedOut`;
`Pairs` counts what the counters hold as a set of pairs), so a text that is not in the table at the
end occurred at most as often as that happened, and `Slots` is computed such that this is no more than the
fraction (`SlotsSuffice`, `OftenIsKept`). *Totals:* rows and candidates are counted with folds
over finite sets, about which the provers know nothing. `Sums` describes the partial sums of a fold as
a function; that there is one for every finite set, and that its value is a number, is shown by a
minimal counterexample (`SumsExist`, `SumsAgree`, `SumsAreNat`), since an induction theorem cannot be
instantiated.

*Only model-checked,* and why: liveness (`EventuallyDecided`, `EventuallySealed`, `PublishEnds`,
`Terminates`), since the prover does not handle ENABLED.

## 6 What is not modelled

- *Several dataset ids.* Different ids share no key, apart from `depends_on` (`Lineage`).
- *`Discover` and `Expire` are atomic.* The work list is a LIST and some GETs; a prefix that changes
  in between is decided as one that changed before or after. Expiry happens 14 days after the
  last write, when no run works on the version any more.
- *Frozen datasets only.* A mutable dataset needs no manifest for a group; the model takes a missing
  manifest for incomplete.
- *Gate A's content checks* are one predicate, `Unfit`, where their outcome is all that matters
  (`Promote`). What they find is in the modules under `Checks` and in `Lineage`. Left out there: the
  presence and types of the core fields, file naming, the profiles of single records
  (`sft_conversations_v1.py`, `eval_results_v1.py`) and `tokenizer_v1.py`. They look at one document
  or record at a time and keep nothing from one to the next; unit tests reach them.
- *Lineage:* several parents, groups of a parent with several files, chains of more than two
  datasets. A parent's `dataset.json` is replaced together with its manifests.
- *Tokens:* header bytes, signed ids, names of dtypes that numpy does not know either and aliases of
  floats (rejected like other aliases, when the tokenizer is known), several shards in a group, the fraction bound of `max_eos_fraction` other than one half.
- *Foreign writes.* An `s3://` source does not change during a publication, and only `publish()`
  writes to landing.
- *A failed copy in a pool* lets the others finish before the error surfaces; the model's run dies
  with any set of copies made, which includes that.
- *The skip of a source that is at its final key already*, the README that `promote()` writes (nothing
  reads it), `inventory.bytes` (follows from the chain; the number of objects is modelled), the times `validated_at` and `promoted_at` in seal and catalog, which
  differ between two jobs that promote one version and which nothing compares (`Frozen` compares what
  the documents claim; of two jobs one may also miss a CRC that the other has), legacy `_SUCCESS`
  markers, and seals from before the root digest was recorded.
- *Splits:* a partition by field, range or indices is a predicate that selects all the files of its
  group; an unknown split word (the reader raises), the choice of a group by the reader, formats.
- *Mixture:* several components. Each runs the loop by itself and they share no state; components
  whose labels overlap draw the same shards , and no document says that they may not.
- *Corpus:* several shards, the limit on how many violations are listed, and settings and schema
  (preconditions).
- *fsck:* the image digest, which is a question to ECR.
- *Pure text functions* (naming rules, canonical JSON, README layout), IAM.

## 7 Plan

The core came first: `Buckets`, `Publish`, `Promote`, `Airlock` with `Shelf`, its runs and its
proofs; then `Mixture`, `Splits`, `Reader`, `Fsck`, `Corpus`; then rows and labels in `Splits`,
`Tokens`, `Orders` and `Checks`, edited documents in `Decay`, and `Lineage`. The proofs followed
in the order of the modules: the airlock, landing, the shelf and its refinement, readers and fsck
under decay, the mixture, the checks, lineage, the text corpus. Every safety
property of a passing run is stated by a theorem; what is left to TLC alone is liveness.

## 8 Running it

    tlc -workers 2 -config airlock_sequential.cfg MCAirlock.tla     # likewise the other cfgs
    tlapm Airlock_proofs.tla                                        # likewise the other *_proofs

The module of each cfg is in `PROJECT.json` ("runs"). The longest run takes under two minutes,
the proofs of a module at most a few minutes (`Checks_proofs` and `Fsck_proofs` the longest).
`PROJECT.json` also maps every definition to the lines it stands for.
