------------------------------- MODULE Tokens -------------------------------
(***************************************************************************)
(* Packed token shards (profile pretrain-tokens/v1): a fixed-width array   *)
(* of token ids without a header, and what Gate A finds out about it from  *)
(* four windows of bytes, read at seeded offsets, decoded as the manifest  *)
(* declares them.  A byte has Base values, a token is one or two bytes     *)
(* wide, and the sample is SampleBytes bytes.                              *)
(***************************************************************************)
EXTENDS Naturals, SequencesExt, Sorted

CONSTANTS
    Base,              \* values of a byte
    SampleBytes,       \* DECODE_SAMPLE_BYTES
    DefaultDistinct,   \* _DEFAULT_MIN_DISTINCT
    DefaultRun,        \* _DEFAULT_MAX_ZERO_RUN
    NoBound,           \* a bound, an EOS token or an extension's claim that is not there
    Arrays             \* the inputs, see ArrayRecs

N_WINDOWS == 4

Layouts == [width : {1, 2}, order : {"little", "big"}]

\* A declared bound; 0 stands for every value that is not a positive integer.
Bounds == Nat \cup {NoBound}

\* Names of dtypes: integers and floats of DTYPE_SIZES, another name that numpy takes for an
\* integer (u2), and null.
Names == {"int", "float", "alias", "null"}

ArrayRecs ==
    [file   : [ids : Seq(Nat), as : Layouts,      \* what the writer meant, and its layout
               cut : Nat,                         \* bytes missing at the end
               npy : BOOLEAN],                    \* begins with a NumPy header
     entry  : [as : Layouts,                      \* declared, under a dtype of one of the Names
               dtype : Names, packing : {"raw", "codec", "box"}, \* box: a container that is not raw
               ext : Layouts \cup {NoBound},      \* what the extension claims
               unit : {"tokens", "rows"}, count : Nat],
     group  : [seq_len : Nat, vocab : Nat,        \* 0: none declared
               derived : BOOLEAN,                 \* the vocabulary is not only a family default
               eos : Bounds, distinct : Bounds, run : Bounds],
     family : [distinct : Bounds, run : Bounds]]

\* A window of the sample holds two elements of either width, at least.
ASSUME TokensAssumption ==
    /\ Base \in Nat \ {0, 1}
    /\ SampleBytes \in Nat /\ SampleBytes >= N_WINDOWS * 4
    /\ DefaultDistinct \in Nat \ {0} /\ DefaultRun \in Nat \ {0}
    /\ Arrays \subseteq ArrayRecs
    /\ \A r \in Arrays : r.file.cut <= Len(r.file.ids) * r.file.as.width

VARIABLES
    array,      \* the shard, its manifest entry, its group and family
    sampled,    \* the ids that its windows hold
    arrayPc,    \* "sample", "judge", "done"
    faults      \* violations recorded

tokenVars == <<array, sampled, arrayPc, faults>>

-----------------------------------------------------------------------------
(* The object. *)

Width == array.entry.as.width
Size  == Len(array.file.ids) * array.file.as.width - array.file.cut

\* How many values w bytes have.
Values(w) == IF w = 1 THEN Base ELSE Base * Base

\* The weight of the p-th byte of an element of that layout.
Weight(as, p) == IF p = (IF as.order = "little" THEN 1 ELSE as.width) THEN 1 ELSE Base

Byte(k) == LET as == array.file.as
               id == array.file.ids[(k - 1) \div as.width + 1]
           IN  (id \div Weight(as, 1 + ((k - 1) % as.width))) % Base

\* np.frombuffer: the element that begins after `at` bytes, in the layout that is declared.
Element(at) == LET Part(p) == Byte(at + p) * Weight(array.entry.as, p)
               IN  IF Width = 1 THEN Part(1) ELSE Part(1) + Part(2)

\* The elements of the object; a part of one at the end is trimmed.
AllOf == [i \in 1 .. (Size \div Width) |-> Element((i - 1) * Width)]

-----------------------------------------------------------------------------
(* sample_offsets and _sampled_ids. *)

Window == LET share == SampleBytes \div N_WINDOWS IN Max({share - (share % Width), Width})

\* Every offset a seed may give: aligned, and with a full window behind it.
Offsets == IF Size <= Window THEN {0} ELSE {at \in 0 .. (Size - Window) : at % Width = 0}

\* The elements of a window; it is a full one, or the whole of a smaller object.
PerWindow == Min({Window, Size}) \div Width

\* The windows at these offsets, one after another.
Joined(offsets) ==
    [i \in 1 .. PerWindow * Cardinality(offsets) |->
        Element(Nth(offsets, (i - 1) \div PerWindow + 1) + ((i - 1) % PerWindow) * Width)]

-----------------------------------------------------------------------------
(* Bounds. *)

Valid(b) == b \in Nat \ {0}

FamilyBound(b, default) == IF Valid(b) THEN b ELSE default

\* Mutant: what the group declares wins.
GroupWins(own, b, default) == IF Valid(own) THEN own ELSE FamilyBound(b, default)

\* A floor may be raised by the group, never lowered; a ceiling lowered, never raised.
Floor(own, b, default)   == IF Valid(own) THEN Max({own, FamilyBound(b, default)})
                            ELSE FamilyBound(b, default)
Ceiling(own, b, default) == IF Valid(own) THEN Min({own, FamilyBound(b, default)})
                            ELSE FamilyBound(b, default)

MinDistinct == Floor(array.group.distinct, array.family.distinct, DefaultDistinct)
MaxZeroRun  == Ceiling(array.group.run, array.family.run, DefaultRun)

InvalidBound == 0 \in {array.group.distinct, array.group.run,
                       array.family.distinct, array.family.run}

-----------------------------------------------------------------------------
(* Each operator is one way to be rejected. *)

Places(s, x) == {i \in DOMAIN s : s[i] = x}

\* _longest_run_of
LongestZeroRun(s) ==
    Max({0} \cup {n \in 1 .. Len(s) : \E i \in 0 .. (Len(s) - n) : \A k \in 1 .. n : s[i + k] = 0})

OutOfVocab == \E i \in DOMAIN sampled : sampled[i] >= array.group.vocab

\* Mutant: the floor does not depend on how much was sampled.
FloorFor(n) == MinDistinct

\* effective_min: a small shard need not reach the whole floor, but never gets by with one id.
EffectiveMin(n) == Min({MinDistinct, Max({n \div 4, IF n > 1 THEN 2 ELSE 1})})

TooFewDistinct == Cardinality(Range(sampled)) < EffectiveMin(Len(sampled))

\* max_eos_fraction is one half.
TooManyEos == /\ array.group.eos # NoBound
              /\ 2 * Cardinality(Places(sampled, array.group.eos)) > Len(sampled)

ZeroFill == LongestZeroRun(sampled) >= MaxZeroRun

\* What _np_dtype makes integers of; the profile decodes nothing else.
Decoded == array.entry.dtype \in {"int", "alias"}

\* What DTYPE_SIZES has a width of.
Sized == array.entry.dtype \in {"int", "float"}

Smoke == IF ~Decoded THEN {}
         ELSE IF sampled = <<>> THEN {"empty-shard"}
         ELSE {c \in {"vocab-out-of-range", "distinct-too-few", "eos-fraction-out-of-bounds",
                      "zero-run-in-shard"} :
                 \/ c = "vocab-out-of-range" /\ array.group.vocab # 0 /\ OutOfVocab
                 \/ c = "distinct-too-few" /\ TooFewDistinct
                 \/ c = "eos-fraction-out-of-bounds" /\ TooManyEos
                 \/ c = "zero-run-in-shard" /\ ZeroFill}

\* verify_arithmetic has an opinion on raw arrays of a dtype it knows, counted in tokens.
CountArithmetic ==
    /\ array.entry.unit = "tokens" /\ Sized /\ array.entry.packing = "raw"
    /\ array.entry.count * Width # Size

\* Mutant: off by one.
RequiredWidthOfNext == IF array.group.vocab <= Base + 1 THEN 1 ELSE 2

\* _min_dtype_size_for_vocab; an element is at most two bytes wide here.
RequiredWidth == IF array.group.vocab <= Base THEN 1 ELSE 2

\* Mutant: a dtype whose size is not known is passed over.
WidthUnlessAlias ==
    /\ array.group.vocab # 0 /\ array.group.derived /\ Sized
    /\ array.entry.unit = "tokens"
    /\ array.entry.packing = "box" \/ Width < RequiredWidth

\* _check_dtype_width_vs_vocab, when the tokenizer is derived or declared by the group; an entry
\* without a dtype has no width to check.
WidthNotCredible ==
    /\ array.group.vocab # 0 /\ array.group.derived
    /\ \/ array.entry.dtype = "alias"
       \/ Sized /\ array.entry.unit = "tokens" /\ (array.entry.packing = "box" \/ Width < RequiredWidth)

ExtensionMismatch ==
    /\ array.entry.ext # NoBound
    /\ \/ array.entry.dtype # "int" \/ array.entry.packing # "raw"
       \/ array.entry.ext # array.entry.as

Misaligned == /\ array.group.seq_len # 0 /\ array.entry.dtype # "null"
              /\ Size % (Width * array.group.seq_len) # 0

Recorded ==
    Smoke \cup {c \in {"invalid-decode-bound", "missing-tokenizer-field", "token-count-unit",
                       "count-arithmetic", "dtype-width", "extension-format-mismatch",
                       "npy-magic-bytes", "seq-len-misalignment"} :
                  \/ c = "invalid-decode-bound" /\ InvalidBound
                  \/ c = "missing-tokenizer-field" /\ array.group.vocab = 0
                  \/ c = "token-count-unit" /\ array.entry.unit # "tokens"
                  \/ c = "count-arithmetic" /\ CountArithmetic
                  \/ c = "dtype-width" /\ WidthNotCredible
                  \/ c = "extension-format-mismatch" /\ ExtensionMismatch
                  \/ c = "npy-magic-bytes" /\ array.file.npy
                  \/ c = "seq-len-misalignment" /\ Misaligned}

-----------------------------------------------------------------------------
TokensFresh == sampled = <<>> /\ arrayPc = "sample" /\ faults = {}

TokensInit == array \in Arrays /\ TokensFresh

\* Four draws, equal ones read once.
Sample ==
    /\ arrayPc = "sample"
    /\ \E at \in SUBSET Offsets : Cardinality(at) \in 1 .. N_WINDOWS /\ sampled' = Joined(at)
    /\ arrayPc' = "judge"
    /\ UNCHANGED <<array, faults>>

Judge ==
    /\ arrayPc = "judge"
    /\ faults' = Recorded
    /\ arrayPc' = "done"
    /\ UNCHANGED <<array, sampled>>

TokensNext == Sample \/ Judge

TokensSpec == TokensInit /\ [][TokensNext]_tokenVars

-----------------------------------------------------------------------------
Passed   == arrayPc = "done" /\ faults = {}
NoRepeat == \A i, j \in DOMAIN array.file.ids : array.file.ids[i] = array.file.ids[j] => i = j
\* The writer's ids are ids of the vocabulary, and the layout it wrote can hold all of those.
Honest   == /\ \A i \in DOMAIN array.file.ids : array.file.ids[i] < array.group.vocab
            /\ array.group.vocab <= Values(array.file.as.width)

\* A declared token count is what the object holds.  verify_arithmetic declines to look at rows,
\* at dtypes it does not know, at anything encoded or boxed and at entries without a dtype.  The
\* first ways around it are closed by other checks; two are open under an extension that claims
\* nothing (.bin): a codec, and a dtype that is null.
CountCovers ==
    /\ Passed /\ array.group.derived
    /\ array.entry.ext # NoBound \/ (array.entry.packing # "codec" /\ array.entry.dtype # "null")
    => array.entry.unit = "tokens" /\ array.entry.count * Width = Size

\* A shard of an honest writer that passes, and that the profile decodes, is read back as it was
\* written, or it slipped through one of two gaps: the vocabulary fits the narrower width that is declared, or so nearly fills
\* the width that ids with swapped bytes are ids as well.
DtypeLies ==
    Passed /\ Decoded /\ array.group.derived /\ Honest /\ array.file.cut = 0
      /\ 0 \notin Range(array.file.ids) =>
        \/ AllOf = array.file.ids
        \/ Width < array.file.as.width /\ array.group.vocab <= Values(Width)
        \/ Width = array.file.as.width /\ array.group.vocab > Values(Width) \div Base

\* A shard that the profile decodes and that repeats one id never passes, however small it is and
\* whatever bounds its group declares: only the family's bound could let it.
DegenerateNeverPasses ==
    Passed /\ Decoded /\ Len(AllOf) > 1 /\ FamilyBound(array.family.distinct, DefaultDistinct) > 1 =>
        Cardinality(Range(AllOf)) > 1

\* A shard that is what its entry says and repeats no id is not rejected, whatever its size and
\* wherever the windows fall: they may overlap, and count ids twice.
HealthyPasses ==
    /\ arrayPc = "done"
    /\ Honest /\ NoRepeat /\ array.file.ids # <<>> /\ array.file.cut = 0 /\ ~array.file.npy
    /\ array.entry.as = array.file.as /\ array.entry.dtype = "int" /\ array.entry.packing = "raw"
    /\ array.entry.ext \in {NoBound, array.entry.as}
    /\ array.entry.unit = "tokens" /\ array.entry.count = Len(array.file.ids)
    /\ ~Misaligned /\ ~InvalidBound /\ MaxZeroRun > 2
    /\ array.group.eos = NoBound
    => faults = {}

=============================================================================
