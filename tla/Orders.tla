------------------------------- MODULE Orders -------------------------------
(***************************************************************************)
(* Curriculum orders (profile token-order/v1): a vector of indices into    *)
(* the blocks of a parent, and what Gate A finds out about it.  An index   *)
(* is four bytes wide; the vector is the object, and a ragged one has      *)
(* bytes of a half index at its end.                                       *)
(***************************************************************************)
EXTENDS Naturals, SequencesExt

CONSTANTS
    NoBlocks,   \* a block count, or a declared length, that is not there
    Vectors     \* the inputs, see VectorRecs

VectorRecs ==
    [indices : Seq(Nat), ragged : BOOLEAN,
     kind    : {"permutation", "subset", "repeating", "other"},
     blocks  : Nat \cup {NoBlocks},            \* the group's own block_count
     parents : Seq(Nat \cup {NoBlocks}),       \* block_count of each entry of depends_on
     length  : Nat \cup {NoBlocks},            \* a count declared in indices
     cap     : Nat]                            \* max_order_bytes, in indices

ASSUME OrdersAssumption == Vectors \subseteq VectorRecs

VARIABLES
    vector,     \* the order, its entry and its group
    orderPc,    \* "length", "domain", "done"
    complaints  \* violations recorded

orderVars == <<vector, orderPc, complaints>>

-----------------------------------------------------------------------------
\* _block_count: the group's own, else the first that a parent carries.
BlockCount ==
    LET counts  == <<vector.blocks>> \o vector.parents
        carried == {i \in DOMAIN counts : counts[i] # NoBlocks}
    IN  IF carried = {} THEN NoBlocks ELSE counts[Min(carried)]

Indices    == Range(vector.indices)
TopIndex   == Max(Indices)
Length     == Len(vector.indices)

\* np.bincount
Occurrences(k) == Cardinality({i \in DOMAIN vector.indices : vector.indices[i] = k})

LengthCodes ==
    IF vector.ragged THEN {"order-bytes-not-multiple"}
    ELSE IF vector.length \notin {NoBlocks, Length} THEN {"order-length-mismatch"} ELSE {}

OutOfRange  == BlockCount # NoBlocks /\ TopIndex >= BlockCount
WrongLength == BlockCount # NoBlocks /\ Length # BlockCount

\* Mutant: only that every block appears is looked at.
NotOnto ==
    LET n == IF BlockCount = NoBlocks THEN Length ELSE BlockCount
    IN  TopIndex < n /\ \E k \in 0 .. n - 1 : Occurrences(k) = 0 /\ BlockCount # Length

\* Nothing is counted when some index is beyond the end.
NotBijective ==
    LET n == IF BlockCount = NoBlocks THEN Length ELSE BlockCount
    IN  TopIndex < n /\ \E k \in 0 .. n - 1 : Occurrences(k) # 1

NotUnique == Cardinality(Indices) # Length

DomainCodes ==
    IF vector.kind = "other" THEN {"bad-ordering-kind"}
    ELSE IF Length > vector.cap THEN {"order-too-large"}
    ELSE IF vector.ragged THEN {}
    ELSE IF Length = 0 THEN {"order-empty"}
    ELSE {c \in {"order-index-out-of-range", "permutation-wrong-length",
                 "permutation-not-bijective", "subset-not-unique"} :
            \/ c = "order-index-out-of-range" /\ OutOfRange
            \/ vector.kind = "permutation" /\ \/ c = "permutation-wrong-length" /\ WrongLength
                                              \/ c = "permutation-not-bijective" /\ NotBijective
            \/ vector.kind = "subset" /\ c = "subset-not-unique" /\ NotUnique}

-----------------------------------------------------------------------------
OrdersFresh == orderPc = "length" /\ complaints = {}

OrdersInit == vector \in Vectors /\ OrdersFresh

CheckOrderLength ==
    /\ orderPc = "length"
    /\ complaints' = LengthCodes
    /\ orderPc' = "domain"
    /\ UNCHANGED vector

CheckOrderDomain ==
    /\ orderPc = "domain"
    /\ complaints' = complaints \cup DomainCodes
    /\ orderPc' = "done"
    /\ UNCHANGED vector

OrdersNext == CheckOrderLength \/ CheckOrderDomain

OrdersSpec == OrdersInit /\ [][OrdersNext]_orderVars

-----------------------------------------------------------------------------
Injective   == \A i, j \in DOMAIN vector.indices : vector.indices[i] = vector.indices[j] => i = j
Within(n)   == Indices \subseteq 0 .. n - 1
\* What the group claims of the order, given how many blocks there are.
Claim(n) ==
    CASE vector.kind = "permutation" -> Injective /\ Indices = 0 .. n - 1
      [] vector.kind = "subset"      -> Injective /\ Within(n)
      [] vector.kind = "repeating"   -> Within(n)
      [] OTHER                       -> FALSE

\* An order that is whole, not too long and of the declared length passes exactly when it is what
\* it claims to be: a degenerate curriculum is never accepted, a true one never rejected.  When
\* the parent's block count is not there a range is unknown, and a permutation also passes when
\* some index lies beyond its own length, whatever it repeats.
OrderIsWhatItClaims ==
    orderPc = "done" =>
        (complaints = {} <=>
            /\ ~vector.ragged /\ Length \in 1 .. vector.cap /\ vector.length \in {NoBlocks, Length}
            /\ IF BlockCount # NoBlocks THEN Claim(BlockCount)
               ELSE CASE vector.kind = "permutation" -> Claim(Length) \/ ~Within(Length)
                      [] vector.kind = "subset"      -> Injective
                      [] OTHER                       -> vector.kind = "repeating")
=============================================================================
