----------------------------- MODULE MCAirlock -----------------------------
(***************************************************************************)
(* Instances of Airlock for TLC: three files in two groups, contents a, b, *)
(* c of one length, d longer, x rejected by the profile.                   *)
(***************************************************************************)
EXTENDS Airlock, TLC

CONSTANTS a, b, c, d, x

MCContents == {a, b, c, d, x}
MCGroupOf  == <<1, 1, 2>>
MCSizeOf   == [k \in MCContents |-> IF k = d THEN 2 ELSE 1]
MCUnfit    == {x}

Full   == <<a, Absent, c>>   \* both groups
Small  == <<b, Absent, Absent>>
Unread == <<a, x, Absent>>   \* one unfit file
Twin   == <<a, a, Absent>>   \* a duplicated shard

MCSourcesMixed  == {Full, Small, Unread, Twin}

\* Runs of publish() differ in nothing but what happens to them.
Symmetry == Permutations(Publishers)

\* Two files, each a group of its own, for the runs in which everything may overlap.
MCGroupEach     == <<1, 2>>
Pair            == <<a, c>>
PairSwapped     == <<b, c>>
PairHalf        == <<b, Absent>>
PairLong        == <<d, c>>
MCSourcesPairs  == {Pair, PairHalf}
MCSourcesTwo    == {Pair, PairSwapped}
MCSourcesThree  == {Pair, PairHalf, PairLong}
=============================================================================
