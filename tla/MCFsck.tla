------------------------------- MODULE MCFsck -------------------------------
(***************************************************************************)
(* Instances of Fsck for TLC: two files, each a group of its own.          *)
(***************************************************************************)
EXTENDS Fsck, TLC

CONSTANTS a, b, d

MCContents == {a, b, d}
MCGroupOf  == <<1, 2>>
MCSizeOf   == [k \in MCContents |-> IF k = d THEN 2 ELSE 1]
MCSources  == {<<a, b>>}

\* Runs of publish() differ in nothing but what happens to them.
Symmetry   == Permutations(Publishers)
=============================================================================
