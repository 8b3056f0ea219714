------------------------------ MODULE MCReader ------------------------------
(***************************************************************************)
(* Instances of Reader for TLC: two files, each a group of its own.        *)
(***************************************************************************)
EXTENDS Reader

CONSTANTS a, b, c, d

MCContents == {a, b, c, d}
MCGroupOf  == <<1, 2>>
MCSizeOf   == [k \in MCContents |-> IF k = d THEN 2 ELSE 1]
MCUnfit    == {d}

Pair       == <<a, c>>
Half       == <<b, Absent>>

Unread     == <<a, d>>

MCSources  == {Pair, Half, Unread}
=============================================================================
