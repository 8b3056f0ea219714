------------------------------ MODULE MCOrders ------------------------------
(***************************************************************************)
(* All vectors of up to three indices for parents of up to three blocks.   *)
(***************************************************************************)
EXTENDS Orders

MCVectors ==
    [indices : UNION {[1 .. n -> 0 .. 3] : n \in 0 .. 3}, ragged : BOOLEAN,
     kind    : {"permutation", "subset", "repeating", "other"},
     blocks  : {NoBlocks, 0, 3},
     parents : {<<>>, <<NoBlocks, 2, 3>>},
     length  : {NoBlocks, 2},
     cap     : {2, 3}]
=============================================================================
