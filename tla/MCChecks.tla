------------------------------ MODULE MCChecks ------------------------------
(***************************************************************************)
(* The instances of the four checks, together.                             *)
(***************************************************************************)
EXTENDS Checks, MCSplits, MCTokens, MCOrders, MCCorpus
=============================================================================
