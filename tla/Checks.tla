------------------------------- MODULE Checks -------------------------------
(***************************************************************************)
(* The checks of Gate A that look into a dataset, one at a time: those on  *)
(* its splits, slices and totals, and the ones that the registry finds     *)
(* under the profile of a group, for packed tokens, for orders and for a   *)
(* text corpus.  They share nothing: while one is at work, the others rest *)
(* on some input of theirs.                                                *)
(***************************************************************************)
EXTENDS Splits, Tokens, Orders, Corpus

VARIABLE checking   \* what is being checked

CheckKinds == {"splits", "pretrain-tokens/v1", "token-order/v1", "text-corpus/v1"}

checksVars == <<checking, splitVars, tokenVars, orderVars, corpusVars>>

SomeDataset == CHOOSE d \in Datasets : TRUE
SomeArray   == CHOOSE a \in Arrays : TRUE
SomeVector  == CHOOSE v \in Vectors : TRUE
SomeShard   == CHOOSE s \in Shards : TRUE

ChecksInit ==
    /\ checking \in CheckKinds
    /\ IF checking = "splits"             THEN SplitsInit ELSE ds = SomeDataset /\ SplitsFresh
    /\ IF checking = "pretrain-tokens/v1" THEN TokensInit ELSE array = SomeArray /\ TokensFresh
    /\ IF checking = "token-order/v1"     THEN OrdersInit ELSE vector = SomeVector /\ OrdersFresh
    /\ IF checking = "text-corpus/v1"     THEN CorpusInit ELSE shard = SomeShard /\ CorpusFresh

ChecksNext ==
    /\ UNCHANGED checking
    /\ \/ checking = "splits" /\ SplitsNext /\ UNCHANGED <<tokenVars, orderVars, corpusVars>>
       \/ checking = "pretrain-tokens/v1" /\ TokensNext /\ UNCHANGED <<splitVars, orderVars, corpusVars>>
       \/ checking = "token-order/v1" /\ OrdersNext /\ UNCHANGED <<splitVars, tokenVars, corpusVars>>
       \/ checking = "text-corpus/v1" /\ CorpusNext /\ UNCHANGED <<splitVars, tokenVars, orderVars>>

ChecksSpec == ChecksInit /\ [][ChecksNext]_checksVars

-----------------------------------------------------------------------------
\* Every check keeps its types, and the memory that reading a text corpus takes is bounded.
ChecksTypeOK == checking \in CheckKinds /\ SplitsTypeOK /\ CorpusTypeOK
=============================================================================
