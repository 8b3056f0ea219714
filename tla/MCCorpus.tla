------------------------------ MODULE MCCorpus ------------------------------
(***************************************************************************)
(* Shards of up to four documents, and of up to two lines among which are  *)
(* one that is too long, one that is no JSON object and blank ones, each   *)
(* with and without a last line break.                                     *)
(***************************************************************************)
EXTENDS Corpus

CONSTANTS a, b

Documents == {<<a>>, <<b>>, <<Space, a>>, <<NoText>>}
Oddities  == Documents \cup {<<>>, <<Space>>, <<Bad>>, <<a, b, a>>, <<a, a, a, b>>}

Join(ls, last) == FlattenSeq([i \in DOMAIN ls |->
                     IF i = Len(ls) /\ ~last THEN ls[i] ELSE Append(ls[i], NL)])
Tuples(S, n) == UNION {[1 .. k -> S] : k \in 0 .. n}
Bodies == {Join(ls, last) : ls \in Tuples(Documents, 4) \cup Tuples(Oddities, 2), last \in BOOLEAN}

MCShards == [body : Bodies, declared : {2, 3}, fraction : {<<1, 1>>, <<1, 2>>, <<2, 5>>}]
=============================================================================
