------------------------------ MODULE MCTokens ------------------------------
EXTENDS Tokens
Seqs(S, n) == UNION {[1 .. k -> S] : k \in 0 .. n}
Narrow == [width |-> 1, order |-> "little"]
Wide   == [width |-> 2, order |-> "little"]
Swapped == [width |-> 2, order |-> "big"]

File(ids, as, cuts) == [ids : ids, as : {as}, cut : cuts, npy : {FALSE}]
NoBounds == [distinct : {NoBound}, run : {NoBound}]

\* Every layout declared for every layout written, over vocabularies around the width of a byte.
LayoutArrays ==
    [file   : File(Seqs({0, 1, 3}, 4), Narrow, {0}) \cup File(Seqs({1, 2, 8}, 4), Wide, {0})
                 \cup File(Seqs({1, 2, 10}, 3), Swapped, {0}),
     entry  : [as : {Narrow, Wide, Swapped}, dtype : {"int", "alias"}, packing : {"raw"},
               ext : {NoBound}, unit : {"tokens"}, count : {2, 4, 8}],
     group  : [seq_len : {0}, vocab : {8, 9, 64}, derived : {TRUE}, eos : {NoBound},
               distinct : {NoBound}, run : {NoBound}],
     family : NoBounds]

\* Every way around the arithmetic.
PackingArrays ==
    [file   : [ids : {<<>>, <<1>>, <<1, 2, 3, 2>>}, as : {Narrow}, cut : {0, 1}, npy : BOOLEAN],
     entry  : [as : {Narrow}, dtype : Names, packing : {"raw", "codec", "box"},
               ext : {NoBound, Narrow, Wide}, unit : {"tokens", "rows"}, count : {0, 3, 4}],
     group  : [seq_len : {0, 2}, vocab : {0, 8}, derived : BOOLEAN, eos : {NoBound, 1},
               distinct : {NoBound}, run : {NoBound}],
     family : NoBounds]

\* Healthy and degenerate shards, with holes, of every size around the window, under bounds that
\* are absent, invalid, laxer and tighter.
HoleArrays ==
    [file   : File(Seqs({0, 1}, 7) \cup {[i \in 1 .. n |-> i - 1] : n \in 1 .. 8}, Narrow, {0}),
     entry  : [as : {Narrow}, dtype : {"int"}, packing : {"raw"}, ext : {Narrow},
               unit : {"tokens"}, count : 0 .. 8],
     group  : [seq_len : {0}, vocab : {8}, derived : {TRUE}, eos : {NoBound},
               distinct : {NoBound, 0, 1, 6}, run : {NoBound, 3, 9}],
     family : [distinct : {NoBound, 1}, run : {NoBound}]]

MCArrays == LayoutArrays \cup {r \in PackingArrays : r.file.cut <= Len(r.file.ids)}
                         \cup {r \in HoleArrays : r.entry.count = Len(r.file.ids)}
=============================================================================
