------------------------------ MODULE MCSplits ------------------------------
(***************************************************************************)
(* Datasets of three files: two in a group with up to three partitions, by *)
(* path or by field, and one in a group with at most one partition.        *)
(***************************************************************************)
EXTENDS Splits

MCFiles  == 1 .. 3
MCGroups == {"tokens", "extra"}
MCLabels == {"wiki", "web"}

Path(names, globs, rows) == [name : names, by : {"path"}, glob : globs, rows : rows]
Row(names, rows)         == [name : names, by : {"field"}, glob : {{}}, rows : rows]
Count(unit, n)           == [unit |-> unit, n |-> n]
Both(t, e)               == [g \in MCGroups |-> IF g = "tokens" THEN t ELSE e]

\* In "tokens": up to two partitions, or three by path of which two have one name.
Globs  == {{1}, {2}, {1, 2}}
Twice  == UNION {[1 .. n -> Path({"train", "val"}, Globs, {NoRows}) \cup Row({"train", "val"}, {1})] :
                    n \in 0 .. 2}
Thrice == {q \in [1 .. 3 -> Path({"train", "val"}, Globs, {NoRows})] :
             \E i \in 1 .. 3 : \A j \in 1 .. 3 : q[j].name = "val" <=> j = i}
\* In "extra": none or one; a glob may select nothing, or also match a file of "tokens".
Extra  == {<<>>} \cup {<<p>> : p \in Path({"val"}, {{}, {2, 3}}, {NoRows})
                                  \cup Row({"val"}, {1}) \cup Path({"other"}, {{3}}, {NoRows})}

\* What declarations and names say about each other.
Structures ==
    [word     : {<<i, j, k>> : i \in {"train", "other"}, j \in {"train", "val"}, k \in {"val", "other"}}
                    \cup {<<"val", "val", "other">>, <<"other", "other", "other">>},
     group    : {<<"tokens", "tokens", "extra">>},
     place    : {<<Flat, Flat, Flat>>}, label : {<<Flat, Flat, Flat>>},
     count    : {<<Count("rows", 1), Count("rows", 1), Count("rows", 1)>>},
     parts    : {Both(t, e) : t \in Twice \cup Thrice, e \in Extra},
     inherits : {{}}, byHand : {FALSE},
     coverage : {Both(c, "incomplete") : c \in Coverages},
     profile  : {Both("other", x) : x \in {"other", "vendor"}},
     required : BOOLEAN]

\* What rows, counts and labels say about each other.
Rows == {NoRows, Null, 2, 5}
Totals ==
    [word     : {<<"train", "val", "other">>, <<"train", "val", "cas">>},
     group    : {<<"tokens", "tokens", "extra">>, <<"tokens", "tokens", "tokens">>},
     place    : {<<"wiki", "web", "wiki">>, <<"wiki", "web", Flat>>},
     label    : {<<"wiki", "web", "wiki">>, <<"web", "wiki", Flat>>, <<Flat, Flat, Flat>>},
     count    : {<<i, Count("tokens", 2), j>> : i \in {Count("tokens", 2), Count("bytes", 9)},
                                                j \in {Count("tokens", 3), Count("rows", 3)}},
     parts    : {Both(t, <<>>) : t \in {<<p, q>> : p \in Path({"train"}, {{1}, {1, 3}}, Rows),
                                                   q \in Path({"val"}, {{}, {2}}, {NoRows, 2})
                                                           \cup Row({"val"}, {5, Null})}},
     inherits : {{}, {"tokens"}}, byHand : BOOLEAN,
     coverage : {Both(c, "incomplete") : c \in Coverages},
     profile  : {Both(x, x) : x \in {"other", "vendored"}},
     required : {TRUE}]

MCDatasets == Structures \cup Totals
=============================================================================
