----------------------------- MODULE MCLineage -----------------------------
EXTENDS Lineage

CONSTANTS a, b, c, own

MCDrafts == {<<a, b>>, <<c, Absent>>}

\* Version 1 was published, or was published long ago.
MCShelves == {<<[tree |-> <<a, b>>, legacy |-> FALSE], NoDoc>>,
              <<[tree |-> <<c, Absent>>, legacy |-> TRUE], NoDoc>>}

MCChildren == {<<own, own>>, <<own, a>>, <<a, own>>}

On(v, p) == [ver |-> v, pin |-> p]
MCByHand == {<< <<On(1, a)>>, <<>> >>, << <<On(1, a)>>, <<On(2, c)>> >>, << <<>>, <<On(1, c)>> >>,
             << <<On(2, b)>>, <<>> >>, << <<On(1, a), On(2, c)>>, <<>> >>}
=============================================================================
