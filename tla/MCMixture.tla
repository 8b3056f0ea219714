----------------------------- MODULE MCMixture -----------------------------
\* Every call over three shards that count 0 to 3, budgets up to 8, and a few knobs.
EXTENDS Mixture

MCInputs == [count      : [1 .. 3 -> 0 .. 3],
             want       : 0 .. 8,
             fraction   : {<<1, 2>>, <<4, 5>>, <<1, 1>>},
             repetition : {<<1, 1>>, <<3, 2>>, <<3, 1>>}]
=============================================================================
