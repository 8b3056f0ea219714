SPECIFICATION Spec
CONSTANTS NShards = 3  Inputs <- MCInputs
INVARIANTS NoReuseAtOne
CHECK_DEADLOCK FALSE
