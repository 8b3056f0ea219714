SPECIFICATION FairSpec
CONSTANTS NShards = 3  Inputs <- MCInputs
INVARIANTS CeilingBinds WithinOneShard NothingMoreFits EvenRepeats
PROPERTIES Terminates
CHECK_DEADLOCK FALSE
