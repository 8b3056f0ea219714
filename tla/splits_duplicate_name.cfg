SPECIFICATION SplitsSpec
CONSTANTS Files <- MCFiles  Groups <- MCGroups  Labels <- MCLabels  Datasets <- MCDatasets
    Flat = Flat  NoRows = NoRows  Null = Null
INVARIANTS NoOverlapEver
CHECK_DEADLOCK FALSE
