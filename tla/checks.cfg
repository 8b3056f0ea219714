\* Datasets of three files; arrays of bytes of eight values, sampled by four windows of four bytes;
\* orders of three indices; text of lines of at most three bytes, in chunks of at most three.
SPECIFICATION ChecksSpec
CONSTANTS
    Files <- MCFiles  Groups <- MCGroups  Labels <- MCLabels  Datasets <- MCDatasets
    Flat = Flat  NoRows = NoRows  Null = Null
    Base = 8  SampleBytes = 16  DefaultDistinct = 4  DefaultRun = 4  NoBound = NoBound
    Arrays <- MCArrays
    NoBlocks = NoBlocks  Vectors <- MCVectors
    NL = NL  Space = Space  Bad = Bad  NoText = NoText
    a = a  b = b  Pieces = {a, b}
    MaxRecord = 3  Chunk = 3  Shards <- MCShards
INVARIANTS
    ChecksTypeOK
    UnsplitIsTrainable TrainValDisjoint CoverageIsExact RowsAreSelected
    CountCovers DtypeLies DegenerateNeverPasses HealthyPasses
    OrderIsWhatItClaims
    ChunkingIsInvisible RepeatsReported
CHECK_DEADLOCK FALSE
