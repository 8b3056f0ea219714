\* Publications one after another, each staged from a local tree; two validator jobs that overlap
\* and may die; landing expires, so that the version is used again.
SPECIFICATION Spec
CONSTANTS
    a = a  b = b  c = c  d = d  x = x
    Absent = Absent  NoDoc = NoDoc
    NFiles = 3  NGroups = 2  MaxVersion = 1
    GroupOf <- MCGroupOf  Contents <- MCContents  SizeOf <- MCSizeOf  Unfit <- MCUnfit
    Publishers = {p1, p2}  Sources <- MCSourcesMixed  SourceKinds = {"local"}
    Overlap = FALSE  MaxAttempts = 2  MaxPubFaults = 0
    Jobs = {1, 2}  Named = {}  Crcless = {}  MaxJobCrashes = 1
    Expiry = TRUE
SYMMETRY Symmetry
INVARIANTS TypeOK SealImpliesComplete SourceFaithful CatalogMatchesSeal
PROPERTIES ImplementsShelf
CHECK_DEADLOCK FALSE
