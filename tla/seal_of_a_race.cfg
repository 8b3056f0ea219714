SPECIFICATION Spec
CONSTANTS
    a = a  b = b  c = c  d = d  x = x
    Absent = Absent  NoDoc = NoDoc
    NFiles = 2  NGroups = 2  MaxVersion = 1
    GroupOf <- MCGroupEach  Contents <- MCContents  SizeOf <- MCSizeOf  Unfit <- MCUnfit
    Publishers = {1, 2}  Sources <- MCSourcesTwo  SourceKinds = {"s3"}
    Overlap = TRUE  MaxAttempts = 2  MaxPubFaults = 0
    Jobs = {1}  Named = {}  Crcless = {}  MaxJobCrashes = 0
    Expiry = FALSE
CHECK_DEADLOCK FALSE
INVARIANTS SealImpliesComplete
