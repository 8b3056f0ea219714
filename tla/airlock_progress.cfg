\* Two runs of publish() interleave, a job sweeps, and nobody is killed.
SPECIFICATION FairSpec
CONSTANTS
    a = a  b = b  c = c  d = d  x = x
    Absent = Absent  NoDoc = NoDoc
    NFiles = 2  NGroups = 2  MaxVersion = 2
    GroupOf <- MCGroupEach  Contents <- MCContents  SizeOf <- MCSizeOf  Unfit <- MCUnfit
    Publishers = {1, 2}  Sources <- MCSourcesPairs  SourceKinds = {"s3"}
    Overlap = TRUE  MaxAttempts = 2  MaxPubFaults = 0
    Jobs = {1}  Named = {}  Crcless = {}  MaxJobCrashes = 0
    Expiry = FALSE
CHECK_DEADLOCK FALSE
INVARIANTS LandingMatchesPlan
PROPERTIES EventuallyDecided EventuallySealed PublishEnds
