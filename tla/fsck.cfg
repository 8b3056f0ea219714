\* Two publications one after the other, a validator job, up to two decays, and sweeps at any
\* time.
SPECIFICATION FsckSpec
CONSTANTS
    a = a  b = b  d = d
    Absent = Absent  NoDoc = NoDoc
    NFiles = 2  NGroups = 2  MaxVersion = 2
    GroupOf <- MCGroupOf  Contents <- MCContents  SizeOf <- MCSizeOf  Unfit = {}
    Publishers = {p1, p2}  Sources <- MCSources  SourceKinds = {"s3"}
    Overlap = FALSE  MaxAttempts = 2  MaxPubFaults = 0
    Jobs = {1}  Named = {}  Crcless = {1}  MaxJobCrashes = 0
    Expiry = FALSE  MaxDecays = 2
SYMMETRY Symmetry
INVARIANTS SweepSound SweepComplete
CHECK_DEADLOCK FALSE
