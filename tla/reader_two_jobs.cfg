\* One publication; two validator jobs that overlap and may die; a reader that asks at any time.
SPECIFICATION ReaderSpec
CONSTANTS
    a = a  b = b  c = c  d = d
    Absent = Absent  NoDoc = NoDoc
    NFiles = 2  NGroups = 2  MaxVersion = 1
    GroupOf <- MCGroupOf  Contents <- MCContents  SizeOf <- MCSizeOf  Unfit <- MCUnfit
    Publishers = {1}  Sources <- MCSources  SourceKinds = {"s3"}
    Overlap = FALSE  MaxAttempts = 2  MaxPubFaults = 0
    Jobs = {1, 2}  Named = {}  Crcless = {1}  MaxJobCrashes = 1
    Expiry = FALSE  MaxDecays = 2
INVARIANTS ServedIsSealed NoFalseAlarm OneVerdict
PROPERTIES Frozen
CHECK_DEADLOCK FALSE
