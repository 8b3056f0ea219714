\* Everything may overlap, die, expire and be named by hand: what still holds.
SPECIFICATION Spec
CONSTANTS
    a = a  b = b  c = c  d = d  x = x
    Absent = Absent  NoDoc = NoDoc
    NFiles = 2  NGroups = 2  MaxVersion = 1
    GroupOf <- MCGroupEach  Contents <- MCContents  SizeOf <- MCSizeOf  Unfit <- MCUnfit
    Publishers = {1, 2}  Sources <- MCSourcesThree  SourceKinds = {"s3"}
    Overlap = TRUE  MaxAttempts = 1  MaxPubFaults = 1
    Jobs = {1}  Named = {1}  Crcless = {1}  MaxJobCrashes = 1
    Expiry = TRUE
INVARIANTS SealImpliesPresent PromotedIsThere MarkedImpliesSealed
PROPERTIES NothingDeleted
CHECK_DEADLOCK FALSE
