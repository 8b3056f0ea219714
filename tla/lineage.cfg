\* A child of two groups, its parent's two versions, promoted, broken off, published again, decayed.
SPECIFICATION LineageSpec
CONSTANTS
    a = a  b = b  c = c  own = own
    Absent = Absent  NoDoc = NoDoc  NoPin = NoPin
    NVersions = 2  NGroups = 2
    Bytes = {a, b, c, own}
    Drafts <- MCDrafts  Shelves <- MCShelves  Children <- MCChildren  ByHand <- MCByHand
    MaxDeaths = 1  MaxDecays = 1
INVARIANTS NoCopiedBytes VocabIsPinned GoodChildAccepted ParentsSwept
CHECK_DEADLOCK FALSE
