CONSTANTS
    sA = sA
    Owners = {o1, o2}
    Nobody = Nobody
    Splits = {sA}
    NoSplits = NoSplits
    Documents <- MCDocuments
    Threshold = 1
    MaxLog = 4
SPECIFICATION FairSpec
INVARIANTS TypeOK ConvergesWithoutRaces CreatorIsMinter PreviousOwner
PROPERTIES Mirrored TransfersHandled
CHECK_DEADLOCK FALSE
