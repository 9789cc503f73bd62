CONSTANTS
    sA = sA
    sB = sB
    Owners = {o1, o2}
    Nobody = Nobody
    Splits = {sA}
    NoSplits = NoSplits
    Documents <- MCDocument
    MaxLog = 2
SPECIFICATION Spec
INVARIANTS OwnedIsNotUnclaimed
CHECK_DEADLOCK FALSE
