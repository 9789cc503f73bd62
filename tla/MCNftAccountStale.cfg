CONSTANTS
    sA = sA
    Owners = {o1, o2}
    Nobody = Nobody
    Splits = {sA}
    NoSplits = NoSplits
    Documents <- MCDocuments
    Threshold = 0
    MaxLog = 4
SPECIFICATION Spec
PROPERTIES StaleNeverFlips
CHECK_DEADLOCK FALSE
