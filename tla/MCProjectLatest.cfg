CONSTANTS
    sA = sA
    sB = sB
    Owners = {o1}
    Nobody = Nobody
    Splits = {sA, sB}
    NoSplits = NoSplits
    Documents <- MCDocuments
    MaxLog = 4
SPECIFICATION Spec
PROPERTIES MetadataNeverRegresses
CHECK_DEADLOCK FALSE
