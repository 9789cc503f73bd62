CONSTANTS
    sA = sA
    sB = sB
    Owners = {o1, o2}
    Nobody = Nobody
    Splits = {sA, sB}
    NoSplits = NoSplits
    Documents <- MCDocuments
    MaxLog = 4
SPECIFICATION FairSpec
INVARIANTS TypeOK StatusSound ReceiversFromDocument ConvergesWithoutRaces
PROPERTIES Mirrored OwnersAndDocumentsHandled
CHECK_DEADLOCK FALSE
