CONSTANTS
    eco = eco
    list = list
    sub = sub
    p1 = p1
    p2 = p2
    tEco = tEco
    tEco2 = tEco2
    tList = tList
    tSub = tSub
    tOwner = tOwner
    Accounts = {eco, list, sub, p1, p2}
    SenderOf <- MCSenderOf
    Jobs = {tEco, tEco2, tList, tSub, tOwner}
    Job <- MCJob
    NoAccount = NoAccount
    NoJob = NoJob
    MaxAborts = 1
SPECIFICATION FairSpec
INVARIANTS NoDanglingReceiver NeedsExist InsertedOnce OnlyCommitted
PROPERTIES NoQueryWaitsForever
CHECK_DEADLOCK FALSE
