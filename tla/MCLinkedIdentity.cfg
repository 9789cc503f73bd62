CONSTANTS
    Owners = {o1, o2}
    Nobody = Nobody
    Foreign = Foreign
    Unset = Unset
    MaxLog = 3
    MaxFaults = 1
    MaxAborts = 1
SPECIFICATION FairSpec
INVARIANTS TypeOK ValidAtRest ReceiversMatchChain ClaimedAtRest
PROPERTIES EveryEventHandled
CHECK_DEADLOCK FALSE
