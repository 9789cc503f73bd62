CONSTANTS
    DriverBits = 3
    BodyBits = 2
    Receivers <- MCReceivers
    MaxWeight = 2
    Documents = {"Metadata", "Again"}
    Others <- MCOthers
    MaxLen = 3
    Retries = 1
SPECIFICATION Spec
INVARIANTS TypeOK StoredIsOnChain OrderDoesNotMatter ValidUnlessGivenUp
CHECK_DEADLOCK FALSE
