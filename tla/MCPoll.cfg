\* Two endpoints, confirmations that cover one block of lag plus one of reorg.
CONSTANTS
    MaxBlock = 5
    Contents = {"a", "b"}
    Registered = {"a"}
    NumEndpoints = 2
    ChunkSize = 2
    Confirmations = 2
    StartFromBlock = 2
    MaxReorg = 1
    MaxLag = 1
    MaxCrashes = 1
SPECIFICATION FairSpec
INVARIANTS TypeOK NoEventLost NoOrphanJob
PROPERTIES RereadAddsNothing AbstractSpec EveryEventIngested
