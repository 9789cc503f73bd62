CONSTANTS
    j1 = j1
    j2 = j2
    sender = sender
    hash = hash
    a = a
    b = b
    c = c
    Jobs <- MCJobs
    Accounts = {a, b, c}
    Keys = {sender, hash}
    Scenarios <- MCScenarios
    Slots = {s1, s2}
    Retries = 1
    NoJob = NoJob
    MaxStalls = 1
    MaxCrashes = 1
    MaxFaults = 1
SPECIFICATION FairSpec
INVARIANTS TypeOK GivenUpMeansNotApplied CacheFreshAtRest
PROPERTIES HandlingSpec EveryJobSettles
