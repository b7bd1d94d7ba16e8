CONSTANTS
    None = None
    src = src
    snk = snk
    SourceWorkers = {src}
    SinkWorkers = {snk}
    Registered <- MCRegistered
    Bins = {1, 2}
    LatencyWindow = 0
    ThroughputWindow = 0
    MaxClock = 2
    Records <- MCRecords
    EmitEvery = 2
    Instances <- MCInstances
SPECIFICATION FairSpec
INVARIANTS
    NothingElseLost
    ListInOrder
    ThroughputCounted
    
PROPERTIES
    LookupsExact
    EventuallyStored
    DestroyReturns
CHECK_DEADLOCK FALSE
