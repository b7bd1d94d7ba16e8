CONSTANTS
    c1 = c1
    c2 = c2
    c3 = c3
    c4 = c4
    Channels = {c1, c2, c3, c4}
    Collectors <- MCCollectors
    KeyHash <- MCKeyHash
    BatchSize = 2
    Capacity = 1
    NumRecords = 4
    Stopped = {c1}
SPECIFICATION FairSpec
INVARIANTS
    BatchingIsFifo
    CollectedOnce
PROPERTIES
    AllDelivered
    OthersAreServed
CHECK_DEADLOCK FALSE
