CONSTANTS
    Channels = {c1, c2}
    Half = 8
    MaxBuffers = 2
    NumBuffers = 3
    OutputQueueSize = 1
    LinkCapacity = 1
    Faults = {}
    MaxFaults = 0
SPECIFICATION FairSpec
INVARIANTS
    InFlightAccounting
PROPERTIES
    FifoFairSpec
    BackpressureReleased
CHECK_DEADLOCK FALSE
