CONSTANTS
    Channels = {c1}
    Half = 8
    MaxBuffers = 2
    NumBuffers = 6
    OutputQueueSize = 1
    LinkCapacity = 3
    Faults = {"lose", "duplicate", "reorder"}
    MaxFaults = 3
SPECIFICATION Spec
INVARIANTS
    IInv
    InOrderExactlyOnce
    NothingLost
    OutOfOrderBounded
PROPERTIES
    FifoSpec
CHECK_DEADLOCK FALSE
