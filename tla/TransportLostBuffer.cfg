CONSTANTS
    Channels = {c1}
    Half = 8
    MaxBuffers = 2
    NumBuffers = 2
    OutputQueueSize = 1
    LinkCapacity = 2
    Faults = {"lose"}
    MaxFaults = 1
SPECIFICATION FairSpec
PROPERTIES
    EventuallyRead
CHECK_DEADLOCK FALSE
