CONSTANTS
    c1 = c1
    c2 = c2
    n1 = n1
    n2 = n2
    Channels <- MCChannels
    Nodes <- MCNodes
    SourceNode <- MCSourceNode
    TargetNode <- MCTargetNode
    TransferQueueSize = 1
    MaxBuffers = 3
    NumBuffers <- MCNumBuffers
    Stopped = {c1}
    None = None
SPECIFICATION FairSpec
INVARIANTS
    Conserved
PROPERTIES
    PathIsFifo
    Delivered
    CloseReturns
CHECK_DEADLOCK FALSE
