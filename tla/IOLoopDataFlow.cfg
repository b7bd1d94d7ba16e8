CONSTANTS
    Connects = {s1}
    Binds = {}
    NumIOThreads = 1
SPECIFICATION FairSpec
PROPERTIES
    DataFlows
CHECK_DEADLOCK FALSE
