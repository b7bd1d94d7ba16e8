CONSTANTS
    Connects = {s1, s2, s3}
    Binds = {b1}
    NumIOThreads = 1
SPECIFICATION FairSpec
INVARIANTS
    ConnectedIsReal
    MonitoredBeforeDialled
PROPERTIES
    ConnectEnds
    CloseEnds
CHECK_DEADLOCK FALSE
