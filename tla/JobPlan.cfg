CONSTANTS
    Nodes = {n1, n2, n3, n4, n5}
    n1 = n1
    n2 = n2
    n3 = n3
    n4 = n4
    n5 = n5
    Resources = {"CPU", "MEM"}
    Ports = {1234, 1235}
    Strategies = {"OperatorFirst", "ParallelismFirst"}
    None = None
    MaxOf <- MCMaxOf
    MaxStreams = 6
    MaxUnused = 0
    Parallelisms = {2}
    MaxSets = 1
    Clusters <- MCClusters
    Default <- MCDefault
    Proposed <- MCProposed
SPECIFICATION Spec
INVARIANTS
    
    ChainsKeepPaths
    KeysMeet
    PlacementFits
    PortsAreUnique
    RemoteChannelsWired
CHECK_DEADLOCK FALSE
