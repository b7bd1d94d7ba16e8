CONSTANTS
    None = None
    MapFunc <- MCMapFunc
    FlatMapFunc <- MCFlatMapFunc
    FilterFunc <- MCFilterFunc
    ReduceFunc <- MCReduceFunc
    Datasets <- MCDatasets
    SourceTags <- MCSourceTags
    Aggregates <- MCAggregates
    Items <- MCItems
    KeyFields <- MCKeyFields
    Targets <- MCTargets
    StreamPrograms <- MCStreamPrograms
    Storages <- MCStorages
    MaxNodes <- MCMaxNodes
SPECIFICATION Spec
INVARIANTS
    JoinExact
    KeyedExact
    

    
CHECK_DEADLOCK FALSE
