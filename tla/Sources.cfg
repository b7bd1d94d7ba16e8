CONSTANTS
    SplitTasks = {s1, s2}
    ListTasks <- MCListTasks
    l1 = l1
    l2 = l2
    OtherWorkers = {}
    TransferActors = {}
    Dials <- MCDials
    NumWords = 2
    CountPerWord = 1
    MsgsPerSplit = 2
    Collections = {1, 2}
    Preempts = FALSE
SPECIFICATION FairLifecycleSpec
INVARIANTS
    DestroyedWhenDone
    RunningIsStarted

    
CHECK_DEADLOCK FALSE
