CONSTANTS
    SplitTasks = {s1, s2}
    ListTasks <- MCTwoListTasks
    l1 = l1
    l2 = l2
    NumWords = 2
    CountPerWord = 2
    MsgsPerSplit = 3
    Collections = {3}
    Preempts = TRUE
SPECIFICATION Spec
INVARIANTS
    NoWordTooOften
CHECK_DEADLOCK FALSE
