SPECIFICATION FairSpec
CONSTANTS
    main = main
    Thread = {main, t1, t2}
    Sem = {s1, s2}
    InitialValue <- AllZero
    MaxValue = 2
    NULL = NULL
INVARIANTS ThreadsInOnePlace ReapedAfterFinish HaltsOnlyWhenStuck
PROPERTIES ReadyRuns ImplementsSemaphore
