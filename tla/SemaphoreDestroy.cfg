SPECIFICATION FairSpec
CONSTANTS
    Thread = {t1, t2, t3}
    InitialValue = 0
    MaxValue = 2
PROPERTIES DestroyFreesWaiters
