SPECIFICATION FairSpec
CONSTANTS
    Thread = {t1, t2, t3}
    NULL = NULL
INVARIANTS MutualExclusion HolderIsAccurate NoLostSignal WaitersExist
PROPERTIES ImplementsMesa
CHECK_DEADLOCK FALSE
