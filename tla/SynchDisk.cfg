SPECIFICATION FairDiskSpec
CONSTANTS
    Client = {t1, t2, t3}
    Sector = {s1, s2}
    Data = {d1, d2}
    NULL = NULL
INVARIANTS OneRequestAtATime CompletionIsMine ReadIsCurrent
PROPERTIES CallsReturn
