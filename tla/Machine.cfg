SPECIFICATION MCSpec
CONSTANTS
    Threads = {t1, t2, t3}
    First = t1
    Slices = {3, 4, 5, 7, 8}
    MaxDepth = 3
    Junk = junk
    ByteBits = 1
    R31 = 3
    TargetBits = 1
    NULL = NULL
    a1 = a1
    a2 = a2
    a3 = a3
    i1 = i1
    i2 = i2
INVARIANTS
    RegistersSurvive
    TrapsAreTransparent
    InterpretersAgree
    LoadedIsLinked
    LatencyIsFirstPass
PROPERTIES
    InstructionsAreExact
    ImplementsSortedList
    ImplementsLifo
