SPECIFICATION Spec
CONSTANTS
    main = main
    Thread = {main, t1, t2}
    Sem = {s1}
    InitialValue <- AllZero
    MaxValue = 1
    NULL = NULL
INVARIANTS FinishedIsRemembered
