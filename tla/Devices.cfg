SPECIFICATION Spec
CONSTANTS
    h1 = h1
    h2 = h2
    c1 = c1
    c2 = c2
    c3 = c3
    None = None
    EOF = EOF
    ca = ca
    cb = cb
    cq = cq
    p1 = p1
    p2 = p2
    r1 = r1
    r2 = r2
    NULL = NULL
    main = main
    child = child
    tty = tty
    doc = doc
    NoFile = NoFile
    t1 = t1
    t2 = t2
    t3 = t3
    junk = junk
INVARIANTS
    DeliveredOnceInOrder
    DevicesAreInStep
PROPERTIES
    ProgramsComplete
    TimeGoesOn
