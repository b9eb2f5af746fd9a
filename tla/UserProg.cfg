SPECIFICATION MCSpec
CONSTANTS
    Threads = {main, t1, t2}
    Main = main
    Null = null
    MaxExec = 2
    Statuses = {1}
    main = main
    child = child
    u1 = u1
    u2 = u2
    tty = tty
    doc = doc
    NoFile = NoFile
    caller = caller
    v = v
    Fresh = Fresh
    Junk = Junk
INVARIANTS
    JoinIsHonest
    PagingIsTransparent
    ResourcesAreApart
PROPERTIES
    CallsAreExact
