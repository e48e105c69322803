SPECIFICATION ConcurrencySpec
CONSTANTS
    Parts = {"async", "list", "ring"}
    OutPointer = TRUE
    w1 = w1
    w2 = w2
    main = main
    other = other
    fa = fa
    fb = fb
    fc = fc
    fd = fd
    ChanThreads = {t1, t2, t3, t4}
    ChanValues = {v1, v2, v3, v4}
    Capacity = 2
    NoVal = NoVal
    NoCall = NoCall
    Workers <- TwoWorkers
    Threads <- TwoThreads
    Calls <- FourCalls
    Awaits <- ShallowAwaits
INVARIANTS
    FutureLifetime Structured NobodyStranded
PROPERTIES
    AwaitReturns Implements CloseReleases
CHECK_DEADLOCK FALSE
