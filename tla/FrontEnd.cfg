SPECIFICATION FrontSpec
CONSTANTS
    t1 = t1
    t2 = t2
    k = k
    l = l
    m = m
    n = n
    s = s
    w = w
    x = x
    y = y
    z = z
    NoThread = NoThread
    Threads <- Two
    Batches = {k, l, m, n, s, w, x, y, z}
    Requests <- Operations
    CommOf <- Posts
    Dests <- Counts
    Multi <- Multis
    Moved <- HandedOver
    Called = {k, m, n, s, w, x, y}
    Receives = {s, w, x}
    Shared = {s}
    Workloads <- SomeOfThem
    Needs <- Matching
    CallbackWaits <- OwnSend
INVARIANTS MessageLives CalledOnce RegisteredAlive
PROPERTIES SharesState WaitAllComplete WaitsEnd
CHECK_DEADLOCK FALSE
