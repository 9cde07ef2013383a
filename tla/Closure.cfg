SPECIFICATION FairSpec
CONSTANTS
    x = x
    a = a
    b = b
    s = s
    t = t
    batch = batch
    wide = wide
    NoRoot = NoRoot
    NoRecord = NoRecord
    Open = Open
    Records = {x, a, b, s, t}
    OutputRoots = {batch}
    InputRoots = {wide}
    Instants = {1, 2, 3}
    Size = 4
    Batch <- SmallBatch
    Wide <- SmallWide
    Cases <- SmallCases
INVARIANTS
    TypeOK
    AffectedIsReachable
    SupersessionReaches
    StableOnceCommitted
PROPERTIES
    ClosureReturns
