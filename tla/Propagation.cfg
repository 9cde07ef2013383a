SPECIFICATION ClaimSpec
CONSTANTS
    x = x
    a = a
    b = b
    s = s
    t = t
    batch = batch
    NoRoot = NoRoot
    NoRecord = NoRecord
    Open = Open
    Records = {x, a, b, s, t}
    OutputRoots = {batch}
    InputRoots = {}
    Instants = {1, 2, 3}
    Size = 5
    Batch <- SmallBatch
    Wide <- NoWide
    Cases = {}
    Receipts <- SoundReceipts
INVARIANTS
    PropagationTypeOK
    PropagationIsTheLogs
