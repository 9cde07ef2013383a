SPECIFICATION FairSpec
CONSTANTS
    Docs <- MCDocs
    Shape <- MCShape
    Cases <- MCCases
    MaxDepth = 2
    MaxEmbedded = 3
    PairedRoots = {"record", "declared", "twice", "disposition"}
    CutRoots = {"record", "twice", "disposition", "propagation", "nest", "deep"}
    Budgets = {0, 1, 4, 9, 13, 16, 21}
INVARIANTS
    TreeTypeOK
    NothingIsHidden
    VerdictIsEarned
    EntryPointsAgree
    EachReceiptsOwn
PROPERTIES
    Concludes
