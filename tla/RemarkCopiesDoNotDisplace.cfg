SPECIFICATION Spec
CONSTANTS
    Inputs <- CheckpointInputs
    SigningKeys = {"k1", "k2"}
    MaxEntries = 3
    Keys = {"k1", "k2"}
    Records = {"r", "q"}
    TreeSize = 6
    Cases <- Copied
INVARIANT CopiesDoNotDisplace
