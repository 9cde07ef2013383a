SPECIFICATION RunSpec
CONSTANTS
    Statements <- RunStatements
    Payload <- RunPayload
    Receipts <- RemarkReceipts
    Claims <- RunClaims
    ProducerKeys = {"k1", "k2"}
    LogKeys = {"l1"}
    WitnessKeys = {"w1"}
    NoEntry = NoEntry
    NoManifest = NoManifest
    TreeSize = 4
INVARIANTS
    InductedSubjectAccepted
