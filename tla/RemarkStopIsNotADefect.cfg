SPECIFICATION Spec
CONSTANTS
    Statements <- MCStatements
    Payload <- MCPayload
    Receipts <- MCReceipts
    ProducerKeys = {"k1", "k2"}
    LogKeys = {"l1", "l2"}
    WitnessKeys = {"w1", "w2"}
    NoEntry = NoEntry
    TreeSize = 5
INVARIANTS
    StopIsNotADefect
