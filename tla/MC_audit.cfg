\* Four requests, two workers, a queue of one
SPECIFICATION FairSpec
CONSTANTS
    Entries = {e1, e2, e3, e4}
    Workers = {w1, w2}
    NoEntry = NoEntry
    QueueSize = 1
INVARIANTS
    IInv
    CloseDrains
    LossHasCause
PROPERTIES
    EntriesSettle
CHECK_DEADLOCK FALSE
