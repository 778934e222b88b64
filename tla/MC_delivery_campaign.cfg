\* Two mails set to queued in chunks of one row, a manual retry, two workers, calls that fail
SPECIFICATION Spec
CONSTANTS
    Mails = {m1, m2}
    Tasks = {t1, t2}
    Ops = {o1}
    Workers = {w1, w2}
    NoTask = NoTask
    NoMail = NoMail
    MaxRetry = 1
    BatchChunkSize = 1
    MaxFaults = 0
SYMMETRY MCSymmetry
INVARIANTS
    SentMeansDelivered
    QueuedHasOwnTask
PROPERTIES
    CancelledStaysQuiet
    DeliversAsPromised
CHECK_DEADLOCK FALSE
