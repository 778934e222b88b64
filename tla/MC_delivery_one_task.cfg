\* One task, every retry of it, two requests, one fault
SPECIFICATION FairSpec
CONSTANTS
    Mails = {m1}
    Tasks = {t1}
    Ops = {o1, o2}
    Workers = {w1}
    NoTask = NoTask
    NoMail = NoMail
    MaxRetry = 2
    BatchChunkSize = 1
    MaxFaults = 1
INVARIANTS
    TypeOK
    AttemptsBounded
    BodyKeptUntilDelivered
    FailedIsSpent
PROPERTIES
    NoSilentLoss
    DeliversAsPromised
    ActiveTaskSettles
    CancelledDrains
CHECK_DEADLOCK FALSE
