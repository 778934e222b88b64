\* The doc comment of Retry against the archiver
SPECIFICATION Spec
CONSTANTS
    Workers = {w1}
    MaxDue = 1
    MaxFaults = 0
    Nothing = Nothing
    Mails = {m1}
    Retries = {r1}
    Cancels = {}
    ArchiveBatchSize = 1
INVARIANTS
    RetryRelaunches
CHECK_DEADLOCK FALSE
