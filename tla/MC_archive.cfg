\* Two archivers, a retry and a cancellation of a mail and the runs of its tasks, one fault
SPECIFICATION Spec
CONSTANTS
    Workers = {w1, w2}
    MaxDue = 1
    MaxFaults = 1
    Nothing = Nothing
    Mails = {m1}
    Retries = {r1}
    Cancels = {c1}
    ArchiveBatchSize = 1
SYMMETRY MCSymmetry
INVARIANTS
    MovedWhole
    NothingPendingLeaves
CHECK_DEADLOCK FALSE
