\* The doc comment of ArchiveOldMails against the columns of its INSERT
SPECIFICATION Spec
CONSTANTS
    Workers = {w1}
    MaxDue = 1
    MaxFaults = 0
    Nothing = Nothing
    Mails = {m1}
    Retries = {}
    Cancels = {}
    ArchiveBatchSize = 1
PROPERTIES
    ArchivedAsItWas
CHECK_DEADLOCK FALSE
