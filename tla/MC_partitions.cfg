\* Two processes in January and February, one entry a month, one fault
SPECIFICATION FairSpec
CONSTANTS
    Workers = {w1, w2}
    MaxDue = 2
    MaxFaults = 1
    Nothing = Nothing
    MonthLength <- MCMonthLength
    Days = {1, 31}
    MaxMonth = 1
    MaxEntries = 1
INVARIANTS
    EntriesInPlace
    DoneMeansCovered
PROPERTIES
    MonthCovered
CHECK_DEADLOCK FALSE
