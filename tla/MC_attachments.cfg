\* Two requests, two contents and one collection in batches of one, two faults
SPECIFICATION FairSpec
CONSTANTS
    Contents = {c1, c2}
    NoContent = NoContent
    Mails = {m1, m2}
    Requests = {r1, r2}
    Collectors = {g1}
    MaxRows = 2
    BatchSize = 1
    MaxFaults = 2
INVARIANTS
    IInv
    SoundLinksLoad
    BlobsAreOwned
PROPERTIES
    OrphansAreCollected
CHECK_DEADLOCK FALSE
