\* A collection and a Store of the same content, no fault
SPECIFICATION Spec
CONSTANTS
    Contents = {c1}
    NoContent = NoContent
    Mails = {m1, m2}
    Requests = {r1, r2}
    Collectors = {g1}
    MaxRows = 2
    BatchSize = 1
    MaxFaults = 0

INVARIANTS
    LinkedBlobPresent
CHECK_DEADLOCK FALSE
