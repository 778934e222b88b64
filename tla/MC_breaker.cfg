\* One configuration, four goroutines that race to create its breaker and to use it
SPECIFICATION FairSpec
CONSTANTS
    Configs = {c1}
    Workers = {w1, w2, w3, w4}
    NoConfig = NoConfig
    Threshold = 2
    Cooldown = 2
    Cells = {k1, k2}
    NoCell = NoCell
INVARIANTS
    IInv
PROPERTIES
    ImplementsContract
    RefusalHasReason
    OpenBreakerIsTried
    TrialDecides
