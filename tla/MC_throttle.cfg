\* Two processes with a goroutine each, times one unit apart, two versions of the settings
SPECIFICATION Spec
CONSTANTS
    p1 = p1
    p2 = p2
    g1 = g1
    g2 = g2
    Processes = {p1, p2}
    Goroutines = {g1, g2}
    ProcessOf <- MCProcessOf
    MaxSkew = 1
    Token = 2
    Second = 1
    Rate <- MCRate
    Burst <- MCBurst
    MaxRate = 2
    MaxBurst = 3
    MaxVersion = 2
    Ttl = 1
    MaxFetch = 1
    MinTtl = 2
    MaxTime = 2
    MaxSlowed = 1
    Nothing = Nothing
SYMMETRY MCSymmetry
INVARIANTS
    WithinQuota
    StalenessBounded
CHECK_DEADLOCK FALSE
