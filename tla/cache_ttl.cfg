CONSTANTS
    Keys = {k1, k2}
    Values = {v1, v2}
    NoValue = NoValue
    Ttls = {0, 1}
    MaxSize = 2
    Policies = {"lru", "lfu"}
    ClockSteps = TRUE
    ClockBits = 8
    MaxTime = 3
    MaxIds = 5
    MaxAcc = 2
SPECIFICATION Spec
INVARIANT CacheWellFormed
