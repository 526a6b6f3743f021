SPECIFICATION FairSpec
CONSTANTS
    Reports = {r1,r2}
    Keys = {k1,k2}
    NoKey = NoKey
    Sweepers = {s1,s2}
    Limit = 1
    MaxFaults = 1
CHECK_DEADLOCK FALSE
INVARIANTS GoneMeansExpired
PROPERTIES ClearedOnlyWhenGone PhotosGo
