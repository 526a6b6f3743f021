SPECIFICATION FairSpec
CONSTANTS
    Reports = {r1}
    NoReport = NoReport
    Slots = {s1,s2}
    MaxPhotos = 1
    MaxRetries = 0
    MaxFaults = 1
    OldestAge = "graced"
    VisionMayFail = FALSE
    RetryRaises = "exc"
CHECK_DEADLOCK FALSE
PROPERTIES EventuallyScored WorkDrains
