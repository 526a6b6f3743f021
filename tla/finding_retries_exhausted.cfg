SPECIFICATION FairSpec
CONSTANTS
    Reports = {r1}
    NoReport = NoReport
    Slots = {s1,s2}
    MaxPhotos = 1
    MaxRetries = 1
    MaxFaults = 0
    OldestAge = "graced"
    VisionMayFail = TRUE
    RetryRaises = "exc"
CHECK_DEADLOCK FALSE
PROPERTIES EventuallyScored
