SPECIFICATION Spec
CONSTANTS
    Reports = {r1}
    NoReport = NoReport
    Slots = {s1,s2}
    MaxPhotos = 1
    MaxRetries = 1
    MaxFaults = 1
    OldestAge = "old"
    VisionMayFail = TRUE
    RetryRaises = "MaxRetriesExceededError"
CHECK_DEADLOCK FALSE
SYMMETRY SlotSymmetry
INVARIANTS GateNeverOvercounts NoStepUnseen
