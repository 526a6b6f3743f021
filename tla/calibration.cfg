SPECIFICATION CalibrationSpec
CONSTANTS
    Requests = {q1,q2,q3}
    MinSample = 2
    HistoryMax = 2
    MaxFeedback = 5
    MaxCalibrations = 3
    MaxFaults = 1
CHECK_DEADLOCK FALSE
INVARIANTS HistoryTellsThreshold AppliedIsRecorded ThresholdFitsFeedback
SYMMETRY Symmetry
