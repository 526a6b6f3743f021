SPECIFICATION MatchingSpec
CONSTANTS
    None = None
    Nowhere = Nowhere
    Failed = Failed
    Workers = {w1,w2}
    Landmarks = {"market"}
    Providers = {"nominatim", "google"}
    Reports = {r1}
    Forms <- MCForms
    Sources <- MCSources
    MaxImports = 2
    MaxTasks = 3
    MaxWork = 4
    Places = {90}
    OtherFixes <- MCOtherFixes
CHECK_DEADLOCK FALSE
SYMMETRY MCSymmetry
INVARIANTS MatchingTypeOK OnlyAnswersCached RequestsKeepPace LinkIsNear ReporterDecides ImportConverges MergeIsSamePlace
