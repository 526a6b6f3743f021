SPECIFICATION Spec
CONSTANTS
    Slots = {s1,s2}
    MaxPhotos = 2
    MaxRetries = 1
    MaxQuestions = 3
    MaxUpdates = 3
    MaxExtra = 1
CHECK_DEADLOCK FALSE
INVARIANTS PriorityFits AcceptedIsAssessed ReplyFitsQuestion
PROPERTIES RepliedStaysHigh NewerResultsKept
SYMMETRY Symmetry
