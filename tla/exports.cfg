SPECIFICATION Spec
CONSTANTS
    Asks = {a1,a2}
    NoAsk = NoAsk
    Slots = {s1,s2}
    Reports <- MCReports
    Filters <- MCFilters
    Threshold = 1
    Life = 2
    MaxRetries = 1
    MaxExtra = 1
CHECK_DEADLOCK FALSE
SYMMETRY Symmetry
INVARIANTS DeliveredIsAudited AsAsked RecordOutlivesLink ProcessingIsWorkedOn
