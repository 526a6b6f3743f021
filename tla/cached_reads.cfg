SPECIFICATION Spec
CONSTANTS
    Readers = {r1,r2}
    Views = {"summary", "heatmap", "nearby"}
    Questions <- MCQuestions
    Place <- MCPlace
    Limit = 1
    Ttl = 2
    MaxChanges = 3
CHECK_DEADLOCK FALSE
INVARIANTS StaleAtMostTtl CountsAddUp NearbyIsNear
SYMMETRY MCSymmetry
