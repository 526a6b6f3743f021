SPECIFICATION Spec
CONSTANTS
    Reports = {r1,r2}
    NoReport = NoReport
    Sessions = {s1,s2}
    Worlds <- TwoWorlds
SYMMETRY ReviewSymmetry
INVARIANTS ReviewHasPrimary RejectedDoNotPin TierMovesAtMostOne
PROPERTIES SoloRecompute
