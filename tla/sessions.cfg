SPECIFICATION Spec
CONSTANTS
    Clients = {c1,c2}
    Life = 1
    MaxTokens = 2
    MaxNow = 2
CHECK_DEADLOCK FALSE
INVARIANTS RevokedStaysRevoked
PROPERTIES SingleUseSpec DeactivationDiesOut
SYMMETRY Symmetry
