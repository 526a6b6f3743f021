SPECIFICATION Spec
CONSTANTS
    Clients = {c1,c2,c3}
    MaxAttempts = 2
    CallLimit = 2
    MaxSends = 2
    MaxFaults = 1
CHECK_DEADLOCK FALSE
INVARIANTS GuessesBounded CountersHaveEnd LiveCodeReachable SpentCodeGone
