SPECIFICATION Spec
CONSTANTS
    MaxStream = 2
    MaxSent = 1
    MaxRound = 2
INVARIANTS
    StillConnected
CHECK_DEADLOCK FALSE
