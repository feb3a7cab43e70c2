SPECIFICATION Spec
CONSTANTS
    MaxStream = 3
    MaxSent = 2
    MaxRound = 3
INVARIANTS
    TypeOK
PROPERTIES
    StaleVoteNeedsStaleChoice
    ScreenSettles
CHECK_DEADLOCK FALSE
