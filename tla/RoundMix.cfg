SPECIFICATION Spec
CONSTANTS
    MAX_PENDING_INPUTS = 3
    MAX_INPUTS_TO_SEND = 2
    MaxSeq = 3
    MaxTick = 2
    MaxRound = 1
    MaxInFlight = 2
CHECK_DEADLOCK FALSE
INVARIANT ClientAhead
