SPECIFICATION Spec
CONSTANTS
    MAX_PENDING_INPUTS = 3
    MAX_INPUTS_TO_SEND = 2
    MaxSeq = 2
    MaxTick = 3
    MaxRound = 0
    MaxInFlight = 2
CHECK_DEADLOCK FALSE
PROPERTY SnapshotsInOrder
