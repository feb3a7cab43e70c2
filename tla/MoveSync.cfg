SPECIFICATION Spec
CONSTANTS
    MAX_PENDING_INPUTS = 1
    MAX_INPUTS_TO_SEND = 2
    MaxSeq = 3
    MaxTick = 3
    MaxRound = 1
    MaxInFlight = 2
INVARIANTS
    TypeOK
    BufferCoversUnapplied
    AckWasIssued
PROPERTIES
    NoInputSkipped
CHECK_DEADLOCK FALSE
