SPECIFICATION Spec
CONSTANTS
    GAME_TIME_STEP_MS = 2
    ENEMY_TURN_PHASE_LENGTH_MS = 44
    PROJECTILE_SPAWN_INTERVAL_MS = 14
    PATTERN_START_LEAD_MS = 28
    MAX_TIME_BETWEEN_FRAMES = 5
    MaxDelay = 1
    MaxEstimate = 1
    MaxStall = 7
INVARIANTS
    TypeOK
    PredictedOnSchedule
    AtMostOneAhead
    NoPhantomBullet
