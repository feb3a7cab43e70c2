SPECIFICATION Spec
CONSTANTS
    GAME_TIME_STEP_MS = 33
    ENEMY_TURN_PHASE_LENGTH_MS = 264
    PROJECTILE_SPAWN_INTERVAL_MS = 70
    PATTERN_START_LEAD_MS = 80
    PLAYER_MAX_HEALTH = 3
    ENEMY_MAX_HEALTH = 3
    ATTACK_DAMAGE = 2
    DEFEND_BLOCK = 2
    PROJECTILE_HIT_DAMAGE = 2
    MoveInputs = {Still}
    NoMovement = Still
    NoInput = NoInput
    MoveSeqs = {1, 2}
INVARIANTS
    TypeOK
    TurnNeverStuck
    OutcomeConsistent
    BulletsOnSchedule
    AckedNeverQueued
PROPERTIES
    ChoiceKept
    DamageAccounted
    DodgeEnds
    ImplementsRound
    QueuedInputTaken
CHECK_DEADLOCK FALSE
