--------------------------- MODULE BulletSchedule ---------------------------
(***************************************************************************)
(* The tick arithmetic of the dodge segment that server and client share   *)
(* (shared/src/game.rs): lengths are written in milliseconds and turned    *)
(* into ticks by integer division, and the bullets that should exist are a *)
(* function of the ticks elapsed since the segment began.                  *)
(***************************************************************************)
EXTENDS Naturals

CONSTANTS
    GAME_TIME_STEP_MS,             \* length of one game tick
    ENEMY_TURN_PHASE_LENGTH_MS,    \* length of the dodge segment
    PROJECTILE_SPAWN_INTERVAL_MS,  \* gap between two bullets
    PATTERN_START_LEAD_MS          \* delay before the first bullet

ENEMY_TURN_PHASE_TICKS == ENEMY_TURN_PHASE_LENGTH_MS \div GAME_TIME_STEP_MS

PROJECTILE_SPAWN_INTERVAL_TICKS ==
    PROJECTILE_SPAWN_INTERVAL_MS \div GAME_TIME_STEP_MS

PATTERN_START_LEAD_TICKS == PATTERN_START_LEAD_MS \div GAME_TIME_STEP_MS

AMOUNT_OF_PROJECTILES_IN_ENEMY_TURN_PHASE ==
    ENEMY_TURN_PHASE_TICKS \div PROJECTILE_SPAWN_INTERVAL_TICKS

(***************************************************************************)
(* A zero step or interval would be a division by zero in a Rust constant, *)
(* which does not compile; the lead is there so that no bullet exists when *)
(* the segment is announced (game.rs:33).                                  *)
(***************************************************************************)
ASSUME ScheduleAssumption ==
    /\ GAME_TIME_STEP_MS \in Nat \ {0}
    /\ ENEMY_TURN_PHASE_LENGTH_MS \in Nat
    /\ PROJECTILE_SPAWN_INTERVAL_MS \in Nat
    /\ PATTERN_START_LEAD_MS \in Nat
    /\ PROJECTILE_SPAWN_INTERVAL_TICKS # 0
    /\ PATTERN_START_LEAD_TICKS # 0

AtMost(n, bound) == IF n < bound THEN n ELSE bound

\* How many bullets of the pattern exist elapsed_ticks into the segment.
get_current_bullet_count(elapsed_ticks) ==
    IF elapsed_ticks < PATTERN_START_LEAD_TICKS
    THEN 0
    ELSE AtMost((elapsed_ticks - PATTERN_START_LEAD_TICKS)
                    \div PROJECTILE_SPAWN_INTERVAL_TICKS + 1,
                AMOUNT_OF_PROJECTILES_IN_ENEMY_TURN_PHASE)
=============================================================================
