------------------------------- MODULE Battle -------------------------------
(***************************************************************************)
(* One round of the game: the server's GameSession (server/src/battle.rs). *)
(* Both players secretly choose, the turn resolves, then everybody dodges  *)
(* the enemy's bullets until the timer runs out and the next choice phase  *)
(* begins.  A step is one call of set_turn_action, of set_left_move_input  *)
(* or set_right_move_input, or of step (one game tick).                    *)
(*                                                                         *)
(* Which bullets touch which player is decided by the physics engine and   *)
(* is a free choice here, among the bullets that were in flight when the   *)
(* tick began.  Positions, the tick number and the echoed client time are  *)
(* not read by the rules and are left out.                                 *)
(***************************************************************************)
EXTENDS BulletSchedule, Integers

CONSTANTS
    PLAYER_MAX_HEALTH,
    ENEMY_MAX_HEALTH,
    ATTACK_DAMAGE,
    DEFEND_BLOCK,
    PROJECTILE_HIT_DAMAGE,
    MoveInputs,      \* the directions a client can hold
    NoMovement,      \* MoveInputState::default(), nothing held
    NoInput,         \* an absent entry of a pending-input map
    MoveSeqs         \* input sequence numbers a client may send (bounded)

Sides == {"Left", "Right"}
Choices == {"Attack", "Defend"}
Undecided == "None"
Phases == {"PlayerTurn", "EnemyTurn", "PlayersWon", "EnemyWon"}

ASSUME BattleAssumption ==
    /\ PLAYER_MAX_HEALTH \in Nat \ {0}
    /\ ENEMY_MAX_HEALTH \in Nat \ {0}
    /\ ATTACK_DAMAGE \in Nat \ {0}
    /\ DEFEND_BLOCK \in Nat
    /\ PROJECTILE_HIT_DAMAGE \in Nat \ {0}
    /\ NoMovement \in MoveInputs
    /\ NoInput \notin MoveInputs
    /\ MoveSeqs \subseteq Nat

VARIABLES
    phase,            \* which variant BattlePhase holds
    action,           \* PlayerTurn: the choice each side has locked in
    ticks_remaining,  \* EnemyTurn: ticks until the segment ends
    block,            \* EnemyTurn: damage each side can still absorb
    spawned_bullets,  \* EnemyTurn: bullets of the pattern spawned so far
    health,           \* of each player
    enemy_health,
    live_bullets,     \* projectiles in the physics world
    ack,              \* newest input sequence applied, per side
    pending,          \* inputs received and not yet applied, per side
    last_input        \* input applied by the last tick, per side

dodge == <<ticks_remaining, block, spawned_bullets, live_bullets>>
inputs == <<ack, pending, last_input>>
vars == <<phase, action, dodge, health, enemy_health, inputs>>

NoChoices == [s \in Sides |-> Undecided]
NoBlock == [s \in Sides |-> 0]

\* A variant's fields are undecided or zero while another variant is held.
Init ==
    /\ phase = "PlayerTurn"
    /\ action = NoChoices
    /\ ticks_remaining = 0
    /\ block = NoBlock
    /\ spawned_bullets = 0
    /\ health = [s \in Sides |-> PLAYER_MAX_HEALTH]
    /\ enemy_health = ENEMY_MAX_HEALTH
    /\ live_bullets = 0
    /\ ack = [s \in Sides |-> 0]
    /\ pending = [s \in Sides |-> [q \in MoveSeqs |-> NoInput]]
    /\ last_input = [s \in Sides |-> NoMovement]

\* Mutant: a subtraction that can go below zero.
UncheckedSub(n, m) == n - m

\* u32::saturating_sub
SaturatingSub(n, m) == IF m < n THEN n - m ELSE 0

-----------------------------------------------------------------------------
(***************************************************************************)
(* Choosing.                                                               *)
(***************************************************************************)

\* Mutant: a repeated action replaces the choice already locked in.
LockInLast(chosen, s, a) == [chosen EXCEPT ![s] = a]

\* The first action of a side in a turn is kept, later ones are ignored.
LockIn(chosen, s, a) ==
    IF chosen[s] = Undecided THEN [chosen EXCEPT ![s] = a] ELSE chosen

\* Mutant: the dead are waited for as well.
DecidedAlive(chosen, s) == chosen[s] # Undecided

\* A side the turn no longer waits for; the dead have no say.
Decided(chosen, s) == chosen[s] # Undecided \/ health[s] = 0

Attackers(chosen) ==
    (IF chosen["Left"] = "Attack" THEN 1 ELSE 0)
        + (IF chosen["Right"] = "Attack" THEN 1 ELSE 0)

\* Mutant: a turn whose attacks kill the enemy still goes on to the dodge.
NeverDefeated(enemy) == FALSE

Defeated(enemy) == enemy = 0

ResolveTurn(chosen) ==
    /\ enemy_health' =
           SaturatingSub(enemy_health, Attackers(chosen) * ATTACK_DAMAGE)
    /\ action' = NoChoices
    /\ IF Defeated(enemy_health')
       THEN /\ phase' = "PlayersWon"
            /\ UNCHANGED dodge
       ELSE /\ phase' = "EnemyTurn"
            /\ ticks_remaining' = ENEMY_TURN_PHASE_TICKS
            /\ block' = [s \in Sides |->
                             IF chosen[s] = "Defend" THEN DEFEND_BLOCK ELSE 0]
            /\ spawned_bullets' = 0
            /\ UNCHANGED live_bullets

(***************************************************************************)
(* A call in another phase or for a dead player is answered with an error  *)
(* and changes nothing: it is a stuttering step.                           *)
(***************************************************************************)
SetTurnAction(s, a) ==
    LET chosen == LockIn(action, s, a)
    IN  /\ phase = "PlayerTurn"
        /\ health[s] > 0
        /\ IF \A p \in Sides : Decided(chosen, p)
           THEN ResolveTurn(chosen)
           ELSE /\ action' = chosen
                /\ UNCHANGED <<phase, dodge, enemy_health>>
        /\ UNCHANGED <<health, inputs>>

-----------------------------------------------------------------------------
(***************************************************************************)
(* Move inputs arrive at any time, in any order, and more than once.       *)
(***************************************************************************)

SetMoveInput(s, input, seq) ==
    /\ seq > ack[s]
    /\ pending[s][seq] = NoInput
    /\ pending' = [pending EXCEPT ![s][seq] = input]
    /\ UNCHANGED <<phase, action, dodge, health, enemy_health,
                   ack, last_input>>

Queued(s) == {q \in MoveSeqs : pending[s][q] # NoInput}

\* Mutant: the newest queued input is taken, older ones stay behind.
LastQueued(s) == CHOOSE q \in Queued(s) : \A r \in Queued(s) : q >= r

FirstQueued(s) == CHOOSE q \in Queued(s) : \A r \in Queued(s) : q <= r

MayMove(s) == health[s] > 0 /\ phase # "PlayerTurn"

\* Mutant: the queue stands still while the player may not move.
PopsInputMoving(s) == Queued(s) # {} /\ MayMove(s)

PopsInput(s) == Queued(s) # {}

\* The input this tick takes: the oldest queued, else the last one again.
Received(s) ==
    IF PopsInput(s) THEN pending[s][FirstQueued(s)] ELSE last_input[s]

StepPlayerInputs ==
    /\ ack' = [s \in Sides |->
                   IF PopsInput(s) THEN FirstQueued(s) ELSE ack[s]]
    /\ pending' = [s \in Sides |->
                       [q \in MoveSeqs |->
                            IF PopsInput(s) /\ q = FirstQueued(s)
                            THEN NoInput
                            ELSE pending[s][q]]]
    /\ last_input' = [s \in Sides |->
                          IF MayMove(s) THEN Received(s) ELSE NoMovement]

-----------------------------------------------------------------------------
(***************************************************************************)
(* Dodging.                                                                *)
(***************************************************************************)

(***************************************************************************)
(* The outcomes of detect_projectile_hits: a bullet counts against one     *)
(* side at most and despawns, bullets outside the arena despawn too, and a *)
(* dead player is not hit.  A bullet spawned in this tick is not in the    *)
(* collision structure yet.                                                *)
(***************************************************************************)
HitOutcome(hits, despawned) ==
    /\ \A s \in Sides : health[s] = 0 => hits[s] = 0
    /\ hits["Left"] + hits["Right"] + despawned <= live_bullets

\* Mutant: a block absorbs hits without being used up.
BlockNotConsumed(remaining, hits) == remaining

\* Each hit uses up one point of block first.
BlockLeft(remaining, hits) == SaturatingSub(remaining, hits)

HealthLeft(s, hits) ==
    SaturatingSub(health[s], SaturatingSub(hits, block[s])
                                 * PROJECTILE_HIT_DAMAGE)

\* Mutant: the enemy wins as soon as one player is dead.
AnyDead(hp) == \E s \in Sides : hp[s] = 0

AllDead(hp) == \A s \in Sides : hp[s] = 0

\* Mutant: bullets of the finished segment are left in the world.
BulletsKept(live) == live

BulletsAfterSegment(live) == 0

\* Mutant: the count-down is not stored.
TicksKept(ticks) == ticks

TicksAfter(ticks) == SaturatingSub(ticks, 1)

LeaveDodge(next) ==
    /\ phase' = next
    /\ ticks_remaining' = 0
    /\ block' = NoBlock
    /\ spawned_bullets' = 0

StepDodge(hits, despawned) ==
    LET remaining == TicksAfter(ticks_remaining)
        due == get_current_bullet_count(ENEMY_TURN_PHASE_TICKS - remaining)
        fresh == SaturatingSub(due, spawned_bullets)
        live == live_bullets + fresh
                    - (hits["Left"] + hits["Right"] + despawned)
    IN  /\ HitOutcome(hits, despawned)
        /\ health' = [s \in Sides |-> HealthLeft(s, hits[s])]
        /\ IF AllDead(health')
           THEN /\ LeaveDodge("EnemyWon")
                /\ live_bullets' = BulletsAfterSegment(live)
           ELSE IF remaining = 0
           THEN /\ LeaveDodge("PlayerTurn")
                /\ live_bullets' = BulletsAfterSegment(live)
           ELSE /\ ticks_remaining' = remaining
                /\ block' = [s \in Sides |-> BlockLeft(block[s], hits[s])]
                /\ spawned_bullets' = spawned_bullets + fresh
                /\ live_bullets' = live
                /\ UNCHANGED phase

(***************************************************************************)
(* One tick.  The lobby does not step a round that has been won            *)
(* (LobbySession::step_game).                                              *)
(***************************************************************************)
Step ==
    /\ phase \in {"PlayerTurn", "EnemyTurn"}
    /\ StepPlayerInputs
    /\ IF phase = "EnemyTurn"
       THEN \E hits \in [Sides -> 0..live_bullets],
               despawned \in 0..live_bullets : StepDodge(hits, despawned)
       ELSE UNCHANGED <<phase, dodge, health>>
    /\ UNCHANGED <<action, enemy_health>>

-----------------------------------------------------------------------------
Next ==
    \/ \E s \in Sides, a \in Choices : SetTurnAction(s, a)
    \/ \E s \in Sides, input \in MoveInputs, seq \in MoveSeqs :
           SetMoveInput(s, input, seq)
    \/ Step

\* The actor's interval timer ticks for ever; players owe us nothing.
Fairness == WF_vars(Step)

Spec == Init /\ [][Next]_vars /\ Fairness

-----------------------------------------------------------------------------
(***************************************************************************)
(* Properties.                                                             *)
(***************************************************************************)

\* Every variable has its type, and the variant fields of BattlePhase are
\* undecided or zero while another variant is held.
TypeOK ==
    /\ phase \in Phases
    /\ action \in [Sides -> Choices \cup {Undecided}]
    /\ ticks_remaining \in 0..ENEMY_TURN_PHASE_TICKS
    /\ block \in [Sides -> 0..DEFEND_BLOCK]
    /\ spawned_bullets \in 0..AMOUNT_OF_PROJECTILES_IN_ENEMY_TURN_PHASE
    /\ health \in [Sides -> 0..PLAYER_MAX_HEALTH]
    /\ enemy_health \in 0..ENEMY_MAX_HEALTH
    /\ live_bullets \in 0..AMOUNT_OF_PROJECTILES_IN_ENEMY_TURN_PHASE
    /\ ack \in [Sides -> MoveSeqs \cup {0}]
    /\ pending \in [Sides -> [MoveSeqs -> MoveInputs \cup {NoInput}]]
    /\ last_input \in [Sides -> MoveInputs]
    /\ phase # "PlayerTurn" => action = NoChoices
    /\ phase # "EnemyTurn" => ticks_remaining = 0 /\ block = NoBlock
                                  /\ spawned_bullets = 0

\* While the round is in its choice phase some living player can still move
\* it on: it never waits for a dead player or for nobody (set_turn_action
\* counts the dead as done and resolves as soon as nobody is left to wait for).
TurnNeverStuck ==
    phase = "PlayerTurn" =>
        \E s \in Sides : health[s] > 0 /\ action[s] = Undecided

\* The players have won exactly when the enemy is dead, and the enemy exactly
\* when both players are: no ending is missed and none comes early, in
\* particular when the last bullet of a segment kills (resolve_turn,
\* step_enemy_turn_phase).
OutcomeConsistent ==
    /\ phase = "PlayersWon" <=> enemy_health = 0
    /\ phase = "EnemyWon" <=> \A s \in Sides : health[s] = 0

\* During a dodge segment exactly the bullets that are due have been spawned,
\* so a client that runs the same schedule sees the same bullets; outside the
\* segment none is left in the world to hit anybody in the next one.
BulletsOnSchedule ==
    IF phase = "EnemyTurn"
    THEN /\ spawned_bullets = get_current_bullet_count(
                                 ENEMY_TURN_PHASE_TICKS - ticks_remaining)
         /\ live_bullets <= spawned_bullets
    ELSE live_bullets = 0

\* No input at or below the acknowledged sequence waits to be applied: what
\* the client was told to forget is never applied afterwards, however the
\* datagrams were reordered or repeated.
AckedNeverQueued ==
    \A s \in Sides, q \in MoveSeqs : pending[s][q] # NoInput => q > ack[s]

\* A choice locked in stays as it is until the turn resolves, whatever is
\* sent afterwards (the comment on set_turn_action calls it idempotent).
ChoiceKept ==
    [][\A s \in Sides :
           action[s] # Undecided =>
               action'[s] = action[s] \/ phase' # "PlayerTurn"]_vars

HealthLost(s) == health[s] - health'[s]
BlockLost(s) == block[s] - block'[s]

\* Within a segment every point of health or block lost by either side is
\* paid for by a bullet of its own, and nobody loses health with block left.
DamageAccounted ==
    [][phase = "EnemyTurn" /\ phase' = "EnemyTurn" =>
           /\ HealthLost("Left") + HealthLost("Right")
                  + (BlockLost("Left") + BlockLost("Right"))
                        * PROJECTILE_HIT_DAMAGE
              <= (live_bullets + (spawned_bullets' - spawned_bullets)
                      - live_bullets') * PROJECTILE_HIT_DAMAGE
           /\ \A s \in Sides : HealthLost(s) > 0 => block'[s] = 0]_vars

\* A dodge segment ends as long as the actor ticks.
DodgeEnds == phase = "EnemyTurn" ~> phase # "EnemyTurn"

\* A queued input is taken off the queue, so the acknowledgement catches up
\* with everything the client sent, or the round is over: no input is held
\* back by a lost predecessor, a death or a choice phase.
QueuedInputTaken ==
    \A s \in Sides, q \in MoveSeqs :
        pending[s][q] # NoInput ~>
            pending[s][q] = NoInput \/ phase \in {"PlayersWon", "EnemyWon"}
=============================================================================
