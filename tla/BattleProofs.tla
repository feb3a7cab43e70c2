---------------------------- MODULE BattleProofs ----------------------------
(***************************************************************************)
(* What holds of a round for every value of the constants.  The inductive  *)
(* invariant is IInv: type correctness alone is not inductive, because the *)
(* number of bullets in the world is bounded only through the schedule,    *)
(* and the endings are kept apart only because a choice phase always has a *)
(* living player.                                                          *)
(***************************************************************************)
EXTENDS BattleRefinement, BulletScheduleProofs

-----------------------------------------------------------------------------
(***************************************************************************)
(* Arithmetic.                                                             *)
(***************************************************************************)

\* Saturating subtraction stays between zero and its first argument.
LEMMA SaturatingSubType ==
    ASSUME NEW n \in Nat, NEW m \in Nat
    PROVE  /\ SaturatingSub(n, m) \in Nat
           /\ SaturatingSub(n, m) <= n
  BY DEF SaturatingSub

\* What pop_first takes is in the queue, and nothing in it is older.
LEMMA FirstQueuedIsLeast ==
    ASSUME NEW s, Queued(s) # {}
    PROVE  /\ FirstQueued(s) \in Queued(s)
           /\ \A r \in Queued(s) : FirstQueued(s) <= r
<1>1. Queued(s) \in SUBSET Nat
  BY BattleAssumption DEF Queued
<1>2. \E q \in Queued(s) : \A r \in Queued(s) : q <= r
  BY <1>1, LeastExists
<1> QED
  BY <1>2 DEF FirstQueued

-----------------------------------------------------------------------------
(***************************************************************************)
(* The inductive invariant.                                                *)
(***************************************************************************)
IInv ==
    /\ TypeOK
    /\ TurnNeverStuck
    /\ OutcomeConsistent
    /\ BulletsOnSchedule
    /\ AckedNeverQueued

\* GameSession::new establishes the inductive invariant.
LEMMA InitIInv == Init => IInv
<1> SUFFICES ASSUME Init PROVE IInv
  OBVIOUS
<1>1. TypeOK
  BY BattleAssumption, TicksType
     DEF Init, TypeOK, Phases, NoChoices, NoBlock
<1>2. TurnNeverStuck /\ OutcomeConsistent
  BY BattleAssumption
     DEF Init, TurnNeverStuck, OutcomeConsistent, Sides, NoChoices
<1>3. BulletsOnSchedule /\ AckedNeverQueued
  BY DEF Init, BulletsOnSchedule, AckedNeverQueued
<1> QED
  BY <1>1, <1>2, <1>3 DEF IInv

\* Locking in a choice keeps every other choice.
LEMMA LockInType ==
    ASSUME NEW s \in Sides, NEW a \in Choices, TypeOK
    PROVE  /\ LockIn(action, s, a) \in [Sides -> Choices \cup {Undecided}]
           /\ LockIn(action, s, a)[s] # Undecided
  BY DEF LockIn, TypeOK, Choices, Undecided

\* A choice, and with it the resolution of the turn, preserves IInv.
LEMMA SetTurnActionIInv ==
    ASSUME IInv, NEW s \in Sides, NEW a \in Choices, SetTurnAction(s, a)
    PROVE  IInv'
<1> DEFINE chosen == LockIn(action, s, a)
<1>1. /\ chosen \in [Sides -> Choices \cup {Undecided}]
      /\ chosen[s] # Undecided
  BY LockInType DEF IInv
<1>2. /\ phase = "PlayerTurn"
      /\ health[s] > 0
      /\ UNCHANGED <<health, ack, pending, last_input>>
  BY DEF SetTurnAction, inputs
<1>3. /\ ticks_remaining = 0 /\ block = NoBlock /\ spawned_bullets = 0
      /\ live_bullets = 0
      /\ enemy_health # 0
  BY <1>2 DEF IInv, TypeOK, BulletsOnSchedule, OutcomeConsistent
<1>4. AckedNeverQueued'
  BY <1>2 DEF IInv, AckedNeverQueued
<1>5. CASE \E p \in Sides : ~ Decided(chosen, p)
  <2>1. /\ action' = chosen
        /\ UNCHANGED <<phase, ticks_remaining, block, spawned_bullets,
                       live_bullets, enemy_health>>
    BY <1>5 DEF SetTurnAction, dodge
  <2>2. TypeOK'
    BY <1>1, <1>2, <2>1 DEF IInv, TypeOK
  <2>3. TurnNeverStuck'
    <3>1. PICK p \in Sides : chosen[p] = Undecided /\ health[p] # 0
      BY <1>5 DEF Decided
    <3>2. health[p] > 0
      BY <3>1 DEF IInv, TypeOK
    <3> QED
      BY <1>2, <2>1, <3>1, <3>2 DEF TurnNeverStuck
  <2>4. OutcomeConsistent' /\ BulletsOnSchedule'
    BY <1>2, <2>1 DEF IInv, OutcomeConsistent, BulletsOnSchedule
  <2> QED
    BY <1>4, <2>2, <2>3, <2>4 DEF IInv
<1>6. CASE \A p \in Sides : Decided(chosen, p)
  <2>1. ResolveTurn(chosen)
    BY <1>6 DEF SetTurnAction
  <2>2. /\ action' = NoChoices
        /\ NoChoices \in [Sides -> Choices \cup {Undecided}]
    BY <2>1 DEF ResolveTurn, NoChoices
  <2>3. enemy_health' \in 0..ENEMY_MAX_HEALTH
    <3>1. Attackers(chosen) * ATTACK_DAMAGE \in Nat
      BY BattleAssumption DEF Attackers
    <3> QED
      BY <2>1, <3>1, SaturatingSubType, BattleAssumption
         DEF ResolveTurn, IInv, TypeOK
  <2>4. ~ \A p \in Sides : health[p] = 0
    BY <1>2 DEF IInv, TypeOK
  <2>5. CASE enemy_health' = 0
    <3>1. phase' = "PlayersWon" /\ UNCHANGED dodge
      BY <2>1, <2>5 DEF ResolveTurn, Defeated
    <3>2. TypeOK'
      BY <1>2, <1>3, <2>2, <2>3, <3>1 DEF IInv, TypeOK, Phases, dodge
    <3> QED
      BY <1>2, <1>3, <1>4, <2>4, <2>5, <3>1, <3>2
         DEF IInv, TurnNeverStuck, OutcomeConsistent, BulletsOnSchedule, dodge
  <2>6. CASE enemy_health' # 0
    <3>1. /\ phase' = "EnemyTurn"
          /\ ticks_remaining' = ENEMY_TURN_PHASE_TICKS
          /\ block' \in [Sides -> 0..DEFEND_BLOCK]
          /\ spawned_bullets' = 0
          /\ live_bullets' = 0
      BY <1>3, <2>1, <2>6, BattleAssumption DEF ResolveTurn, Defeated
    <3>2. TypeOK'
      BY <1>2, <2>2, <2>3, <3>1, TicksType DEF IInv, TypeOK, Phases
    <3>3. BulletsOnSchedule'
      <4>1. ENEMY_TURN_PHASE_TICKS - ENEMY_TURN_PHASE_TICKS = 0
        BY TicksType
      <4> QED
        BY <3>1, <4>1, CountAtStart DEF BulletsOnSchedule
    <3> QED
      BY <1>2, <1>4, <2>4, <2>6, <3>1, <3>2, <3>3
         DEF IInv, TurnNeverStuck, OutcomeConsistent
  <2> QED
    BY <2>5, <2>6
<1> QED
  BY <1>5, <1>6

\* An input that arrives preserves IInv.
LEMMA SetMoveInputIInv ==
    ASSUME IInv, NEW s \in Sides, NEW input \in MoveInputs,
           NEW seq \in MoveSeqs, SetMoveInput(s, input, seq)
    PROVE  IInv'
<1>1. /\ pending' = [pending EXCEPT ![s][seq] = input]
      /\ seq > ack[s]
      /\ UNCHANGED <<phase, action, ticks_remaining, block, spawned_bullets,
                     live_bullets, health, enemy_health, ack, last_input>>
  BY DEF SetMoveInput, dodge
<1>2. TypeOK'
  BY <1>1 DEF IInv, TypeOK
<1>3. AckedNeverQueued'
  BY <1>1 DEF IInv, TypeOK, AckedNeverQueued
<1>4. TurnNeverStuck' /\ OutcomeConsistent' /\ BulletsOnSchedule'
  BY <1>1 DEF IInv, TurnNeverStuck, OutcomeConsistent, BulletsOnSchedule
<1> QED
  BY <1>2, <1>3, <1>4 DEF IInv

\* Applying the inputs of a tick keeps the queues behind the acknowledgement.
LEMMA StepPlayerInputsIInv ==
    ASSUME TypeOK, AckedNeverQueued, StepPlayerInputs
    PROVE  /\ ack' \in [Sides -> MoveSeqs \cup {0}]
           /\ pending' \in [Sides -> [MoveSeqs -> MoveInputs \cup {NoInput}]]
           /\ last_input' \in [Sides -> MoveInputs]
           /\ AckedNeverQueued'
<1>1. ASSUME NEW s \in Sides, PopsInput(s)
      PROVE  /\ FirstQueued(s) \in MoveSeqs
             /\ pending[s][FirstQueued(s)] \in MoveInputs
             /\ \A r \in MoveSeqs :
                    pending[s][r] # NoInput => FirstQueued(s) <= r
  BY <1>1, FirstQueuedIsLeast DEF PopsInput, Queued, TypeOK
<1>2. ack' \in [Sides -> MoveSeqs \cup {0}]
  BY <1>1 DEF StepPlayerInputs, TypeOK
<1>3. pending' \in [Sides -> [MoveSeqs -> MoveInputs \cup {NoInput}]]
  BY DEF StepPlayerInputs, TypeOK
<1>4. last_input' \in [Sides -> MoveInputs]
  <2>1. ASSUME NEW s \in Sides
        PROVE  Received(s) \in MoveInputs
    BY <1>1 DEF Received, TypeOK
  <2> QED
    BY <2>1, BattleAssumption DEF StepPlayerInputs
<1>5. AckedNeverQueued'
  <2> SUFFICES ASSUME NEW s \in Sides, NEW q \in MoveSeqs,
                      pending'[s][q] # NoInput
               PROVE  q > ack'[s]
    BY DEF AckedNeverQueued
  <2>1. CASE PopsInput(s)
    <3>1. /\ ack'[s] = FirstQueued(s)
          /\ q # FirstQueued(s)
          /\ pending[s][q] # NoInput
      BY <2>1 DEF StepPlayerInputs
    <3>2. FirstQueued(s) \in Nat /\ q \in Nat
      BY <1>1, <2>1, BattleAssumption
    <3> QED
      BY <1>1, <2>1, <3>1, <3>2
  <2>2. CASE ~ PopsInput(s)
    <3>1. ack'[s] = ack[s] /\ pending[s][q] # NoInput
      BY <2>2 DEF StepPlayerInputs
    <3> QED
      BY <3>1 DEF AckedNeverQueued
  <2> QED
    BY <2>1, <2>2
<1> QED
  BY <1>2, <1>3, <1>4, <1>5

\* Hits never raise a player's health, nor the block that is left.
LEMMA HealthLeftType ==
    ASSUME TypeOK, NEW s \in Sides, NEW n \in Nat
    PROVE  /\ HealthLeft(s, n) \in 0..health[s]
           /\ HealthLeft(s, n) \in 0..PLAYER_MAX_HEALTH
           /\ BlockLeft(block[s], n) \in 0..DEFEND_BLOCK
<1>1. /\ block[s] \in Nat /\ block[s] <= DEFEND_BLOCK
      /\ health[s] \in Nat /\ health[s] <= PLAYER_MAX_HEALTH
      /\ DEFEND_BLOCK \in Nat /\ PLAYER_MAX_HEALTH \in Nat
  BY BattleAssumption DEF TypeOK
<1>2. SaturatingSub(n, block[s]) \in Nat
  BY <1>1, SaturatingSubType
<1>3. SaturatingSub(n, block[s]) * PROJECTILE_HIT_DAMAGE \in Nat
  BY <1>2, BattleAssumption
<1>4. HealthLeft(s, n) \in Nat /\ HealthLeft(s, n) <= health[s]
  BY <1>1, <1>3, SaturatingSubType DEF HealthLeft
<1>5. BlockLeft(block[s], n) \in Nat /\ BlockLeft(block[s], n) <= block[s]
  BY <1>1, SaturatingSubType DEF BlockLeft
<1> QED
  BY <1>1, <1>4, <1>5

\* A tick of the dodge preserves what IInv says of everything but the inputs.
LEMMA StepDodgeIInv ==
    ASSUME IInv, phase = "EnemyTurn",
           NEW hits \in [Sides -> 0..live_bullets],
           NEW despawned \in 0..live_bullets,
           StepDodge(hits, despawned),
           UNCHANGED <<action, enemy_health>>,
           ack' \in [Sides -> MoveSeqs \cup {0}],
           pending' \in [Sides -> [MoveSeqs -> MoveInputs \cup {NoInput}]],
           last_input' \in [Sides -> MoveInputs]
    PROVE  TypeOK' /\ TurnNeverStuck' /\ OutcomeConsistent'
               /\ BulletsOnSchedule'
<1> DEFINE remaining == TicksAfter(ticks_remaining)
           due == get_current_bullet_count(ENEMY_TURN_PHASE_TICKS - remaining)
           fresh == SaturatingSub(due, spawned_bullets)
           live == live_bullets + fresh
                       - (hits["Left"] + hits["Right"] + despawned)
<1>1. /\ ticks_remaining \in 0..ENEMY_TURN_PHASE_TICKS
      /\ live_bullets \in Nat /\ spawned_bullets \in Nat
      /\ live_bullets <= spawned_bullets
      /\ spawned_bullets = get_current_bullet_count(
                                ENEMY_TURN_PHASE_TICKS - ticks_remaining)
      /\ action = NoChoices
      /\ enemy_health # 0
  BY DEF IInv, TypeOK, BulletsOnSchedule, OutcomeConsistent
<1>2. /\ hits["Left"] \in Nat /\ hits["Right"] \in Nat
      /\ \A s \in Sides : hits[s] \in Nat
      /\ despawned \in Nat
      /\ hits["Left"] + hits["Right"] + despawned <= live_bullets
  BY <1>1 DEF Sides, StepDodge, HitOutcome
<1>3. remaining \in Nat /\ remaining <= ticks_remaining
  <2>1. ticks_remaining \in Nat
    BY <1>1, TicksType
  <2> QED
    BY <2>1, SaturatingSubType DEF TicksAfter
<1>4. /\ due \in 0..AMOUNT_OF_PROJECTILES_IN_ENEMY_TURN_PHASE
      /\ spawned_bullets <= due
  <2>1. /\ ENEMY_TURN_PHASE_TICKS - ticks_remaining \in Nat
        /\ ENEMY_TURN_PHASE_TICKS - remaining \in Nat
        /\ ENEMY_TURN_PHASE_TICKS - ticks_remaining
               <= ENEMY_TURN_PHASE_TICKS - remaining
    BY <1>1, <1>3, TicksType
  <2> QED
    BY <1>1, <2>1, CountType, CountMonotone
<1>5. /\ spawned_bullets + fresh = due
      /\ live \in Nat /\ live <= due
  <2>1. due \in Nat
    BY <1>4, TicksType
  <2> HIDE DEF due
  <2>2. fresh \in Nat /\ fresh = due - spawned_bullets
    BY <1>1, <1>4, <2>1 DEF SaturatingSub
  <2> HIDE DEF fresh
  <2> QED
    BY <1>1, <1>2, <2>1, <2>2
<1>6. /\ health' \in [Sides -> 0..PLAYER_MAX_HEALTH]
      /\ \A s \in Sides : BlockLeft(block[s], hits[s]) \in 0..DEFEND_BLOCK
  BY <1>2, HealthLeftType DEF StepDodge, IInv
<1> HIDE DEF remaining, due, fresh, live
<1>7. CASE AllDead(health')
  <2>1. LeaveDodge("EnemyWon") /\ live_bullets' = 0
    BY <1>7 DEF StepDodge, BulletsAfterSegment
  <2>2. TypeOK'
    BY <1>1, <1>6, <2>1, TicksType, BattleAssumption
       DEF IInv, TypeOK, LeaveDodge, Phases, NoBlock
  <2> QED
    BY <1>1, <1>7, <2>1, <2>2
       DEF TurnNeverStuck, OutcomeConsistent, BulletsOnSchedule, LeaveDodge,
           AllDead
<1>8. CASE ~ AllDead(health') /\ remaining = 0
  <2>1. LeaveDodge("PlayerTurn") /\ live_bullets' = 0
    BY <1>8 DEF StepDodge, BulletsAfterSegment, remaining
  <2>2. TypeOK'
    BY <1>1, <1>6, <2>1, TicksType, BattleAssumption
       DEF IInv, TypeOK, LeaveDodge, Phases, NoBlock
  <2>3. TurnNeverStuck'
    <3>1. PICK s \in Sides : health'[s] # 0
      BY <1>8 DEF AllDead
    <3>2. health'[s] > 0 /\ action'[s] = Undecided
      BY <1>1, <1>6, <3>1, BattleAssumption DEF NoChoices
    <3> QED
      BY <3>2 DEF TurnNeverStuck
  <2> QED
    BY <1>1, <1>8, <2>1, <2>2, <2>3
       DEF OutcomeConsistent, BulletsOnSchedule, LeaveDodge, AllDead
<1>9. CASE ~ AllDead(health') /\ remaining # 0
  <2>1. /\ phase' = "EnemyTurn"
        /\ ticks_remaining' = remaining
        /\ block' = [s \in Sides |-> BlockLeft(block[s], hits[s])]
        /\ spawned_bullets' = spawned_bullets + fresh
        /\ live_bullets' = live
    BY <1>9 DEF StepDodge, remaining, due, fresh, live
  <2>2. /\ ticks_remaining' \in 0..ENEMY_TURN_PHASE_TICKS
        /\ block' \in [Sides -> 0..DEFEND_BLOCK]
        /\ spawned_bullets' \in 0..AMOUNT_OF_PROJECTILES_IN_ENEMY_TURN_PHASE
        /\ live_bullets' \in 0..AMOUNT_OF_PROJECTILES_IN_ENEMY_TURN_PHASE
    BY <1>1, <1>3, <1>4, <1>5, <1>6, <2>1, TicksType
  <2>3. TypeOK'
    BY <1>1, <1>6, <2>1, <2>2 DEF IInv, TypeOK
  <2>4. BulletsOnSchedule'
    BY <1>5, <2>1 DEF BulletsOnSchedule, due
  <2> QED
    BY <1>1, <1>9, <2>1, <2>3, <2>4
       DEF TurnNeverStuck, OutcomeConsistent, AllDead
<1> QED
  BY <1>7, <1>8, <1>9

\* One tick preserves IInv.
LEMMA StepIInv ==
    ASSUME IInv, Step
    PROVE  IInv'
<1>1. /\ ack' \in [Sides -> MoveSeqs \cup {0}]
      /\ pending' \in [Sides -> [MoveSeqs -> MoveInputs \cup {NoInput}]]
      /\ last_input' \in [Sides -> MoveInputs]
      /\ AckedNeverQueued'
  BY StepPlayerInputsIInv DEF Step, IInv
<1>2. CASE phase = "EnemyTurn"
  BY <1>1, <1>2, StepDodgeIInv DEF Step, IInv
<1>3. CASE phase # "EnemyTurn"
  <2>1. UNCHANGED <<phase, action, ticks_remaining, block, spawned_bullets,
                    live_bullets, health, enemy_health>>
    BY <1>3 DEF Step, dodge
  <2>2. TypeOK'
    BY <1>1, <2>1 DEF IInv, TypeOK
  <2> QED
    BY <1>1, <2>1, <2>2
       DEF IInv, TurnNeverStuck, OutcomeConsistent, BulletsOnSchedule
<1> QED
  BY <1>2, <1>3

\* Every call of the session keeps the inductive invariant.
LEMMA NextIInv == IInv /\ [Next]_vars => IInv'
<1> SUFFICES ASSUME IInv, [Next]_vars
             PROVE  IInv'
  OBVIOUS
<1>1. ASSUME NEW s \in Sides, NEW a \in Choices, SetTurnAction(s, a)
      PROVE  IInv'
  BY <1>1, SetTurnActionIInv
<1>2. ASSUME NEW s \in Sides, NEW input \in MoveInputs,
             NEW seq \in MoveSeqs, SetMoveInput(s, input, seq)
      PROVE  IInv'
  BY <1>2, SetMoveInputIInv
<1>3. CASE Step
  BY <1>3, StepIInv
<1>4. CASE UNCHANGED vars
  BY <1>4 DEF vars, dodge, inputs, IInv, TypeOK, TurnNeverStuck,
              OutcomeConsistent, BulletsOnSchedule, AckedNeverQueued
<1> QED
  BY <1>1, <1>2, <1>3, <1>4 DEF Next

\* The inductive invariant holds in every reachable state of the session.
THEOREM IInvInvariant == Spec => []IInv
  BY InitIInv, NextIInv, PTL DEF Spec

-----------------------------------------------------------------------------
(***************************************************************************)
(* The theorems.                                                           *)
(***************************************************************************)

\* Every variable of a round keeps its type; in particular there are never
\* more bullets in the world than the pattern has.
THEOREM TypeCorrect == Spec => []TypeOK
  BY IInvInvariant, PTL DEF IInv

\* A choice phase always has a living player it waits for.
THEOREM NeverStuck == Spec => []TurnNeverStuck
  BY IInvInvariant, PTL DEF IInv

\* The two endings are reached exactly when the enemy, or both players, died.
THEOREM OutcomeCorrect == Spec => []OutcomeConsistent
  BY IInvInvariant, PTL DEF IInv

\* The bullets spawned are at every tick those the shared schedule asks for.
THEOREM ScheduleKept == Spec => []BulletsOnSchedule
  BY IInvInvariant, PTL DEF IInv

\* No input at or below the acknowledged sequence is ever applied later.
THEOREM AcknowledgedInputsGone == Spec => []AckedNeverQueued
  BY IInvInvariant, PTL DEF IInv

-----------------------------------------------------------------------------
(***************************************************************************)
(* Every step of the session is a step of an abstract round, or none.      *)
(***************************************************************************)

\* A choice is a Choose of the same side, or a repeat that changes nothing.
LEMMA SetTurnActionRefines ==
    ASSUME IInv, NEW s \in Sides, NEW a \in Choices, SetTurnAction(s, a)
    PROVE  [R!RoundNext]_(R!roundVars)
<1> DEFINE chosen == LockIn(action, s, a)
<1>1. /\ phase = "PlayerTurn" /\ health[s] > 0
      /\ health' = health
      /\ chosen[s] # Undecided
      /\ Living' = Living
  BY LockInType DEF SetTurnAction, IInv, Living
<1>2. CASE action[s] # Undecided
  <2>1. chosen = action
    BY <1>2 DEF LockIn
  <2>2. ~ \A p \in Sides : Decided(chosen, p)
    BY <1>1, <2>1 DEF IInv, TurnNeverStuck, Decided, TypeOK
  <2>3. phase' = phase /\ action' = action
    BY <2>1, <2>2 DEF SetTurnAction
  <2> QED
    BY <1>1, <2>3 DEF R!roundVars, OwedChoices
<1>3. CASE action[s] = Undecided
  <2>1. chosen = [action EXCEPT ![s] = a]
    BY <1>3 DEF LockIn
  <2>2. /\ OwedChoices = {p \in Living : action[p] = Undecided}
        /\ s \in OwedChoices
    BY <1>1, <1>3 DEF OwedChoices, Living
  <2>3. OwedChoices \ {s} = {p \in Living : chosen[p] = Undecided}
    BY <1>1, <2>1, <2>2 DEF Living, IInv, TypeOK
  <2>4. CASE \A p \in Sides : Decided(chosen, p)
    <3>1. OwedChoices \ {s} = {}
      BY <2>3, <2>4 DEF Decided, Living, IInv, TypeOK
    <3>2. phase' \in {"EnemyTurn", "PlayersWon"}
      BY <2>4 DEF SetTurnAction, ResolveTurn
    <3>3. OwedChoices' = {}
      BY <3>2 DEF OwedChoices
    <3>4. R!Choose(s)
      BY <1>1, <2>2, <3>1, <3>2, <3>3 DEF R!Choose, StageOf
    <3> QED
      BY <3>4 DEF R!RoundNext, R!Players, Sides
  <2>5. CASE ~ \A p \in Sides : Decided(chosen, p)
    <3>1. phase' = phase /\ action' = chosen
      BY <2>5 DEF SetTurnAction
    <3>2. OwedChoices' = OwedChoices \ {s}
      BY <1>1, <2>3, <3>1 DEF OwedChoices
    <3>3. OwedChoices' # {}
      BY <2>3, <2>5, <3>2 DEF Decided, Living, IInv, TypeOK
    <3>4. R!Choose(s)
      BY <1>1, <2>2, <3>1, <3>2, <3>3 DEF R!Choose, StageOf
    <3> QED
      BY <3>4 DEF R!RoundNext, R!Players, Sides
  <2> QED
    BY <2>4, <2>5
<1> QED
  BY <1>2, <1>3

\* A tick of the dodge lets some of the living survive and may end it.
LEMMA StepDodgeRefines ==
    ASSUME IInv, IInv', phase = "EnemyTurn",
           NEW hits \in [Sides -> 0..live_bullets],
           NEW despawned \in 0..live_bullets,
           StepDodge(hits, despawned), action' = action
    PROVE  [R!RoundNext]_(R!roundVars)
<1>1. \A s \in Sides : hits[s] \in Nat
  BY DEF IInv, TypeOK
<1>2. \A s \in Sides : health'[s] \in Nat /\ health'[s] <= health[s]
  BY <1>1, HealthLeftType DEF StepDodge, IInv, TypeOK
<1>3. Living' \in SUBSET Living
  BY <1>2 DEF Living, IInv, TypeOK
<1>4. StageOf(phase) = "Dodging" /\ OwedChoices = {}
  BY DEF StageOf, OwedChoices
<1>5. AllDead(health') <=> Living' = {}
  BY <1>2 DEF AllDead, Living
<1>6. CASE AllDead(health')
  <2>1. phase' = "EnemyWon"
    BY <1>6 DEF StepDodge, LeaveDodge
  <2>2. R!EndDodge(Living')
    BY <1>4, <1>5, <1>6, <2>1 DEF R!EndDodge, StageOf, OwedChoices
  <2> QED
    BY <1>3, <2>2 DEF R!RoundNext, R!DodgeOver
<1>7. CASE ~ AllDead(health') /\ phase' = "PlayerTurn"
  <2>1. action' = NoChoices
    BY DEF IInv, TypeOK
  <2>2. OwedChoices' = Living'
    BY <1>7, <2>1 DEF OwedChoices, Living, NoChoices
  <2>3. R!EndDodge(Living')
    BY <1>4, <1>5, <1>7, <2>2 DEF R!EndDodge, StageOf
  <2> QED
    BY <1>3, <2>3 DEF R!RoundNext, R!DodgeOver
<1>8. CASE ~ AllDead(health') /\ phase' # "PlayerTurn"
  <2>1. phase' = "EnemyTurn"
    BY <1>8 DEF StepDodge, LeaveDodge
  <2>2. R!Suffer(Living')
    BY <1>4, <1>5, <1>8, <2>1 DEF R!Suffer, StageOf, OwedChoices
  <2> QED
    BY <1>3, <2>2 DEF R!RoundNext
<1> QED
  BY <1>6, <1>7, <1>8

\* A session is, for the players, an abstract round: a turn waits for exactly
\* the living that have not chosen, nobody dies outside a dodge, and the
\* endings come exactly when they should.  (That a dodge ends is liveness and
\* is model-checked.)
THEOREM RefinesRound == Spec => R!RoundSafety
<1>1. Init => R!RoundInit
  <2> SUFFICES ASSUME Init PROVE R!RoundInit
    OBVIOUS
  <2>1. Living = Sides
    BY BattleAssumption DEF Init, Living
  <2>2. OwedChoices = Sides
    BY <2>1 DEF Init, OwedChoices, NoChoices
  <2> QED
    BY <2>1, <2>2 DEF Init, R!RoundInit, R!Players, Sides, StageOf
<1>2. IInv /\ IInv' /\ [Next]_vars => [R!RoundNext]_(R!roundVars)
  <2> SUFFICES ASSUME IInv, IInv', [Next]_vars
               PROVE  [R!RoundNext]_(R!roundVars)
    OBVIOUS
  <2>1. ASSUME NEW s \in Sides, NEW a \in Choices, SetTurnAction(s, a)
        PROVE  [R!RoundNext]_(R!roundVars)
    BY <2>1, SetTurnActionRefines
  <2>2. CASE UNCHANGED <<phase, health, action>>
    BY <2>2 DEF R!roundVars, Living, OwedChoices
  <2>3. ASSUME NEW s \in Sides, NEW input \in MoveInputs,
               NEW seq \in MoveSeqs, SetMoveInput(s, input, seq)
        PROVE  [R!RoundNext]_(R!roundVars)
    BY <2>2, <2>3 DEF SetMoveInput
  <2>4. CASE Step /\ phase = "EnemyTurn"
    BY <2>4, StepDodgeRefines DEF Step
  <2>5. CASE Step /\ phase # "EnemyTurn"
    BY <2>2, <2>5 DEF Step
  <2>6. CASE UNCHANGED vars
    BY <2>2, <2>6 DEF vars
  <2> QED
    BY <2>1, <2>3, <2>4, <2>5, <2>6 DEF Next
<1> QED
  BY <1>1, <1>2, IInvInvariant, PTL DEF Spec, R!RoundSafety

\* A choice locked in is never replaced before the turn resolves.
THEOREM ChoicesKept == Spec => ChoiceKept
<1> DEFINE Kept == \A s \in Sides :
                       action[s] # Undecided =>
                           action'[s] = action[s] \/ phase' # "PlayerTurn"
<1>1. IInv /\ [Next]_vars => [Kept]_vars
  <2> SUFFICES ASSUME IInv, [Next]_vars, vars' # vars
               PROVE  Kept
    BY Zenon
  <2>1. ASSUME NEW s \in Sides, NEW a \in Choices, SetTurnAction(s, a)
        PROVE  Kept
    <3>1. CASE \A p \in Sides : Decided(LockIn(action, s, a), p)
      BY <2>1, <3>1 DEF SetTurnAction, ResolveTurn
    <3>2. CASE ~ \A p \in Sides : Decided(LockIn(action, s, a), p)
      <4>1. action' = LockIn(action, s, a)
        BY <2>1, <3>2 DEF SetTurnAction
      <4> QED
        BY <4>1 DEF LockIn, IInv, TypeOK
    <3> QED
      BY <3>1, <3>2
  <2>2. ASSUME NEW s \in Sides, NEW input \in MoveInputs,
               NEW seq \in MoveSeqs, SetMoveInput(s, input, seq)
        PROVE  Kept
    BY <2>2 DEF SetMoveInput
  <2>3. CASE Step
    BY <2>3 DEF Step
  <2> QED
    BY <2>1, <2>2, <2>3 DEF Next
<1> QED
  BY <1>1, IInvInvariant, PTL DEF Spec, ChoiceKept

\* What one side loses to some hits is paid for by them: the block they use
\* up, and the health the others cost.
LEMMA HitsPayForLosses ==
    ASSUME NEW h \in Nat, NEW b \in Nat, NEW n \in Nat, NEW d \in Nat,
           NEW left, left = SaturatingSub(h, SaturatingSub(n, b) * d),
           NEW rest, rest = SaturatingSub(b, n)
    PROVE  /\ left \in Nat /\ rest \in Nat
           /\ (h - left) + (b - rest) * d <= n * d
           /\ h - left > 0 => rest = 0
<1> DEFINE over == SaturatingSub(n, b)
<1>1. /\ over \in Nat /\ rest \in Nat
      /\ b - rest = n - over
      /\ over # 0 => rest = 0
  BY DEF SaturatingSub
<1>2. left = SaturatingSub(h, over * d)
  OBVIOUS
<1> HIDE DEF over
<1>3. over * d \in Nat /\ n * d = over * d + (n - over) * d
  BY <1>1
<1>4. left \in Nat /\ h - left <= over * d
  BY <1>2, <1>3 DEF SaturatingSub
<1>5. (n - over) * d \in Int
  BY <1>1
<1>6. (h - left) + (b - rest) * d <= n * d
  BY <1>1, <1>3, <1>4, <1>5
<1>7. over = 0 => over * d = 0
  BY <1>1
<1> QED
  BY <1>1, <1>3, <1>4, <1>6, <1>7

LEMMA ProductMonotone ==
    ASSUME NEW a \in Int, NEW b \in Int, NEW d \in Nat, a <= b
    PROVE  a * d <= b * d
  BY SMT

LEMMA ProductSums ==
    ASSUME NEW d \in Nat
    PROVE  \A a, b \in Int : a * d \in Int /\ (a + b) * d = a * d + b * d
  BY SMT

\* What either side loses in a segment is paid for by bullets of its own,
\* health only once the block is used up (detect_projectile_hits and step).
THEOREM DamagePaidFor == Spec => DamageAccounted
<1> DEFINE D == PROJECTILE_HIT_DAMAGE
           Spent == live_bullets + (spawned_bullets' - spawned_bullets)
                        - live_bullets'
           Accounted ==
               /\ HealthLost("Left") + HealthLost("Right")
                      + (BlockLost("Left") + BlockLost("Right")) * D
                  <= Spent * D
               /\ \A s \in Sides : HealthLost(s) > 0 => block'[s] = 0
           Step1 == phase = "EnemyTurn" /\ phase' = "EnemyTurn" => Accounted
<1>1. IInv /\ [Next]_vars => [Step1]_vars
  <2> SUFFICES ASSUME IInv, Next, phase = "EnemyTurn", phase' = "EnemyTurn"
               PROVE  Accounted
    BY Zenon
  <2>0. /\ D \in Nat /\ live_bullets \in Nat /\ spawned_bullets \in Nat
        /\ \A s \in Sides : health[s] \in Nat /\ block[s] \in Nat
    BY BattleAssumption, TicksType DEF IInv, TypeOK
  <2>1. CASE UNCHANGED <<health, block, live_bullets, spawned_bullets>>
    <3>1. Spent = 0
      BY <2>0, <2>1
    <3>2. \A s \in Sides : HealthLost(s) = 0 /\ BlockLost(s) = 0
      BY <2>0, <2>1 DEF HealthLost, BlockLost
    <3> HIDE DEF Spent
    <3> QED
      BY <2>0, <3>1, <3>2 DEF Sides
  <2>2. ASSUME NEW hits \in [Sides -> 0..live_bullets],
               NEW despawned \in 0..live_bullets, StepDodge(hits, despawned)
        PROVE  Accounted
    <3>1. \A s \in Sides : hits[s] \in Nat /\ despawned \in Nat
      BY <2>0
    <3>2. ~ AllDead(health') /\ TicksAfter(ticks_remaining) # 0
      BY <2>2 DEF StepDodge, LeaveDodge
    <3>3. /\ \A s \in Sides :
                 /\ block'[s] = SaturatingSub(block[s], hits[s])
                 /\ health'[s] = SaturatingSub(health[s],
                        SaturatingSub(hits[s], block[s]) * D)
      BY <2>2, <3>2 DEF StepDodge, BlockLeft, HealthLeft
    <3> DEFINE due == get_current_bullet_count(
                          ENEMY_TURN_PHASE_TICKS - TicksAfter(ticks_remaining))
               fresh == SaturatingSub(due, spawned_bullets)
    <3>4. fresh \in Nat
      <4>1. /\ ticks_remaining \in Nat
            /\ ticks_remaining <= ENEMY_TURN_PHASE_TICKS
        BY TicksType DEF IInv, TypeOK
      <4>2. ENEMY_TURN_PHASE_TICKS - TicksAfter(ticks_remaining) \in Nat
        <5>1. /\ TicksAfter(ticks_remaining) \in Nat
              /\ TicksAfter(ticks_remaining) <= ticks_remaining
          BY <4>1, SaturatingSubType DEF TicksAfter
        <5> QED
          BY <4>1, <5>1, TicksType
      <4>3. due \in Nat
        BY <4>2, CountType, TicksType
      <4> QED
        BY <2>0, <4>3, SaturatingSubType
    <3>5. Spent = hits["Left"] + hits["Right"] + despawned
      <4>1. /\ spawned_bullets' = spawned_bullets + fresh
            /\ live_bullets' = live_bullets + fresh
                                   - (hits["Left"] + hits["Right"] + despawned)
        BY <2>2, <3>2 DEF StepDodge
      <4> HIDE DEF fresh
      <4> QED
        BY <2>0, <3>1, <3>4, <4>1 DEF Sides
    <3> HIDE DEF fresh, due
    <3>6. \A s \in Sides :
              /\ HealthLost(s) \in Int /\ BlockLost(s) \in Int
              /\ HealthLost(s) + BlockLost(s) * D <= hits[s] * D
              /\ HealthLost(s) > 0 => block'[s] = 0
      <4> TAKE s \in Sides
      <4>1. health[s] \in Nat /\ block[s] \in Nat /\ hits[s] \in Nat
        BY <2>0, <3>1
      <4> HIDE DEF D
      <4>2. /\ block'[s] = SaturatingSub(block[s], hits[s])
            /\ health'[s] = SaturatingSub(health[s],
                                 SaturatingSub(hits[s], block[s]) * D)
        BY <3>3
      <4>3. /\ health'[s] \in Nat /\ block'[s] \in Nat
            /\ (health[s] - health'[s]) + (block[s] - block'[s]) * D
                   <= hits[s] * D
            /\ health[s] - health'[s] > 0 => block'[s] = 0
        BY <2>0, <4>1, <4>2, HitsPayForLosses
      <4> QED
        BY <4>1, <4>3 DEF HealthLost, BlockLost
    <3>7. (hits["Left"] + hits["Right"]) * D <= Spent * D
      BY <2>0, <3>1, <3>5, ProductMonotone DEF Sides
    <3> QED
      <4>1. "Left" \in Sides /\ "Right" \in Sides
        BY DEF Sides
      <4> DEFINE HL == HealthLost("Left")
                 HR == HealthLost("Right")
                 BL == BlockLost("Left")
                 BR == BlockLost("Right")
      <4>2. /\ HL + BL * D <= hits["Left"] * D
            /\ HR + BR * D <= hits["Right"] * D
            /\ HL \in Int /\ HR \in Int /\ BL \in Int /\ BR \in Int
            /\ hits["Left"] \in Nat /\ hits["Right"] \in Nat
        BY <3>1, <3>6, <4>1
      <4> HIDE DEF HL, HR, BL, BR, Spent, D
      <4>3. /\ (BL + BR) * D = BL * D + BR * D
            /\ (hits["Left"] + hits["Right"]) * D
                   = hits["Left"] * D + hits["Right"] * D
            /\ BL * D \in Int /\ BR * D \in Int
            /\ hits["Left"] * D \in Int /\ hits["Right"] * D \in Int
            /\ Spent * D \in Int
        <5>1. Spent \in Int
          BY <3>1, <3>5, <4>1
        <5> QED
          BY <2>0, <4>2, <5>1, ProductSums
      <4>4. HL + HR + (BL + BR) * D <= Spent * D
        BY <3>7, <4>2, <4>3
      <4> QED
        BY <3>6, <4>4 DEF HL, HR, BL, BR
  <2>3. ASSUME NEW s \in Sides, NEW a \in Choices, SetTurnAction(s, a)
        PROVE  Accounted
    BY <2>3 DEF SetTurnAction
  <2>4. ASSUME NEW s \in Sides, NEW input \in MoveInputs,
               NEW seq \in MoveSeqs, SetMoveInput(s, input, seq)
        PROVE  Accounted
    BY <2>1, <2>4 DEF SetMoveInput, dodge
  <2>5. CASE Step
    BY <2>2, <2>5 DEF Step
  <2> QED
    BY <2>3, <2>4, <2>5 DEF Next
<1> QED
  BY <1>1, IInvInvariant, PTL DEF Spec, DamageAccounted
=============================================================================
