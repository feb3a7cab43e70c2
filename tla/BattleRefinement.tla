-------------------------- MODULE BattleRefinement --------------------------
(***************************************************************************)
(* Battle keeps the promises of Round.                                     *)
(***************************************************************************)
EXTENDS Battle

StageOf(p) ==
    IF p = "PlayerTurn" THEN "Choosing"
    ELSE IF p = "EnemyTurn" THEN "Dodging"
    ELSE p

Living == {s \in Sides : health[s] > 0}

OwedChoices ==
    IF phase = "PlayerTurn" THEN {s \in Living : action[s] = Undecided} ELSE {}

R == INSTANCE Round WITH
         stage <- StageOf(phase), alive <- Living, owed <- OwedChoices

\* The session keeps the promises of a round: a turn waits for exactly the
\* living players that have not chosen, every dodge ends, and the two endings
\* are reached exactly when they should be (set_turn_action, step).
ImplementsRound == R!RoundSpec
=============================================================================
