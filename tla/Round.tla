------------------------------- MODULE Round -------------------------------
(***************************************************************************)
(* What a round promises the players, without ticks, bullets or health     *)
(* points: a turn waits for every living player and for nobody else, it    *)
(* resolves at once when the last of them has chosen, the dodge that       *)
(* follows always ends, players only ever die in a dodge, and the enemy    *)
(* wins exactly when nobody is left.                                       *)
(***************************************************************************)
EXTENDS Naturals

Players == {"Left", "Right"}

VARIABLES
    stage,   \* what the round is doing
    alive,   \* the living players
    owed     \* the players whose choice the turn still waits for

roundVars == <<stage, alive, owed>>

RoundInit == stage = "Choosing" /\ alive = Players /\ owed = Players

Choose(p) ==
    /\ stage = "Choosing"
    /\ p \in owed
    /\ owed' = owed \ {p}
    /\ IF owed' = {} THEN stage' \in {"Dodging", "PlayersWon"}
                     ELSE UNCHANGED stage
    /\ UNCHANGED alive

\* Some of the living are killed and the dodge goes on.
Suffer(survivors) ==
    /\ stage = "Dodging"
    /\ survivors # {}
    /\ alive' = survivors
    /\ UNCHANGED <<stage, owed>>

EndDodge(survivors) ==
    /\ stage = "Dodging"
    /\ alive' = survivors
    /\ IF survivors = {} THEN stage' = "EnemyWon" /\ owed' = {}
                         ELSE stage' = "Choosing" /\ owed' = survivors

DodgeOver == \E survivors \in SUBSET alive : EndDodge(survivors)

RoundNext ==
    \/ \E p \in Players : Choose(p)
    \/ \E survivors \in SUBSET alive : Suffer(survivors)
    \/ DodgeOver

RoundSafety == RoundInit /\ [][RoundNext]_roundVars

RoundSpec == RoundSafety /\ WF_roundVars(DodgeOver)
=============================================================================
