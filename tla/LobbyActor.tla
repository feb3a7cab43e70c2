----------------------------- MODULE LobbyActor -----------------------------
(***************************************************************************)
(* One lobby's actor (LobbySession in server/src/lobby.rs): the two seats, *)
(* the round being played, and what each message of its mailbox does.  An  *)
(* actor is a record; handling a message yields the possible next records, *)
(* each with the reply sent back on the message's oneshot channel.         *)
(*                                                                         *)
(* The round is reduced to what the lobby can tell apart: module Battle    *)
(* says what happens inside it.                                            *)
(***************************************************************************)
EXTENDS FiniteSets

CONSTANTS
    Users,
    NoUser,    \* an empty seat
    Departed   \* a seat held by a connection that is gone

ASSUME ActorAssumption ==
    /\ NoUser \notin Users
    /\ Departed \notin Users \cup {NoUser}

Sides == {"Left", "Right"}

\* Fresh is GameSession::new(): full health, nothing chosen, no input seen.
RoundStages == {"Fresh", "Choosing", "Dodging", "Won"}

LobbyStates == {"Empty", "Waiting", "Running", "Finished"}

Actors == [seat : [Sides -> Users \cup {NoUser, Departed}],
           round : RoundStages]

\* LobbySession::new
NewSession(u) ==
    [seat |-> [s \in Sides |-> IF s = "Left" THEN u ELSE NoUser],
     round |-> "Fresh"]

Occupied(a) == {s \in Sides : a.seat[s] # NoUser}

HasPlayer(a, u) == \E s \in Sides : a.seat[s] = u

GetPlayerSide(a, u) == CHOOSE s \in Sides : a.seat[s] = u

GetCurrentLobbyState(a) ==
    IF a.round = "Won" THEN "Finished"
    ELSE IF Occupied(a) = Sides THEN "Running"
    ELSE IF Occupied(a) = {} THEN "Empty"
    ELSE "Waiting"

\* Mutant: the old round is kept.
KeepRound(a) == a

ResetLobby(a) == [a EXCEPT !.round = "Fresh"]

Answer(a, reply) == [actor |-> a, reply |-> reply]

\* The left seat is filled first.
InsertPlayer(a, u) ==
    IF HasPlayer(a, u) \/ Occupied(a) = Sides
    THEN Answer(a, "Error")
    ELSE LET s == IF "Left" \in Occupied(a) THEN "Right" ELSE "Left"
             b == [a EXCEPT !.seat[s] = u]
         IN  Answer(b, GetCurrentLobbyState(b))

\* Mutant: the round goes on without the player who left.
RemoveWithoutReset(a, u) ==
    IF HasPlayer(a, u)
    THEN LET b == [a EXCEPT !.seat[GetPlayerSide(a, u)] = NoUser]
         IN  Answer(b, GetCurrentLobbyState(b))
    ELSE Answer(a, "Error")

\* The round is reset before anything else, even for a stranger.
RemovePlayer(a, u) ==
    LET fresh == ResetLobby(a)
    IN  IF HasPlayer(a, u)
        THEN LET b == [fresh EXCEPT !.seat[GetPlayerSide(a, u)] = NoUser]
             IN  Answer(b, GetCurrentLobbyState(b))
        ELSE Answer(fresh, "Error")

(***************************************************************************)
(* GameSession::set_turn_action: rejected outside the choice phase and for *)
(* the dead, otherwise the turn may resolve, into a dodge or a win.        *)
(***************************************************************************)
AfterAction(r) ==
    IF r = "Fresh" THEN {"Choosing"} ELSE {"Choosing", "Dodging", "Won"}

TurnAction(a, u) ==
    {Answer(a, "Error")} \cup
    (IF HasPlayer(a, u) /\ a.round \in {"Fresh", "Choosing"}
     THEN {Answer([a EXCEPT !.round = r], IF r = "Won" THEN "Win" ELSE "Ok") :
               r \in AfterAction(a.round)}
     ELSE {})

\* An input from somebody who does not play here is dropped.
MoveInput(a, u) ==
    IF HasPlayer(a, u) /\ a.round = "Fresh"
    THEN [a EXCEPT !.round = "Choosing"]
    ELSE a

\* What GameSession::step can make of a round in each of its stages.
AfterStep(r) ==
    IF r = "Dodging" THEN {"Dodging", "Choosing", "Won"} ELSE {"Choosing"}

\* step_game: only a running lobby is stepped.
StepGame(a) ==
    IF GetCurrentLobbyState(a) = "Running"
    THEN {[a EXCEPT !.round = r] : r \in AfterStep(a.round)}
    ELSE {a}

\* LobbySession::handle_message.  "Sent" answers a message without a oneshot.
HandleMessage(a, m) ==
    CASE m.kind = "InsertPlayer" -> {InsertPlayer(a, m.user)}
      [] m.kind = "RemovePlayer" -> {RemovePlayer(a, m.user)}
      [] m.kind = "TurnAction" -> TurnAction(a, m.user)
      [] m.kind = "MoveInput" -> {Answer(MoveInput(a, m.user), "Sent")}
      [] m.kind = "LobbyState" -> {Answer(a, GetCurrentLobbyState(a))}
      [] m.kind = "GetPlayerSide" ->
             {Answer(a, IF HasPlayer(a, m.user) THEN GetPlayerSide(a, m.user)
                                                ELSE "Error")}
      [] m.kind = "GetLeft" -> {Answer(a, a.seat["Left"])}
      [] m.kind = "GetRight" -> {Answer(a, a.seat["Right"])}
      [] m.kind = "ResetLobby" -> {Answer(ResetLobby(a), "Sent")}
=============================================================================
