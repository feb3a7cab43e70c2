------------------------------ MODULE LobbyUi ------------------------------
(***************************************************************************)
(* What one player sees and may press (UiState and the reliable messages   *)
(* in client/src/main.rs), against what the server does with that player.  *)
(*                                                                         *)
(* The server side is the lobby of this one player as modules Connection   *)
(* and LobbyServer describe it, with the partner's moves left open.  The   *)
(* rounds are numbered so that the properties can tell them apart: the     *)
(* program sends no such number.                                           *)
(***************************************************************************)
EXTENDS Naturals, Sequences

CONSTANTS
    MaxStream,   \* bound: messages under way to the client
    MaxSent,     \* bound: messages under way to the server
    MaxRound     \* bound: rounds the player sees in one connection

ASSUME UiAssumption ==
    /\ {MaxStream, MaxSent, MaxRound} \subseteq Nat
    /\ MaxStream > 1 /\ MaxSent > 0 /\ MaxRound > 1

VARIABLES
    ui,        \* client: screen, lobby_state, and the round it last heard of
    finished,  \* client: connection_finished_receiver
    down,      \* reliable messages to the client, in order
    up,        \* reliable messages to the server, in order
    link,      \* the connection as the server has it
    place,     \* LobbyState of the lobby the player sits in, Out if none
    round,     \* the round of that lobby
    acted,     \* the last choice of the player taken in this round: whether
               \* it was made on the screen of this round
    votes,     \* ContinueRound: the player's and the partner's
    orphan     \* an actor that no table knows still has the player's channel

client == <<ui, finished>>
lobby == <<place, round, acted, votes, orphan>>
vars == <<client, down, up, link, lobby>>

Screens == {"NotConnected", "Authenticating", "Connected", "LobbyWaiting",
            "LobbyRunning", "LobbyFinished", "LobbyVoted"}

LobbyStates == {"Empty", "Waiting", "Running", "Finished"}

ServerMessages == {"ConnectionAuthentication", "ConnectionInit", "LobbyInit"}
                      \cup LobbyStates

ClientMessages == {"JoinServer", "TurnAction", "Yes", "No"}

NoVotes == [me |-> "None", partner |-> "None"]

\* UiGameState::new
NewUi == [screen |-> "NotConnected", lobby_state |-> "Empty", shown |-> 0]

Init ==
    /\ ui = NewUi
    /\ finished = "None"
    /\ down = <<>>
    /\ up = <<>>
    /\ link = "Down"
    /\ place = "Out"
    /\ round = 0
    /\ acted = "None"
    /\ votes = NoVotes
    /\ orphan = FALSE

-----------------------------------------------------------------------------
(***************************************************************************)
(* The client's frame.                                                     *)
(***************************************************************************)

\* Mutant: the lobby state is not kept when the player is put out.
ForgetsEmpty(v, s) == IF s = "Empty" THEN v ELSE s

NewLobbyState(v, s) == s

ScreenOf(s) ==
    CASE s = "Empty" -> "Connected"
      [] s = "Waiting" -> "LobbyWaiting"
      [] s = "Running" -> "LobbyRunning"
      [] s = "Finished" -> "LobbyFinished"

\* A lobby state that is known already changes nothing.
HearLobbyState(v, m) ==
    IF v.lobby_state = m.kind THEN v
    ELSE [screen |-> ScreenOf(m.kind), shown |-> m.round,
          lobby_state |-> NewLobbyState(v.lobby_state, m.kind)]

\* Only ConnectionInit forgets the lobby state of an earlier connection.
Heard(v, m) ==
    CASE m.kind = "ConnectionAuthentication" ->
             [v EXCEPT !.screen = "Authenticating"]
      [] m.kind = "ConnectionInit" -> [NewUi EXCEPT !.screen = "Connected"]
      [] m.kind = "LobbyInit" -> [v EXCEPT !.screen = "LobbyWaiting"]
      [] OTHER -> HearLobbyState(v, m)

\* A frame looks for the end of the connection before it hears anything, and
\* the signal is gone then.
CheckFinished ==
    /\ finished = "Sent"
    /\ ui' = [ui EXCEPT !.screen = "NotConnected"]
    /\ finished' = "Taken"
    /\ UNCHANGED <<down, up, link, lobby>>

\* Then it hears the messages that have arrived, one by one.
Hear ==
    /\ down # <<>> /\ finished # "Sent"
    /\ ui' = Heard(ui, Head(down))
    /\ down' = Tail(down)
    /\ UNCHANGED <<finished, up, link, lobby>>

LeaveLobby == place' = "Out" /\ acted' = "None" /\ votes' = NoVotes

-----------------------------------------------------------------------------
(***************************************************************************)
(* The buttons, which are drawn last in a frame.  Everything was delivered *)
(* before the end of the connection, so the frame that finds the end hears *)
(* it all first.                                                           *)
(***************************************************************************)
Press(screen) == ui.screen = screen /\ (finished = "Taken" => down = <<>>)

\* A message of a connection that has ended goes nowhere.
Send(kind) ==
    IF link = "Down" THEN UNCHANGED up
    ELSE /\ Len(up) < MaxSent
         /\ up' = Append(up, [kind |-> kind, round |-> ui.shown])

\* reset_connection_and_join_lobby replaces every channel, which ends what an
\* earlier press began.
Connect ==
    /\ Press("NotConnected")
    /\ up' = <<[kind |-> "JoinServer", round |-> 0]>>
    /\ down' = <<>>
    /\ finished' = "None"
    /\ link' = "Login"
    /\ LeaveLobby /\ round' = 0 /\ orphan' = FALSE
    /\ UNCHANGED ui

FindGame ==
    /\ Press("Connected")
    /\ Send("JoinServer")
    /\ UNCHANGED <<client, down, link, lobby>>

Act ==
    /\ Press("LobbyRunning")
    /\ Send("TurnAction")
    /\ UNCHANGED <<client, down, link, lobby>>

VoteToContinue ==
    /\ Press("LobbyFinished")
    /\ \E v \in {"Yes", "No"} : Send(v)
    /\ ui' = [ui EXCEPT !.screen = "LobbyVoted"]
    /\ UNCHANGED <<finished, down, link, lobby>>

-----------------------------------------------------------------------------
(***************************************************************************)
(* The server's side of the connection.                                    *)
(***************************************************************************)
Tell(kinds) ==
    /\ Len(down) + Len(kinds) <= MaxStream
    /\ down' = down \o [i \in 1..Len(kinds) |->
                            [kind |-> kinds[i], round |-> round]]

Authenticate ==
    /\ link = "Login"
    /\ link' = "Announced"
    /\ Tell(<<"ConnectionAuthentication">>)
    /\ UNCHANGED <<client, up, lobby>>

Register ==
    /\ link = "Announced"
    /\ link' = "Up"
    /\ Tell(<<"ConnectionInit">>)
    /\ UNCHANGED <<client, up, lobby>>

\* The server ends the connection: disconnect_user tells a player who is in a
\* lobby that he is out before the lobby's actor knows.
Kick ==
    /\ link = "Up"
    /\ link' = "Closing"
    /\ Tell(IF place = "Out" THEN <<>> ELSE <<"Empty">>)
    /\ UNCHANGED <<client, up, lobby>>

\* The actor has let go of the player: no sender of the stream is left.
StreamEnds ==
    /\ link = "Closing" /\ ~ orphan
    /\ link' = "Down"
    /\ finished' = "Sent"
    /\ LeaveLobby
    /\ up' = <<>>
    /\ UNCHANGED <<ui, down, round, orphan>>

\* The network fails, or the server turns the login away: the client keeps
\* what has arrived.
LoseLink ==
    /\ link # "Down"
    /\ link' = "Down"
    /\ finished' = "Sent"
    /\ \E n \in 0..Len(down) : down' = SubSeq(down, 1, n)
    /\ LeaveLobby /\ orphan' = FALSE
    /\ up' = <<>>
    /\ UNCHANGED <<ui, round>>

\* A connection that was never made is not reported.
ConnectFails ==
    /\ link = "Login"
    /\ link' = "Down"
    /\ up' = <<>>
    /\ UNCHANGED <<client, down, lobby>>

-----------------------------------------------------------------------------
(***************************************************************************)
(* The player's lobby.  The operations of others wait while the player is  *)
(* being disconnected, the actor's ticks do not.                           *)
(***************************************************************************)

\* Mutant: the votes of the round before stay.
NewRoundOldVotes ==
    /\ round < MaxRound
    /\ round' = round + 1
    /\ acted' = "None"
    /\ UNCHANGED votes

NewRound ==
    /\ round < MaxRound
    /\ round' = round + 1
    /\ acted' = "None"
    /\ votes' = NoVotes

\* Mutant: a round can end before the player had a say in it.
AnyRound == TRUE

\* The first turn of a round waits for both players.
CanEnd == acted # "None"

RoundEnds ==
    /\ place = "Running" /\ CanEnd
    /\ place' = "Finished"
    /\ UNCHANGED <<client, down, up, link, round, acted, votes, orphan>>

PartnerJoins ==
    /\ link = "Up" /\ place = "Waiting"
    /\ place' = "Running"
    /\ NewRound
    /\ UNCHANGED <<client, down, up, link, orphan>>

\* Whatever the lobby was, its round is thrown away.
PartnerDisconnects ==
    /\ link = "Up" /\ place \in {"Running", "Finished"}
    /\ place' = "Waiting"
    /\ NewRound
    /\ UNCHANGED <<client, down, up, link, orphan>>

\* run_lobby_session: a tick tells the state even if it is the same.
Tick ==
    /\ place # "Out"
    /\ Tell(<<place>>)
    /\ UNCHANGED <<client, up, link, lobby>>

\* The actor of a lobby that two No votes took out of the table goes on until
\* it finds that its last handle is gone.
OrphanTick ==
    /\ orphan
    /\ Tell(<<"Finished">>)
    /\ UNCHANGED <<client, up, link, lobby>>

OrphanStops ==
    /\ orphan
    /\ orphan' = FALSE
    /\ UNCHANGED <<client, down, up, link, place, round, acted, votes>>

(***************************************************************************)
(* The votes of a finished lobby: handle_finished_lobby_message.           *)
(***************************************************************************)
PutOut == LeaveLobby /\ Tell(<<"Empty">>) /\ UNCHANGED round

CountVotes(v) ==
    CASE v.me = "Yes" /\ v.partner = "Yes" ->
             place' = "Running" /\ NewRound /\ UNCHANGED <<down, orphan>>
      [] v.me = "Yes" /\ v.partner = "No" ->
             place' = "Waiting" /\ NewRound /\ UNCHANGED <<down, orphan>>
      [] v.me = "No" /\ v.partner = "Yes" -> PutOut /\ UNCHANGED orphan
      [] v.me = "No" /\ v.partner = "No" -> PutOut /\ orphan' = TRUE
      [] OTHER ->
             votes' = v /\ UNCHANGED <<down, place, round, acted, orphan>>

PartnerVotes ==
    /\ link = "Up" /\ place = "Finished"
    /\ \E v \in {"Yes", "No"} : CountVotes([votes EXCEPT !.partner = v])
    /\ UNCHANGED <<client, up, link>>

\* put_connected_user_in_lobby
Join ==
    \/ /\ place' = "Waiting"
       /\ Tell(<<"LobbyInit">>)
       /\ UNCHANGED <<round, acted, votes, orphan>>
    \/ /\ place' = "Running"
       /\ Tell(<<"LobbyInit">>)
       /\ NewRound
       /\ UNCHANGED orphan

Ignore == UNCHANGED <<down, lobby>>

\* It may be rejected.
TakeAction(shown) ==
    /\ acted' \in {acted, IF shown = round THEN "Seen" ELSE "Stale"}
    /\ UNCHANGED <<down, place, round, votes, orphan>>

\* handle_user_reliable_rpc: what a message does depends on where the player
\* is when it arrives.
Receive ==
    /\ link = "Up" /\ up # <<>>
    /\ up' = Tail(up)
    /\ LET kind == Head(up).kind
       IN  CASE kind = "JoinServer" /\ place = "Out" -> Join
             [] kind = "TurnAction" /\ place = "Running" ->
                    TakeAction(Head(up).round)
             [] kind \in {"Yes", "No"} /\ place = "Finished" ->
                    CountVotes([votes EXCEPT !.me = kind])
             [] OTHER -> Ignore
    /\ UNCHANGED <<client, link>>

-----------------------------------------------------------------------------
Buttons == Connect \/ FindGame \/ Act \/ VoteToContinue

ServerLink ==
    Authenticate \/ Register \/ Receive \/ Kick \/ StreamEnds \/ LoseLink
        \/ ConnectFails

ServerLobby ==
    RoundEnds \/ PartnerJoins \/ PartnerDisconnects \/ PartnerVotes \/ Tick
        \/ OrphanTick \/ OrphanStops

Frame == CheckFinished \/ Hear

Next == Frame \/ Buttons \/ ServerLink \/ ServerLobby

\* The client draws frames, the lobby's actor ticks and a forgotten actor
\* stops (OrphansStop in LobbyServer); nobody has to press or to leave.
Fairness ==
    /\ WF_vars(CheckFinished) /\ WF_vars(Hear)
    /\ WF_vars(Tick) /\ WF_vars(OrphanStops)

Spec == Init /\ [][Next]_vars /\ Fairness

-----------------------------------------------------------------------------
(***************************************************************************)
(* Properties.                                                             *)
(***************************************************************************)

\* Every variable has its type, and there are votes only in a finished lobby.
TypeOK ==
    /\ ui \in [screen : Screens, lobby_state : LobbyStates, shown : 0..MaxRound]
    /\ finished \in {"None", "Sent", "Taken"}
    /\ down \in Seq([kind : ServerMessages, round : 0..MaxRound])
    /\ Len(down) <= MaxStream
    /\ up \in Seq([kind : ClientMessages, round : 0..MaxRound])
    /\ Len(up) <= MaxSent
    /\ link \in {"Down", "Login", "Announced", "Up", "Closing"}
    /\ place \in (LobbyStates \ {"Empty"}) \cup {"Out"}
    /\ round \in 0..MaxRound
    /\ acted \in {"None", "Seen", "Stale"}
    /\ votes \in [{"me", "partner"} -> {"None", "Yes", "No"}]
    /\ (votes # NoVotes => place = "Finished")
    /\ orphan \in BOOLEAN

\* Votes and choices name no round and may cross votes, leaves and joins on
\* their way.  A vote cast on an earlier round's screen is still never counted
\* for a round, unless a choice made on an earlier round's screen was taken
\* for it before: the round waits for the player, and the stream is in order
\* (handle_finished_lobby_message, set_turn_action).
StaleVoteNeedsStaleChoice ==
    [][link = "Up" /\ place = "Finished" /\ up # <<>> /\ up' = Tail(up)
           /\ Head(up).kind \in {"Yes", "No"} /\ Head(up).round # round
               => acted = "Stale"]_vars

ScreensFor(s) ==
    CASE s = "Waiting" -> {"LobbyWaiting"}
      [] s = "Running" -> {"LobbyRunning"}
      [] s = "Finished" -> {"LobbyFinished", "LobbyVoted"}

\* When a lobby keeps its state, its player ends up on the screen of that
\* state and stays there, although the client skips states it believes to
\* know and sets the screen in five other places.  (A player who is put out
\* may stay on a stale screen: EvictedIsTold in LobbyServer is violated.)
ScreenSettles ==
    \A s \in {"Waiting", "Running", "Finished"} :
        <>[](link = "Up" /\ place = s) => <>[](ui.screen \in ScreensFor(s))

\* The "find a game" screen is for players who are "out of the lobby but still
\* connected and authenticated": a client that has noticed the end of its
\* connection does not show it.
StillConnected == ui.screen = "Connected" => finished # "Taken"
=============================================================================
