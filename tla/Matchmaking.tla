---------------------------- MODULE Matchmaking -----------------------------
(***************************************************************************)
(* What the server promises those who look for a game, with no actors, no  *)
(* mailboxes and no awaits: each operation happens at once.  A newcomer    *)
(* joins somebody who waits alone; only if nobody does is a new lobby      *)
(* opened.                                                                 *)
(***************************************************************************)
CONSTANTS Users, Lobbies, NoLobby

VARIABLES
    online,    \* the connected users
    lobby_of   \* the lobby each user is in

matchVars == <<online, lobby_of>>

PlayersOf(l) == {u \in Users : lobby_of[u] = l}

\* The lobbies in which exactly one player waits.
Solo == {l \in Lobbies : \E u \in Users : PlayersOf(l) = {u}}

MatchInit == online = {} /\ lobby_of = [u \in Users |-> NoLobby]

Connect(u) ==
    /\ u \notin online
    /\ online' = online \cup {u}
    /\ UNCHANGED lobby_of

Disconnect(u) ==
    /\ u \in online
    /\ online' = online \ {u}
    /\ lobby_of' = [lobby_of EXCEPT ![u] = NoLobby]

MoveTo(u, l) ==
    /\ lobby_of' = [lobby_of EXCEPT ![u] = l]
    /\ UNCHANGED online

Join(u) ==
    /\ u \in online
    /\ lobby_of[u] = NoLobby
    /\ \/ \E l \in Solo : MoveTo(u, l)
       \/ /\ Solo = {}
          /\ \E l \in Lobbies : PlayersOf(l) = {} /\ MoveTo(u, l)

Leave(u) ==
    /\ lobby_of[u] # NoLobby
    /\ MoveTo(u, NoLobby)

MatchNext ==
    \E u \in Users : Connect(u) \/ Disconnect(u) \/ Join(u) \/ Leave(u)

MatchSpec == MatchInit /\ [][MatchNext]_matchVars

MatchTypeOK ==
    /\ online \subseteq Users
    /\ lobby_of \in [Users -> Lobbies \cup {NoLobby}]

\* A lobby never has more than two players (the note on
\* put_connected_user_in_lobby assumes it), and players are connected.
AtMostTwoPlayers ==
    /\ \A u \in Users : lobby_of[u] # NoLobby => u \in online
    /\ \A l \in Lobbies :
           \A a, b, c \in PlayersOf(l) : a = b \/ b = c \/ a = c
=============================================================================
