------------------------- MODULE MatchmakingProofs --------------------------
(***************************************************************************)
(* A lobby never has more than two players, for any number of users and    *)
(* lobbies.                                                                *)
(***************************************************************************)
EXTENDS Matchmaking, TLAPS

\* NoLobby is the absence of a lobby id (Option::None).
MatchAssumption == NoLobby \notin Lobbies

MatchInv == MatchTypeOK /\ AtMostTwoPlayers

\* Somebody who joins a lobby with one player is the second one there.
LEMMA JoinSolo ==
    ASSUME MatchInv, NEW u \in Users, NEW l \in Solo,
           u \in online, lobby_of[u] = NoLobby, MoveTo(u, l)
    PROVE  MatchInv'
<1>1. /\ l \in Lobbies
      /\ lobby_of' = [lobby_of EXCEPT ![u] = l]
      /\ online' = online
  BY DEF Solo, MoveTo
<1>2. PICK v \in Users : PlayersOf(l) = {v}
  BY DEF Solo
<1>3. MatchTypeOK'
  BY <1>1 DEF MatchInv, MatchTypeOK
<1>4. \A w \in Users : lobby_of'[w] # NoLobby => w \in online'
  BY <1>1 DEF MatchInv, MatchTypeOK, AtMostTwoPlayers
<1>5. ASSUME NEW k \in Lobbies, NEW a \in PlayersOf(k)',
             NEW b \in PlayersOf(k)', NEW c \in PlayersOf(k)'
      PROVE  a = b \/ b = c \/ a = c
  <2>1. CASE k = l
    <3>1. PlayersOf(k)' \subseteq {u, v}
      BY <1>1, <1>2, <2>1 DEF PlayersOf, MatchInv, MatchTypeOK
    <3> QED
      BY <3>1
  <2>2. CASE k # l
    <3>1. PlayersOf(k)' \subseteq PlayersOf(k)
      BY <1>1, <2>2 DEF PlayersOf, MatchInv, MatchTypeOK
    <3> QED
      BY <3>1 DEF MatchInv, AtMostTwoPlayers
  <2> QED
    BY <2>1, <2>2
<1>6. AtMostTwoPlayers'
  BY <1>4, <1>5 DEF AtMostTwoPlayers
<1> QED
  BY <1>3, <1>6 DEF MatchInv

\* Somebody who opens a lobby is alone in it.
LEMMA JoinNew ==
    ASSUME MatchInv, NEW u \in Users, NEW l \in Lobbies,
           u \in online, lobby_of[u] = NoLobby, PlayersOf(l) = {},
           MoveTo(u, l)
    PROVE  MatchInv'
<1>1. lobby_of' = [lobby_of EXCEPT ![u] = l] /\ online' = online
  BY DEF MoveTo
<1>2. MatchTypeOK'
  BY <1>1 DEF MatchInv, MatchTypeOK
<1>3. \A w \in Users : lobby_of'[w] # NoLobby => w \in online'
  BY <1>1 DEF MatchInv, MatchTypeOK, AtMostTwoPlayers
<1>4. ASSUME NEW k \in Lobbies, NEW a \in PlayersOf(k)',
             NEW b \in PlayersOf(k)', NEW c \in PlayersOf(k)'
      PROVE  a = b \/ b = c \/ a = c
  <2>1. PlayersOf(k)' \subseteq {u} \/ PlayersOf(k)' \subseteq PlayersOf(k)
    BY <1>1 DEF PlayersOf, MatchInv, MatchTypeOK
  <2> QED
    BY <2>1 DEF MatchInv, AtMostTwoPlayers
<1> QED
  BY <1>2, <1>3, <1>4 DEF MatchInv, AtMostTwoPlayers

\* Taking a user out of his lobby leaves no lobby with more players.
LEMMA TakeOut ==
    ASSUME MatchAssumption, MatchInv, NEW u \in Users,
           lobby_of' = [lobby_of EXCEPT ![u] = NoLobby],
           online' = online \/ online' = online \ {u}
    PROVE  MatchInv'
<1>1. MatchTypeOK'
  BY DEF MatchInv, MatchTypeOK
<1>2. \A w \in Users : lobby_of'[w] # NoLobby => w \in online'
  BY DEF MatchInv, MatchTypeOK, AtMostTwoPlayers
<1>3. \A k \in Lobbies : PlayersOf(k)' \subseteq PlayersOf(k)
  BY DEF MatchAssumption, PlayersOf, MatchInv, MatchTypeOK
<1> QED
  BY <1>1, <1>2, <1>3 DEF MatchInv, AtMostTwoPlayers

\* However users come, join, leave and go, a lobby has at most two players,
\* all of them connected.
THEOREM NeverCrowded ==
    ASSUME MatchAssumption
    PROVE  MatchSpec => []AtMostTwoPlayers
<1>1. MatchInit => MatchInv
  BY DEF MatchAssumption, MatchInit, MatchInv, MatchTypeOK,
         AtMostTwoPlayers, PlayersOf
<1>2. MatchInv /\ [MatchNext]_matchVars => MatchInv'
  <2> SUFFICES ASSUME MatchInv, [MatchNext]_matchVars
               PROVE  MatchInv'
    OBVIOUS
  <2>1. ASSUME NEW u \in Users, Connect(u)
        PROVE  MatchInv'
    BY <2>1 DEF Connect, MatchInv, MatchTypeOK, AtMostTwoPlayers, PlayersOf
  <2>2. ASSUME NEW u \in Users, Disconnect(u)
        PROVE  MatchInv'
    BY <2>2, TakeOut DEF Disconnect
  <2>3. ASSUME NEW u \in Users, Join(u)
        PROVE  MatchInv'
    BY <2>3, JoinSolo, JoinNew DEF Join
  <2>4. ASSUME NEW u \in Users, Leave(u)
        PROVE  MatchInv'
    BY <2>4, TakeOut DEF Leave, MoveTo
  <2>5. CASE UNCHANGED matchVars
    BY <2>5
       DEF matchVars, MatchInv, MatchTypeOK, AtMostTwoPlayers, PlayersOf
  <2> QED
    BY <2>1, <2>2, <2>3, <2>4, <2>5 DEF MatchNext
<1>3. MatchInv => AtMostTwoPlayers
  BY DEF MatchInv
<1> QED
  BY <1>1, <1>2, <1>3, PTL DEF MatchSpec
=============================================================================
