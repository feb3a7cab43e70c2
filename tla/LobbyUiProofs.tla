--------------------------- MODULE LobbyUiProofs ----------------------------
(***************************************************************************)
(* Proofs about what one player sees and presses, for streams of any       *)
(* length and any number of rounds.  No message names a round; a vote is   *)
(* counted for the right one because both streams are in order (InOrder)   *)
(* and a round waits for the player's choice (SeenRound).                  *)
(***************************************************************************)
EXTENDS LobbyUi, SequenceTheorems, TLAPS

\* Streams hold messages of the type they are declared with.
Downs == [kind : ServerMessages, round : 0..MaxRound]
Ups == [kind : ClientMessages, round : 0..MaxRound]

\* The server has the player's connection in its table.
Served == link \in {"Up", "Closing"}

\* The client has not heard yet that its connection is made.
Greeting ==
    \/ link \in {"Login", "Announced"}
    \/ Served /\ \E i \in 1..Len(down) : down[i].kind = "ConnectionInit"

\* Until then it shows no screen with a button for a lobby, and has sent
\* nothing but the request that goes with the connection.
Quiet ==
    Greeting =>
        /\ ui.screen \in {"NotConnected", "Authenticating"}
        /\ \A i \in 1..Len(up) : up[i].kind = "JoinServer" /\ up[i].round = 0

\* Where the connection is not in the table, the player is in no lobby.
Outside ==
    ~ Served => place = "Out" /\ ~ orphan

\* What is under way before the greeting only announces the login.
GreetingFirst ==
    /\ link = "Login" => down = <<>>
    /\ link = "Announced" =>
           \A i \in 1..Len(down) : down[i].kind = "ConnectionAuthentication"
    /\ Served => \A j \in 1..Len(down) :
                     down[j].kind = "ConnectionInit" =>
                         \A i \in 1..(j - 1) :
                             down[i].kind = "ConnectionAuthentication"

\* From the server to the client and back, rounds only go up: what is under
\* way to the server, what the client shows, what is under way to it, and the
\* round that is played.
InOrder ==
    /\ link # "Down" =>
           /\ \A i \in 1..Len(down) : down[i].round <= round
           /\ \A i, j \in 1..Len(down) : i < j => down[i].round <= down[j].round
           /\ \A i, j \in 1..Len(up) : i < j => up[i].round <= up[j].round
    /\ Served /\ ~ Greeting =>
           /\ ui.shown <= round
           /\ \A i \in 1..Len(down) : ui.shown <= down[i].round
           /\ \A i \in 1..Len(up) : up[i].round <= ui.shown

\* Once a choice was made on the screen of this round, everything after it was
\* sent in this round; and a round does not end without a choice.
SeenRound ==
    /\ acted # "None" => Served /\ ~ Greeting
    /\ acted = "Seen" =>
           ui.shown = round /\ \A i \in 1..Len(up) : up[i].round = round
    /\ place = "Finished" => acted # "None"

IInv == TypeOK /\ Outside /\ Quiet /\ GreetingFirst /\ InOrder /\ SeenRound

-----------------------------------------------------------------------------
(***************************************************************************)
(* Streams.                                                                *)
(***************************************************************************)
LEMMA Bounds ==
    /\ MaxStream \in Nat /\ MaxSent \in Nat /\ MaxRound \in Nat
    /\ MaxStream > 1 /\ MaxSent > 0 /\ MaxRound > 1
BY UiAssumption DEF UiAssumption

LEMMA StreamTypes ==
    ASSUME TypeOK
    PROVE  /\ down \in Seq(Downs) /\ Len(down) \in Nat
           /\ up \in Seq(Ups) /\ Len(up) \in Nat
           /\ \A i \in 1..Len(down) : /\ down[i] \in Downs
                                      /\ down[i].round \in Nat
           /\ \A i \in 1..Len(up) : /\ up[i] \in Ups
                                    /\ up[i].round \in Nat
<1>1. down \in Seq(Downs) /\ up \in Seq(Ups)
    BY DEF TypeOK, Downs, Ups
<1>2. Len(down) \in Nat /\ Len(up) \in Nat
    BY <1>1
<1>3. /\ \A i \in 1..Len(down) : down[i] \in Downs
      /\ \A i \in 1..Len(up) : up[i] \in Ups
    BY <1>1, ElementOfSeq
<1>4. /\ \A m \in Downs : m.round \in Nat
      /\ \A m \in Ups : m.round \in Nat
    BY Bounds DEF Downs, Ups
<1> QED
    BY <1>1, <1>2, <1>3, <1>4

\* The server's message k comes last.
Hears(k) ==
    /\ Len(down) < MaxStream
    /\ down' = Append(down, [kind |-> k, round |-> round])

LEMMA TellOne ==
    ASSUME TypeOK, NEW k, Tell(<<k>>)
    PROVE  Hears(k)
<1> DEFINE m == [kind |-> k, round |-> round]
           told == [i \in 1..Len(<<k>>) |-> [kind |-> <<k>>[i], round |-> round]]
<1>1. Len(<<k>>) = 1 /\ <<k>>[1] = k
    OBVIOUS
<1>2. told = <<m>>
    <2>1. told = [i \in 1..1 |-> m]
        BY <1>1
    <2>2. <<m>> = [i \in 1..1 |-> m]
        OBVIOUS
    <2> QED
        BY <2>1, <2>2
<1>3. Len(down) + 1 <= MaxStream /\ down' = down \o told
    BY <1>1 DEF Tell
<1>4. Len(down) \in Nat
    BY DEF TypeOK
<1> HIDE DEF m
<1>5. down \o <<m>> = Append(down, m)
    BY StreamTypes
<1> QED
    BY <1>2, <1>3, <1>4, <1>5, Bounds DEF Hears, m

LEMMA TellNothing ==
    ASSUME TypeOK, Tell(<<>>)
    PROVE  down' = down
<1> DEFINE told == [i \in 1..Len(<<>>) |-> [kind |-> <<>>[i], round |-> round]]
<1>1. told = <<>>
    OBVIOUS
<1>2. down' = down \o told
    BY DEF Tell
<1> HIDE DEF told
<1>3. down \in Seq(Downs)
    BY StreamTypes
<1> QED
    BY <1>1, <1>2, <1>3

LEMMA HearsLast ==
    ASSUME TypeOK, NEW k \in ServerMessages, Hears(k), NEW N, N = Len(down)
    PROVE  /\ N \in Nat
           /\ down' \in Seq(Downs) /\ Len(down') = N + 1 /\ N < MaxStream
           /\ \A i \in 1..N : down'[i] = down[i]
           /\ down'[N + 1].kind = k /\ down'[N + 1].round = round
<1> DEFINE m == [kind |-> k, round |-> round]
<1>1. m \in Downs /\ m.kind = k /\ m.round = round
    BY DEF TypeOK, Downs
<1>2. down' = Append(down, m) /\ N < MaxStream /\ down \in Seq(Downs)
    BY StreamTypes DEF Hears
<1> HIDE DEF m
<1> QED
    BY <1>1, <1>2

-----------------------------------------------------------------------------
(***************************************************************************)
(* Steps of the server for a player it has in its table.                   *)
(***************************************************************************)
LobbyNews == {"LobbyInit"} \cup LobbyStates

\* The streams: a message more to the client, one less from it.
DownStep == down' = down \/ \E k \in LobbyNews : Hears(k)

UpStep == up' = up \/ (up # <<>> /\ up' = Tail(up))

\* The rounds: a new one begins without a choice; a choice that is taken was
\* made on the screen of its message.
RoundStep ==
    \/ acted' = "None" /\ round' \in {round, round + 1}
    \/ acted' = acted /\ round' = round
    \/ /\ round' = round /\ up # <<>> /\ Head(up).kind = "TurnAction"
       /\ up' = Tail(up)
       /\ acted' = IF Head(up).round = round THEN "Seen" ELSE "Stale"

LEMMA DownStepKeeps ==
    ASSUME TypeOK, DownStep, NEW N, N = Len(down), NEW M, M = Len(down')
    PROVE  /\ N \in Nat /\ M \in Nat /\ (M = N \/ M = N + 1)
           /\ down' \in Seq(Downs) /\ Len(down') <= MaxStream
           /\ \A i \in 1..N : down'[i] = down[i]
           /\ M = N + 1 => /\ down'[M].round = round
                           /\ down'[M].kind \in LobbyNews
<1>1. CASE down' = down
    <2>1. N \in Nat /\ M = N /\ down' \in Seq(Downs) /\ Len(down') <= MaxStream
        BY <1>1, StreamTypes DEF TypeOK
    <2> QED
        BY <1>1, <2>1
<1>2. CASE \E k \in LobbyNews : Hears(k)
    <2>1. PICK k \in LobbyNews : Hears(k)
        BY <1>2
    <2>2. k \in ServerMessages
        BY DEF LobbyNews, ServerMessages
    <2>3. /\ N \in Nat
          /\ down' \in Seq(Downs) /\ Len(down') = N + 1 /\ N < MaxStream
          /\ \A i \in 1..N : down'[i] = down[i]
          /\ down'[N + 1].kind = k /\ down'[N + 1].round = round
        BY <2>1, <2>2, HearsLast
    <2>4. M = N + 1 /\ M <= MaxStream
        BY <2>3, Bounds
    <2> QED
        BY <2>3, <2>4
<1> QED
    BY <1>1, <1>2 DEF DownStep

LEMMA UpStepKeeps ==
    ASSUME TypeOK, UpStep
    PROVE  /\ up' \in Seq(Ups) /\ Len(up') \in Nat /\ Len(up') <= MaxSent
           /\ \E c \in {0, 1} : /\ Len(up') = Len(up) - c
                                /\ \A i \in 1..Len(up') : up'[i] = up[i + c]
<1>1. up \in Seq(Ups) /\ Len(up) \in Nat /\ Len(up) <= MaxSent
    BY StreamTypes DEF TypeOK
<1>2. CASE up' = up
    <2>1. Len(up') = Len(up) - 0 /\ \A i \in 1..Len(up') : up'[i] = up[i + 0]
        BY <1>1, <1>2
    <2> QED
        BY <1>1, <1>2, <2>1
<1>3. CASE up # <<>> /\ up' = Tail(up)
    <2>1. /\ up' \in Seq(Ups) /\ Len(up') = Len(up) - 1 /\ Len(up') \in Nat
          /\ \A i \in 1..Len(up') : up'[i] = up[i + 1]
        BY <1>1, <1>3
    <2> QED
        BY <1>1, <2>1, Bounds
<1> QED
    BY <1>2, <1>3 DEF UpStep

LEMMA ServedStep ==
    ASSUME IInv, Served, link' \in {"Up", "Closing"}, UNCHANGED client,
           DownStep, UpStep, RoundStep,
           round' \in 0..MaxRound,
           place' \in (LobbyStates \ {"Empty"}) \cup {"Out"},
           votes' \in [{"me", "partner"} -> {"None", "Yes", "No"}],
           votes' # NoVotes => place' = "Finished",
           orphan' \in BOOLEAN,
           place' = "Finished" => acted' # "None"
    PROVE  IInv'
<1> USE DEF client
<1>1. PICK N, M : N = Len(down) /\ M = Len(down')
    OBVIOUS
<1>2. /\ N \in Nat /\ M \in Nat /\ (M = N \/ M = N + 1)
      /\ down' \in Seq(Downs) /\ Len(down') <= MaxStream
      /\ \A i \in 1..N : down'[i] = down[i]
      /\ M = N + 1 => /\ down'[M].round = round
                      /\ down'[M].kind \in LobbyNews
    BY <1>1, DownStepKeeps DEF IInv
<1>3. PICK c \in {0, 1} : /\ Len(up') = Len(up) - c
                          /\ \A i \in 1..Len(up') : up'[i] = up[i + c]
    BY UpStepKeeps DEF IInv
<1>4. /\ up' \in Seq(Ups) /\ Len(up') \in Nat /\ Len(up') <= MaxSent
      /\ Len(up) \in Nat
    BY UpStepKeeps, StreamTypes DEF IInv
<1>5. \A i \in 1..Len(up') : i + c \in 1..Len(up) /\ up'[i] = up[i + c]
    BY <1>3, <1>4
<1>6. /\ round \in Nat /\ round' \in Nat /\ round <= round'
      /\ ui.shown \in Nat
      /\ \A i \in 1..N : down[i].round \in Nat
      /\ \A i \in 1..Len(up) : up[i].round \in Nat
    <2>1. round \in Nat /\ round' \in Nat /\ ui.shown \in Nat
        BY Bounds DEF IInv, TypeOK
    <2>2. round <= round'
        BY <2>1 DEF RoundStep
    <2> QED
        BY <1>1, <2>1, <2>2, StreamTypes DEF IInv
<1>7. Served'
    BY DEF Served
<1>8. ~ ("ConnectionInit" \in LobbyNews)
    BY DEF LobbyNews, LobbyStates
<1>9. Greeting' <=> Greeting
    <2>1. ASSUME NEW i \in 1..N, down[i].kind = "ConnectionInit"
          PROVE  \E j \in 1..M : down'[j].kind = "ConnectionInit"
        BY <1>2, <2>1
    <2>2. ASSUME NEW i \in 1..M, down'[i].kind = "ConnectionInit"
          PROVE  \E j \in 1..N : down[j].kind = "ConnectionInit"
        <3>1. i # N + 1
            BY <1>2, <1>8, <2>2
        <3>2. i \in 1..N /\ down'[i] = down[i]
            BY <1>2, <3>1
        <3> QED
            BY <2>2, <3>2
    <2>3. /\ ~ (link \in {"Login", "Announced"})
          /\ ~ (link' \in {"Login", "Announced"})
        BY DEF Served
    <2> QED
        BY <1>1, <1>7, <2>1, <2>2, <2>3 DEF Greeting
<1>10. TypeOK'
    <2>1. acted' \in {"None", "Seen", "Stale"}
        BY DEF RoundStep, IInv, TypeOK
    <2> QED
        BY <1>2, <1>4, <2>1 DEF IInv, TypeOK, Downs, Ups
<1>11. Outside'
    BY <1>7 DEF Outside
<1>12. Quiet'
    <2> SUFFICES ASSUME Greeting
                 PROVE  /\ ui.screen \in {"NotConnected", "Authenticating"}
                        /\ \A i \in 1..Len(up') : /\ up'[i].kind = "JoinServer"
                                                  /\ up'[i].round = 0
        BY <1>9 DEF Quiet
    <2> QED
        BY <1>5 DEF IInv, Quiet
<1>13. GreetingFirst'
    <2>1. ASSUME NEW j \in 1..M, down'[j].kind = "ConnectionInit",
                 NEW i \in 1..(j - 1)
          PROVE  down'[i].kind = "ConnectionAuthentication"
        <3>1. j # N + 1
            BY <1>2, <1>8, <2>1
        <3>2. j \in 1..N /\ i \in 1..N
              /\ down'[j] = down[j] /\ down'[i] = down[i]
            BY <1>2, <3>1
        <3> QED
            BY <1>1, <2>1, <3>2 DEF IInv, GreetingFirst
    <2> QED
        BY <1>1, <1>7, <2>1 DEF GreetingFirst, Served
<1>14. InOrder'
    <2>0. link # "Down"
        BY DEF Served
    <2>1. ASSUME NEW i \in 1..M
          PROVE  down'[i].round <= round /\ down'[i].round \in Nat
        <3>1. CASE i = N + 1
            BY <1>2, <1>6, <3>1
        <3>2. CASE i # N + 1
            <4>1. i \in 1..N /\ down'[i] = down[i]
                BY <1>2, <3>2
            <4>2. down[i].round <= round
                BY <1>1, <2>0, <4>1 DEF IInv, InOrder
            <4> QED
                BY <1>6, <4>1, <4>2
        <3> QED
            BY <3>1, <3>2
    <2>2. ASSUME NEW i \in 1..M
          PROVE  down'[i].round <= round'
        BY <1>6, <2>1
    <2>3. ASSUME NEW i \in 1..M, NEW j \in 1..M, i < j
          PROVE  down'[i].round <= down'[j].round
        <3>1. i \in 1..N /\ down'[i] = down[i]
            BY <1>2, <2>3
        <3>2. CASE j = N + 1
            BY <1>2, <2>1, <3>2
        <3>3. CASE j # N + 1
            <4>1. j \in 1..N /\ down'[j] = down[j]
                BY <1>2, <3>3
            <4> QED
                BY <1>1, <2>0, <2>3, <3>1, <4>1 DEF IInv, InOrder
        <3> QED
            BY <3>2, <3>3
    <2>4. ASSUME NEW i \in 1..Len(up'), NEW j \in 1..Len(up'), i < j
          PROVE  up'[i].round <= up'[j].round
        <3>1. /\ i + c \in 1..Len(up) /\ up'[i] = up[i + c]
              /\ j + c \in 1..Len(up) /\ up'[j] = up[j + c]
              /\ i + c < j + c
            BY <1>5, <2>4
        <3> QED
            BY <2>0, <3>1 DEF IInv, InOrder
    <2>5. ASSUME ~ Greeting
          PROVE  /\ ui.shown <= round'
                 /\ \A i \in 1..M : ui.shown <= down'[i].round
                 /\ \A i \in 1..Len(up') : up'[i].round <= ui.shown
        <3>1. /\ ui.shown <= round
              /\ \A i \in 1..N : ui.shown <= down[i].round
              /\ \A i \in 1..Len(up) : up[i].round <= ui.shown
            BY <1>1, <2>5 DEF IInv, InOrder
        <3>2. ui.shown <= round'
            BY <1>6, <3>1
        <3>3. ASSUME NEW i \in 1..M
              PROVE  ui.shown <= down'[i].round
            <4>1. CASE i = N + 1
                BY <1>2, <3>1, <4>1
            <4>2. CASE i # N + 1
                <5>1. i \in 1..N /\ down'[i] = down[i]
                    BY <1>2, <4>2
                <5> QED
                    BY <3>1, <5>1
            <4> QED
                BY <4>1, <4>2
        <3> QED
            BY <1>5, <3>1, <3>2, <3>3
    <2> QED
        BY <1>1, <1>9, <2>2, <2>3, <2>4, <2>5 DEF InOrder
<1>15. SeenRound'
    <2>0. link # "Down"
        BY DEF Served
    <2>1. CASE acted' = "None"
        BY <2>1 DEF SeenRound
    <2>2. CASE acted' = acted /\ acted # "None" /\ round' = round
        <3>1. /\ ~ Greeting
              /\ acted = "Seen" =>
                     /\ ui.shown = round
                     /\ \A i \in 1..Len(up) : up[i].round = round
            BY <2>2 DEF IInv, SeenRound
        <3>2. acted = "Seen" => \A i \in 1..Len(up') : up'[i].round = round
            BY <1>5, <3>1
        <3> QED
            BY <1>7, <1>9, <2>2, <3>1, <3>2 DEF SeenRound
    <2>3. CASE /\ round' = round /\ up # <<>> /\ Head(up).kind = "TurnAction"
               /\ up' = Tail(up)
               /\ acted' = IF Head(up).round = round THEN "Seen" ELSE "Stale"
        <3>1. 1 \in 1..Len(up) /\ up[1] = Head(up)
            BY <1>4, <2>3, StreamTypes DEF IInv
        <3>2. ~ Greeting
            BY <2>3, <3>1 DEF IInv, Quiet
        <3>3. ASSUME Head(up).round = round
              PROVE  /\ ui.shown = round
                     /\ \A i \in 1..Len(up') : up'[i].round = round
            <4>1. ui.shown <= round
                  /\ \A i \in 1..Len(up) : up[i].round <= ui.shown
                BY <3>2 DEF IInv, InOrder
            <4>2. ui.shown = round
                BY <1>6, <3>1, <3>3, <4>1
            <4>3. ASSUME NEW i \in 1..Len(up)
                  PROVE  up[i].round = round
                <5>1. i = 1 \/ 1 < i
                    BY <1>4
                <5>2. up[1].round <= up[i].round
                    BY <1>6, <2>0, <3>1, <5>1 DEF IInv, InOrder
                <5> QED
                    BY <1>6, <3>1, <3>3, <4>1, <4>2, <5>2
            <4> QED
                BY <1>5, <4>2, <4>3
        <3> QED
            BY <1>7, <1>9, <2>3, <3>2, <3>3 DEF SeenRound
    <2> QED
        BY <2>1, <2>2, <2>3 DEF RoundStep
<1> QED
    BY <1>10, <1>11, <1>12, <1>13, <1>14, <1>15 DEF IInv

-----------------------------------------------------------------------------
(***************************************************************************)
(* The actions of the lobby.                                               *)
(***************************************************************************)
LEMMA VotesStay ==
    ASSUME TypeOK, votes' = votes, place' = place
    PROVE  /\ votes' \in [{"me", "partner"} -> {"None", "Yes", "No"}]
           /\ votes' # NoVotes => place' = "Finished"
BY DEF TypeOK

LEMMA NoVotesType == NoVotes \in [{"me", "partner"} -> {"None", "Yes", "No"}]
BY DEF NoVotes

LEMMA NewRoundKeeps ==
    ASSUME TypeOK, NewRound
    PROVE  /\ round' \in 0..MaxRound /\ RoundStep
           /\ votes' \in [{"me", "partner"} -> {"None", "Yes", "No"}]
           /\ votes' = NoVotes /\ acted' = "None"
<1>1. round' \in 0..MaxRound
    BY Bounds DEF NewRound, TypeOK
<1> QED
    BY <1>1, NoVotesType DEF NewRound, RoundStep

LEMMA Links ==
    ASSUME Served, UNCHANGED link
    PROVE  link' \in {"Up", "Closing"}
BY DEF Served

LEMMA KickInv ==
    ASSUME IInv, Kick
    PROVE  IInv'
<1>1. DownStep
    <2>1. CASE place = "Out"
        BY <2>1, TellNothing DEF IInv, Kick, DownStep
    <2>2. CASE place # "Out"
        <3>1. Hears("Empty")
            BY <2>2, TellOne DEF IInv, Kick
        <3> QED
            BY <3>1 DEF DownStep, LobbyNews, LobbyStates
    <2> QED
        BY <2>1, <2>2
<1>2. RoundStep /\ UpStep
    BY DEF Kick, lobby, RoundStep, UpStep
<1>3. /\ Served /\ link' \in {"Up", "Closing"} /\ UNCHANGED client
      /\ place' = place /\ votes' = votes
    BY DEF Kick, Served, lobby
<1>4. /\ round' \in 0..MaxRound /\ orphan' \in BOOLEAN
      /\ place' \in (LobbyStates \ {"Empty"}) \cup {"Out"}
      /\ place' = "Finished" => acted' # "None"
    BY DEF Kick, lobby, IInv, TypeOK, SeenRound
<1> QED
    BY <1>1, <1>2, <1>3, <1>4, VotesStay, ServedStep DEF IInv

LEMMA RoundEndsInv ==
    ASSUME IInv, RoundEnds
    PROVE  IInv'
<1>1. DownStep /\ RoundStep /\ UpStep
    BY DEF RoundEnds, DownStep, RoundStep, UpStep
<1>2. Served
    BY DEF RoundEnds, IInv, Outside
<1>3. UNCHANGED client /\ link' \in {"Up", "Closing"}
    BY <1>2, Links DEF RoundEnds
<1>4. /\ round' \in 0..MaxRound /\ orphan' \in BOOLEAN
      /\ place' \in (LobbyStates \ {"Empty"}) \cup {"Out"}
      /\ place' = "Finished" /\ acted' # "None"
    BY DEF RoundEnds, CanEnd, IInv, TypeOK, LobbyStates
<1>5. votes' \in [{"me", "partner"} -> {"None", "Yes", "No"}]
    BY DEF RoundEnds, IInv, TypeOK
<1> QED
    BY <1>1, <1>2, <1>3, <1>4, <1>5, ServedStep

LEMMA PartnerJoinsInv ==
    ASSUME IInv, PartnerJoins
    PROVE  IInv'
<1>1. /\ NewRound /\ place' = "Running" /\ UNCHANGED client
      /\ Served /\ link' \in {"Up", "Closing"} /\ DownStep /\ UpStep
    BY DEF PartnerJoins, Served, DownStep, UpStep
<1>2. /\ orphan' \in BOOLEAN
      /\ place' \in (LobbyStates \ {"Empty"}) \cup {"Out"}
      /\ place' # "Finished"
    BY <1>1 DEF PartnerJoins, IInv, TypeOK, LobbyStates
<1> QED
    BY <1>1, <1>2, NewRoundKeeps, ServedStep DEF IInv

LEMMA PartnerDisconnectsInv ==
    ASSUME IInv, PartnerDisconnects
    PROVE  IInv'
<1>1. /\ NewRound /\ place' = "Waiting" /\ UNCHANGED client
      /\ Served /\ link' \in {"Up", "Closing"} /\ DownStep /\ UpStep
    BY DEF PartnerDisconnects, Served, DownStep, UpStep
<1>2. /\ orphan' \in BOOLEAN
      /\ place' \in (LobbyStates \ {"Empty"}) \cup {"Out"}
      /\ place' # "Finished"
    BY <1>1 DEF PartnerDisconnects, IInv, TypeOK, LobbyStates
<1> QED
    BY <1>1, <1>2, NewRoundKeeps, ServedStep DEF IInv

\* A tick of either actor.
LEMMA TicksInv ==
    ASSUME IInv, Tick \/ OrphanTick
    PROVE  IInv'
<1>1. Served
    BY DEF Tick, OrphanTick, IInv, Outside
<1>2. DownStep
    <2>1. CASE Tick
        <3>1. Hears(place)
            BY <2>1, TellOne DEF IInv, Tick
        <3>2. place \in LobbyNews
            BY <2>1 DEF Tick, IInv, TypeOK, LobbyNews
        <3> QED
            BY <3>1, <3>2 DEF DownStep
    <2>2. CASE OrphanTick
        <3>1. Hears("Finished")
            BY <2>2, TellOne DEF IInv, OrphanTick
        <3> QED
            BY <3>1 DEF DownStep, LobbyNews, LobbyStates
    <2> QED
        BY <2>1, <2>2
<1>3. /\ UNCHANGED client /\ link' = link /\ RoundStep /\ UpStep
      /\ UNCHANGED <<place, round, acted, votes, orphan>>
    BY DEF Tick, OrphanTick, lobby, RoundStep, UpStep
<1>4. link' \in {"Up", "Closing"}
    BY <1>1, <1>3, Links
<1>5. /\ round' \in 0..MaxRound /\ orphan' \in BOOLEAN
      /\ place' \in (LobbyStates \ {"Empty"}) \cup {"Out"}
      /\ place' = "Finished" => acted' # "None"
    BY <1>3 DEF IInv, TypeOK, SeenRound
<1> QED
    BY <1>1, <1>2, <1>3, <1>4, <1>5, VotesStay, ServedStep DEF IInv

LEMMA OrphanStopsInv ==
    ASSUME IInv, OrphanStops
    PROVE  IInv'
<1>1. Served
    BY DEF OrphanStops, IInv, Outside, TypeOK
<1>2. /\ UNCHANGED client /\ link' = link
      /\ DownStep /\ RoundStep /\ UpStep
      /\ UNCHANGED <<place, round, acted, votes>> /\ orphan' = FALSE
    BY DEF OrphanStops, DownStep, RoundStep, UpStep
<1>3. link' \in {"Up", "Closing"}
    BY <1>1, <1>2, Links
<1>4. /\ round' \in 0..MaxRound /\ orphan' \in BOOLEAN
      /\ place' \in (LobbyStates \ {"Empty"}) \cup {"Out"}
      /\ place' = "Finished" => acted' # "None"
    BY <1>2 DEF IInv, TypeOK, SeenRound
<1> QED
    BY <1>1, <1>2, <1>3, <1>4, VotesStay, ServedStep DEF IInv

\* The count of a vote, the player's or the partner's.
LEMMA CountVotesInv ==
    ASSUME IInv, link = "Up", place = "Finished", UNCHANGED <<client, link>>,
           UpStep, NEW v \in [{"me", "partner"} -> {"None", "Yes", "No"}],
           CountVotes(v)
    PROVE  IInv'
<1>1. Served /\ link' \in {"Up", "Closing"} /\ UNCHANGED client
    BY DEF Served
<1>2. acted # "None" /\ round \in 0..MaxRound /\ orphan \in BOOLEAN
    BY DEF IInv, SeenRound, TypeOK
<1>3. CASE place' \in {"Running", "Waiting"} /\ NewRound
           /\ UNCHANGED <<down, orphan>>
    <2>1. /\ orphan' \in BOOLEAN /\ DownStep
          /\ place' \in (LobbyStates \ {"Empty"}) \cup {"Out"}
          /\ place' # "Finished"
        BY <1>2, <1>3 DEF LobbyStates, DownStep
    <2> QED
        BY <1>1, <1>3, <2>1, NewRoundKeeps, ServedStep DEF IInv
<1>4. CASE PutOut /\ orphan' \in BOOLEAN
    <2>1. Hears("Empty")
        BY <1>4, TellOne DEF PutOut, IInv
    <2>2. DownStep
        BY <2>1 DEF DownStep, LobbyNews, LobbyStates
    <2>3. /\ place' = "Out" /\ acted' = "None" /\ votes' = NoVotes
          /\ round' = round
        BY <1>4 DEF PutOut, LeaveLobby
    <2>4. RoundStep /\ round' \in 0..MaxRound
        BY <1>2, <2>3 DEF RoundStep
    <2> QED
        BY <1>1, <1>4, <2>2, <2>3, <2>4, NoVotesType, ServedStep
<1>5. CASE votes' = v /\ UNCHANGED <<down, place, round, acted, orphan>>
    <2>1. /\ DownStep /\ RoundStep
          /\ round' \in 0..MaxRound /\ orphan' \in BOOLEAN
          /\ place' \in (LobbyStates \ {"Empty"}) \cup {"Out"}
          /\ place' = "Finished" /\ acted' # "None"
        BY <1>2, <1>5 DEF LobbyStates, DownStep, RoundStep
    <2> QED
        BY <1>1, <1>5, <2>1, ServedStep
<1> QED
    BY <1>2, <1>3, <1>4, <1>5 DEF CountVotes

LEMMA PartnerVotesInv ==
    ASSUME IInv, PartnerVotes
    PROVE  IInv'
<1>1. PICK w \in {"Yes", "No"} : CountVotes([votes EXCEPT !.partner = w])
    BY DEF PartnerVotes
<1>2. [votes EXCEPT !.partner = w]
          \in [{"me", "partner"} -> {"None", "Yes", "No"}]
    BY DEF IInv, TypeOK
<1>3. UpStep /\ UNCHANGED <<client, link>> /\ link = "Up" /\ place = "Finished"
    BY DEF PartnerVotes, UpStep
<1> QED
    BY <1>1, <1>2, <1>3, CountVotesInv

LEMMA JoinInv ==
    ASSUME IInv, link = "Up", UNCHANGED <<client, link>>, UpStep, Join,
           place = "Out"
    PROVE  IInv'
<1>1. /\ Served /\ link' \in {"Up", "Closing"} /\ UNCHANGED client
      /\ orphan' \in BOOLEAN
    BY DEF Served, Join, IInv, TypeOK
<1>2. Tell(<<"LobbyInit">>)
    BY DEF Join
<1>3. DownStep
    <2>1. Hears("LobbyInit")
        BY <1>2, TellOne DEF IInv
    <2> QED
        BY <2>1 DEF DownStep, LobbyNews
<1>4. CASE place' = "Waiting" /\ UNCHANGED <<round, acted, votes, orphan>>
    <2>1. votes = NoVotes
        BY DEF IInv, TypeOK
    <2>2. /\ RoundStep /\ round' \in 0..MaxRound
          /\ place' \in (LobbyStates \ {"Empty"}) \cup {"Out"}
          /\ place' # "Finished" /\ votes' = NoVotes
        BY <1>4, <2>1 DEF IInv, TypeOK, LobbyStates, RoundStep
    <2> QED
        BY <1>1, <1>3, <2>2, NoVotesType, ServedStep
<1>5. CASE place' = "Running" /\ NewRound
    <2>1. /\ place' \in (LobbyStates \ {"Empty"}) \cup {"Out"}
          /\ place' # "Finished"
        BY <1>5 DEF LobbyStates
    <2> QED
        BY <1>1, <1>3, <1>5, <2>1, NewRoundKeeps, ServedStep DEF IInv
<1> QED
    BY <1>4, <1>5 DEF Join

\* Where neither the player's place nor the votes change.
LEMMA SettledInv ==
    ASSUME IInv, link = "Up", UNCHANGED <<client, link>>, UpStep, RoundStep,
           UNCHANGED <<down, place, round, votes, orphan>>,
           place = "Finished" => acted' # "None"
    PROVE  IInv'
<1>1. /\ Served /\ link' \in {"Up", "Closing"} /\ UNCHANGED client
      /\ DownStep
    BY DEF Served, DownStep
<1>2. /\ round' \in 0..MaxRound /\ orphan' \in BOOLEAN
      /\ place' \in (LobbyStates \ {"Empty"}) \cup {"Out"}
      /\ place' = "Finished" => acted' # "None"
    BY DEF IInv, TypeOK
<1> QED
    BY <1>1, <1>2, VotesStay, ServedStep DEF IInv

LEMMA ReceiveInv ==
    ASSUME IInv, Receive
    PROVE  IInv'
<1>1. /\ link = "Up" /\ UNCHANGED <<client, link>> /\ UpStep
      /\ up # <<>> /\ up' = Tail(up)
    BY DEF Receive, UpStep
<1>2. CASE Head(up).kind = "JoinServer" /\ place = "Out" /\ Join
    BY <1>1, <1>2, JoinInv
<1>3. CASE Head(up).kind = "TurnAction" /\ place = "Running"
           /\ TakeAction(Head(up).round)
    <2>1. /\ UNCHANGED <<down, place, round, votes, orphan>>
          /\ acted' = acted
              \/ acted' = IF Head(up).round = round THEN "Seen" ELSE "Stale"
        BY <1>3 DEF TakeAction
    <2>2. RoundStep
        BY <1>1, <1>3, <2>1 DEF RoundStep
    <2> QED
        BY <1>1, <1>3, <2>1, <2>2, SettledInv
<1>4. CASE /\ Head(up).kind \in {"Yes", "No"} /\ place = "Finished"
           /\ CountVotes([votes EXCEPT !.me = Head(up).kind])
    <2>1. [votes EXCEPT !.me = Head(up).kind]
              \in [{"me", "partner"} -> {"None", "Yes", "No"}]
        BY <1>4 DEF IInv, TypeOK
    <2> QED
        BY <1>1, <1>4, <2>1, CountVotesInv
<1>5. CASE Ignore
    <2>1. UNCHANGED <<down, place, round, acted, votes, orphan>> /\ RoundStep
        BY <1>5 DEF Ignore, lobby, RoundStep
    <2>2. place = "Finished" => acted' # "None"
        BY <2>1 DEF IInv, SeenRound
    <2> QED
        BY <1>1, <2>1, <2>2, SettledInv
<1> QED
    BY <1>2, <1>3, <1>4, <1>5 DEF Receive

-----------------------------------------------------------------------------
(***************************************************************************)
(* The client's frame and buttons.                                         *)
(***************************************************************************)
LEMMA CheckFinishedInv ==
    ASSUME IInv, CheckFinished
    PROVE  IInv'
<1>1. /\ ui'.screen = "NotConnected" /\ ui'.shown = ui.shown
      /\ UNCHANGED <<down, up, link, place, round, acted, votes, orphan>>
    BY DEF CheckFinished, lobby, IInv, TypeOK
<1>2. TypeOK'
    BY <1>1 DEF CheckFinished, IInv, TypeOK, Screens
<1>3. (Served' <=> Served) /\ (Greeting' <=> Greeting)
    BY <1>1 DEF Served, Greeting
<1>4. Outside' /\ Quiet' /\ GreetingFirst'
    BY <1>1, <1>3 DEF IInv, Outside, Quiet, GreetingFirst
<1>5. InOrder' /\ SeenRound'
    BY <1>1, <1>3 DEF IInv, InOrder, SeenRound
<1> QED
    BY <1>2, <1>4, <1>5 DEF IInv

\* What the client makes of a message.
LEMMA HeardType ==
    ASSUME TypeOK, NEW m \in Downs
    PROVE  /\ Heard(ui, m) \in
                  [screen : Screens, lobby_state : LobbyStates, shown : 0..MaxRound]
           /\ m.kind = "ConnectionAuthentication" =>
                  Heard(ui, m).screen = "Authenticating"
           /\ m.kind = "ConnectionInit" => Heard(ui, m).shown = 0
           /\ m.kind # "ConnectionInit" =>
                  Heard(ui, m).shown \in {ui.shown, m.round}
<1>1. ui \in [screen : Screens, lobby_state : LobbyStates, shown : 0..MaxRound]
    BY DEF TypeOK
<1>2. m.kind \in ServerMessages /\ m.round \in 0..MaxRound /\ 0 \in 0..MaxRound
    BY Bounds DEF Downs
<1>3. CASE m.kind = "ConnectionAuthentication"
    BY <1>1, <1>3 DEF Heard, Screens
<1>4. CASE m.kind = "ConnectionInit"
    BY <1>2, <1>4 DEF Heard, Screens, NewUi, LobbyStates
<1>5. CASE m.kind = "LobbyInit"
    BY <1>1, <1>5 DEF Heard, Screens
<1>6. CASE m.kind \in LobbyStates
    <2>1. Heard(ui, m) = HearLobbyState(ui, m)
        BY <1>6 DEF Heard, LobbyStates
    <2>2. ScreenOf(m.kind) \in Screens
        BY <1>6 DEF ScreenOf, LobbyStates, Screens
    <2>3. /\ HearLobbyState(ui, m) \in
              [screen : Screens, lobby_state : LobbyStates, shown : 0..MaxRound]
          /\ HearLobbyState(ui, m).shown \in {ui.shown, m.round}
        BY <1>1, <1>2, <1>6, <2>2 DEF HearLobbyState, NewLobbyState
    <2> QED
        BY <1>6, <2>1, <2>3 DEF LobbyStates
<1> QED
    BY <1>2, <1>3, <1>4, <1>5, <1>6 DEF ServerMessages

LEMMA HearInv ==
    ASSUME IInv, Hear
    PROVE  IInv'
<1>1. PICK N : N = Len(down)
    OBVIOUS
<1>2. PICK m : m = down[1]
    OBVIOUS
<1>3. /\ down \in Seq(Downs) /\ down # <<>>
      /\ \A i \in 1..N : down[i].round \in Nat
      /\ \A i \in 1..Len(up) : up[i].round \in Nat
    BY <1>1, StreamTypes DEF IInv, Hear
<1>4. /\ N \in Nat /\ N > 0 /\ m \in Downs /\ Head(down) = m
      /\ down' \in Seq(Downs) /\ Len(down') = N - 1
      /\ \A i \in 1..(N - 1) : down'[i] = down[i + 1]
    BY <1>1, <1>2, <1>3 DEF Hear
<1>5. /\ ui' = Heard(ui, m)
      /\ UNCHANGED <<up, link, place, round, acted, votes, orphan>>
    BY <1>4 DEF Hear, lobby
<1>6. /\ ui' \in [screen : Screens, lobby_state : LobbyStates, shown : 0..MaxRound]
      /\ m.kind = "ConnectionAuthentication" => ui'.screen = "Authenticating"
      /\ m.kind = "ConnectionInit" => ui'.shown = 0
      /\ m.kind # "ConnectionInit" => ui'.shown \in {ui.shown, m.round}
    BY <1>4, <1>5, HeardType DEF IInv
<1>7. /\ round \in Nat /\ ui.shown \in Nat
      /\ m.round \in Nat /\ ui'.shown \in Nat
    BY <1>1, <1>2, <1>3, <1>4, <1>6, Bounds DEF IInv, TypeOK
<1>8. TypeOK'
    <2>1. N - 1 <= MaxStream
        BY <1>1, <1>4, Bounds DEF IInv, TypeOK
    <2>2. finished' \in {"None", "Sent", "Taken"}
        BY DEF Hear, IInv, TypeOK
    <2> QED
        BY <1>4, <1>5, <1>6, <2>1, <2>2 DEF IInv, TypeOK, Downs
<1>9. Served' <=> Served
    BY <1>5 DEF Served
<1>10. Outside'
    BY <1>5, <1>9 DEF IInv, Outside
<1>11. link # "Login"
    BY <1>3 DEF IInv, GreetingFirst
<1>12. GreetingFirst'
    <2>1. ASSUME link = "Announced", NEW i \in 1..(N - 1)
          PROVE  down'[i].kind = "ConnectionAuthentication"
        BY <1>1, <1>4, <2>1 DEF IInv, GreetingFirst
    <2>2. ASSUME Served, NEW j \in 1..(N - 1), down'[j].kind = "ConnectionInit",
                 NEW i \in 1..(j - 1)
          PROVE  down'[i].kind = "ConnectionAuthentication"
        <3>1. /\ j + 1 \in 1..N /\ i + 1 \in 1..((j + 1) - 1)
              /\ down'[j] = down[j + 1] /\ down'[i] = down[i + 1]
            BY <1>4
        <3> QED
            BY <1>1, <2>2, <3>1 DEF IInv, GreetingFirst
    <2> QED
        BY <1>4, <1>5, <1>9, <1>11, <2>1, <2>2 DEF GreetingFirst
\* Before the greeting the first message announces the login.
<1>13. ASSUME Greeting'
       PROVE  Greeting /\ m.kind = "ConnectionAuthentication"
    <2>1. CASE link \in {"Login", "Announced"}
        BY <1>1, <1>2, <1>4, <1>11, <2>1 DEF IInv, GreetingFirst, Greeting
    <2>2. CASE ~ (link \in {"Login", "Announced"})
        <3>1. PICK i \in 1..(N - 1) : down'[i].kind = "ConnectionInit"
            BY <1>4, <1>5, <1>13, <2>2 DEF Greeting
        <3>2. Served
            BY <1>5, <1>9, <1>13, <2>2 DEF Greeting
        <3>3. /\ i + 1 \in 1..N /\ 1 \in 1..((i + 1) - 1)
              /\ down[i + 1].kind = "ConnectionInit"
            BY <1>4, <3>1
        <3> QED
            BY <1>1, <1>2, <3>2, <3>3 DEF IInv, GreetingFirst, Greeting
    <2> QED
        BY <2>1, <2>2
<1>14. Quiet'
    BY <1>5, <1>6, <1>13 DEF IInv, Quiet
\* The message that ends it starts over; all others are of a round in between.
<1>15. ASSUME Served, ~ Greeting'
       PROVE  \/ Greeting /\ ui'.shown = 0
              \/ ~ Greeting /\ ui'.shown \in {ui.shown, m.round}
    <2>1. CASE Greeting
        <3>1. PICK i \in 1..N : down[i].kind = "ConnectionInit"
            BY <1>1, <1>15, <2>1 DEF Greeting, Served
        <3>2. i = 1
            <4>1. ASSUME i # 1
                  PROVE  FALSE
                <5>1. /\ i - 1 \in 1..(N - 1) /\ (i - 1) + 1 = i
                    BY <1>4, <4>1
                <5>2. down'[i - 1].kind = "ConnectionInit"
                    BY <1>4, <3>1, <5>1
                <5> QED
                    BY <1>4, <1>9, <1>15, <5>1, <5>2 DEF Greeting
            <4> QED
                BY <4>1
        <3> QED
            BY <1>2, <1>6, <2>1, <3>1, <3>2
    <2>2. CASE ~ Greeting
        <3>1. m.kind # "ConnectionInit"
            BY <1>1, <1>2, <1>4, <1>15, <2>2 DEF Greeting
        <3> QED
            BY <1>6, <2>2, <3>1
    <2> QED
        BY <2>1, <2>2
<1>16. InOrder'
    <2>1. ASSUME link # "Down"
          PROVE  /\ \A i \in 1..(N - 1) : down'[i].round <= round
                 /\ \A i, j \in 1..(N - 1) :
                        i < j => down'[i].round <= down'[j].round
                 /\ \A i \in 1..(N - 1) : m.round <= down'[i].round
                 /\ m.round <= round
                 /\ \A i, j \in 1..Len(up) : i < j => up[i].round <= up[j].round
        <3>1. /\ \A i \in 1..N : down[i].round <= round
              /\ \A i, j \in 1..N : i < j => down[i].round <= down[j].round
              /\ \A i, j \in 1..Len(up) : i < j => up[i].round <= up[j].round
            BY <1>1, <2>1 DEF IInv, InOrder
        <3>2. /\ 1 \in 1..N
              /\ \A i \in 1..(N - 1) : i + 1 \in 1..N /\ 1 < i + 1
              /\ \A i, j \in 1..(N - 1) : i < j => i + 1 < j + 1
            BY <1>4
        <3> QED
            BY <1>2, <1>4, <3>1, <3>2
    <2>2. ASSUME Served, ~ Greeting'
          PROVE  /\ ui'.shown <= round
                 /\ \A i \in 1..(N - 1) : ui'.shown <= down'[i].round
                 /\ \A i \in 1..Len(up) : up[i].round <= ui'.shown
        <3>1. link # "Down"
            BY <2>2 DEF Served
        <3>2. CASE Greeting /\ ui'.shown = 0
            <4>1. \A i \in 1..Len(up) : up[i].round = 0
                BY <3>2 DEF IInv, Quiet
            <4>2. ASSUME NEW i \in 1..(N - 1)
                  PROVE  down'[i].round \in Nat
                <5>1. i + 1 \in 1..N /\ down'[i] = down[i + 1]
                    BY <1>4
                <5> QED
                    BY <1>3, <5>1
            <4>3. ui'.shown <= round
                BY <1>7, <3>2
            <4>4. ASSUME NEW i \in 1..(N - 1)
                  PROVE  ui'.shown <= down'[i].round
                BY <3>2, <4>2
            <4>5. ASSUME NEW i \in 1..Len(up)
                  PROVE  up[i].round <= ui'.shown
                BY <3>2, <4>1
            <4> QED
                BY <4>3, <4>4, <4>5
        <3>3. CASE ~ Greeting /\ ui'.shown \in {ui.shown, m.round}
            <4>1. /\ ui.shown <= round /\ ui.shown <= m.round
                  /\ \A i \in 1..N : ui.shown <= down[i].round
                  /\ \A i \in 1..Len(up) : up[i].round <= ui.shown
                BY <1>1, <1>2, <1>4, <2>2, <3>3 DEF IInv, InOrder
            <4>2. \A i \in 1..(N - 1) : ui.shown <= down'[i].round
                BY <1>4, <4>1
            <4>3. \A i \in 1..Len(up) : up[i].round <= m.round
                BY <1>3, <1>7, <4>1
            <4> QED
                BY <2>1, <3>1, <3>3, <4>1, <4>2, <4>3
        <3> QED
            BY <1>15, <2>2, <3>2, <3>3
    <2> QED
        BY <1>4, <1>5, <1>9, <2>1, <2>2 DEF InOrder
<1>17. SeenRound'
    <2>1. ASSUME acted # "None"
          PROVE  Served /\ ~ Greeting /\ ~ Greeting'
        BY <1>13, <2>1 DEF IInv, SeenRound
    <2>2. ASSUME acted = "Seen"
          PROVE  ui'.shown = round /\ \A i \in 1..Len(up) : up[i].round = round
        <3>1. /\ Served /\ ~ Greeting /\ ui'.shown \in {ui.shown, m.round}
              /\ ui.shown = round
              /\ \A i \in 1..Len(up) : up[i].round = round
            BY <1>15, <2>1, <2>2 DEF IInv, SeenRound
        <3>2. ui.shown <= m.round /\ m.round <= round
            BY <1>1, <1>2, <1>4, <3>1 DEF IInv, InOrder, Served
        <3> QED
            BY <1>7, <3>1, <3>2
    <2> QED
        BY <1>5, <1>9, <2>1, <2>2 DEF IInv, SeenRound
<1> QED
    BY <1>8, <1>10, <1>12, <1>14, <1>16, <1>17 DEF IInv

LEMMA ConnectInv ==
    ASSUME IInv, Connect
    PROVE  IInv'
<1> DEFINE m == [kind |-> "JoinServer", round |-> 0]
<1>1. /\ m \in Ups /\ m.kind = "JoinServer" /\ m.round = 0 /\ up' = <<m>>
    BY Bounds DEF Connect, Ups, ClientMessages
<1> HIDE DEF m
<1>2. up' \in Seq(Ups) /\ Len(up') = 1 /\ up'[1] = m
    BY <1>1
<1>3. /\ down' = <<>> /\ finished' = "None" /\ link' = "Login" /\ ui' = ui
      /\ place' = "Out" /\ acted' = "None" /\ votes' = NoVotes
      /\ round' = 0 /\ orphan' = FALSE /\ ui.screen = "NotConnected"
    BY DEF Connect, LeaveLobby, Press
<1>4. down' \in Seq(Downs) /\ Len(down') = 0
    BY <1>3
<1>5. TypeOK'
    <2>1. Len(up') <= MaxSent /\ Len(down') <= MaxStream /\ 0 \in 0..MaxRound
        BY <1>2, <1>4, Bounds
    <2>2. votes' \in [{"me", "partner"} -> {"None", "Yes", "No"}]
        BY <1>3, NoVotesType
    <2> QED
        BY <1>2, <1>3, <1>4, <2>1, <2>2 DEF IInv, TypeOK, Downs, Ups
<1>6. Outside' /\ GreetingFirst'
    BY <1>3 DEF Outside, GreetingFirst, Served
<1>7. Quiet'
    <2>1. ASSUME NEW i \in 1..Len(up')
          PROVE  up'[i].kind = "JoinServer" /\ up'[i].round = 0
        BY <1>1, <1>2
    <2> QED
        BY <1>3, <2>1 DEF Quiet
<1>8. InOrder'
    <2>1. ASSUME NEW i \in 1..Len(up'), NEW j \in 1..Len(up'), i < j
          PROVE  FALSE
        BY <1>2, <2>1
    <2>2. ASSUME NEW i \in 1..Len(down')
          PROVE  FALSE
        BY <1>4
    <2> QED
        BY <1>3, <2>1, <2>2 DEF InOrder, Served
<1>9. SeenRound'
    BY <1>3 DEF SeenRound
<1> QED
    BY <1>5, <1>6, <1>7, <1>8, <1>9 DEF IInv

\* A button of the lobby: the client has heard that it is connected.
LEMMA SendInv ==
    ASSUME IInv, NEW kind \in ClientMessages, Send(kind),
           ~ (ui.screen \in {"NotConnected", "Authenticating"}),
           NEW s \in Screens, ui' = [ui EXCEPT !.screen = s],
           UNCHANGED <<finished, down, link, lobby>>
    PROVE  IInv'
<1>1. ~ Greeting
    BY DEF IInv, Quiet
<1>2. /\ UNCHANGED <<down, link, place, round, acted, votes, orphan>>
      /\ ui'.shown = ui.shown
    BY DEF lobby, IInv, TypeOK
<1>3. (Served' <=> Served) /\ ~ Greeting'
    BY <1>1, <1>2 DEF Served, Greeting
<1>4. /\ up \in Seq(Ups) /\ ui.shown \in 0..MaxRound
      /\ \A i \in 1..Len(up) : up[i].round \in Nat
    BY StreamTypes DEF IInv, TypeOK
<1>5. PICK n : n = Len(up)
    OBVIOUS
\* What is sent, if anything, comes last.
<1>6. \/ up' = up
      \/ /\ link # "Down" /\ up' \in Seq(Ups)
         /\ n \in Nat /\ Len(up') = n + 1 /\ n + 1 <= MaxSent
         /\ \A i \in 1..n : up'[i] = up[i]
         /\ up'[n + 1].round = ui.shown
    <2>1. CASE link = "Down"
        BY <2>1 DEF Send
    <2>2. CASE link # "Down"
        <3> DEFINE m == [kind |-> kind, round |-> ui.shown]
        <3>1. m \in Ups /\ m.round = ui.shown
            BY <1>4 DEF Ups
        <3>2. Len(up) < MaxSent /\ up' = Append(up, m)
            BY <2>2 DEF Send
        <3> HIDE DEF m
        <3>3. n \in Nat /\ n + 1 <= MaxSent
            BY <1>4, <1>5, <3>2, Bounds
        <3> QED
            BY <1>4, <1>5, <2>2, <3>1, <3>2, <3>3
    <2> QED
        BY <2>1, <2>2
<1>7. TypeOK'
    <2>1. up' \in Seq(Ups) /\ Len(up') <= MaxSent
        BY <1>4, <1>6 DEF IInv, TypeOK
    <2> QED
        BY <1>2, <2>1 DEF IInv, TypeOK, Ups
<1>8. Outside' /\ Quiet'
    BY <1>2, <1>3 DEF IInv, Outside, Quiet
<1>9. GreetingFirst'
    BY <1>2, <1>3 DEF IInv, GreetingFirst
<1>10. CASE up' = up
    <2>1. InOrder' /\ SeenRound'
        BY <1>1, <1>2, <1>3, <1>10 DEF IInv, InOrder, SeenRound
    <2> QED
        BY <1>7, <1>8, <1>9, <2>1 DEF IInv
<1>11. CASE /\ link # "Down" /\ up' \in Seq(Ups)
            /\ n \in Nat /\ Len(up') = n + 1 /\ n + 1 <= MaxSent
            /\ \A i \in 1..n : up'[i] = up[i]
            /\ up'[n + 1].round = ui.shown
    <2>1. Served
        BY <1>1, <1>11 DEF IInv, TypeOK, Greeting, Served
    <2>2. /\ \A i, j \in 1..n : i < j => up[i].round <= up[j].round
          /\ \A i \in 1..n : up[i].round <= ui.shown
        BY <1>1, <1>5, <1>11, <2>1 DEF IInv, InOrder
    <2>3. \A i \in 1..(n + 1) : i # n + 1 => i \in 1..n
        BY <1>11
    <2>4. ui.shown <= ui.shown
        BY <1>4
    <2>5. \A i \in 1..(n + 1) : up'[i].round <= ui.shown
        BY <1>11, <2>2, <2>3, <2>4
    <2>6. ASSUME NEW i \in 1..(n + 1), NEW j \in 1..(n + 1), i < j
          PROVE  up'[i].round <= up'[j].round
        <3>1. i \in 1..n
            BY <1>11, <2>6
        <3>2. CASE j = n + 1
            BY <1>11, <2>2, <3>1, <3>2
        <3>3. CASE j # n + 1
            BY <1>11, <2>2, <2>3, <2>6, <3>1, <3>3
        <3> QED
            BY <3>2, <3>3
    <2>7. InOrder'
        BY <1>1, <1>2, <1>3, <1>11, <2>5, <2>6 DEF IInv, InOrder
    <2>8. SeenRound'
        <3>1. ASSUME acted = "Seen"
              PROVE  /\ ui.shown = round
                     /\ \A i \in 1..(n + 1) : up'[i].round = round
            <4>1. ui.shown = round /\ \A i \in 1..n : up[i].round = round
                BY <1>5, <3>1 DEF IInv, SeenRound
            <4> QED
                BY <1>11, <2>3, <4>1
        <3> QED
            BY <1>1, <1>2, <1>3, <1>11, <3>1 DEF IInv, SeenRound
    <2> QED
        BY <1>7, <1>8, <1>9, <2>7, <2>8 DEF IInv
<1> QED
    BY <1>6, <1>10, <1>11

LEMMA ButtonsInv ==
    ASSUME IInv, Buttons
    PROVE  IInv'
<1>1. ui = [ui EXCEPT !.screen = ui.screen] /\ ui.screen \in Screens
    BY DEF IInv, TypeOK
<1>2. {"JoinServer", "TurnAction", "Yes", "No"} \subseteq ClientMessages
    BY DEF ClientMessages
<1>3. CASE Connect
    BY <1>3, ConnectInv
<1>4. CASE FindGame
    BY <1>1, <1>2, <1>4, SendInv DEF FindGame, Press, client
<1>5. CASE Act
    BY <1>1, <1>2, <1>5, SendInv DEF Act, Press, client
<1>6. CASE VoteToContinue
    <2>1. PICK v \in {"Yes", "No"} : Send(v)
        BY <1>6 DEF VoteToContinue
    <2>2. "LobbyVoted" \in Screens
        BY DEF Screens
    <2> QED
        BY <1>2, <1>6, <2>1, <2>2, SendInv DEF VoteToContinue, Press
<1> QED
    BY <1>3, <1>4, <1>5, <1>6 DEF Buttons

-----------------------------------------------------------------------------
(***************************************************************************)
(* The connection comes and goes.                                          *)
(***************************************************************************)

\* A message of the login: the one the client hears last.
LEMMA LoginTells ==
    ASSUME IInv, ~ Served, NEW k \in ServerMessages, Hears(k),
           NEW N, N = Len(down),
           link \in {"Login", "Announced"}, link' \in {"Announced", "Up"},
           UNCHANGED <<client, up, lobby>>, Greeting', GreetingFirst'
    PROVE  IInv'
<1>1. /\ N \in Nat
      /\ down' \in Seq(Downs) /\ Len(down') = N + 1 /\ N < MaxStream
      /\ \A i \in 1..N : down'[i] = down[i]
      /\ down'[N + 1].kind = k /\ down'[N + 1].round = round
    BY HearsLast DEF IInv
<1>2. UNCHANGED <<ui, finished, up, place, round, acted, votes, orphan>>
    BY DEF client, lobby
<1>3. TypeOK'
    <2>1. N + 1 <= MaxStream
        BY <1>1, Bounds
    <2> QED
        BY <1>1, <1>2, <2>1 DEF IInv, TypeOK, Downs
<1>4. Greeting
    BY DEF Greeting
<1>5. Outside' /\ Quiet'
    BY <1>2, <1>4 DEF IInv, Outside, Quiet
<1>6. InOrder'
    <2>1. /\ \A i \in 1..N : down[i].round <= round
          /\ \A i, j \in 1..N : i < j => down[i].round <= down[j].round
          /\ \A i, j \in 1..Len(up) : i < j => up[i].round <= up[j].round
        BY DEF IInv, InOrder
    <2>2. round <= round
        BY Bounds DEF IInv, TypeOK
    <2>3. \A i \in 1..(N + 1) : i # N + 1 => i \in 1..N
        BY <1>1
    <2>4. \A i \in 1..(N + 1) : down'[i].round <= round
        BY <1>1, <2>1, <2>2, <2>3
    <2>5. ASSUME NEW i \in 1..(N + 1), NEW j \in 1..(N + 1), i < j
          PROVE  down'[i].round <= down'[j].round
        <3>1. i \in 1..N
            BY <1>1, <2>5
        <3>2. CASE j = N + 1
            BY <1>1, <2>1, <3>1, <3>2
        <3>3. CASE j # N + 1
            BY <1>1, <2>1, <2>3, <2>5, <3>1, <3>3
        <3> QED
            BY <3>2, <3>3
    <2> QED
        BY <1>1, <1>2, <2>1, <2>4, <2>5 DEF InOrder
<1>7. SeenRound'
    BY <1>2 DEF IInv, SeenRound, Outside
<1> QED
    BY <1>3, <1>5, <1>6, <1>7 DEF IInv

LEMMA AuthenticateInv ==
    ASSUME IInv, Authenticate
    PROVE  IInv'
<1>1. PICK N : N = Len(down)
    OBVIOUS
<1>2. Hears("ConnectionAuthentication")
    BY TellOne DEF IInv, Authenticate
<1>3. "ConnectionAuthentication" \in ServerMessages
    BY DEF ServerMessages
<1>4. /\ link = "Login" /\ link' = "Announced" /\ down = <<>>
      /\ UNCHANGED <<client, up, lobby>>
    BY DEF IInv, GreetingFirst, Authenticate
<1>5. Greeting' /\ ~ Served
    BY <1>4 DEF Greeting, Served
<1>6. GreetingFirst'
    <2>1. N = 0 /\ Len(down') = N + 1
          /\ down'[N + 1].kind = "ConnectionAuthentication"
        BY <1>1, <1>2, <1>3, <1>4, HearsLast DEF IInv
    <2>2. \A i \in 1..Len(down') : down'[i].kind = "ConnectionAuthentication"
        BY <2>1
    <2> QED
        BY <1>4, <2>2 DEF GreetingFirst, Served
<1> QED
    BY <1>1, <1>2, <1>3, <1>4, <1>5, <1>6, LoginTells

LEMMA RegisterInv ==
    ASSUME IInv, Register
    PROVE  IInv'
<1>1. PICK N : N = Len(down)
    OBVIOUS
<1>2. Hears("ConnectionInit")
    BY TellOne DEF IInv, Register
<1>3. "ConnectionInit" \in ServerMessages
    BY DEF ServerMessages
<1>4. /\ link = "Announced" /\ link' = "Up" /\ UNCHANGED <<client, up, lobby>>
      /\ \A i \in 1..N : down[i].kind = "ConnectionAuthentication"
    BY <1>1 DEF IInv, GreetingFirst, Register
<1>5. /\ N \in Nat /\ Len(down') = N + 1
      /\ \A i \in 1..N : down'[i] = down[i]
      /\ down'[N + 1].kind = "ConnectionInit"
    BY <1>1, <1>2, <1>3, HearsLast DEF IInv
<1>6. Served' /\ ~ Served
    BY <1>4 DEF Served
<1>7. Greeting'
    <2>1. N + 1 \in 1..Len(down')
        BY <1>5
    <2> QED
        BY <1>5, <1>6, <2>1 DEF Greeting
<1>8. GreetingFirst'
    <2>1. ASSUME NEW j \in 1..(N + 1), NEW i \in 1..(j - 1)
          PROVE  down'[i].kind = "ConnectionAuthentication"
        <3>1. i \in 1..N
            BY <1>5
        <3> QED
            BY <1>4, <1>5, <3>1
    <2> QED
        BY <1>4, <1>5, <2>1 DEF GreetingFirst
<1> QED
    BY <1>1, <1>2, <1>3, <1>4, <1>6, <1>7, <1>8, LoginTells

\* Where the connection is gone, there is nothing left to keep but the types.
LEMMA DownInv ==
    ASSUME TypeOK', link' = "Down", place' = "Out", acted' = "None",
           orphan' = FALSE
    PROVE  IInv'
<1>1. ~ Served' /\ ~ Greeting'
    BY DEF Served, Greeting
<1>2. Outside' /\ Quiet' /\ SeenRound'
    BY <1>1 DEF Outside, Quiet, SeenRound
<1>3. GreetingFirst' /\ InOrder'
    BY <1>1 DEF GreetingFirst, InOrder
<1> QED
    BY <1>2, <1>3 DEF IInv

LEMMA ConnectionEnds ==
    ASSUME IInv, StreamEnds \/ LoseLink \/ ConnectFails
    PROVE  IInv'
<1>1. down' \in Seq(Downs) /\ Len(down') <= MaxStream
    <2>1. down \in Seq(Downs) /\ Len(down) \in Nat /\ Len(down) <= MaxStream
        BY StreamTypes DEF IInv, TypeOK
    <2>2. CASE down' = down
        BY <2>1, <2>2
    <2>3. CASE \E n \in 0..Len(down) : down' = SubSeq(down, 1, n)
        <3>1. PICK n \in 0..Len(down) : down' = SubSeq(down, 1, n)
            BY <2>3
        <3>2. n \in Nat /\ n <= Len(down) /\ n <= MaxStream
            BY <2>1, Bounds
        <3>3. \A i \in 1..n : down[i] \in Downs
            BY <2>1, <3>2, ElementOfSeq
        <3>4. down' \in Seq(Downs)
            BY <3>1, <3>2, <3>3, <2>1, SubSeqProperties
        <3>5. Len(down') = n
            BY <3>1, <3>2, <2>1
        <3> QED
            BY <3>2, <3>4, <3>5
    <2> QED
        BY <2>2, <2>3 DEF StreamEnds, LoseLink, ConnectFails
<1>2. /\ link' = "Down" /\ up' = <<>> /\ UNCHANGED <<ui, round>>
      /\ finished' \in {"None", "Sent", "Taken"}
    BY DEF StreamEnds, LoseLink, ConnectFails, client, lobby, IInv, TypeOK
<1>3. /\ place' = "Out" /\ acted' = "None" /\ votes' = NoVotes
      /\ orphan' = FALSE
    <2>1. CASE StreamEnds
        BY <2>1 DEF StreamEnds, LeaveLobby, IInv, TypeOK
    <2>2. CASE LoseLink
        BY <2>2 DEF LoseLink, LeaveLobby
    <2>3. CASE ConnectFails
        <3>1. ~ Served /\ UNCHANGED <<place, acted, votes, orphan>>
            BY <2>3 DEF ConnectFails, Served, lobby
        <3>2. place = "Out" /\ orphan = FALSE /\ acted = "None"
            BY <3>1 DEF IInv, Outside, SeenRound, TypeOK
        <3>3. votes = NoVotes
            BY <3>2 DEF IInv, TypeOK
        <3> QED
            BY <3>1, <3>2, <3>3
    <2> QED
        BY <2>1, <2>2, <2>3
<1>4. TypeOK'
    <2>1. up' \in Seq(Ups) /\ Len(up') <= MaxSent
        BY <1>2, Bounds
    <2> QED
        BY <1>1, <1>2, <1>3, <2>1, NoVotesType DEF IInv, TypeOK, Downs, Ups
<1> QED
    BY <1>2, <1>3, <1>4, DownInv

-----------------------------------------------------------------------------
(***************************************************************************)
(* The theorems.                                                           *)
(***************************************************************************)
LEMMA InitInv ==
    ASSUME Init
    PROVE  IInv
<1>1. /\ down = <<>> /\ up = <<>> /\ place = "Out" /\ acted = "None"
      /\ link = "Down" /\ orphan = FALSE /\ votes = NoVotes /\ round = 0
      /\ ui = NewUi /\ finished = "None"
    BY DEF Init
<1>2. ui \in [screen : Screens, lobby_state : LobbyStates, shown : 0..MaxRound]
    BY <1>1, Bounds DEF NewUi, Screens, LobbyStates
<1>3. /\ down \in Seq(Downs) /\ Len(down) <= MaxStream
      /\ up \in Seq(Ups) /\ Len(up) <= MaxSent
    BY <1>1, Bounds
<1>4. TypeOK
    <2>1. round \in 0..MaxRound
        BY <1>1, Bounds
    <2>2. votes \in [{"me", "partner"} -> {"None", "Yes", "No"}]
        BY <1>1, NoVotesType
    <2> QED
        BY <1>1, <1>2, <1>3, <2>1, <2>2 DEF TypeOK, Downs, Ups
<1>5. ~ Served /\ ~ Greeting
    BY <1>1 DEF Served, Greeting
<1> QED
    BY <1>1, <1>4, <1>5
    DEF IInv, Outside, Quiet, GreetingFirst, InOrder, SeenRound

LEMMA StutterInv ==
    ASSUME IInv, UNCHANGED vars
    PROVE  IInv'
<1>1. UNCHANGED <<ui, finished, down, up, link, place, round, acted, votes,
                  orphan>>
    BY DEF vars, client, lobby
<1>2. (Served' <=> Served) /\ (Greeting' <=> Greeting)
    BY <1>1 DEF Served, Greeting
<1>3. TypeOK' /\ Outside' /\ Quiet'
    BY <1>1, <1>2 DEF IInv, TypeOK, Outside, Quiet
<1>4. GreetingFirst' /\ InOrder' /\ SeenRound'
    BY <1>1, <1>2 DEF IInv, GreetingFirst, InOrder, SeenRound
<1> QED
    BY <1>3, <1>4 DEF IInv

LEMMA Inductive ==
    ASSUME IInv, [Next]_vars
    PROVE  IInv'
<1>1. CASE Frame
    BY <1>1, CheckFinishedInv, HearInv DEF Frame
<1>2. CASE Buttons
    BY <1>2, ButtonsInv
<1>3. CASE ServerLink
    BY <1>3, AuthenticateInv, RegisterInv, ReceiveInv, KickInv, ConnectionEnds
    DEF ServerLink
<1>4. CASE ServerLobby
    BY <1>4, RoundEndsInv, PartnerJoinsInv, PartnerDisconnectsInv,
       PartnerVotesInv, TicksInv, OrphanStopsInv
    DEF ServerLobby
<1>5. CASE UNCHANGED vars
    BY <1>5, StutterInv
<1> QED
    BY <1>1, <1>2, <1>3, <1>4, <1>5 DEF Next

\* IInv is an invariant: the streams keep the rounds in order.
THEOREM IInvInvariant == Spec => []IInv
<1>1. Init => IInv
    BY InitInv
<1>2. IInv /\ [Next]_vars => IInv'
    BY Inductive
<1> QED
    BY <1>1, <1>2, PTL DEF Spec

\* Every variable keeps its type, and there are votes only in a finished
\* lobby: each way out of it begins a round or leaves (CountVotes,
\* PartnerDisconnects, the end of the connection).
THEOREM TypeCorrect == Spec => []TypeOK
<1>1. IInv => TypeOK
    BY DEF IInv
<1> QED
    BY <1>1, IInvInvariant, PTL

\* A vote cast on the screen of an earlier round is counted only after a
\* choice from such a screen was taken for this round
\* (handle_finished_lobby_message, set_turn_action).
THEOREM StaleVotes == Spec => StaleVoteNeedsStaleChoice
<1>1. ASSUME IInv, place = "Finished", up # <<>>, Head(up).round # round
      PROVE  acted = "Stale"
    <2>1. acted \in {"Seen", "Stale"}
        BY <1>1 DEF IInv, SeenRound, TypeOK
    <2>2. 1 \in 1..Len(up) /\ up[1] = Head(up)
        BY <1>1, StreamTypes DEF IInv
    <2>3. acted # "Seen"
        BY <1>1, <2>2 DEF IInv, SeenRound
    <2> QED
        BY <2>1, <2>3
<1>2. IInv => [link = "Up" /\ place = "Finished" /\ up # <<>> /\ up' = Tail(up)
                   /\ Head(up).kind \in {"Yes", "No"} /\ Head(up).round # round
                       => acted = "Stale"]_vars
    BY <1>1
<1> QED
    BY <1>2, IInvInvariant, PTL DEF StaleVoteNeedsStaleChoice
=============================================================================
