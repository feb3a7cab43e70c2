------------------------- MODULE LobbyServerProofs --------------------------
(***************************************************************************)
(* Proofs about module LobbyServer, for any number of users and lobbies    *)
(* and any size of the mailboxes: its inductive invariant, what a newcomer *)
(* finds, and that for the users the server is a matchmaker (Matchmaking). *)
(***************************************************************************)
EXTENDS LobbyServer, TLAPS, SequenceTheorems, FiniteSetTheorems

(***************************************************************************)
(* The inductive invariant.                                                *)
(***************************************************************************)
Operations ==
    [pc : {"Idle", "Disconnected", "JoinReset", "JoinInserted", "JoinStarted",
           "RunningState", "TurnTaken", "VoteSide", "Restarted",
           "BothLeaveLeft", "BothLeaveRight", "SplitLeaver", "SplitRemoved",
           "SplitReset", "Inputs"},
     user : Users \cup {NoUser},
     msg : {"None"} \cup ClientMessages,
     lobby : Lobbies \cup {NoLobby},
     entry : {"Absent", "Waiting", "Running", "Finished"},
     out : Messages,
     left : Nat]

\* What every variable is, more closely than TypeOK has it.
TypeInv ==
    /\ connected_user_list \subseteq Users
    /\ lobby_id \in [Users -> Lobbies \cup {NoLobby}]
    /\ lobby_list \in [Lobbies -> {"Absent", "Waiting", "Running", "Finished"}]
    /\ votes \in [Lobbies -> [Sides -> {"None", "Yes", "No"}]]
    /\ op \in Operations
    /\ up \subseteq Lobbies
    /\ actor \in [Lobbies -> Actors]
    /\ mailbox \in [Lobbies -> Seq(Messages)]
    /\ \A l \in Lobbies : Len(mailbox[l]) <= MailboxSize
    /\ told \in [Users -> LobbyStates \cup {"None"}]

\* The message whose answer the operation waits for.
Asks(m) ==
    \/ /\ op.pc \in {"Disconnected", "SplitRemoved"}
       /\ m = Message("RemovePlayer", op.user)
    \/ op.pc = "JoinInserted" /\ m = Message("InsertPlayer", op.user)
    \/ /\ op.pc \in {"JoinStarted", "RunningState"}
       /\ m = Message("LobbyState", NoUser)
    \/ op.pc = "TurnTaken" /\ m = Message("TurnAction", op.user)
    \/ op.pc = "VoteSide" /\ m = Message("GetPlayerSide", op.user)
    \/ op.pc = "BothLeaveLeft" /\ m = Message("GetLeft", NoUser)
    \/ op.pc = "BothLeaveRight" /\ m = Message("GetRight", NoUser)
    \/ /\ op.pc = "SplitLeaver"
       /\ m \in {Message("GetLeft", NoUser), Message("GetRight", NoUser)}

\* A message the operation sends on without waiting.
Tells(m) ==
    \/ /\ op.pc \in {"JoinReset", "Restarted", "SplitReset"}
       /\ m = Message("ResetLobby", NoUser)
    \/ op.pc = "Inputs" /\ m = Message("MoveInput", op.user)

\* Mailboxes hold messages nobody waits on, and last, for the one lobby the
\* operation works on, its question.
Asking == op.out = NoMessage /\ reply = NoReply

Calls ==
    /\ op.out # NoMessage => reply = NoReply /\ (Asks(op.out) \/ Tells(op.out))
    /\ reply # NoReply => /\ op.out = NoMessage /\ op.pc \notin Telling
                          /\ mailbox[op.lobby] = <<>>
    /\ \A l \in Lobbies :
           /\ l \notin up => mailbox[l] = <<>>
           /\ \A i \in 1..Len(mailbox[l]) :
                  \/ QuietMessage(mailbox[l][i])
                  \/ /\ l = op.lobby /\ i = Len(mailbox[l])
                     /\ Asking /\ Asks(mailbox[l][i])

-----------------------------------------------------------------------------
\* Who sits in a lobby and whom the user table puts there.
Sitting(l) == {u \in Users : HasPlayer(actor[l], u)}
Placed(l) == {u \in Users : lobby_id[u] = l}

\* One player, whose round nothing has touched and nothing is about to touch.
Lone(l) ==
    /\ \E s, t \in Sides : /\ s # t
                           /\ actor[l].seat[s] \in Users
                           /\ actor[l].seat[t] = NoUser
    /\ actor[l].round = "Fresh"
    /\ \A i \in 1..Len(mailbox[l]) : mailbox[l][i].kind # "MoveInput"

\* Two different players.
Pair(l) ==
    /\ \A s \in Sides : actor[l].seat[s] \in Users
    /\ actor[l].seat["Left"] # actor[l].seat["Right"]

\* Every lobby in the table is as its entry says, and nobody is in another.
Entries ==
    \A l \in Lobbies :
        lobby_list[l] # "Absent" =>
            /\ l \in up /\ l # op.lobby
            /\ Placed(l) = Sitting(l)
            /\ IF lobby_list[l] = "Waiting" THEN Lone(l) ELSE Pair(l)

NoGhosts ==
    \A u \in Users :
        lobby_id[u] # NoLobby =>
            /\ u \in connected_user_list
            /\ lobby_list[lobby_id[u]] # "Absent" \/ lobby_id[u] = op.lobby

-----------------------------------------------------------------------------
(***************************************************************************)
(* What an operation knows of its lobby between two awaits: `reply` tells  *)
(* whether its question has been handled.                                  *)
(***************************************************************************)
Disconnecting ==
    op.pc = "Disconnected" =>
        IF reply = NoReply
        THEN /\ op.user \in Sitting(op.lobby)
             /\ Placed(op.lobby) = Sitting(op.lobby) \ {op.user}
             /\ IF op.entry = "Waiting" THEN Lone(op.lobby) ELSE Pair(op.lobby)
        ELSE /\ Placed(op.lobby) = Sitting(op.lobby)
             /\ IF op.entry = "Waiting"
                THEN reply = "Empty" /\ Placed(op.lobby) = {}
                ELSE reply = "Waiting" /\ Lone(op.lobby)

Joining ==
    /\ op.pc \in {"JoinReset", "JoinInserted", "JoinStarted"} =>
           op.user \in connected_user_list /\ lobby_id[op.user] = NoLobby
    /\ op.pc \in {"JoinReset", "JoinInserted"} =>
           IF reply = NoReply
           THEN Lone(op.lobby) /\ Placed(op.lobby) = Sitting(op.lobby)
           ELSE /\ reply = "Running"
                /\ Pair(op.lobby)
                /\ op.user \in Sitting(op.lobby)
                /\ Placed(op.lobby) = Sitting(op.lobby) \ {op.user}
    /\ op.pc = "JoinStarted" =>
           /\ NobodyWaits
           /\ Lone(op.lobby)
           /\ Sitting(op.lobby) = {op.user}
           /\ Placed(op.lobby) = {}

Playing ==
    /\ op.pc \in {"RunningState", "TurnTaken", "VoteSide", "Restarted",
                  "BothLeaveLeft", "SplitLeaver", "Inputs"} =>
           Pair(op.lobby) /\ Placed(op.lobby) = Sitting(op.lobby)
    /\ op.pc = "VoteSide" =>
           /\ op.user \in Placed(op.lobby)
           /\ op.msg \in {"Yes", "No"}
           /\ reply # NoReply => reply \in Sides
    /\ op.pc \in {"RunningState", "TurnTaken"} => op.user \in Placed(op.lobby)

Leaving ==
    /\ op.pc = "BothLeaveLeft" /\ reply # NoReply =>
           reply = actor[op.lobby].seat["Left"]
    /\ op.pc = "BothLeaveRight" =>
           /\ Pair(op.lobby)
           /\ Placed(op.lobby) = {actor[op.lobby].seat["Right"]}
           /\ reply # NoReply => reply = actor[op.lobby].seat["Right"]
    /\ op.pc = "SplitLeaver" /\ reply # NoReply => reply \in Sitting(op.lobby)
    /\ op.pc = "SplitRemoved" =>
           /\ op.user \in Placed(op.lobby)
           /\ IF reply = NoReply
              THEN Pair(op.lobby) /\ Placed(op.lobby) = Sitting(op.lobby)
              ELSE /\ reply = "Waiting"
                   /\ Lone(op.lobby)
                   /\ Sitting(op.lobby) = Placed(op.lobby) \ {op.user}
    /\ op.pc = "SplitReset" =>
           Lone(op.lobby) /\ Placed(op.lobby) = Sitting(op.lobby)

Knows == Disconnecting /\ Joining /\ Playing /\ Leaving

AtWork ==
    /\ Idle => op = NoOp /\ reply = NoReply
    /\ ~ Idle => /\ op.user \in Users /\ op.lobby \in up
                 /\ lobby_list[op.lobby] = "Absent"
    /\ Knows

IInv == TypeInv /\ Calls /\ Entries /\ NoGhosts /\ AtWork /\ panicked = FALSE

-----------------------------------------------------------------------------
LEMMA InitInv == ASSUME Init PROVE IInv
<1> USE ActorAssumption, ServerAssumption DEF ActorAssumption, ServerAssumption,
        Init, NoOp, NoMessage, Message, NoReply, Sides
<1>1. TypeInv
    BY EmptySeq DEF TypeInv, Operations, Messages, ClientMessages, NoVotes,
       StoppedActor, ResetLobby, Actors, RoundStages, LobbyStates
<1>2. Calls
    BY DEF Calls
<1>3. Entries /\ NoGhosts /\ AtWork
    BY DEF Entries, NoGhosts, AtWork, Idle, Knows, Disconnecting, Joining,
       Playing,
       Leaving
<1> QED
    BY <1>1, <1>2, <1>3 DEF IInv


\* A lobby whose actor does not move keeps its players.
LEMMA SameLobby ==
    ASSUME NEW l, actor'[l] = actor[l], mailbox'[l] = mailbox[l]
    PROVE  /\ Lone(l)' <=> Lone(l)
           /\ Pair(l)' <=> Pair(l)
           /\ Sitting(l)' = Sitting(l)
BY DEF Lone, Pair, Sitting

LEMMA SameActors ==
    ASSUME UNCHANGED <<actor, mailbox>>, NEW l
    PROVE  /\ Lone(l)' <=> Lone(l)
           /\ Pair(l)' <=> Pair(l)
           /\ Sitting(l)' = Sitting(l)
BY DEF Lone, Pair, Sitting

LEMMA ConnectInv ==
    ASSUME IInv, NEW u \in Users, ConnectUser(u)
    PROVE  IInv'
<1> USE DEF ConnectUser, Idle, actors
<1>1. TypeInv'
    BY DEF IInv, TypeInv, LobbyStates
<1>2. Calls'
    BY DEF IInv, Calls, Asks, Tells, Asking
<1>3. Entries'
    BY SameActors DEF IInv, Entries, Placed
<1>4. NoGhosts'
    BY DEF IInv, NoGhosts
<1>5. AtWork'
    BY DEF IInv, AtWork, Knows, Disconnecting, Joining, Playing, Leaving, NoOp
<1> QED
    BY <1>1, <1>2, <1>3, <1>4, <1>5 DEF IInv

-----------------------------------------------------------------------------
(***************************************************************************)
(* How an operation begins, goes on and ends.                              *)
(***************************************************************************)
LEMMA BeginInv ==
    ASSUME IInv, Idle, NEW l \in Lobbies,
           lobby_list[l] # "Absent",
           lobby_list' = [lobby_list EXCEPT ![l] = "Absent"],
           op' \in Operations, op'.pc # "Idle", op'.lobby = l,
           op'.user \in Users,
           op'.out # NoMessage, Asks(op.out)' \/ Tells(op.out)',
           UNCHANGED <<connected_user_list, lobby_id, votes, reply, actors,
                       told, panicked>>,
           Knows'
    PROVE  IInv'
<1> USE DEF actors
<1>0. op = NoOp /\ reply = NoReply
    BY DEF IInv, AtWork
<1>1. TypeInv'
    BY DEF IInv, TypeInv
<1>2. Calls'
    BY <1>0 DEF IInv, Calls, Asks, NoOp, Asking
<1>3. Entries'
    BY SameActors DEF IInv, TypeInv, Entries, Placed
<1>4. NoGhosts'
    BY <1>0, ServerAssumption DEF IInv, TypeInv, NoGhosts, NoOp
<1>5. AtWork'
    BY DEF IInv, TypeInv, AtWork, Entries, Idle
<1> QED
    BY <1>1, <1>2, <1>3, <1>4, <1>5 DEF IInv

\* The operation has nothing to wait for: its question is answered, or it
\* has not asked one.
Ready ==
    /\ op.out = NoMessage
    /\ reply # NoReply \/ op.pc \in Telling

\* The user table moves users of the operation's lobby only.
OnlyHere ==
    /\ lobby_id' \in [Users -> Lobbies \cup {NoLobby}]
    /\ \A u \in Users : lobby_id'[u] # lobby_id[u] =>
           /\ {lobby_id[u], lobby_id'[u]} \subseteq {op.lobby, NoLobby}
           /\ u \in connected_user_list

LEMMA ReadyMailbox ==
    ASSUME IInv, Ready
    PROVE  \A l \in Lobbies : \A i \in 1..Len(mailbox[l]) :
               QuietMessage(mailbox[l][i])
BY DEF IInv, Calls, Ready, Asking, Asks, Telling

LEMMA AnsweredReady ==
    ASSUME IInv, NEW pc, pc # "Idle", Answered(pc)
    PROVE  /\ Ready /\ ~ Idle
           /\ op.pc = pc /\ reply # NoReply /\ reply' = NoReply
           /\ op \in Operations /\ op.user \in Users /\ op.lobby \in Lobbies
BY DEF Answered, IInv, Calls, TypeInv, AtWork, Ready, Idle

LEMMA SentReady ==
    ASSUME IInv, NEW pc \in Telling, Sent(pc)
    PROVE  /\ Ready /\ ~ Idle
           /\ op.pc = pc /\ reply = NoReply /\ reply' = NoReply
           /\ op \in Operations /\ op.user \in Users /\ op.lobby \in Lobbies
BY DEF Sent, IInv, Calls, TypeInv, AtWork, Ready, Idle, Telling

LEMMA NobodyMoves == ASSUME IInv, UNCHANGED lobby_id PROVE OnlyHere
BY DEF IInv, TypeInv, OnlyHere

LEMMA AwaitFields ==
    ASSUME op \in Operations, NEW STATE pc, NEW STATE out, Await(pc, out)
    PROVE  /\ op'.pc = pc /\ op'.out = out
           /\ op'.user = op.user /\ op'.lobby = op.lobby /\ op'.msg = op.msg
           /\ op'.entry = op.entry /\ op'.left = op.left
BY DEF Await, Operations

LEMMA ContinueInv ==
    ASSUME IInv, ~ Idle, Ready, OnlyHere,
           op' \in Operations, op'.pc # "Idle", op'.lobby = op.lobby,
           op'.user \in Users,
           op'.out # NoMessage, Asks(op.out)' \/ Tells(op.out)',
           reply' = NoReply,
           told' \in [Users -> LobbyStates \cup {"None"}],
           UNCHANGED <<connected_user_list, lobby_list, votes, actors>>,
           Knows', panicked' = FALSE
    PROVE  IInv'
<1> USE DEF actors
<1>1. TypeInv'
    BY DEF IInv, TypeInv, OnlyHere
<1>2. Calls'
    BY ReadyMailbox DEF IInv, Calls
<1>3. Entries'
    <2>1. ASSUME NEW l \in Lobbies, lobby_list[l] # "Absent"
          PROVE  Placed(l)' = Placed(l)
        BY <2>1, ServerAssumption
           DEF IInv, TypeInv, Entries, OnlyHere, Placed
    <2> QED
        BY <2>1, SameActors DEF IInv, Entries
<1>4. NoGhosts'
    BY DEF IInv, TypeInv, NoGhosts, OnlyHere
<1>5. AtWork'
    BY DEF IInv, TypeInv, AtWork, Idle
<1> QED
    BY <1>1, <1>2, <1>3, <1>4, <1>5 DEF IInv

LEMMA ReturnInv ==
    ASSUME IInv, ~ Idle, Ready, OnlyHere,
           NEW l \in Lobbies, l = op.lobby,
           NEW entry \in {"Absent", "Waiting", "Running", "Finished"},
           op' = NoOp,
           lobby_list' = [lobby_list EXCEPT ![l] = entry],
           votes' \in [Lobbies -> [Sides -> {"None", "Yes", "No"}]],
           IF entry = "Absent"
           THEN Placed(l)' = {}
           ELSE /\ Placed(l)' = Sitting(l)
                /\ IF entry = "Waiting" THEN Lone(l) ELSE Pair(l),
           reply' = NoReply,
           told' \in [Users -> LobbyStates \cup {"None"}],
           UNCHANGED <<connected_user_list, actors>>, panicked' = FALSE
    PROVE  IInv'
<1> USE DEF actors
<1>0. op' = NoOp /\ l \in up
    BY DEF IInv, AtWork, TypeInv
<1>1. TypeInv'
    <2>1. NoOp \in Operations
        BY DEF Operations, NoOp, NoMessage, Message, Messages
    <2> QED
        BY <1>0, <2>1 DEF IInv, TypeInv, OnlyHere
<1>2. Calls'
    <2>1. op'.out = NoMessage
        BY <1>0 DEF NoOp
    <2> QED
        BY <2>1, ReadyMailbox DEF IInv, Calls
<1>3. Entries'
    <2>1. ASSUME NEW k \in Lobbies, lobby_list[k] # "Absent"
          PROVE  Placed(k)' = Placed(k)
        BY <2>1, ServerAssumption
           DEF IInv, TypeInv, Entries, OnlyHere, Placed, ServerAssumption
    <2>2. ASSUME NEW k \in Lobbies, lobby_list'[k] # "Absent", k # l
          PROVE  /\ k \in up' /\ k # op'.lobby
                 /\ Placed(k)' = Sitting(k)'
                 /\ IF lobby_list'[k] = "Waiting" THEN Lone(k)' ELSE Pair(k)'
        BY <1>0, <2>1, <2>2, SameActors, ServerAssumption
           DEF IInv, TypeInv, Entries, NoOp, ServerAssumption
    <2>3. lobby_list'[l] = entry /\ l # op'.lobby
        BY <1>0, ServerAssumption DEF IInv, TypeInv, NoOp, ServerAssumption
    <2> QED
        BY <1>0, <2>2, <2>3, SameActors DEF Entries
<1>4. NoGhosts'
    BY <1>0 DEF IInv, TypeInv, NoGhosts, OnlyHere, Placed
<1>5. AtWork'
    BY <1>0
       DEF AtWork, Idle, NoOp, Knows, Disconnecting, Joining, Playing, Leaving
<1> QED
    BY <1>1, <1>2, <1>3, <1>4, <1>5 DEF IInv

LEMMA FinishInv ==
    ASSUME IInv, ~ Idle, Ready, OnlyHere,
           NEW l \in Lobbies, l = op.lobby,
           NEW entry \in {"Absent", "Waiting", "Running", "Finished"},
           Finish(l, entry),
           IF entry = "Absent"
           THEN Placed(l)' = {}
           ELSE /\ Placed(l)' = Sitting(l)
                /\ IF entry = "Waiting" THEN Lone(l) ELSE Pair(l),
           reply' = NoReply,
           told' \in [Users -> LobbyStates \cup {"None"}],
           UNCHANGED <<connected_user_list, actors>>, panicked' = FALSE
    PROVE  IInv'
BY ReturnInv DEF Finish, IInv, TypeInv, NoVotes

-----------------------------------------------------------------------------
(***************************************************************************)
(* Joining.                                                                *)
(***************************************************************************)
LEMMA JoinWaitingInv ==
    ASSUME IInv, NEW u \in Users, JoinWaiting(u)
    PROVE  IInv'
<1> USE DEF JoinWaiting, Message, NoMessage
<1>1. PICK l \in Lobbies :
          /\ lobby_list[l] = "Waiting"
          /\ lobby_list' = [lobby_list EXCEPT ![l] = "Absent"]
          /\ op' = [NoOp EXCEPT !.pc = "JoinReset", !.user = u, !.lobby = l,
                                !.out = Message("ResetLobby", NoUser)]
    BY DEF WaitingLobbies
<1>2. /\ op' \in Operations /\ op'.pc = "JoinReset" /\ op'.user = u
      /\ op'.lobby = l /\ op'.out = Message("ResetLobby", NoUser)
    BY <1>1 DEF Operations, NoOp, Messages
<1>3. lobby_id[u] = NoLobby
    BY DEF IInv, NoGhosts, AtWork, InLobby, NoOp
<1>4. Knows'
    BY <1>1, <1>2, <1>3, SameActors
       DEF IInv, Entries, AtWork, Knows, Disconnecting, Joining, Playing,
           Leaving, Idle, actors, Placed
<1>5. Tells(op.out)' /\ op'.out # NoMessage
    BY <1>2 DEF Tells
<1> QED
    BY <1>1, <1>2, <1>4, <1>5, BeginInv

LEMMA JoinInsertInv ==
    ASSUME IInv, JoinInsert
    PROVE  IInv'
<1> USE DEF JoinInsert, Message, NoMessage, actors, table
<1>0. /\ Ready /\ ~ Idle
      /\ op.pc = "JoinReset" /\ reply = NoReply /\ reply' = NoReply
      /\ op \in Operations /\ op.user \in Users /\ op.lobby \in Lobbies
    BY SentReady DEF Telling
<1>1. op' \in Operations
    BY <1>0 DEF Await, Operations, Messages
<1>2. /\ op'.pc = "JoinInserted" /\ op'.out = Message("InsertPlayer", op.user)
      /\ op'.user = op.user /\ op'.lobby = op.lobby
    BY <1>0, AwaitFields
<1>3. Asks(op.out)' /\ op'.out # NoMessage
    BY <1>2 DEF Asks
<1>4. Knows'
    BY <1>0, <1>2, SameActors
       DEF IInv, AtWork, Knows, Disconnecting, Joining, Playing, Leaving,
           Idle, Placed
<1> QED
    BY <1>0, <1>1, <1>2, <1>3, <1>4, ContinueInv, NobodyMoves DEF IInv, TypeInv

LEMMA JoinInsertedInv ==
    ASSUME IInv, JoinInserted
    PROVE  IInv'
<1> USE DEF JoinInserted, actors
<1>0. /\ Ready /\ ~ Idle
      /\ op.pc = "JoinInserted" /\ reply # NoReply /\ reply' = NoReply
      /\ op \in Operations /\ op.user \in Users /\ op.lobby \in Lobbies
    BY AnsweredReady
<1>1. PICK l \in Lobbies : l = op.lobby
    BY <1>0
<1>2. /\ reply = "Running" /\ Pair(l) /\ lobby_id[op.user] = NoLobby
      /\ op.user \in Sitting(l) /\ Placed(l) = Sitting(l) \ {op.user}
      /\ op.user \in connected_user_list
    BY <1>0, <1>1 DEF IInv, AtWork, Knows, Joining
<1>3. Finish(l, "Running") /\ lobby_id' = [lobby_id EXCEPT ![op.user] = l]
    BY <1>1, <1>2
<1>4. Placed(l)' = Sitting(l) /\ OnlyHere
    BY <1>0, <1>1, <1>2, <1>3 DEF Placed, Sitting, OnlyHere, IInv, TypeInv
<1> QED
    BY <1>0, <1>1, <1>2, <1>3, <1>4, FinishInv DEF IInv, TypeInv

LEMMA JoinStartedInv ==
    ASSUME IInv, JoinStarted
    PROVE  IInv'
<1> USE DEF JoinStarted, actors
<1>0. /\ Ready /\ ~ Idle
      /\ op.pc = "JoinStarted" /\ reply # NoReply /\ reply' = NoReply
      /\ op \in Operations /\ op.user \in Users /\ op.lobby \in Lobbies
    BY AnsweredReady
<1>1. PICK l \in Lobbies : l = op.lobby
    BY <1>0
<1>2. /\ Lone(l)
      /\ lobby_id[op.user] = NoLobby
      /\ op.user \in connected_user_list
      /\ Sitting(l) = {op.user} /\ Placed(l) = {}
    BY <1>0, <1>1 DEF IInv, AtWork, Knows, Joining
<1>3. Finish(l, "Waiting") /\ lobby_id' = [lobby_id EXCEPT ![op.user] = l]
    BY <1>1
<1>4. Placed(l)' = Sitting(l) /\ OnlyHere
    BY <1>0, <1>1, <1>2, <1>3 DEF Placed, OnlyHere, IInv, TypeInv
<1> QED
    BY <1>0, <1>1, <1>2, <1>3, <1>4, FinishInv DEF IInv, TypeInv

-----------------------------------------------------------------------------
(***************************************************************************)
(* Messages of a user whose lobby is running or finished.                  *)
(***************************************************************************)
LEMMA BeginFields ==
    ASSUME IInv, NEW pc, NEW u \in Users, NEW msg, NEW out,
           lobby_id[u] # NoLobby, Begin(pc, u, msg, out)
    PROVE  /\ op'.pc = pc /\ op'.user = u /\ op'.msg = msg
           /\ op'.lobby = lobby_id[u] /\ op'.out = out
           /\ op'.entry = "Absent" /\ op'.left = 0
           /\ lobby_list' = [lobby_list EXCEPT ![lobby_id[u]] = "Absent"]
           /\ lobby_id[u] \in Lobbies
BY DEF IInv, TypeInv, Begin, NoOp

LEMMA RpcRunningInv ==
    ASSUME IInv, NEW u \in Users, NEW msg \in ClientMessages,
           RpcRunning(u, msg)
    PROVE  IInv'
<1> USE DEF RpcRunning, Message, NoMessage
<1>1. PICK l \in Lobbies : l = lobby_id[u]
    BY DEF IInv, TypeInv
<1>2. /\ op'.pc = "RunningState" /\ op'.user = u /\ op'.msg = msg
      /\ op'.lobby = l /\ op'.out = Message("LobbyState", NoUser)
      /\ lobby_list' = [lobby_list EXCEPT ![l] = "Absent"]
      /\ lobby_list[l] = "Running"
    BY <1>1, BeginFields
<1>3. op' \in Operations
    BY <1>1 DEF Begin, NoOp, Operations, Messages
<1>4. Pair(l) /\ Placed(l) = Sitting(l) /\ u \in Placed(l)
    BY <1>1, <1>2 DEF IInv, Entries, Placed
<1>5. Knows'
    BY <1>2, <1>4, SameActors
       DEF Knows, Disconnecting, Joining, Playing, Leaving, Placed, actors
<1>6. Asks(op.out)' /\ op'.out # NoMessage
    BY <1>2 DEF Asks
<1> QED
    BY <1>2, <1>3, <1>5, <1>6, BeginInv

LEMMA RpcFinishedInv ==
    ASSUME IInv, NEW u \in Users, NEW msg \in ClientMessages,
           RpcFinished(u, msg)
    PROVE  IInv'
<1> USE DEF RpcFinished, Message, NoMessage
<1>1. PICK l \in Lobbies : l = lobby_id[u]
    BY DEF IInv, TypeInv
<1>2. /\ op'.pc = "VoteSide" /\ op'.user = u /\ op'.msg = msg
      /\ op'.lobby = l /\ op'.out = Message("GetPlayerSide", u)
      /\ lobby_list' = [lobby_list EXCEPT ![l] = "Absent"]
      /\ lobby_list[l] = "Finished"
    BY <1>1, BeginFields
<1>3. op' \in Operations
    BY <1>1 DEF Begin, NoOp, Operations, Messages
<1>4. Pair(l) /\ Placed(l) = Sitting(l) /\ u \in Placed(l)
    BY <1>1, <1>2 DEF IInv, Entries, Placed
<1>5. Knows'
    <2>1. reply' = NoReply
        BY DEF IInv, AtWork
    <2> QED
        BY <1>2, <1>4, <2>1, SameActors
           DEF Knows, Disconnecting, Joining, Playing, Leaving, Placed, actors
<1>6. Asks(op.out)' /\ op'.out # NoMessage
    BY <1>2 DEF Asks
<1> QED
    BY <1>2, <1>3, <1>5, <1>6, BeginInv

\* An operation on a lobby with two players goes on asking it.
LEMMA AskOn ==
    ASSUME IInv, Ready, NEW pc \in {"TurnTaken", "VoteSide", "Restarted",
                                    "BothLeaveLeft", "SplitLeaver"},
           NEW STATE out, out \in Messages, Await(pc, out),
           out # NoMessage, Asks(op.out)' \/ Tells(op.out)',
           op.pc \in {"RunningState", "VoteSide"},
           op.pc = "VoteSide" \/ pc = "TurnTaken" \/ op.msg \in {"Yes", "No"},
           reply' = NoReply,
           UNCHANGED <<table, actors, told, panicked>>
    PROVE  IInv'
<1> USE DEF actors, table
<1>0. op \in Operations /\ op.user \in Users /\ op.lobby \in Lobbies /\ ~ Idle
    BY DEF IInv, TypeInv, AtWork, Idle
<1>1. op' \in Operations
    BY <1>0 DEF Await, Operations
<1>2. /\ op'.pc = pc /\ op'.out = out
      /\ op'.user = op.user /\ op'.lobby = op.lobby /\ op'.msg = op.msg
    BY <1>0, AwaitFields
<1>3. Knows'
    BY <1>0, <1>2, SameActors
       DEF IInv, AtWork, Knows, Disconnecting, Joining, Playing, Leaving,
           Idle, Placed
<1> QED
    BY <1>0, <1>1, <1>2, <1>3, ContinueInv, NobodyMoves DEF IInv, TypeInv

\* ... or leaves it in the table.
LEMMA BackToTable ==
    ASSUME IInv, Ready,
           op.pc \in {"RunningState", "TurnTaken", "VoteSide", "Restarted",
                       "Inputs"},
           NEW entry \in {"Running", "Finished"}, Finish(op.lobby, entry),
           reply' = NoReply,
           UNCHANGED <<connected_user_list, lobby_id, actors, told, panicked>>
    PROVE  IInv'
<1>1. PICK l \in Lobbies : l = op.lobby /\ ~ Idle
    BY DEF IInv, TypeInv, AtWork, Idle
<1>2. Placed(l)' = Sitting(l) /\ Pair(l)
    BY <1>1 DEF IInv, AtWork, Knows, Playing, Placed
<1> QED
    BY <1>1, <1>2, FinishInv, NobodyMoves DEF IInv, TypeInv

LEMMA RunningStateInv ==
    ASSUME IInv, RunningState
    PROVE  IInv'
<1> USE DEF RunningState, Message, NoMessage
<1>0. /\ Ready /\ ~ Idle
      /\ op.pc = "RunningState" /\ reply # NoReply /\ reply' = NoReply
      /\ op \in Operations /\ op.user \in Users /\ op.lobby \in Lobbies
    BY AnsweredReady
<1>1. CASE reply = "Finished" /\ op.msg \in {"Yes", "No"}
    <2>1. Await("VoteSide", Message("GetPlayerSide", op.user))
        BY <1>1
    <2>2. Asks(op.out)'
        BY <1>0, <2>1, AwaitFields DEF Asks
    <2> QED
        BY <1>0, <1>1, <2>1, <2>2, AskOn DEF Messages, table
<1>2. CASE reply # "Finished" /\ op.msg = "TurnAction"
    <2>1. Await("TurnTaken", Message("TurnAction", op.user))
        BY <1>2
    <2>2. Asks(op.out)'
        BY <1>0, <2>1, AwaitFields DEF Asks
    <2> QED
        BY <1>0, <1>2, <2>1, <2>2, AskOn DEF Messages, table
<1>3. CASE \E entry \in {"Running", "Finished"} : Finish(op.lobby, entry)
    BY <1>0, <1>3, BackToTable
<1> QED
    BY <1>0, <1>1, <1>2, <1>3

LEMMA TurnTakenInv ==
    ASSUME IInv, TurnTaken
    PROVE  IInv'
BY AnsweredReady, BackToTable DEF TurnTaken

\* With one vote missing, the lobby is back in the table with the vote cast.
LEMMA VoteCast ==
    ASSUME IInv, Ready, op.pc = "VoteSide",
           NEW s \in Sides, op.msg \in {"Yes", "No"},
           op' = NoOp,
           lobby_list' = [lobby_list EXCEPT ![op.lobby] = "Finished"],
           votes' = [votes EXCEPT ![op.lobby] =
                         [votes[op.lobby] EXCEPT ![s] = op.msg]],
           reply' = NoReply,
           UNCHANGED <<connected_user_list, lobby_id, actors, told, panicked>>
    PROVE  IInv'
<1>1. PICK l \in Lobbies : l = op.lobby /\ ~ Idle
    BY DEF IInv, TypeInv, AtWork, Idle
<1>2. Placed(l)' = Sitting(l) /\ Pair(l)
    BY <1>1 DEF IInv, AtWork, Knows, Playing, Placed
<1>3. votes' \in [Lobbies -> [Sides -> {"None", "Yes", "No"}]]
    BY <1>1 DEF IInv, TypeInv
<1> QED
    BY <1>1, <1>2, <1>3, ReturnInv, NobodyMoves DEF IInv, TypeInv

LEMMA VoteSideInv ==
    ASSUME IInv, VoteSide
    PROVE  IInv'
<1> USE DEF Message, NoMessage
<1>0. /\ Ready /\ ~ Idle
      /\ op.pc = "VoteSide" /\ reply # NoReply /\ reply' = NoReply
      /\ op \in Operations /\ op.user \in Users /\ op.lobby \in Lobbies
    BY AnsweredReady DEF VoteSide
<1>1. reply \in Sides /\ op.msg \in {"Yes", "No"} /\ reply # "Error"
    BY <1>0 DEF IInv, AtWork, Knows, Playing, Sides
<1> DEFINE cast == [votes[op.lobby] EXCEPT ![reply] = op.msg]
<1>2. CASE /\ Await("Restarted", Message("ResetLobby", NoUser))
          /\ UNCHANGED <<lobby_list, votes>>
    <2>1. Tells(op.out)'
        BY <1>0, <1>2, AwaitFields DEF Tells
    <2> QED
        BY <1>0, <1>2, <2>1, AskOn DEF Messages, table, VoteSide
<1>3. CASE /\ Await("BothLeaveLeft", Message("GetLeft", NoUser))
          /\ UNCHANGED <<lobby_list, votes>>
    <2>1. Asks(op.out)'
        BY <1>0, <1>3, AwaitFields DEF Asks
    <2> QED
        BY <1>0, <1>3, <2>1, AskOn DEF Messages, table, VoteSide
<1>4. CASE \E kind \in {"GetLeft", "GetRight"} :
              Await("SplitLeaver", Message(kind, NoUser))
           /\ UNCHANGED <<lobby_list, votes>>
    <2>0. PICK kind \in {"GetLeft", "GetRight"} :
              Await("SplitLeaver", Message(kind, NoUser))
        BY <1>4
    <2>1. Asks(op.out)'
        BY <1>0, <2>0, AwaitFields DEF Asks
    <2> QED
        BY <1>0, <1>4, <2>0, <2>1, AskOn DEF Messages, table, VoteSide
<1>5. CASE /\ op' = NoOp
           /\ lobby_list' = [lobby_list EXCEPT ![op.lobby] = "Finished"]
           /\ votes' = [votes EXCEPT ![op.lobby] = cast]
    BY <1>0, <1>1, <1>5, VoteCast DEF VoteSide
<1> QED
    BY <1>1, <1>2, <1>3, <1>4, <1>5 DEF VoteSide

LEMMA RestartedInv ==
    ASSUME IInv, Restarted
    PROVE  IInv'
BY SentReady, BackToTable DEF Restarted, Telling

LEMMA InputSentInv ==
    ASSUME IInv, InputSent
    PROVE  IInv'
<1>0. /\ Ready /\ ~ Idle
      /\ op.pc = "Inputs" /\ reply = NoReply /\ reply' = NoReply
      /\ op \in Operations /\ op.user \in Users /\ op.lobby \in Lobbies
    BY SentReady DEF InputSent, Telling
<1>1. CASE op.left > 0
    <2> DEFINE next == Message("MoveInput", op.user)
    <2>0. /\ op' = [op EXCEPT !.left = @ - 1, !.out = next]
          /\ UNCHANGED <<lobby_list, votes>>
        BY <1>1 DEF InputSent
    <2>1. next \in Messages /\ op.left - 1 \in Nat
        BY <1>0, <1>1 DEF Operations, Messages, Message
    <2> HIDE DEF next
    <2>2. /\ op' \in Operations /\ op'.pc = "Inputs" /\ op'.user = op.user
          /\ op'.lobby = op.lobby /\ op'.out = next
        BY <1>0, <2>0, <2>1 DEF Operations
    <2>3. Tells(op.out)' /\ op'.out # NoMessage
        BY <2>2 DEF Tells, next, Message, NoMessage
    <2>4. Knows'
        BY <1>0, <2>2, SameActors
           DEF IInv, AtWork, Knows, Disconnecting, Joining, Playing, Leaving,
               Idle, Placed, InputSent, actors
    <2> QED
        BY <1>0, <2>0, <2>2, <2>3, <2>4, ContinueInv, NobodyMoves
           DEF IInv, TypeInv, InputSent
<1>2. CASE ~ (op.left > 0)
    BY <1>0, <1>2, BackToTable DEF InputSent
<1> QED
    BY <1>1, <1>2

LEMMA InputsInv ==
    ASSUME IInv, NEW u \in Users, Inputs(u)
    PROVE  IInv'
<1> USE DEF Inputs, Message, NoMessage
<1>0. PICK n \in 1..InputsPerDatagram :
          /\ lobby_list' = [lobby_list EXCEPT ![lobby_id[u]] = "Absent"]
          /\ op' = [NoOp EXCEPT !.pc = "Inputs", !.user = u,
                                !.lobby = lobby_id[u], !.left = n - 1,
                                !.out = Message("MoveInput", u)]
    OBVIOUS
<1>1. PICK l \in Lobbies, left \in Nat :
          /\ l = lobby_id[u]
          /\ lobby_list' = [lobby_list EXCEPT ![l] = "Absent"]
          /\ op' = [NoOp EXCEPT !.pc = "Inputs", !.user = u, !.lobby = l,
                                !.left = left, !.out = Message("MoveInput", u)]
    <2>1. n - 1 \in Nat
        BY ServerAssumption DEF ServerAssumption
    <2>2. lobby_id[u] \in Lobbies
        BY DEF IInv, TypeInv
    <2> QED
        BY <1>0, <2>1, <2>2
<1>2. /\ op' \in Operations /\ op'.pc = "Inputs" /\ op'.user = u
      /\ op'.lobby = l /\ op'.out = Message("MoveInput", u)
    BY <1>1 DEF NoOp, Operations, Messages
<1>3. Pair(l) /\ Placed(l) = Sitting(l)
    BY <1>1 DEF IInv, Entries
<1>4. Knows'
    BY <1>2, <1>3, SameActors
       DEF Knows, Disconnecting, Joining, Playing, Leaving, Placed, actors
<1>5. Tells(op.out)' /\ op'.out # NoMessage
    BY <1>2 DEF Tells
<1> QED
    BY <1>1, <1>2, <1>4, <1>5, BeginInv

-----------------------------------------------------------------------------
(***************************************************************************)
(* Players who leave.                                                      *)
(***************************************************************************)
LEMMA TakeOutOnlyHere ==
    ASSUME IInv, NEW u \in Users, lobby_id[u] = op.lobby,
           op.lobby \in Lobbies, RemoveFromLobby(u)
    PROVE  /\ OnlyHere
           /\ told' \in [Users -> LobbyStates \cup {"None"}]
           /\ u \in connected_user_list
           /\ \A l \in Lobbies : Placed(l)' = Placed(l) \ {u}
BY ServerAssumption
   DEF IInv, TypeInv, NoGhosts, RemoveFromLobby, OnlyHere, LobbyStates, Placed,
       ServerAssumption

LEMMA BothLeaveLeftInv ==
    ASSUME IInv, BothLeaveLeft
    PROVE  IInv'
<1>0. /\ Ready /\ ~ Idle
      /\ op.pc = "BothLeaveLeft" /\ reply # NoReply /\ reply' = NoReply
      /\ op \in Operations /\ op.user \in Users /\ op.lobby \in Lobbies
    BY AnsweredReady DEF BothLeaveLeft
<1>1. PICK l \in Lobbies : l = op.lobby
    BY <1>0
<1>2. /\ reply = actor[l].seat["Left"] /\ Pair(l)
      /\ Placed(l) = Sitting(l)
    BY <1>0, <1>1 DEF IInv, AtWork, Knows, Playing, Leaving
<1>3. /\ reply \in Users /\ lobby_id[reply] = l
      /\ Placed(l) \ {reply} = {actor[l].seat["Right"]}
    BY <1>2 DEF Pair, Sitting, Placed, HasPlayer, Sides
<1>4. /\ OnlyHere /\ told' \in [Users -> LobbyStates \cup {"None"}]
      /\ reply \in connected_user_list
      /\ Placed(l)' = {actor[l].seat["Right"]}
    BY <1>0, <1>1, <1>3, TakeOutOnlyHere DEF BothLeaveLeft
<1>5. Message("GetRight", NoUser) \in Messages
    BY DEF Messages, Message
<1>6. /\ op' \in Operations
      /\ op'.pc = "BothLeaveRight" /\ op'.out = Message("GetRight", NoUser)
      /\ op'.user = op.user /\ op'.lobby = op.lobby
    BY <1>0, <1>5, AwaitFields DEF BothLeaveLeft, Await, Operations
<1>7. Asks(op.out)' /\ op'.out # NoMessage
    BY <1>6 DEF Asks, Message, NoMessage
<1>8. Knows'
    BY <1>0, <1>1, <1>2, <1>4, <1>6, SameActors
       DEF Knows, Disconnecting, Joining, Playing, Leaving, BothLeaveLeft,
           actors
<1> QED
    BY <1>0, <1>4, <1>6, <1>7, <1>8, ContinueInv
       DEF BothLeaveLeft, IInv

LEMMA BothLeaveRightInv ==
    ASSUME IInv, BothLeaveRight
    PROVE  IInv'
<1>0. /\ Ready /\ ~ Idle
      /\ op.pc = "BothLeaveRight" /\ reply # NoReply /\ reply' = NoReply
      /\ op \in Operations /\ op.user \in Users /\ op.lobby \in Lobbies
    BY AnsweredReady DEF BothLeaveRight
<1>1. PICK l \in Lobbies : l = op.lobby
    BY <1>0
<1>2. /\ reply = actor[l].seat["Right"] /\ Pair(l)
      /\ Placed(l) = {reply}
    BY <1>0, <1>1 DEF IInv, AtWork, Knows, Leaving
<1>3. reply \in Users /\ lobby_id[reply] = l
    BY <1>2 DEF Pair, Placed, Sides
<1>4. /\ OnlyHere /\ told' \in [Users -> LobbyStates \cup {"None"}]
      /\ reply \in connected_user_list
      /\ Placed(l)' = {}
    BY <1>0, <1>1, <1>2, <1>3, TakeOutOnlyHere DEF BothLeaveRight
<1> QED
    BY <1>0, <1>1, <1>4, FinishInv DEF BothLeaveRight, IInv

LEMMA SplitLeaverInv ==
    ASSUME IInv, SplitLeaver
    PROVE  IInv'
<1>0. /\ Ready /\ ~ Idle
      /\ op.pc = "SplitLeaver" /\ reply # NoReply /\ reply' = NoReply
      /\ op \in Operations /\ op.user \in Users /\ op.lobby \in Lobbies
    BY AnsweredReady DEF SplitLeaver
<1>1. PICK l \in Lobbies : l = op.lobby
    BY <1>0
<1>2. Pair(l) /\ Placed(l) = Sitting(l) /\ reply \in Sitting(l)
    BY <1>0, <1>1 DEF IInv, AtWork, Knows, Playing, Leaving
<1>3. reply \in Users /\ reply \in connected_user_list
    BY <1>2, ServerAssumption
       DEF Placed, Sitting, IInv, NoGhosts, ServerAssumption
<1>4. Message("RemovePlayer", reply) \in Messages
    BY <1>3 DEF Messages, Message
<1>5. /\ op' \in Operations
      /\ op'.pc = "SplitRemoved" /\ op'.out = Message("RemovePlayer", reply)
      /\ op'.user = reply /\ op'.lobby = op.lobby
    BY <1>0, <1>3, <1>4 DEF SplitLeaver, Operations
<1>6. Asks(op.out)' /\ op'.out # NoMessage
    BY <1>5 DEF Asks, Message, NoMessage
<1>7. Knows'
    BY <1>0, <1>1, <1>2, <1>5, SameActors
       DEF Knows, Disconnecting, Joining, Playing, Leaving, SplitLeaver,
           actors, table, Placed
<1> QED
    BY <1>0, <1>3, <1>5, <1>6, <1>7, ContinueInv, NobodyMoves
       DEF SplitLeaver, IInv, TypeInv, table

LEMMA SplitRemovedInv ==
    ASSUME IInv, SplitRemoved
    PROVE  IInv'
<1>0. /\ Ready /\ ~ Idle
      /\ op.pc = "SplitRemoved" /\ reply # NoReply /\ reply' = NoReply
      /\ op \in Operations /\ op.user \in Users /\ op.lobby \in Lobbies
    BY AnsweredReady DEF SplitRemoved
<1>1. PICK l \in Lobbies : l = op.lobby
    BY <1>0
<1>2. /\ reply = "Waiting" /\ Lone(l) /\ op.user \in Placed(l)
      /\ Sitting(l) = Placed(l) \ {op.user}
    BY <1>0, <1>1 DEF IInv, AtWork, Knows, Leaving
<1>3. lobby_id[op.user] = l
    BY <1>2 DEF Placed
<1>4. /\ OnlyHere /\ told' \in [Users -> LobbyStates \cup {"None"}]
      /\ Placed(l)' = Sitting(l)
    BY <1>0, <1>1, <1>2, <1>3, TakeOutOnlyHere DEF SplitRemoved
<1>5. Message("ResetLobby", NoUser) \in Messages
    BY DEF Messages, Message
<1>6. /\ op' \in Operations
      /\ op'.pc = "SplitReset" /\ op'.out = Message("ResetLobby", NoUser)
      /\ op'.user = op.user /\ op'.lobby = op.lobby
    BY <1>0, <1>5, AwaitFields DEF SplitRemoved, Await, Operations
<1>7. Tells(op.out)' /\ op'.out # NoMessage
    BY <1>6 DEF Tells, Message, NoMessage
<1>8. Knows'
    BY <1>0, <1>1, <1>2, <1>4, <1>6, SameActors
       DEF Knows, Disconnecting, Joining, Playing, Leaving, SplitRemoved,
           actors
<1> QED
    BY <1>0, <1>2, <1>4, <1>6, <1>7, <1>8, ContinueInv DEF SplitRemoved, IInv

LEMMA SplitResetInv ==
    ASSUME IInv, SplitReset
    PROVE  IInv'
<1>0. /\ Ready /\ ~ Idle
      /\ op.pc = "SplitReset" /\ reply = NoReply /\ reply' = NoReply
      /\ op \in Operations /\ op.user \in Users /\ op.lobby \in Lobbies
    BY SentReady DEF SplitReset, Telling
<1>1. PICK l \in Lobbies : l = op.lobby
    BY <1>0
<1>2. Lone(l) /\ Placed(l)' = Sitting(l)
    BY <1>0, <1>1 DEF IInv, AtWork, Knows, Leaving, SplitReset, Placed
<1> QED
    BY <1>0, <1>1, <1>2, FinishInv, NobodyMoves
       DEF SplitReset, IInv, TypeInv

LEMMA DisconnectRemovedInv ==
    ASSUME IInv, DisconnectRemoved
    PROVE  IInv'
<1>0. /\ Ready /\ ~ Idle
      /\ op.pc = "Disconnected" /\ reply # NoReply /\ reply' = NoReply
      /\ op \in Operations /\ op.user \in Users /\ op.lobby \in Lobbies
    BY AnsweredReady DEF DisconnectRemoved
<1>1. PICK l \in Lobbies : l = op.lobby
    BY <1>0
<1>2. /\ Placed(l) = Sitting(l)
      /\ IF op.entry = "Waiting" THEN reply = "Empty" /\ Placed(l) = {}
                                 ELSE reply = "Waiting" /\ Lone(l)
    BY <1>0, <1>1 DEF IInv, AtWork, Knows, Disconnecting
<1>3. Placed(l)' = Placed(l) /\ panicked' = FALSE
    BY <1>2 DEF DisconnectRemoved, Placed, IInv
<1> QED
    BY <1>0, <1>1, <1>2, <1>3, FinishInv, NobodyMoves
       DEF DisconnectRemoved, IInv, TypeInv

LEMMA ForgetFields ==
    ASSUME NEW a \in Actors, NEW u
    PROVE  /\ Forget(a, u) \in Actors
           /\ (\A s \in Sides : a.seat[s] # u) => Forget(a, u) = a
<1> DEFINE seat == [s \in Sides |-> IF a.seat[s] = u THEN Departed
                                                   ELSE a.seat[s]]
<1>1. seat \in [Sides -> Users \cup {NoUser, Departed}]
    BY DEF Actors
<1>2. Forget(a, u) = [a EXCEPT !.seat = seat]
    BY DEF Forget
<1>3. (\A s \in Sides : a.seat[s] # u) => seat = a.seat
    BY DEF Actors
<1> HIDE DEF seat
<1> QED
    BY <1>1, <1>2, <1>3 DEF Actors

LEMMA DisconnectUserInv ==
    ASSUME IInv, NEW u \in Users, DisconnectUser(u)
    PROVE  IInv'
<1> USE DEF DisconnectUser
<1>0. op = NoOp /\ reply = NoReply
    BY DEF IInv, AtWork
<1>1. /\ connected_user_list' = connected_user_list \ {u}
      /\ lobby_id' = [lobby_id EXCEPT ![u] = NoLobby]
      /\ UNCHANGED <<votes, reply, up, mailbox, panicked>>
    OBVIOUS
<1>2. actor' = [k \in Lobbies |-> IF k = lobby_id[u] THEN actor[k]
                                  ELSE Forget(actor[k], u)]
    OBVIOUS
<1>3. actor' \in [Lobbies -> Actors]
    BY <1>2, ForgetFields DEF IInv, TypeInv
<1>4. told' \in [Users -> LobbyStates \cup {"None"}]
    BY DEF IInv, TypeInv, LobbyStates
\* The others' lobbies do not know the user.
<1>5. ASSUME NEW k \in Lobbies, lobby_list[k] # "Absent"
      PROVE  actor'[k] = actor[k]
    <2>1. CASE k = lobby_id[u]
        BY <1>2, <2>1
    <2>2. CASE k # lobby_id[u]
        <3>1. u \notin Sitting(k)
            BY <1>5, <2>2 DEF IInv, Entries, Placed
        <3>2. \A s \in Sides : actor[k].seat[s] # u
            BY <3>1 DEF Sitting, HasPlayer
        <3>3. Forget(actor[k], u) = actor[k]
            BY <3>2, ForgetFields DEF IInv, TypeInv
        <3> QED
            BY <1>2, <2>2, <3>3
    <2> QED
        BY <2>1, <2>2
<1>6. ASSUME NEW k \in Lobbies, k # lobby_id[u]
      PROVE  Placed(k)' = Placed(k)
    BY <1>1, <1>6, ServerAssumption
       DEF Placed, IInv, TypeInv, ServerAssumption
<1>7. CASE lobby_id[u] # NoLobby /\ lobby_list[lobby_id[u]] # "Absent"
    <2>1. PICK l \in Lobbies : l = lobby_id[u]
        BY <1>7 DEF IInv, TypeInv
    <2>2. /\ lobby_list' = [lobby_list EXCEPT ![l] = "Absent"]
          /\ op' = [NoOp EXCEPT !.pc = "Disconnected", !.user = u,
                                !.lobby = l, !.entry = lobby_list[l],
                                !.out = Message("RemovePlayer", u)]
        BY <1>7, <2>1
    <2>3. Message("RemovePlayer", u) \in Messages
        BY DEF Message, Messages
    <2>4. /\ op' \in Operations
          /\ op'.pc = "Disconnected" /\ op'.user = u /\ op'.lobby = l
          /\ op'.entry = lobby_list[l] /\ op'.out = Message("RemovePlayer", u)
        BY <2>2, <2>3 DEF NoOp, Operations, IInv, TypeInv
    <2>5. Placed(l) = Sitting(l) /\ l \in up /\ u \in Placed(l)
        BY <1>7, <2>1 DEF IInv, Entries, Placed
    <2>6. Placed(l)' = Placed(l) \ {u}
        BY <1>1, <2>1, ServerAssumption
           DEF Placed, IInv, TypeInv, ServerAssumption
    <2>7. actor'[l] = actor[l]
        BY <1>5, <1>7, <2>1
    <2>8. TypeInv'
        BY <1>1, <1>3, <1>4, <2>2, <2>4 DEF IInv, TypeInv
    <2>9. Calls'
        BY <1>0, <1>1, <2>4
           DEF IInv, Calls, Asks, NoOp, Asking, Message, NoMessage
    <2>10. Entries'
        <3>1. ASSUME NEW k \in Lobbies, lobby_list'[k] # "Absent"
              PROVE  /\ k \in up' /\ k # op'.lobby
                     /\ Placed(k)' = Sitting(k)'
                     /\ lobby_list'[k] = lobby_list[k]
                     /\ Lone(k)' <=> Lone(k)
                     /\ Pair(k)' <=> Pair(k)
            <4>1. k # l /\ lobby_list'[k] = lobby_list[k]
                BY <2>1, <2>2, <3>1 DEF IInv, TypeInv
            <4>2. actor'[k] = actor[k] /\ mailbox'[k] = mailbox[k]
                BY <1>1, <1>5, <3>1, <4>1
            <4> QED
                BY <1>1, <1>6, <2>1, <2>4, <3>1, <4>1, <4>2, SameLobby
                   DEF IInv, Entries
        <3> QED
            BY <3>1 DEF IInv, Entries
    <2>11. NoGhosts'
        BY <1>0, <1>1, <2>1, <2>2, <2>4, ServerAssumption
           DEF IInv, TypeInv, NoGhosts, NoOp, ServerAssumption
    <2>12. Knows'
        BY <1>0, <1>1, <1>7, <2>1, <2>4, <2>5, <2>6, <2>7, SameLobby
           DEF Knows, Disconnecting, Joining, Playing, Leaving, IInv, Entries
    <2>13. AtWork'
        BY <1>1, <2>1, <2>2, <2>4, <2>5, <2>12 DEF AtWork, Idle, IInv, TypeInv
    <2> QED
        BY <1>1, <2>8, <2>9, <2>10, <2>11, <2>13 DEF IInv
<1>8. CASE ~ (lobby_id[u] # NoLobby /\ lobby_list[lobby_id[u]] # "Absent")
    <2>1. lobby_id[u] = NoLobby
        BY <1>0, <1>8 DEF IInv, NoGhosts, NoOp
    <2>2. UNCHANGED <<lobby_id, lobby_list, op>>
        BY <1>1, <1>8, <2>1 DEF IInv, TypeInv
    <2>3. TypeInv'
        BY <1>1, <1>3, <1>4, <2>2 DEF IInv, TypeInv
    <2>4. Calls'
        BY <1>1, <2>2 DEF IInv, Calls, Asks, Tells, Asking
    <2>5. Entries'
        BY <1>1, <1>5, <2>2, SameLobby DEF IInv, Entries, Placed
    <2>6. NoGhosts'
        BY <1>1, <2>1, <2>2 DEF IInv, NoGhosts
    <2>7. AtWork'
        BY <1>0, <1>1, <2>2
           DEF AtWork, Idle, Knows, Disconnecting, Joining, Playing, Leaving,
               NoOp
    <2> QED
        BY <1>1, <2>3, <2>4, <2>5, <2>6, <2>7 DEF IInv
<1> QED
    BY <1>7, <1>8

LEMMA JoinNewInv ==
    ASSUME IInv, NEW u \in Users, JoinNew(u)
    PROVE  IInv'
<1> USE DEF JoinNew
<1>0. op = NoOp /\ reply = NoReply
    BY DEF IInv, AtWork
<1>1. PICK l \in Lobbies \ up :
           /\ \A v \in Users : lobby_id[v] # l
           /\ up' = up \cup {l}
           /\ actor' = [actor EXCEPT ![l] = NewSession(u)]
           /\ op' = [NoOp EXCEPT !.pc = "JoinStarted", !.user = u, !.lobby = l,
                                 !.out = Message("LobbyState", NoUser)]
    OBVIOUS
<1>2. Message("LobbyState", NoUser) \in Messages
    BY DEF Message, Messages
<1>3. /\ op' \in Operations
      /\ op'.pc = "JoinStarted" /\ op'.user = u /\ op'.lobby = l
      /\ op'.out = Message("LobbyState", NoUser)
    BY <1>1, <1>2 DEF NoOp, Operations
<1>4. mailbox[l] = <<>> /\ lobby_list[l] = "Absent"
    BY <1>1 DEF IInv, Calls, Entries
<1>5. lobby_id[u] = NoLobby
    BY <1>0 DEF IInv, NoGhosts, InLobby, NoOp
<1>6. actor'[l] = NewSession(u) /\ NewSession(u) \in Actors
    BY <1>1 DEF IInv, TypeInv, NewSession, Actors, RoundStages
<1>7. TypeInv'
    BY <1>1, <1>3, <1>6 DEF IInv, TypeInv, table
<1>8. Calls'
    BY <1>0, <1>1, <1>3
       DEF IInv, Calls, Asks, NoOp, Asking, Message, NoMessage
<1>9. Entries'
    BY <1>1, <1>3, <1>4, SameLobby DEF IInv, TypeInv, Entries, Placed, table
<1>10. NoGhosts'
    BY <1>0, <1>3, ServerAssumption
       DEF IInv, TypeInv, NoGhosts, NoOp, table, ServerAssumption
<1>11. Lone(l)' /\ Sitting(l)' = {u} /\ Placed(l)' = {}
    BY <1>1, <1>4, <1>6, ActorAssumption
       DEF Lone, Sitting, Placed, HasPlayer, NewSession, Sides, table,
           ActorAssumption
<1>12. AtWork'
    BY <1>0, <1>1, <1>3, <1>4, <1>5, <1>11
       DEF AtWork, Idle, Knows, Disconnecting, Joining, Playing, Leaving,
           NobodyWaits, WaitingLobbies, table
<1> QED
    BY <1>7, <1>8, <1>9, <1>10, <1>12 DEF IInv

-----------------------------------------------------------------------------
(***************************************************************************)
(* Steps of one actor and its mailbox.                                     *)
(***************************************************************************)
OnlyLobby(l) ==
    /\ actor' \in [Lobbies -> Actors]
    /\ mailbox' \in [Lobbies -> Seq(Messages)]
    /\ \A k \in Lobbies : Len(mailbox'[k]) <= MailboxSize
    /\ \A k \in Lobbies \ {l} :
           actor'[k] = actor[k] /\ mailbox'[k] = mailbox[k]

\* The players stay, and whoever waits alone is left in peace.
Steady(l) ==
    /\ actor'[l].seat = actor[l].seat
    /\ Lone(l) => Lone(l)'

LEMMA SteadySame ==
    ASSUME NEW l, Steady(l)
    PROVE  (Pair(l)' <=> Pair(l)) /\ Sitting(l)' = Sitting(l)
BY DEF Steady, Pair, Sitting, HasPlayer

LEMMA ActorInv ==
    ASSUME IInv, NEW l \in Lobbies, OnlyLobby(l),
           lobby_list[l] # "Absent" => Steady(l),
           op' \in Operations, op'.lobby = op.lobby,
           told' \in [Users -> LobbyStates \cup {"None"}],
           UNCHANGED <<table, up, panicked>>,
           Calls', AtWork'
    PROVE  IInv'
<1> USE DEF table
<1>1. TypeInv'
    BY DEF IInv, TypeInv, OnlyLobby
<1>2. Entries'
    <2>1. ASSUME NEW k \in Lobbies, lobby_list[k] # "Absent"
          PROVE  /\ Lone(k) => Lone(k)'
                 /\ Pair(k) => Pair(k)'
                 /\ Sitting(k)' = Sitting(k)
        BY <2>1, SteadySame, SameLobby DEF Steady, OnlyLobby
    <2> QED
        BY <2>1 DEF IInv, Entries, Placed
<1>3. NoGhosts'
    BY DEF IInv, NoGhosts
<1> QED
    BY <1>1, <1>2, <1>3 DEF IInv

\* The operation knows as much as before.
LEMMA SteadyInv ==
    ASSUME IInv, NEW l \in Lobbies, OnlyLobby(l), Steady(l),
           op' \in Operations, Idle => op' = op,
           op'.pc = op.pc, op'.user = op.user, op'.msg = op.msg,
           op'.lobby = op.lobby, op'.entry = op.entry,
           told' \in [Users -> LobbyStates \cup {"None"}],
           UNCHANGED <<table, reply, up, panicked>>,
           Calls'
    PROVE  IInv'
<1> USE DEF table
<1>1. ASSUME NEW k \in Lobbies
      PROVE  /\ Lone(k) => Lone(k)'
             /\ Pair(k)' <=> Pair(k)
             /\ Sitting(k)' = Sitting(k)
             /\ Placed(k)' = Placed(k)
             /\ actor'[k].seat = actor[k].seat
    BY <1>1, SteadySame, SameLobby DEF Steady, OnlyLobby, Placed
<1>2. Knows'
    <2>1. CASE Idle
        BY <2>1 DEF Idle, Knows, Disconnecting, Joining, Playing, Leaving
    <2>2. CASE ~ Idle
        <3>1. PICK k \in Lobbies : k = op.lobby
            BY <2>2 DEF IInv, TypeInv, AtWork
        <3>2. Knows
            BY DEF IInv, AtWork
        <3>3. Disconnecting'
            BY <1>1, <3>1, <3>2 DEF Knows, Disconnecting
        <3>4. Joining'
            BY <1>1, <3>1, <3>2 DEF Knows, Joining, NobodyWaits, WaitingLobbies
        <3>5. Playing'
            BY <1>1, <3>1, <3>2 DEF Knows, Playing
        <3>6. Leaving'
            BY <1>1, <3>1, <3>2 DEF Knows, Leaving
        <3> QED
            BY <3>3, <3>4, <3>5, <3>6 DEF Knows
    <2> QED
        BY <2>1, <2>2
<1>3. AtWork'
    BY <1>2 DEF IInv, AtWork, Idle
<1> QED
    BY <1>3, ActorInv

LEMMA SendMessageInv ==
    ASSUME IInv, SendMessage
    PROVE  IInv'
<1> USE DEF SendMessage
<1>1. PICK l \in Lobbies : l = op.lobby /\ ~ Idle
    BY DEF IInv, TypeInv, AtWork, Idle, NoOp
<1>2. /\ op.out \in Messages /\ op.out # NoMessage /\ reply = NoReply
      /\ Asks(op.out) \/ Tells(op.out)
    BY DEF IInv, TypeInv, Operations, Calls
<1>3. /\ op' \in Operations /\ op'.out = NoMessage
      /\ op'.pc = op.pc /\ op'.user = op.user /\ op'.msg = op.msg
      /\ op'.lobby = op.lobby /\ op'.entry = op.entry
    <2>1. NoMessage \in Messages
        BY DEF NoMessage, Message, Messages
    <2> QED
        BY <2>1 DEF IInv, TypeInv, Operations
<1>4. /\ mailbox[l] \in Seq(Messages)
      /\ mailbox'[l] = Append(mailbox[l], op.out)
      /\ \A k \in Lobbies \ {l} : mailbox'[k] = mailbox[k]
    BY <1>1 DEF IInv, TypeInv
<1>5. /\ mailbox'[l] \in Seq(Messages)
      /\ Len(mailbox'[l]) = Len(mailbox[l]) + 1
      /\ \A i \in 1..Len(mailbox[l]) : mailbox'[l][i] = mailbox[l][i]
      /\ mailbox'[l][Len(mailbox[l]) + 1] = op.out
      /\ Len(mailbox[l]) \in Nat
    BY <1>2, <1>4, AppendProperties, LenProperties
<1>6. OnlyLobby(l)
    <2>1. Len(mailbox'[l]) <= MailboxSize
        BY <1>1, <1>5, ServerAssumption DEF HasRoom, ServerAssumption
    <2> QED
        BY <1>1, <1>4, <1>5, <2>1 DEF IInv, TypeInv, OnlyLobby
<1>7. \A i \in 1..Len(mailbox'[l]) :
          \/ i \in 1..Len(mailbox[l]) /\ mailbox'[l][i] = mailbox[l][i]
          \/ i = Len(mailbox'[l]) /\ mailbox'[l][i] = op.out
    BY <1>5
<1>8. Steady(l)
    <2>1. CASE op.out.kind = "MoveInput"
        <3>1. Pair(l)
            BY <1>1, <1>2, <2>1
               DEF Asks, Tells, Message, IInv, AtWork, Knows, Playing
        <3>2. ~ Lone(l)
            BY <3>1, ActorAssumption DEF Pair, Lone, ActorAssumption
        <3> QED
            BY <3>2 DEF Steady
    <2>2. CASE op.out.kind # "MoveInput"
        BY <1>7, <2>2 DEF Steady, Lone
    <2> QED
        BY <2>1, <2>2
<1>9. Calls'
    <2>1. \A m : (Asks(m) <=> Asks(m)')
        BY <1>3 DEF Asks
    <2>2. ASSUME Tells(op.out)
          PROVE  QuietMessage(op.out)
        BY <2>2 DEF Tells, QuietMessage, Message
    <2>3. ASSUME NEW i \in 1..Len(mailbox'[l])
          PROVE  \/ QuietMessage(mailbox'[l][i])
                 \/ /\ i = Len(mailbox'[l])
                    /\ Asks(mailbox'[l][i])
        BY <1>2, <1>7, <2>2, <2>3 DEF IInv, Calls, Asking
    <2>4. l \in up
        BY <1>1 DEF IInv, AtWork
    <2>5. \A k \in Lobbies \ {l} : \A i \in 1..Len(mailbox[k]) :
              QuietMessage(mailbox[k][i])
        BY <1>1 DEF IInv, Calls
    <2> QED
        BY <1>1, <1>2, <1>3, <1>4, <2>1, <2>3, <2>4, <2>5
           DEF IInv, Calls, Asking
<1> QED
    BY <1>1, <1>3, <1>6, <1>8, <1>9, SteadyInv DEF IInv, TypeInv

-----------------------------------------------------------------------------
(***************************************************************************)
(* What the messages do to an actor.                                       *)
(***************************************************************************)
LEMMA HandleKinds ==
    ASSUME NEW a, NEW m
    PROVE  /\ m.kind = "InsertPlayer" =>
                  HandleMessage(a, m) = {InsertPlayer(a, m.user)}
           /\ m.kind = "RemovePlayer" =>
                  HandleMessage(a, m) = {RemovePlayer(a, m.user)}
           /\ m.kind = "TurnAction" =>
                  HandleMessage(a, m) = TurnAction(a, m.user)
           /\ m.kind = "MoveInput" =>
                  HandleMessage(a, m) = {Answer(MoveInput(a, m.user), "Sent")}
           /\ m.kind = "LobbyState" =>
                  HandleMessage(a, m) = {Answer(a, GetCurrentLobbyState(a))}
           /\ m.kind = "GetPlayerSide" =>
                  HandleMessage(a, m) =
                      {Answer(a, IF HasPlayer(a, m.user)
                                 THEN GetPlayerSide(a, m.user) ELSE "Error")}
           /\ m.kind = "GetLeft" =>
                  HandleMessage(a, m) = {Answer(a, a.seat["Left"])}
           /\ m.kind = "GetRight" =>
                  HandleMessage(a, m) = {Answer(a, a.seat["Right"])}
           /\ m.kind = "ResetLobby" =>
                  HandleMessage(a, m) = {Answer(ResetLobby(a), "Sent")}
BY DEF HandleMessage

LEMMA SideOfPlayer ==
    ASSUME NEW a, NEW u, HasPlayer(a, u)
    PROVE  GetPlayerSide(a, u) \in Sides /\ a.seat[GetPlayerSide(a, u)] = u
BY DEF HasPlayer, GetPlayerSide

\* A message that seats nobody and removes nobody leaves both seats as they
\* are.
LEMMA SeatsKept ==
    ASSUME NEW a \in Actors, NEW m, NEW answer \in HandleMessage(a, m),
           m.kind \in {"TurnAction", "MoveInput", "LobbyState",
                       "GetPlayerSide", "GetLeft", "GetRight", "ResetLobby"}
    PROVE  /\ answer.actor \in Actors
           /\ answer.actor.seat = a.seat
           /\ m.kind \notin {"TurnAction", "MoveInput", "ResetLobby"} =>
                  answer.actor = a
           /\ m.kind = "ResetLobby" => answer.actor.round = "Fresh"
           /\ QuietMessage(m) => answer.reply = "Sent"
<1>1. CASE m.kind \in {"LobbyState", "GetPlayerSide", "GetLeft", "GetRight"}
    BY <1>1, HandleKinds DEF Answer, QuietMessage
<1>2. CASE m.kind = "ResetLobby"
    BY <1>2, HandleKinds
       DEF Answer, QuietMessage, ResetLobby, Actors, RoundStages
<1>3. CASE m.kind = "MoveInput"
    <2>1. answer = Answer(MoveInput(a, m.user), "Sent")
        BY <1>3, HandleKinds
    <2>2. MoveInput(a, m.user) \in Actors /\ MoveInput(a, m.user).seat = a.seat
        BY DEF MoveInput, Actors, RoundStages
    <2> QED
        BY <1>3, <2>1, <2>2 DEF Answer, QuietMessage
<1>4. CASE m.kind = "TurnAction"
    <2>1. answer \in TurnAction(a, m.user)
        BY <1>4, HandleKinds
    <2>2. PICK r \in RoundStages \cup {a.round} :
              \E e : \/ answer = Answer([a EXCEPT !.round = r], e)
                    \/ answer = Answer(a, e)
        BY <2>1 DEF TurnAction, AfterAction, RoundStages
    <2>3. PICK e : \/ answer = Answer([a EXCEPT !.round = r], e)
                   \/ answer = Answer(a, e)
        BY <2>2
    <2> QED
        BY <1>4, <2>3 DEF Answer, QuietMessage, Actors
<1> QED
    BY <1>1, <1>2, <1>3, <1>4

LEMMA StateOf ==
    ASSUME NEW a \in Actors, a.round # "Won"
    PROVE  GetCurrentLobbyState(a) =
               IF a.seat["Left"] # NoUser /\ a.seat["Right"] # NoUser
               THEN "Running"
               ELSE IF a.seat["Left"] = NoUser /\ a.seat["Right"] = NoUser
               THEN "Empty" ELSE "Waiting"
BY DEF GetCurrentLobbyState, Occupied, Sides

\* Taking a player out leaves the other seat and a fresh round.
LEMMA RemoveFacts ==
    ASSUME NEW a \in Actors, NEW u \in Users, HasPlayer(a, u)
    PROVE  \E s, t \in Sides :
               /\ s # t /\ a.seat[s] = u
               /\ RemovePlayer(a, u).actor \in Actors
               /\ RemovePlayer(a, u).actor.round = "Fresh"
               /\ RemovePlayer(a, u).actor.seat[s] = NoUser
               /\ RemovePlayer(a, u).actor.seat[t] = a.seat[t]
               /\ RemovePlayer(a, u).reply =
                      IF a.seat[t] = NoUser THEN "Empty" ELSE "Waiting"
<1> DEFINE s == GetPlayerSide(a, u)
           b == [ResetLobby(a) EXCEPT !.seat[s] = NoUser]
<1>1. s \in Sides /\ a.seat[s] = u
    BY SideOfPlayer
<1>2. PICK t \in Sides : t # s
    BY DEF Sides
<1>3. RemovePlayer(a, u) = Answer(b, GetCurrentLobbyState(b))
    BY DEF RemovePlayer
<1> HIDE DEF s
<1>4. /\ ResetLobby(a) \in Actors /\ ResetLobby(a).round = "Fresh"
      /\ ResetLobby(a).seat = a.seat
    BY DEF ResetLobby, Actors, RoundStages
<1>5. /\ b \in Actors /\ b.round = "Fresh"
      /\ b.seat[s] = NoUser /\ b.seat[t] = a.seat[t]
    BY <1>1, <1>2, <1>4 DEF Actors
<1> HIDE DEF b
<1>6. GetCurrentLobbyState(b) =
          IF a.seat[t] = NoUser THEN "Empty" ELSE "Waiting"
    BY <1>1, <1>2, <1>5, StateOf DEF Sides
<1> QED
    BY <1>1, <1>2, <1>3, <1>5, <1>6 DEF Answer

\* A newcomer takes the free seat next to the player who waits.
LEMMA InsertFacts ==
    ASSUME NEW a \in Actors, NEW u \in Users, ~ HasPlayer(a, u),
           NEW s \in Sides, NEW t \in Sides, s # t,
           a.seat[s] \in Users, a.seat[t] = NoUser, a.round = "Fresh"
    PROVE  /\ InsertPlayer(a, u).actor \in Actors
           /\ InsertPlayer(a, u).actor.round = "Fresh"
           /\ InsertPlayer(a, u).actor.seat[s] = a.seat[s]
           /\ InsertPlayer(a, u).actor.seat[t] = u
           /\ InsertPlayer(a, u).reply = "Running"
<1> DEFINE b == [a EXCEPT !.seat[t] = u]
<1>1. Occupied(a) = {s} /\ Occupied(a) # Sides
    BY ActorAssumption DEF Occupied, Sides, ActorAssumption
<1>2. InsertPlayer(a, u) = Answer(b, GetCurrentLobbyState(b))
    BY <1>1 DEF InsertPlayer, Sides
<1>3. /\ b \in Actors /\ b.round = "Fresh"
      /\ b.seat[s] = a.seat[s] /\ b.seat[t] = u
    BY DEF Actors
<1> HIDE DEF b
<1>4. GetCurrentLobbyState(b) = "Running"
    BY <1>3, StateOf, ActorAssumption DEF Sides, ActorAssumption
<1> QED
    BY <1>2, <1>3, <1>4 DEF Answer

-----------------------------------------------------------------------------
(***************************************************************************)
(* Receiving a message: one that is quiet, or the operation's question.    *)
(***************************************************************************)
LEMMA ReceiveFields ==
    ASSUME IInv, NEW l \in Lobbies, Receive(l)
    PROVE  /\ Head(mailbox[l]) = mailbox[l][1] /\ 1 \in 1..Len(mailbox[l])
           /\ Len(mailbox[l]) \in Nat
           /\ mailbox'[l] \in Seq(Messages)
           /\ Len(mailbox'[l]) = Len(mailbox[l]) - 1
           /\ \A i \in 1..Len(mailbox'[l]) :
                  /\ i + 1 \in 1..Len(mailbox[l])
                  /\ i = Len(mailbox'[l]) <=> i + 1 = Len(mailbox[l])
                  /\ mailbox'[l][i] = mailbox[l][i + 1]
           /\ actor[l] \in Actors
<1>1. mailbox[l] \in Seq(Messages) /\ mailbox[l] # <<>>
    BY DEF IInv, TypeInv, Receive
<1>2. mailbox'[l] = Tail(mailbox[l])
    BY DEF IInv, TypeInv, Receive
<1>3. Len(mailbox[l]) \in Nat \ {0}
    BY <1>1, EmptySeq
<1>4. Head(mailbox[l]) = mailbox[l][1]
    BY <1>1
<1> QED
    BY <1>1, <1>2, <1>3, <1>4, HeadTailProperties DEF IInv, TypeInv

LEMMA ReceiveOnly ==
    ASSUME IInv, NEW l \in Lobbies, Receive(l),
           NEW answer \in HandleMessage(actor[l], Head(mailbox[l])),
           actor' = [actor EXCEPT ![l] = answer.actor],
           answer.actor \in Actors
    PROVE  OnlyLobby(l) /\ actor'[l] = answer.actor
<1>1. Len(mailbox'[l]) <= MailboxSize
    <2>1. Len(mailbox[l]) <= MailboxSize
        BY DEF IInv, TypeInv
    <2>2. /\ Len(mailbox[l]) \in Nat
          /\ Len(mailbox'[l]) = Len(mailbox[l]) - 1
        BY ReceiveFields
    <2> QED
        BY <2>1, <2>2, ServerAssumption DEF ServerAssumption
<1> QED
    BY <1>1, ReceiveFields DEF IInv, TypeInv, OnlyLobby, Receive

LEMMA ReceiveQuietInv ==
    ASSUME IInv, NEW l \in Lobbies, Receive(l),
           QuietMessage(Head(mailbox[l]))
    PROVE  IInv'
<1> DEFINE m == Head(mailbox[l])
<1>1. PICK answer \in HandleMessage(actor[l], m) :
          /\ actor' = [actor EXCEPT ![l] = answer.actor]
          /\ reply' = Replied(answer.reply)
    BY DEF Receive
<1>2. /\ answer.actor \in Actors /\ answer.actor.seat = actor[l].seat
      /\ m.kind = "ResetLobby" => answer.actor.round = "Fresh"
      /\ answer.reply = "Sent"
    BY SeatsKept, ReceiveFields DEF QuietMessage
<1>3. OnlyLobby(l) /\ actor'[l] = answer.actor
    BY <1>1, <1>2, ReceiveOnly
<1>4. reply' = reply
    BY <1>1, <1>2 DEF Replied
<1>5. Steady(l)
    <2>1. Lone(l) => m.kind = "ResetLobby"
        BY ReceiveFields DEF Lone, QuietMessage
    <2>2. ASSUME Lone(l), NEW i \in 1..Len(mailbox'[l])
          PROVE  mailbox'[l][i].kind # "MoveInput"
        BY <2>2, ReceiveFields DEF Lone
    <2> QED
        BY <1>2, <1>3, <2>1, <2>2 DEF Steady, Lone
<1>6. Calls'
    <2>1. l \in up /\ UNCHANGED <<op, up>>
        BY DEF Receive
    <2>2. \A k \in Lobbies \ {l} : mailbox'[k] = mailbox[k]
        BY <1>3 DEF OnlyLobby
    <2>3. reply = NoReply \/ l # op.lobby
        BY DEF IInv, Calls, Receive
    <2>4. ASSUME NEW i \in 1..Len(mailbox'[l])
          PROVE  \/ QuietMessage(mailbox'[l][i])
                 \/ /\ l = op.lobby /\ i = Len(mailbox'[l])
                    /\ Asking /\ Asks(mailbox'[l][i])
        <3>1. /\ i + 1 \in 1..Len(mailbox[l])
              /\ i = Len(mailbox'[l]) <=> i + 1 = Len(mailbox[l])
              /\ mailbox'[l][i] = mailbox[l][i + 1]
            BY <2>4, ReceiveFields
        <3> QED
            BY <3>1 DEF IInv, Calls
    <2>5. \A m1 : (Asks(m1)' <=> Asks(m1)) /\ (Tells(m1)' <=> Tells(m1))
        BY <2>1 DEF Asks, Tells
    <2>6. reply' # NoReply => mailbox'[op.lobby] = <<>> \/ l = op.lobby
        BY <1>4, <2>2 DEF IInv, Calls, TypeInv, AtWork
    <2> QED
        BY <1>4, <2>1, <2>2, <2>3, <2>4, <2>5, <2>6 DEF IInv, Calls, Asking
<1> QED
    BY <1>3, <1>4, <1>5, <1>6, SteadyInv DEF Receive, IInv, TypeInv

\* What the operation knows once its question is handled.
LEMMA QuestionKnows ==
    ASSUME IInv, NEW l \in Lobbies, Receive(l), l = op.lobby,
           ~ Idle, op.user \in Users,
           Asking, Asks(Head(mailbox[l])), mailbox'[l] = <<>>,
           NEW answer \in HandleMessage(actor[l], Head(mailbox[l])),
           actor' = [actor EXCEPT ![l] = answer.actor],
           reply' = Replied(answer.reply)
    PROVE  answer.actor \in Actors /\ Knows'
<1> DEFINE m == Head(mailbox[l])
<1>0. /\ actor[l] \in Actors /\ op' = op /\ lobby_id' = lobby_id
      /\ connected_user_list' = connected_user_list
      /\ lobby_list' = lobby_list
      /\ reply = NoReply /\ Placed(l)' = Placed(l)
      /\ actor'[l] = answer.actor
    BY DEF Receive, table, IInv, TypeInv, Asking, Placed
<1>1. Knows
    BY DEF IInv, AtWork
<1>2. Len(mailbox'[l]) = 0
    BY EmptySeq
<1>3. CASE op.pc \in {"Disconnected", "SplitRemoved"}
    <2>1. m.kind = "RemovePlayer" /\ m.user = op.user
        BY <1>3 DEF Asks, Message
    <2>2. answer = RemovePlayer(actor[l], op.user)
        BY <2>1, HandleKinds
    <2>3. /\ op.user \in Sitting(l)
          /\ op.pc = "Disconnected" =>
                 /\ Placed(l) = Sitting(l) \ {op.user}
                 /\ IF op.entry = "Waiting" THEN Lone(l) ELSE Pair(l)
          /\ op.pc = "SplitRemoved" =>
                 Placed(l) = Sitting(l) /\ Pair(l)
        BY <1>0, <1>1, <1>3 DEF Knows, Disconnecting, Leaving
    <2>4. PICK s, t \in Sides :
              /\ s # t /\ actor[l].seat[s] = op.user
              /\ answer.actor \in Actors
              /\ answer.actor.round = "Fresh"
              /\ answer.actor.seat[s] = NoUser
              /\ answer.actor.seat[t] = actor[l].seat[t]
              /\ answer.reply =
                      IF actor[l].seat[t] = NoUser THEN "Empty" ELSE "Waiting"
        BY <1>0, <2>2, <2>3, RemoveFacts DEF Sitting
    <2>5. reply' = answer.reply
        BY <2>4 DEF Replied
    <2>6. CASE Lone(l)
        <3>1. actor[l].seat[t] = NoUser
            BY <2>4, <2>6, ActorAssumption DEF Lone, Sides, ActorAssumption
        <3>2. Sitting(l) = {op.user} /\ Sitting(l)' = {}
            BY <1>0, <2>4, <3>1, ActorAssumption
               DEF Sitting, HasPlayer, Sides, ActorAssumption
        <3>3. op.pc = "Disconnected" /\ op.entry = "Waiting"
            BY <1>3, <2>3, <2>6, ActorAssumption
               DEF Lone, Pair, Sides, ActorAssumption
        <3>4. Placed(l)' = {} /\ reply' = "Empty"
            BY <1>0, <2>3, <2>4, <2>5, <3>1, <3>2, <3>3
        <3> QED
            BY <1>0, <2>4, <3>2, <3>3, <3>4
               DEF Knows, Disconnecting, Joining, Playing, Leaving, NoReply
    <2>7. CASE Pair(l)
        <3>1. actor[l].seat[t] \in Users /\ actor[l].seat[t] # op.user
            BY <2>4, <2>7 DEF Pair, Sides
        <3>2. Sitting(l)' = Sitting(l) \ {op.user} /\ Lone(l)'
            BY <1>0, <1>2, <2>4, <3>1, ActorAssumption
               DEF Sitting, HasPlayer, Lone, Sides, ActorAssumption
        <3>3. reply' = "Waiting"
            BY <2>4, <2>5, <3>1, ActorAssumption DEF ActorAssumption
        <3>4. op.entry # "Waiting" \/ op.pc = "SplitRemoved"
            BY <1>3, <2>3, <2>7, ActorAssumption
               DEF Lone, Pair, Sides, ActorAssumption
        <3> QED
            BY <1>0, <1>3, <2>3, <2>4, <3>2, <3>3, <3>4
               DEF Knows, Disconnecting, Joining, Playing, Leaving, NoReply
    <2> QED
        BY <1>3, <2>3, <2>6, <2>7
<1>4. CASE op.pc = "JoinInserted"
    <2>1. m.kind = "InsertPlayer" /\ m.user = op.user
        BY <1>4 DEF Asks, Message
    <2>2. answer = InsertPlayer(actor[l], op.user)
        BY <2>1, HandleKinds
    <2>3. /\ Lone(l) /\ Placed(l) = Sitting(l)
          /\ lobby_id[op.user] = NoLobby /\ op.user \in connected_user_list
        BY <1>0, <1>1, <1>4 DEF Knows, Joining
    <2>4. op.user \notin Sitting(l)
        BY <2>3, ServerAssumption DEF Placed, ServerAssumption
    <2>5. PICK s, t \in Sides : /\ s # t
                                /\ actor[l].seat[s] \in Users
                                /\ actor[l].seat[t] = NoUser
        BY <2>3 DEF Lone
    <2>6. /\ answer.actor \in Actors
          /\ answer.actor.seat[s] = actor[l].seat[s]
          /\ answer.actor.seat[t] = op.user
          /\ answer.reply = "Running"
        BY <1>0, <2>2, <2>3, <2>4, <2>5, InsertFacts DEF Lone, Sitting
    <2>7. actor[l].seat[s] # op.user
        BY <2>4, <2>5 DEF Sitting, HasPlayer
    <2>8. Pair(l)'
        BY <1>0, <2>5, <2>6, <2>7 DEF Pair, Sides
    <2>9. op.user \in Sitting(l)' /\ Sitting(l)' \ {op.user} = Sitting(l)
        BY <1>0, <2>5, <2>6, <2>7, ActorAssumption
           DEF Sitting, HasPlayer, Sides, ActorAssumption
    <2>10. reply' = "Running" /\ Placed(l)' = Sitting(l)' \ {op.user}
        BY <1>0, <2>3, <2>6, <2>9 DEF Replied
    <2>11. Joining'
        BY <1>0, <1>4, <2>3, <2>8, <2>9, <2>10 DEF Joining, NoReply
    <2> QED
        BY <1>0, <1>4, <2>6, <2>11
           DEF Knows, Disconnecting, Playing, Leaving
<1>5. CASE op.pc \in {"JoinStarted", "RunningState", "TurnTaken", "VoteSide",
                      "BothLeaveLeft", "BothLeaveRight", "SplitLeaver"}
    <2>1. m.kind \in {"TurnAction", "LobbyState", "GetPlayerSide", "GetLeft",
                      "GetRight"}
        BY <1>5 DEF Asks, Message
    <2>2. /\ answer.actor \in Actors /\ answer.actor.seat = actor[l].seat
          /\ m.kind # "TurnAction" => answer.actor = actor[l]
        BY <1>0, <2>1, SeatsKept
    <2>3. Pair(l)' = Pair(l) /\ Sitting(l)' = Sitting(l)
        BY <1>0, <2>2 DEF Pair, Sitting, HasPlayer
    <2>4. CASE op.pc = "JoinStarted"
        <3>1. m.kind = "LobbyState"
            BY <2>4 DEF Asks, Message
        <3>2. Lone(l) => Lone(l)'
            BY <1>0, <1>2, <2>2, <3>1 DEF Lone
        <3> QED
            BY <1>0, <1>1, <2>2, <2>3, <2>4, <3>2
               DEF Knows, Disconnecting, Joining, Playing, Leaving,
                   NobodyWaits, WaitingLobbies
    <2>5. CASE op.pc \in {"RunningState", "TurnTaken"}
        BY <1>0, <1>1, <2>2, <2>3, <2>5
           DEF Knows, Disconnecting, Joining, Playing, Leaving
    <2>6. CASE op.pc = "VoteSide"
        <3>1. m.kind = "GetPlayerSide" /\ m.user = op.user
            BY <2>6 DEF Asks, Message
        <3>2. HasPlayer(actor[l], op.user)
            BY <1>0, <1>1, <2>6 DEF Knows, Playing, Sitting
        <3>3. answer.reply \in Sides
            BY <3>1, <3>2, HandleKinds, SideOfPlayer DEF Answer
        <3>4. reply' \in Sides
            BY <3>3 DEF Replied, Sides
        <3> QED
            BY <1>0, <1>1, <2>2, <2>3, <2>6, <3>4
               DEF Knows, Disconnecting, Joining, Playing, Leaving
    <2>7. CASE op.pc \in {"BothLeaveLeft", "BothLeaveRight", "SplitLeaver"}
        <3>1. Pair(l)
            BY <1>0, <1>1, <2>7 DEF Knows, Playing, Leaving
        <3>2. /\ op.pc = "BothLeaveLeft" => m.kind = "GetLeft"
              /\ op.pc = "BothLeaveRight" => m.kind = "GetRight"
              /\ m.kind \in {"GetLeft", "GetRight"}
            BY <2>7 DEF Asks, Message
        <3>3. /\ m.kind = "GetLeft" => answer.reply = actor[l].seat["Left"]
              /\ m.kind = "GetRight" => answer.reply = actor[l].seat["Right"]
            BY HandleKinds DEF Answer
        <3>4. answer.reply \in Sitting(l)
            BY <3>1, <3>2, <3>3 DEF Pair, Sitting, HasPlayer, Sides
        <3>5. reply' # NoReply => reply' = answer.reply
            BY <1>0 DEF Replied
        <3> QED
            BY <1>0, <1>1, <2>2, <2>3, <2>7, <3>2, <3>3, <3>4, <3>5
               DEF Knows, Disconnecting, Joining, Playing, Leaving
    <2> QED
        BY <1>5, <2>2, <2>4, <2>5, <2>6, <2>7
<1> QED
    BY <1>3, <1>4, <1>5 DEF Asks

LEMMA ReceiveInv ==
    ASSUME IInv, NEW l \in Lobbies, Receive(l)
    PROVE  IInv'
<1>1. CASE QuietMessage(Head(mailbox[l]))
    BY <1>1, ReceiveQuietInv
<1>2. CASE ~ QuietMessage(Head(mailbox[l]))
    <2>0. Head(mailbox[l]) = mailbox[l][1] /\ 1 \in 1..Len(mailbox[l])
        BY ReceiveFields
    <2>1. /\ l = op.lobby /\ Len(mailbox[l]) = 1
          /\ Asking /\ Asks(Head(mailbox[l]))
        BY <1>2, <2>0 DEF IInv, Calls
    <2>2. ~ Idle /\ op.user \in Users /\ lobby_list[l] = "Absent"
        BY <2>1, ServerAssumption
           DEF IInv, AtWork, NoOp, ServerAssumption
    <2>3. mailbox'[l] = <<>>
        BY <2>1, ReceiveFields, EmptySeq
    <2>4. PICK answer \in HandleMessage(actor[l], Head(mailbox[l])) :
              /\ actor' = [actor EXCEPT ![l] = answer.actor]
              /\ reply' = Replied(answer.reply)
        BY DEF Receive
    <2>5. answer.actor \in Actors /\ Knows'
        BY <2>1, <2>2, <2>3, <2>4, QuestionKnows
    <2>6. OnlyLobby(l)
        BY <2>4, <2>5, ReceiveOnly
    <2>7. UNCHANGED <<table, op, up, told, panicked>>
        BY DEF Receive
    <2>8. op.pc \notin Telling
        BY <2>1 DEF Asks, Telling
    <2>9. Calls'
        <3>1. \A k \in Lobbies \ {l} : mailbox'[k] = mailbox[k]
            BY <2>6 DEF OnlyLobby
        <3>2. Len(mailbox'[l]) = 0
            BY <2>3, EmptySeq
        <3> QED
            BY <2>1, <2>3, <2>7, <2>8, <3>1, <3>2 DEF IInv, Calls, Asking
    <2>10. AtWork'
        BY <2>2, <2>5, <2>7 DEF IInv, AtWork, Idle, table
    <2> QED
        BY <2>2, <2>5, <2>6, <2>7, <2>9, <2>10, ActorInv DEF IInv, TypeInv
<1> QED
    BY <1>1, <1>2

LEMMA TickInv ==
    ASSUME IInv, NEW l \in Lobbies, Tick(l)
    PROVE  IInv'
<1>1. PICK next \in StepGame(actor[l]) : actor' = [actor EXCEPT ![l] = next]
    BY DEF Tick
<1>2. actor[l] \in Actors
    BY DEF IInv, TypeInv
<1>3. /\ next \in Actors /\ next.seat = actor[l].seat
      /\ next # actor[l] => GetCurrentLobbyState(actor[l]) = "Running"
    BY <1>1, <1>2 DEF StepGame, AfterStep, Actors, RoundStages
<1>4. OnlyLobby(l) /\ actor'[l] = next
    BY <1>1, <1>3 DEF OnlyLobby, Tick, IInv, TypeInv
<1>5. Steady(l)
    <2>1. Lone(l) => GetCurrentLobbyState(actor[l]) # "Running"
        BY <1>2, StateOf, ActorAssumption DEF Lone, Sides, ActorAssumption
    <2> QED
        BY <1>3, <1>4, <2>1 DEF Steady, Lone, Tick
<1>6. told' \in [Users -> LobbyStates \cup {"None"}]
    BY DEF IInv, TypeInv, Tick, GetCurrentLobbyState, LobbyStates
<1>7. Calls'
    BY DEF IInv, Calls, Tick, Asks, Tells, Asking
<1> QED
    BY <1>4, <1>5, <1>6, <1>7, SteadyInv DEF Tick, IInv, TypeInv

LEMMA StopInv ==
    ASSUME IInv, NEW l \in Lobbies, Stop(l)
    PROVE  IInv'
<1> USE DEF Stop, HasHandle
<1>1. lobby_list[l] = "Absent" /\ l # op.lobby
    OBVIOUS
<1>2. StoppedActor \in Actors
    BY DEF StoppedActor, ResetLobby, Actors, RoundStages
<1>3. TypeInv'
    BY <1>2 DEF IInv, TypeInv, table
<1>4. Calls'
    BY DEF IInv, TypeInv, Calls, Asks, Tells, Asking, Drained
<1>5. \A k \in Lobbies \ {l} : actor'[k] = actor[k] /\ mailbox'[k] = mailbox[k]
    BY DEF IInv, TypeInv
<1>6. Entries'
    BY <1>1, <1>5, SameLobby DEF IInv, Entries, Placed, table
<1>7. NoGhosts'
    BY DEF IInv, NoGhosts, table
<1>8. Knows'
    <2>1. CASE Idle
        BY <2>1 DEF Idle, Knows, Disconnecting, Joining, Playing, Leaving
    <2>2. CASE ~ Idle
        <3>1. PICK k \in Lobbies : k = op.lobby
            BY <2>2 DEF IInv, TypeInv, AtWork
        <3> QED
            BY <1>1, <1>5, <3>1, SameLobby
               DEF IInv, AtWork, Knows, Disconnecting, Joining, Playing,
                   Leaving, Placed, table, NobodyWaits, WaitingLobbies
    <2> QED
        BY <2>1, <2>2
<1>9. AtWork'
    BY <1>1, <1>8 DEF IInv, AtWork, Idle, table
<1> QED
    BY <1>3, <1>4, <1>6, <1>7, <1>9 DEF IInv, table

-----------------------------------------------------------------------------
LEMMA OperationInv ==
    ASSUME IInv, Operation
    PROVE  IInv'
BY SendMessageInv, DisconnectRemovedInv, JoinInsertInv, JoinInsertedInv,
   JoinStartedInv, RunningStateInv, TurnTakenInv, VoteSideInv, RestartedInv,
   BothLeaveLeftInv, BothLeaveRightInv, SplitLeaverInv, SplitRemovedInv,
   SplitResetInv, InputSentInv
   DEF Operation

LEMMA RequestInv ==
    ASSUME IInv, NEW u \in Users, Request(u)
    PROVE  IInv'
BY ConnectInv, DisconnectUserInv, JoinWaitingInv, JoinNewInv, RpcRunningInv,
   RpcFinishedInv, InputsInv
   DEF Request

LEMMA StutterInv ==
    ASSUME IInv, UNCHANGED vars
    PROVE  IInv'
<1> USE DEF vars, table
<1>1. TypeInv'
    BY DEF IInv, TypeInv
<1>2. Calls'
    BY DEF IInv, Calls, Asks, Tells, Asking
<1>3. Entries' /\ NoGhosts'
    BY SameActors DEF IInv, Entries, NoGhosts, Placed
<1>4. Disconnecting' /\ Playing'
    BY DEF IInv, AtWork, Knows, Disconnecting, Playing, Placed, Sitting, Lone,
           Pair
<1>5. Joining'
    BY DEF IInv, AtWork, Knows, Joining, Placed, Sitting, Lone, Pair,
           NobodyWaits, WaitingLobbies
<1>6. Leaving'
    BY DEF IInv, AtWork, Knows, Leaving, Placed, Sitting, Lone, Pair
<1>7. AtWork'
    BY <1>4, <1>5, <1>6 DEF IInv, AtWork, Idle, Knows
<1> QED
    BY <1>1, <1>2, <1>3, <1>7 DEF IInv

LEMMA Inductive == Spec => []IInv
<1>1. IInv /\ [Next]_vars => IInv'
    BY OperationInv, RequestInv, ReceiveInv, TickInv, StopInv, StutterInv
       DEF Next
<1> QED
    BY InitInv, <1>1, PTL DEF Spec

-----------------------------------------------------------------------------
(***************************************************************************)
(* The properties.                                                         *)
(***************************************************************************)

\* Every variable has its type (TypeOK).
THEOREM TypeCorrect == Spec => []TypeOK
<1>1. IInv => TypeOK
    <2> SUFFICES ASSUME IInv PROVE TypeOK
        OBVIOUS
    <2>1. ASSUME NEW l \in Lobbies, NEW i \in DOMAIN mailbox[l]
          PROVE  mailbox[l][i] \in Messages
        BY <2>1, LenProperties, ElementOfSeq DEF IInv, TypeInv
    <2>2. /\ op.user \in Users \cup {NoUser}
          /\ op.lobby \in Lobbies \cup {NoLobby}
          /\ op.out \in Messages
        BY DEF IInv, TypeInv, Operations
    <2> QED
        BY <2>1, <2>2 DEF IInv, TypeInv, TypeOK
<1> QED
    BY <1>1, Inductive, PTL

\* No assertion, expect or unreachable! of lobby_db.rs fails (NeverPanics).
THEOREM PanicFree == Spec => []NeverPanics
<1>1. IInv => NeverPanics
    BY DEF IInv, NeverPanics
<1> QED
    BY <1>1, Inductive, PTL

LEMMA TwoElements ==
    ASSUME NEW a, NEW b, a # b
    PROVE  Cardinality({a, b}) = 2
<1>1. IsFiniteSet({a}) /\ Cardinality({a}) = 1
    BY FS_Singleton
<1>2. {a, b} = {a} \cup {b} /\ b \notin {a}
    OBVIOUS
<1>3. Cardinality({a} \cup {b}) = Cardinality({a}) + 1
    BY <1>1, <1>2, FS_AddElement
<1> QED
    BY <1>1, <1>2, <1>3

\* Whenever the mutex is free the two tables of the server and the seats of
\* the actors agree (TablesAgree).
THEOREM TablesCorrect == Spec => []TablesAgree
<1>1. IInv => TablesAgree
    <2> SUFFICES ASSUME IInv, Idle PROVE TablesAgree
        BY DEF TablesAgree
    <2>1. ASSUME NEW l \in Lobbies, lobby_list[l] # "Absent"
          PROVE  /\ l \in up
                 /\ Members(l) = Seated(l)
                 /\ Cardinality(Members(l)) =
                        (IF lobby_list[l] = "Waiting" THEN 1 ELSE 2)
        <3>1. l \in up /\ Placed(l) = Sitting(l)
            BY <2>1 DEF IInv, Entries
        <3>2. Members(l) = Placed(l)
            BY ServerAssumption
               DEF IInv, TypeInv, NoGhosts, Members, Placed, ServerAssumption
        <3>3. CASE lobby_list[l] = "Waiting"
            <4>1. PICK s, t \in Sides : /\ s # t
                                        /\ actor[l].seat[s] \in Users
                                        /\ actor[l].seat[t] = NoUser
                BY <2>1, <3>3 DEF IInv, Entries, Lone
            <4>2. /\ Sitting(l) = {actor[l].seat[s]}
                  /\ Seated(l) = {actor[l].seat[s]}
                BY <4>1, ActorAssumption
                   DEF Sitting, Seated, HasPlayer, Sides, ActorAssumption
            <4> QED
                BY <3>1, <3>2, <3>3, <4>2, FS_Singleton
        <3>4. CASE lobby_list[l] # "Waiting"
            <4> DEFINE a == actor[l].seat["Left"]
                       b == actor[l].seat["Right"]
            <4>1. a \in Users /\ b \in Users /\ a # b
                BY <2>1, <3>4 DEF IInv, Entries, Pair, Sides
            <4>2. Sitting(l) = {a, b} /\ Seated(l) = {a, b}
                BY <4>1, ActorAssumption
                   DEF Sitting, Seated, HasPlayer, Sides, ActorAssumption
            <4>3. Cardinality({a, b}) = 2
                BY <4>1, TwoElements
            <4> QED
                BY <3>1, <3>2, <3>4, <4>2, <4>3
        <3> QED
            BY <3>3, <3>4
    <2>2. ASSUME NEW u \in connected_user_list, lobby_id[u] # NoLobby
          PROVE  InLobby(u)
        BY <2>2, ServerAssumption
           DEF IInv, TypeInv, NoGhosts, AtWork, NoOp, InLobby, ServerAssumption
    <2> QED
        BY <2>1, <2>2 DEF TablesAgree
<1> QED
    BY <1>1, Inductive, PTL
-----------------------------------------------------------------------------
(***************************************************************************)
(* A question is never lost.                                               *)
(***************************************************************************)
\* Everybody who asks is answered: each message with a oneshot puts its answer
\* into the channel, whatever the answer is.
LEMMA QuestionAnswered ==
    ASSUME IInv, ~ Idle, op.lobby \in Lobbies,
           NEW m, Asks(m),
           NEW answer \in HandleMessage(actor[op.lobby], m),
           reply = NoReply
    PROVE  Replied(answer.reply) # NoReply
<1> DEFINE a == actor[op.lobby]
<1>1. \A r : GetCurrentLobbyState(r) \in LobbyStates
    BY DEF GetCurrentLobbyState, LobbyStates
<1>2. SUFFICES answer.reply \notin {"Sent", NoReply}
    BY DEF Replied
<1>3. CASE m.kind \in {"InsertPlayer", "RemovePlayer", "LobbyState"}
    <2>1. PICK b : \/ answer = Answer(b, "Error")
                   \/ answer = Answer(b, GetCurrentLobbyState(b))
        <3>1. CASE m.kind = "InsertPlayer"
            <4> DEFINE s == IF "Left" \in Occupied(a) THEN "Right" ELSE "Left"
                       b == [a EXCEPT !.seat[s] = m.user]
            <4>1. InsertPlayer(a, m.user) \in
                      {Answer(a, "Error"), Answer(b, GetCurrentLobbyState(b))}
                BY DEF InsertPlayer
            <4> HIDE DEF b
            <4> QED
                BY <3>1, <4>1, HandleKinds
        <3>2. CASE m.kind = "RemovePlayer"
            <4> DEFINE b == [ResetLobby(a) EXCEPT
                                 !.seat[GetPlayerSide(a, m.user)] = NoUser]
            <4>1. RemovePlayer(a, m.user) \in
                      {Answer(ResetLobby(a), "Error"),
                       Answer(b, GetCurrentLobbyState(b))}
                BY DEF RemovePlayer
            <4> HIDE DEF b
            <4> QED
                BY <3>2, <4>1, HandleKinds
        <3>3. CASE m.kind = "LobbyState"
            BY <3>3, HandleKinds
        <3> QED
            BY <1>3, <3>1, <3>2, <3>3
    <2> QED
        BY <1>1, <2>1 DEF Answer, LobbyStates, NoReply
<1>4. CASE m.kind = "TurnAction"
    <2>1. answer \in TurnAction(a, m.user)
        BY <1>4, HandleKinds
    <2>2. answer.reply \in {"Error", "Win", "Ok"}
        BY <2>1 DEF TurnAction, Answer
    <2> QED
        BY <2>2 DEF NoReply
<1>5. CASE m.kind = "GetPlayerSide"
    <2>1. answer.reply \in Sides \cup {"Error"}
        BY <1>5, HandleKinds, SideOfPlayer DEF Answer
    <2> QED
        BY <2>1 DEF Sides, NoReply
<1>6. CASE m.kind \in {"GetLeft", "GetRight"}
    <2>1. op.pc \in {"BothLeaveLeft", "BothLeaveRight", "SplitLeaver"}
        BY <1>6 DEF Asks, Message
    <2>2. Pair(op.lobby)
        BY <2>1 DEF IInv, AtWork, Knows, Playing, Leaving
    <2>3. answer.reply \in Users
        BY <1>6, <2>2, HandleKinds DEF Answer, Pair, Sides
    <2> QED
        BY <2>3, ReplyAssumption DEF ReplyAssumption
<1> QED
    BY <1>3, <1>4, <1>5, <1>6 DEF Asks, Message

\* The operation is over, has a message to send, or waits for nothing.
Unasked == Idle \/ op.pc \in Telling \/ op.out # NoMessage

LEMMA UnaskedWaits == ASSUME Unasked' PROVE AnswerOnItsWay'
BY DEF Unasked, AnswerOnItsWay

\* What begins or goes on has a message to send; what ends leaves the mutex.
LEMMA RequestUnasked ==
    ASSUME IInv, NEW u \in Users, Request(u)
    PROVE  Unasked'
<1> USE DEF Unasked, Idle, NoOp, NoMessage, Message
<1>1. CASE ConnectUser(u)
    BY <1>1 DEF ConnectUser
<1>2. CASE DisconnectUser(u)
    <2>1. Idle /\ (op' = op \/ op'.out = Message("RemovePlayer", u))
        BY <1>2 DEF DisconnectUser
    <2> QED
        BY <2>1
<1>3. CASE JoinWaiting(u) \/ JoinNew(u)
    <2>1. \/ op'.out = Message("ResetLobby", NoUser)
          \/ op'.out = Message("LobbyState", NoUser)
        BY <1>3 DEF JoinWaiting, JoinNew
    <2> QED
        BY <2>1
<1>4. ASSUME NEW msg \in ClientMessages, RpcRunning(u, msg)
      PROVE  Unasked'
    BY <1>4 DEF RpcRunning, Begin
<1>5. ASSUME NEW msg \in ClientMessages, RpcFinished(u, msg)
      PROVE  Unasked'
    BY <1>5 DEF RpcFinished, Begin
<1>6. CASE Inputs(u)
    BY <1>6 DEF Inputs
<1> QED
    BY <1>1, <1>2, <1>3, <1>4, <1>5, <1>6 DEF Request

LEMMA OperationUnasked ==
    ASSUME IInv, Operation, ~ SendMessage
    PROVE  Unasked'
<1> USE DEF Unasked, Idle, Message, NoMessage, Finish
<1>0. op \in Operations /\ NoOp.pc = "Idle"
    BY DEF IInv, TypeInv, NoOp
<1>1. CASE DisconnectRemoved \/ JoinInsert \/ JoinInserted \/ JoinStarted
    BY <1>0, <1>1, AwaitFields
       DEF DisconnectRemoved, JoinInsert, JoinInserted, JoinStarted
<1>2. CASE RunningState \/ TurnTaken \/ Restarted
    BY <1>0, <1>2, AwaitFields DEF RunningState, TurnTaken, Restarted
<1>3. CASE VoteSide
    BY <1>0, <1>3, AwaitFields DEF VoteSide
<1>4. CASE BothLeaveLeft \/ BothLeaveRight
    BY <1>0, <1>4, AwaitFields DEF BothLeaveLeft, BothLeaveRight
<1>5. CASE SplitLeaver
    BY <1>0, <1>5 DEF SplitLeaver, Operations
<1>6. CASE SplitRemoved \/ SplitReset
    BY <1>0, <1>6, AwaitFields DEF SplitRemoved, SplitReset
<1>7. CASE InputSent
    <2>1. op'.out = Message("MoveInput", op.user) \/ op' = NoOp
        BY <1>0, <1>7 DEF InputSent, Operations
    <2> QED
        BY <1>0, <2>1
<1> QED
    BY <1>1, <1>2, <1>3, <1>4, <1>5, <1>6, <1>7 DEF Operation

LEMMA SendMessageWaits ==
    ASSUME IInv, SendMessage
    PROVE  AnswerOnItsWay'
<1> DEFINE l == op.lobby
<1>1. /\ l \in Lobbies /\ l \in up
      /\ op.out \in Messages /\ mailbox[l] \in Seq(Messages)
    BY DEF SendMessage, IInv, TypeInv, AtWork, Idle, NoOp, Operations
<1>2. mailbox'[l] = Append(mailbox[l], op.out)
    BY <1>1 DEF SendMessage, IInv, TypeInv
<1>3. /\ Len(mailbox'[l]) = Len(mailbox[l]) + 1
      /\ mailbox'[l][Len(mailbox[l]) + 1] = op.out
      /\ Len(mailbox[l]) \in Nat
    BY <1>1, <1>2, AppendProperties, LenProperties
<1>4. op'.pc = op.pc /\ op'.lobby = l /\ up' = up
    BY DEF SendMessage, IInv, TypeInv, Operations
<1>5. op.pc \notin Telling => ~ QuietMessage(op.out)
    BY DEF SendMessage, IInv, Calls, Asks, Tells, Telling, QuietMessage,
           Message
<1> QED
    BY <1>1, <1>3, <1>4, <1>5 DEF AnswerOnItsWay, QuietMessage

\* A quiet message before the question goes without an answer; the question
\* itself does not.
LEMMA ReceiveWaits ==
    ASSUME IInv, AnswerOnItsWay, NEW k \in Lobbies, Receive(k)
    PROVE  AnswerOnItsWay'
<1> SUFFICES ASSUME ~ Idle', op'.pc \notin Telling, op'.out = NoMessage,
                    reply' = NoReply
             PROVE  /\ op'.lobby \in up'
                    /\ Len(mailbox'[op'.lobby]) > 0
                    /\ ~ QuietMessage(mailbox'[op'.lobby]
                                             [Len(mailbox'[op'.lobby])])
    BY DEF AnswerOnItsWay
<1> DEFINE m == Head(mailbox[k])
<1>1. /\ op' = op /\ up' = up /\ ~ Idle
      /\ mailbox' = [mailbox EXCEPT ![k] = Tail(@)]
    BY DEF Receive, Idle
<1>2. PICK answer \in HandleMessage(actor[k], m) :
          reply' = Replied(answer.reply)
    BY DEF Receive
<1>3. op.lobby \in Lobbies /\ op.lobby \in up
    BY <1>1 DEF IInv, TypeInv, AtWork
<1>4. m = mailbox[k][1] /\ 1 \in 1..Len(mailbox[k])
    BY ReceiveFields
<1>5. QuietMessage(m) \/ (k = op.lobby /\ Asking /\ Asks(m))
    <2>1. Calls
        BY DEF IInv
    <2> HIDE DEF m
    <2> QED
        BY <1>4, <2>1 DEF Calls
<1>6. QuietMessage(m)
    <2>1. ASSUME ~ QuietMessage(m)
          PROVE  FALSE
        <3>1. k = op.lobby /\ Asking /\ Asks(m)
            BY <1>5, <2>1
        <3>2. Replied(answer.reply) # NoReply
            BY <1>1, <1>2, <3>1, QuestionAnswered DEF Asking
        <3> QED
            BY <1>2, <3>2
    <2> QED
        BY <2>1
<1>7. reply = NoReply
    <2>1. answer.reply = "Sent"
        BY <1>2, <1>6, ReceiveFields, SeatsKept DEF QuietMessage
    <2> QED
        BY <1>2, <2>1 DEF Replied
<1>8. /\ Len(mailbox[op.lobby]) > 0
      /\ ~ QuietMessage(mailbox[op.lobby][Len(mailbox[op.lobby])])
    BY <1>1, <1>7 DEF AnswerOnItsWay
<1>9. CASE k # op.lobby
    BY <1>1, <1>3, <1>8, <1>9 DEF IInv, TypeInv
<1>10. CASE k = op.lobby
    <2>1. PICK n \in Nat : Len(mailbox[k]) = n /\ Len(mailbox'[k]) = n - 1
        BY ReceiveFields
    <2>2. n > 0 /\ n # 1
        BY <1>4, <1>6, <1>8, <1>10, <2>1
    <2>3. n - 1 > 0 /\ n - 1 \in 1..(n - 1) /\ (n - 1) + 1 = n
        BY <2>2
    <2>4. mailbox'[k][n - 1] = mailbox[k][n]
        BY <2>1, <2>3, ReceiveFields
    <2> QED
        BY <1>1, <1>3, <1>8, <1>10, <2>1, <2>3, <2>4
<1> QED
    BY <1>9, <1>10

\* Until a question is answered its actor runs and has it as its newest
\* message (AnswerOnItsWay): no request of lobby.rs is answered ActorStopped
\* and none waits for an actor that has forgotten it.
THEOREM QuestionsKept == Spec => []AnswerOnItsWay
<1>1. Init => AnswerOnItsWay
    BY DEF Init, AnswerOnItsWay, Idle, NoOp
<1>2. IInv /\ AnswerOnItsWay /\ [Next]_vars => AnswerOnItsWay'
    <2> SUFFICES ASSUME IInv, AnswerOnItsWay, [Next]_vars
                 PROVE  AnswerOnItsWay'
        OBVIOUS
    <2>1. CASE Operation
        BY <2>1, SendMessageWaits, OperationUnasked, UnaskedWaits
    <2>2. ASSUME NEW u \in Users, Request(u)
          PROVE  AnswerOnItsWay'
        BY <2>2, RequestUnasked, UnaskedWaits
    <2>3. ASSUME NEW l \in Lobbies, Receive(l)
          PROVE  AnswerOnItsWay'
        BY <2>3, ReceiveWaits
    <2>4. ASSUME NEW l \in Lobbies, Tick(l)
          PROVE  AnswerOnItsWay'
        BY <2>4 DEF Tick, AnswerOnItsWay, Idle
    <2>5. ASSUME NEW l \in Lobbies, Stop(l)
          PROVE  AnswerOnItsWay'
        BY <2>5 DEF Stop, HasHandle, AnswerOnItsWay, Idle
    <2>6. CASE UNCHANGED vars
        BY <2>6 DEF vars, table, AnswerOnItsWay, Idle
    <2> QED
        BY <2>1, <2>2, <2>3, <2>4, <2>5, <2>6 DEF Next
<1> QED
    BY <1>1, <1>2, Inductive, PTL DEF Spec

-----------------------------------------------------------------------------
(***************************************************************************)
(* A newcomer's round.                                                     *)
(***************************************************************************)
FreshForNewcomer(l) ==
    Cardinality(Occupied(actor[l])) = 1 /\ Cardinality(Occupied(actor'[l])) = 2
        => actor'[l].round = "Fresh"

\* The same seats are taken, or the round is a new one.
LEMMA SameSeatsFresh ==
    ASSUME NEW l, \/ Occupied(actor'[l]) = Occupied(actor[l])
                  \/ actor'[l].round = "Fresh"
    PROVE  FreshForNewcomer(l)
BY DEF FreshForNewcomer

LEMMA ReceiveFresh ==
    ASSUME IInv, NEW l \in Lobbies, Receive(l)
    PROVE  \A k \in Lobbies : FreshForNewcomer(k)
<1> DEFINE m == Head(mailbox[l])
<1>1. PICK answer \in HandleMessage(actor[l], m) :
          actor' = [actor EXCEPT ![l] = answer.actor]
    BY DEF Receive
<1>2. actor[l] \in Actors /\ actor'[l] = answer.actor
    BY <1>1 DEF IInv, TypeInv
<1>3. \A k \in Lobbies \ {l} : actor'[k] = actor[k]
    BY <1>1 DEF IInv, TypeInv
<1>4. QuietMessage(m) \/ (l = op.lobby /\ Asking /\ Asks(m))
    <2>1. m = mailbox[l][1] /\ 1 \in 1..Len(mailbox[l])
        BY ReceiveFields
    <2>2. Calls
        BY DEF IInv
    <2> HIDE DEF m
    <2> QED
        BY <2>1, <2>2 DEF Calls
<1>5. CASE m.kind = "InsertPlayer"
    <2>1. op.pc = "JoinInserted" /\ m.user = op.user /\ l = op.lobby
        BY <1>4, <1>5 DEF QuietMessage, Asks, Message
    <2>2. reply = NoReply /\ ~ Idle
        BY <1>4, <1>5, <2>1 DEF QuietMessage, Asking, Idle
    <2>3. /\ Lone(l) /\ Placed(l) = Sitting(l) /\ op.user \in Users
          /\ lobby_id[op.user] = NoLobby
        BY <2>1, <2>2 DEF IInv, AtWork, Knows, Joining
    <2>4. ~ HasPlayer(actor[l], op.user)
        BY <2>3, ServerAssumption DEF Placed, Sitting, ServerAssumption
    <2>5. answer = InsertPlayer(actor[l], op.user)
        BY <1>5, <2>1, HandleKinds
    <2>6. answer.actor.round = "Fresh"
        BY <1>2, <2>3, <2>4, <2>5, InsertFacts DEF Lone
    <2> QED
        BY <1>2, <1>3, <2>6, SameSeatsFresh
<1>6. CASE m.kind = "RemovePlayer"
    <2>1. answer = RemovePlayer(actor[l], m.user)
        BY <1>6, HandleKinds
    <2>2. CASE HasPlayer(actor[l], m.user)
        <3>1. m.user \in Users
            BY <1>4, <1>6 DEF QuietMessage, Asks, Message, IInv, AtWork, Idle
        <3>2. answer.actor.round = "Fresh"
            BY <1>2, <2>1, <2>2, <3>1, RemoveFacts
        <3> QED
            BY <1>2, <1>3, <3>2, SameSeatsFresh
    <2>3. CASE ~ HasPlayer(actor[l], m.user)
        <3>1. answer.actor.round = "Fresh"
            BY <1>2, <2>1, <2>3 DEF RemovePlayer, ResetLobby, Answer, Actors
        <3> QED
            BY <1>2, <1>3, <3>1, SameSeatsFresh
    <2> QED
        BY <2>2, <2>3
<1>7. CASE m.kind \notin {"InsertPlayer", "RemovePlayer"}
    <2>1. answer.actor.seat = actor[l].seat
        BY <1>2, <1>4, <1>7, SeatsKept DEF QuietMessage, Asks, Message
    <2>2. Occupied(actor'[l]) = Occupied(actor[l])
        BY <1>2, <2>1 DEF Occupied
    <2> QED
        BY <1>3, <2>2, SameSeatsFresh
<1> QED
    BY <1>5, <1>6, <1>7

LEMMA TickFresh ==
    ASSUME IInv, NEW l \in Lobbies, Tick(l)
    PROVE  \A k \in Lobbies : FreshForNewcomer(k)
<1>1. PICK next \in StepGame(actor[l]) : actor' = [actor EXCEPT ![l] = next]
    BY DEF Tick
<1>2. actor[l] \in Actors
    BY DEF IInv, TypeInv
<1>3. next.seat = actor[l].seat
    BY <1>1, <1>2 DEF StepGame, Actors
<1>4. \A k \in Lobbies : actor'[k].seat = actor[k].seat
    BY <1>1, <1>3 DEF IInv, TypeInv
<1> QED
    BY <1>4, SameSeatsFresh DEF Occupied

LEMMA StopFresh ==
    ASSUME IInv, NEW l \in Lobbies, Stop(l)
    PROVE  \A k \in Lobbies : FreshForNewcomer(k)
<1>1. StoppedActor.round = "Fresh"
    BY DEF StoppedActor, ResetLobby
<1>2. \A k \in Lobbies : actor'[k] = IF k = l THEN StoppedActor ELSE actor[k]
    BY DEF Stop, IInv, TypeInv
<1> QED
    BY <1>1, <1>2, SameSeatsFresh

LEMMA RequestFresh ==
    ASSUME IInv, NEW u \in Users, Request(u)
    PROVE  \A k \in Lobbies : FreshForNewcomer(k)
<1>1. CASE DisconnectUser(u)
    <2>1. \A k \in Lobbies : actor'[k] \in {actor[k], Forget(actor[k], u)}
        BY <1>1 DEF DisconnectUser
    <2>2. ASSUME NEW k \in Lobbies
          PROVE  Occupied(Forget(actor[k], u)) = Occupied(actor[k])
        <3>1. actor[k] \in Actors
            BY DEF IInv, TypeInv
        <3>2. Forget(actor[k], u).seat =
                  [s \in Sides |-> IF actor[k].seat[s] = u THEN Departed
                                   ELSE actor[k].seat[s]]
            BY <3>1 DEF Forget, Actors
        <3> QED
            BY <3>2, ActorAssumption DEF Occupied, ActorAssumption
    <2> QED
        BY <2>1, <2>2, SameSeatsFresh
<1>2. CASE JoinNew(u)
    <2>1. NewSession(u).round = "Fresh"
        BY DEF NewSession
    <2>2. \A k \in Lobbies : actor'[k] \in {actor[k], NewSession(u)}
        BY <1>2 DEF JoinNew, IInv, TypeInv
    <2> QED
        BY <2>1, <2>2, SameSeatsFresh
<1>3. CASE ~ DisconnectUser(u) /\ ~ JoinNew(u)
    BY <1>3, SameSeatsFresh
       DEF Request, ConnectUser, JoinWaiting, RpcRunning, RpcFinished, Inputs,
           actors
<1> QED
    BY <1>1, <1>2, <1>3

LEMMA OperationActors == ASSUME Operation PROVE UNCHANGED <<up, actor>>
BY DEF Operation, SendMessage, DisconnectRemoved, JoinInsert, JoinInserted,
       JoinStarted, RunningState, TurnTaken, VoteSide, Restarted,
       BothLeaveLeft, BothLeaveRight, SplitLeaver, SplitRemoved, SplitReset,
       InputSent, actors

\* A player who is seated next to another one starts a fresh round
\* (put_connected_user_in_lobby resets the session it joins, remove_player
\* resets the one it leaves): NewcomerStartsFresh holds of every step.
THEOREM NewcomersFresh == Spec => NewcomerStartsFresh
<1> DEFINE Step == \A l \in Lobbies :
                       Cardinality(Occupied(actor[l])) = 1
                           /\ Cardinality(Occupied(actor'[l])) = 2
                               => actor'[l].round = "Fresh"
<1>1. IInv /\ [Next]_vars => [Step]_vars
    <2> SUFFICES ASSUME IInv, Next PROVE \A l \in Lobbies : FreshForNewcomer(l)
        BY DEF FreshForNewcomer
    <2>1. CASE Operation
        BY <2>1, OperationActors, SameSeatsFresh
    <2> QED
        BY <2>1, RequestFresh, ReceiveFresh, TickFresh, StopFresh DEF Next
<1> QED
    BY <1>1, Inductive, PTL DEF Spec, NewcomerStartsFresh

-----------------------------------------------------------------------------
(***************************************************************************)
(* Matchmaking.                                                            *)
(***************************************************************************)
LEMMA LeaveStep ==
    ASSUME IInv, NEW u \in Users, lobby_id[u] # NoLobby, RemoveFromLobby(u),
           UNCHANGED connected_user_list
    PROVE  M!MatchNext
<1>1. M!Leave(u)
    BY DEF M!Leave, M!MoveTo, RemoveFromLobby
<1> QED
    BY <1>1 DEF M!MatchNext

\* The player who waits is alone there for the matchmaker, too.
LEMMA JoinInsertedStep ==
    ASSUME IInv, JoinInserted
    PROVE  M!MatchNext
<1>0. /\ op.pc = "JoinInserted" /\ reply # NoReply
      /\ op.user \in Users /\ op.lobby \in Lobbies
    BY AnsweredReady DEF JoinInserted
<1>1. PICK l \in Lobbies : l = op.lobby
    BY <1>0
<1>2. /\ reply = "Running" /\ Pair(l) /\ lobby_id[op.user] = NoLobby
      /\ op.user \in Sitting(l) /\ Placed(l) = Sitting(l) \ {op.user}
      /\ op.user \in connected_user_list
    BY <1>0, <1>1 DEF IInv, AtWork, Knows, Joining
<1>3. PICK v \in Users : Placed(l) = {v}
    BY <1>2 DEF Pair, Sitting, HasPlayer, Sides
<1>4. l \in M!Solo
    BY <1>3 DEF M!Solo, M!PlayersOf, Placed
<1>5. M!MoveTo(op.user, l)
    BY <1>1, <1>2 DEF JoinInserted, M!MoveTo
<1> QED
    BY <1>0, <1>2, <1>4, <1>5 DEF M!MatchNext, M!Join

\* Nobody waits anywhere when a session is started.
LEMMA JoinStartedStep ==
    ASSUME IInv, JoinStarted
    PROVE  M!MatchNext
<1>0. /\ op.pc = "JoinStarted" /\ op.user \in Users /\ op.lobby \in Lobbies
    BY AnsweredReady DEF JoinStarted
<1>1. PICK l \in Lobbies : l = op.lobby
    BY <1>0
<1>2. /\ NobodyWaits /\ lobby_id[op.user] = NoLobby
      /\ op.user \in connected_user_list /\ Placed(l) = {}
    BY <1>0, <1>1 DEF IInv, AtWork, Knows, Joining
<1>3. ASSUME NEW k \in Lobbies, NEW v \in Users, Placed(k) = {v}
      PROVE  FALSE
    <2>1. lobby_id[v] = k
        BY <1>3 DEF Placed
    <2>2. lobby_list[k] # "Absent"
        BY <1>1, <1>2, <1>3, <2>1, ServerAssumption
           DEF IInv, NoGhosts, ServerAssumption
    <2>3. Placed(k) = Sitting(k) /\ Pair(k)
        BY <1>2, <2>2 DEF NobodyWaits, WaitingLobbies, IInv, Entries
    <2> QED
        BY <1>3, <2>3 DEF Pair, Sitting, HasPlayer, Sides
<1>4. M!Solo = {}
    BY <1>3 DEF M!Solo, M!PlayersOf, Placed
<1>5. M!PlayersOf(l) = {} /\ M!MoveTo(op.user, l)
    BY <1>1, <1>2 DEF JoinStarted, M!PlayersOf, M!MoveTo, Placed
<1> QED
    BY <1>0, <1>2, <1>4, <1>5 DEF M!MatchNext, M!Join

LEMMA BothLeaveStep ==
    ASSUME IInv, BothLeaveLeft \/ BothLeaveRight
    PROVE  M!MatchNext
<1>1. PICK l \in Lobbies : l = op.lobby
    BY AnsweredReady DEF BothLeaveLeft, BothLeaveRight
<1>2. reply \in Users /\ lobby_id[reply] = l
    <2>1. CASE BothLeaveLeft
        BY <1>1, <2>1
           DEF BothLeaveLeft, Answered, IInv, AtWork, Knows, Playing, Leaving,
               Pair, Placed, Sitting, HasPlayer, Sides
    <2>2. CASE BothLeaveRight
        BY <1>1, <2>2
           DEF BothLeaveRight, Answered, IInv, AtWork, Knows, Leaving, Pair,
               Placed, Sides
    <2> QED
        BY <2>1, <2>2
<1> QED
    BY <1>2, LeaveStep, ServerAssumption
       DEF BothLeaveLeft, BothLeaveRight, ServerAssumption

LEMMA SplitRemovedStep ==
    ASSUME IInv, SplitRemoved
    PROVE  M!MatchNext
<1>1. op.pc = "SplitRemoved" /\ op.user \in Users /\ op.lobby \in Lobbies
    BY AnsweredReady DEF SplitRemoved
<1>2. lobby_id[op.user] = op.lobby
    BY <1>1 DEF IInv, AtWork, Knows, Leaving, Placed
<1> QED
    BY <1>1, <1>2, LeaveStep, ServerAssumption
       DEF SplitRemoved, ServerAssumption

Unseen == UNCHANGED <<connected_user_list, lobby_id>>

LEMMA OperationStep ==
    ASSUME IInv, Operation
    PROVE  M!MatchNext \/ Unseen
<1>1. CASE JoinInserted
    BY <1>1, JoinInsertedStep
<1>2. CASE JoinStarted
    BY <1>2, JoinStartedStep
<1>3. CASE BothLeaveLeft \/ BothLeaveRight
    BY <1>3, BothLeaveStep
<1>4. CASE SplitRemoved
    BY <1>4, SplitRemovedStep
<1>5. CASE \/ SendMessage \/ DisconnectRemoved \/ JoinInsert \/ RunningState
           \/ TurnTaken \/ VoteSide \/ Restarted \/ SplitLeaver \/ SplitReset
           \/ InputSent
    BY <1>5
       DEF SendMessage, DisconnectRemoved, JoinInsert, RunningState, TurnTaken,
           VoteSide, Restarted, SplitLeaver, SplitReset, InputSent, table,
           Unseen
<1> QED
    BY <1>1, <1>2, <1>3, <1>4, <1>5 DEF Operation

LEMMA RequestStep ==
    ASSUME IInv, NEW u \in Users, Request(u)
    PROVE  M!MatchNext \/ Unseen
<1>1. CASE ConnectUser(u)
    BY <1>1 DEF ConnectUser, M!MatchNext, M!Connect
<1>2. CASE DisconnectUser(u)
    BY <1>2 DEF DisconnectUser, M!MatchNext, M!Disconnect
<1>3. CASE ~ ConnectUser(u) /\ ~ DisconnectUser(u)
    BY <1>3
       DEF Request, JoinWaiting, JoinNew, RpcRunning, RpcFinished, Inputs,
           table, Unseen
<1> QED
    BY <1>1, <1>2, <1>3

\* Every step of the server is a step of the matchmaker or none: whoever is
\* put into a lobby joins somebody who waits alone if there is one, and
\* nobody else is moved meanwhile (put_connected_user_in_lobby,
\* handle_finished_lobby_message, disconnect_user).
THEOREM RefinesMatchmaking == Spec => ImplementsMatchmaking
<1>1. Init => M!MatchInit
    BY DEF Init, M!MatchInit
<1>2. IInv /\ [Next]_vars => [M!MatchNext]_(M!matchVars)
    <2> SUFFICES ASSUME IInv, [Next]_vars
                 PROVE  M!MatchNext \/ UNCHANGED M!matchVars
        OBVIOUS
    <2>1. Unseen => UNCHANGED M!matchVars
        BY DEF Unseen, M!matchVars
    <2>2. CASE Operation
        BY <2>1, <2>2, OperationStep
    <2>3. CASE \E u \in Users : Request(u)
        BY <2>1, <2>3, RequestStep
    <2>4. CASE \E l \in Lobbies : Receive(l) \/ Tick(l) \/ Stop(l)
        BY <2>1, <2>4 DEF Receive, Tick, Stop, table, Unseen
    <2>5. CASE UNCHANGED vars
        BY <2>1, <2>5 DEF vars, table, Unseen
    <2> QED
        BY <2>2, <2>3, <2>4, <2>5 DEF Next
<1> QED
    BY <1>1, <1>2, Inductive, PTL
       DEF Spec, ImplementsMatchmaking, M!MatchSpec
=============================================================================
