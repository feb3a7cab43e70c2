---------------------------- MODULE LobbyServer -----------------------------
(***************************************************************************)
(* The server's matchmaking (ServerState in server/src/lobby_db.rs) and    *)
(* the lobby actors it talks to (run_lobby_session in server/src/lobby.rs).*)
(*                                                                         *)
(* Every operation of ServerState runs under one async mutex, but it       *)
(* awaits: each request to an actor is put into a bounded mailbox and the  *)
(* operation waits for the reply, while all actors go on ticking.  `op` is *)
(* the operation that holds the mutex; a step of the operation is what it  *)
(* does between two awaits.  While an operation works on a lobby its entry *)
(* is taken out of lobby_list.                                             *)
(***************************************************************************)
EXTENDS LobbyActor, Naturals, Sequences

CONSTANTS
    Lobbies,      \* sessions that can exist at one time (bounded)
    NoLobby,
    MailboxSize,  \* 32 in the code
    InputsPerDatagram  \* bound on the inputs one datagram carries

ASSUME ServerAssumption ==
    /\ NoLobby \notin Lobbies
    /\ MailboxSize \in Nat \ {0}
    /\ InputsPerDatagram \in Nat \ {0}

VARIABLES
    connected_user_list,  \* the users the server knows
    lobby_id,     \* the lobby each connected user is in
    lobby_list,   \* which LobbyEntry each lobby has, if any
    votes,        \* Finished: who wants to continue
    op,           \* the operation that holds the mutex
    reply,        \* the oneshot channel the operation waits on
    up,           \* the actors that are running
    actor,        \* state of each actor
    mailbox,      \* messages sent to each actor
    told,         \* the last LobbyState put into each user's channel
    panicked      \* an assertion, expect or unreachable! has failed

table == <<connected_user_list, lobby_id, lobby_list, votes>>
vars == <<table, op, reply, up, actor, mailbox, told, panicked>>

NoVotes == [s \in Sides |-> "None"]
NoReply == "NoReply"

\* A user who is an answer (GetLeft) is not taken for another answer.
ASSUME ReplyAssumption == Users \cap {"Sent", NoReply} = {}

Message(kind, u) == [kind |-> kind, user |-> u]
NoMessage == Message("None", NoUser)
StoppedActor == ResetLobby([seat |-> [s \in Sides |-> NoUser],
                            round |-> "Won"])

ClientMessages == {"JoinServer", "TurnAction", "Yes", "No"}

\* The mutex is free.
NoOp == [pc |-> "Idle", user |-> NoUser, msg |-> "None", lobby |-> NoLobby,
         entry |-> "Absent", out |-> NoMessage, left |-> 0]

Idle == op.pc = "Idle"

Init ==
    /\ connected_user_list = {}
    /\ lobby_id = [u \in Users |-> NoLobby]
    /\ lobby_list = [l \in Lobbies |-> "Absent"]
    /\ votes = [l \in Lobbies |-> NoVotes]
    /\ op = NoOp
    /\ reply = NoReply
    /\ up = {}
    /\ actor = [l \in Lobbies |-> StoppedActor]
    /\ mailbox = [l \in Lobbies |-> <<>>]
    /\ told = [u \in Users |-> "None"]
    /\ panicked = FALSE

-----------------------------------------------------------------------------
(***************************************************************************)
(* How an operation goes on.                                               *)
(***************************************************************************)

\* It keeps the mutex and next sends `out`.
Await(pc, out) == op' = [op EXCEPT !.pc = pc, !.out = out]

\* It ends, leaving lobby l with the given entry.
Finish(l, entry) ==
    /\ op' = NoOp
    /\ lobby_list' = [lobby_list EXCEPT ![l] = entry]
    /\ votes' = IF entry = "Finished" THEN votes
                ELSE [votes EXCEPT ![l] = NoVotes]

\* It has sent its message and got the answer it waits for.
Answered(pc) ==
    /\ op.pc = pc
    /\ reply # NoReply
    /\ reply' = NoReply

\* It has sent a message that nobody answers.
Sent(pc) ==
    /\ op.pc = pc
    /\ op.out = NoMessage
    /\ UNCHANGED reply

\* Mutant: the user is told to be out but the table still has him in.
TellOnly(u) ==
    /\ UNCHANGED lobby_id
    /\ told' = [told EXCEPT ![u] = "Empty"]

\* remove_connected_user_from_lobby
RemoveFromLobby(u) ==
    /\ lobby_id' = [lobby_id EXCEPT ![u] = NoLobby]
    /\ told' = [told EXCEPT ![u] = "Empty"]

actors == <<up, actor, mailbox>>

\* Mutant: a full mailbox takes one message more.
HasRoomForOneMore(l) == Len(mailbox[l]) <= MailboxSize

HasRoom(l) == Len(mailbox[l]) < MailboxSize

SendMessage ==
    /\ op.out # NoMessage
    /\ HasRoom(op.lobby)
    /\ mailbox' = [mailbox EXCEPT ![op.lobby] = Append(@, op.out)]
    /\ op' = [op EXCEPT !.out = NoMessage]
    /\ UNCHANGED <<table, reply, up, actor, told, panicked>>

-----------------------------------------------------------------------------
(***************************************************************************)
(* Connecting and disconnecting.                                           *)
(***************************************************************************)

\* A user who is already connected is turned away and nothing changes; one
\* who is not comes with a channel of its own.
ConnectUser(u) ==
    /\ Idle
    /\ u \notin connected_user_list
    /\ connected_user_list' = connected_user_list \cup {u}
    /\ told' = [told EXCEPT ![u] = "None"]
    /\ UNCHANGED <<lobby_id, lobby_list, votes, op, reply, actors, panicked>>

\* A session that no longer has a handle keeps the seats it had: they now
\* lead to a connection that is gone.
Forget(a, u) ==
    [a EXCEPT !.seat = [s \in Sides |-> IF a.seat[s] = u THEN Departed
                                                         ELSE a.seat[s]]]

DisconnectUser(u) ==
    LET l == lobby_id[u]
    IN  /\ Idle
        /\ u \in connected_user_list
        /\ connected_user_list' = connected_user_list \ {u}
        /\ lobby_id' = [lobby_id EXCEPT ![u] = NoLobby]
        /\ told' = [told EXCEPT ![u] = IF l = NoLobby THEN @ ELSE "Empty"]
        /\ actor' = [k \in Lobbies |-> IF k = l THEN actor[k]
                                               ELSE Forget(actor[k], u)]
        /\ IF l # NoLobby /\ lobby_list[l] # "Absent"
           THEN /\ lobby_list' = [lobby_list EXCEPT ![l] = "Absent"]
                /\ op' = [NoOp EXCEPT !.pc = "Disconnected", !.user = u,
                                      !.lobby = l, !.entry = lobby_list[l],
                                      !.out = Message("RemovePlayer", u)]
           ELSE UNCHANGED <<lobby_list, op>>
        /\ UNCHANGED <<votes, reply, up, mailbox, panicked>>

DisconnectRemoved ==
    /\ Answered("Disconnected")
    /\ panicked' = (panicked \/ reply \in {"Running", "Finished"}
                      \/ (op.entry = "Waiting" /\ reply = "Waiting"))
    /\ Finish(op.lobby, IF reply = "Waiting" THEN "Waiting" ELSE "Absent")
    /\ UNCHANGED <<connected_user_list, lobby_id, actors, told>>

-----------------------------------------------------------------------------
(***************************************************************************)
(* put_connected_user_in_lobby                                             *)
(***************************************************************************)
WaitingLobbies == {l \in Lobbies : lobby_list[l] = "Waiting"}

InLobby(u) == lobby_id[u] # NoLobby /\ lobby_list[lobby_id[u]] # "Absent"

\* The first message to the waiting session is its reset.
JoinWaiting(u) ==
    /\ Idle
    /\ u \in connected_user_list /\ ~ InLobby(u)
    /\ \E l \in WaitingLobbies :
           /\ lobby_list' = [lobby_list EXCEPT ![l] = "Absent"]
           /\ op' = [NoOp EXCEPT !.pc = "JoinReset", !.user = u, !.lobby = l,
                                 !.out = Message("ResetLobby", NoUser)]
    /\ UNCHANGED <<connected_user_list, lobby_id, votes, reply, actors, told,
                   panicked>>

JoinInsert ==
    /\ Sent("JoinReset")
    /\ Await("JoinInserted", Message("InsertPlayer", op.user))
    /\ UNCHANGED <<table, actors, told, panicked>>

JoinInserted ==
    /\ Answered("JoinInserted")
    /\ IF reply = "Error"
       THEN Finish(op.lobby, "Absent") /\ UNCHANGED lobby_id
       ELSE /\ Finish(op.lobby, "Running")
            /\ lobby_id' = [lobby_id EXCEPT ![op.user] = op.lobby]
    /\ panicked' = (panicked \/ reply \notin {"Running", "Error"})
    /\ UNCHANGED <<connected_user_list, actors, told>>

\* Mutant: a session is started although a player is waiting.
AlwaysNew == TRUE

NobodyWaits == WaitingLobbies = {}

\* Without a waiting lobby a session is started, with a fresh id.
JoinNew(u) ==
    /\ Idle
    /\ u \in connected_user_list /\ ~ InLobby(u)
    /\ NobodyWaits
    /\ \E l \in Lobbies \ up :
           /\ \A v \in Users : lobby_id[v] # l
           /\ up' = up \cup {l}
           /\ actor' = [actor EXCEPT ![l] = NewSession(u)]
           /\ op' = [NoOp EXCEPT !.pc = "JoinStarted", !.user = u, !.lobby = l,
                                 !.out = Message("LobbyState", NoUser)]
    /\ UNCHANGED <<table, reply, mailbox, told, panicked>>

JoinStarted ==
    /\ Answered("JoinStarted")
    /\ Finish(op.lobby, "Waiting")
    /\ lobby_id' = [lobby_id EXCEPT ![op.user] = op.lobby]
    /\ UNCHANGED <<connected_user_list, actors, told, panicked>>

-----------------------------------------------------------------------------
(***************************************************************************)
(* handle_user_reliable_rpc for a user whose lobby has an entry.  In a     *)
(* waiting lobby, and for a message its entry does not take, nothing       *)
(* changes.                                                                *)
(***************************************************************************)
Begin(pc, u, msg, out) ==
    LET l == lobby_id[u]
    IN  /\ lobby_list' = [lobby_list EXCEPT ![l] = "Absent"]
        /\ op' = [NoOp EXCEPT !.pc = pc, !.user = u, !.msg = msg, !.lobby = l,
                              !.out = out]

\* The entry may be behind the actor, which can win without being asked.
RpcRunning(u, msg) ==
    /\ Idle
    /\ u \in connected_user_list /\ lobby_id[u] # NoLobby
    /\ lobby_list[lobby_id[u]] = "Running"
    /\ Begin("RunningState", u, msg, Message("LobbyState", NoUser))
    /\ UNCHANGED <<connected_user_list, lobby_id, votes, reply, actors, told,
                   panicked>>

RunningState ==
    /\ Answered("RunningState")
    /\ IF reply = "Finished"
       THEN IF op.msg \in {"Yes", "No"}
            THEN /\ Await("VoteSide", Message("GetPlayerSide", op.user))
                 /\ UNCHANGED <<lobby_list, votes>>
            ELSE Finish(op.lobby, "Finished")
       ELSE IF op.msg = "TurnAction"
            THEN /\ Await("TurnTaken", Message("TurnAction", op.user))
                 /\ UNCHANGED <<lobby_list, votes>>
            ELSE Finish(op.lobby, "Running")
    /\ UNCHANGED <<connected_user_list, lobby_id, actors, told, panicked>>

\* A rejected action leaves the lobby running, like an accepted one.
TurnTaken ==
    /\ Answered("TurnTaken")
    /\ Finish(op.lobby, IF reply = "Win" THEN "Finished" ELSE "Running")
    /\ UNCHANGED <<connected_user_list, lobby_id, actors, told, panicked>>

(***************************************************************************)
(* handle_finished_lobby_message: both Yes restarts the lobby, both No     *)
(* destroys it, a split keeps it waiting for a replacement player.         *)
(***************************************************************************)
RpcFinished(u, msg) ==
    /\ Idle
    /\ u \in connected_user_list /\ lobby_id[u] # NoLobby
    /\ lobby_list[lobby_id[u]] = "Finished"
    /\ msg \in {"Yes", "No"}
    /\ Begin("VoteSide", u, msg, Message("GetPlayerSide", u))
    /\ UNCHANGED <<connected_user_list, lobby_id, votes, reply, actors, told,
                   panicked>>

VoteSide ==
    LET cast == IF reply \in Sides
                THEN [votes[op.lobby] EXCEPT ![reply] = op.msg]
                ELSE votes[op.lobby]
        left == cast["Left"]
        right == cast["Right"]
    IN  /\ Answered("VoteSide")
        /\ IF reply = "Error" THEN Finish(op.lobby, "Absent")
           ELSE IF {left, right} = {"Yes"}
           THEN /\ Await("Restarted", Message("ResetLobby", NoUser))
                /\ UNCHANGED <<lobby_list, votes>>
           ELSE IF {left, right} = {"No"}
           THEN /\ Await("BothLeaveLeft", Message("GetLeft", NoUser))
                /\ UNCHANGED <<lobby_list, votes>>
           ELSE IF "None" \notin {left, right}
           THEN /\ Await("SplitLeaver",
                         Message(IF left = "No" THEN "GetLeft" ELSE "GetRight",
                                 NoUser))
                /\ UNCHANGED <<lobby_list, votes>>
           ELSE /\ op' = NoOp
                /\ lobby_list' = [lobby_list EXCEPT ![op.lobby] = "Finished"]
                /\ votes' = [votes EXCEPT ![op.lobby] = cast]
        /\ UNCHANGED <<connected_user_list, lobby_id, actors, told, panicked>>

Restarted ==
    /\ Sent("Restarted")
    /\ Finish(op.lobby, "Running")
    /\ UNCHANGED <<connected_user_list, lobby_id, actors, told, panicked>>

\* An empty seat would be a failed expect.
BothLeaveLeft ==
    /\ Answered("BothLeaveLeft")
    /\ RemoveFromLobby(reply)
    /\ Await("BothLeaveRight", Message("GetRight", NoUser))
    /\ panicked' = (panicked \/ reply \notin connected_user_list)
    /\ UNCHANGED <<connected_user_list, lobby_list, votes, actors>>

\* The handle is dropped here; the session stops when it notices.
BothLeaveRight ==
    /\ Answered("BothLeaveRight")
    /\ RemoveFromLobby(reply)
    /\ Finish(op.lobby, "Absent")
    /\ panicked' = (panicked \/ reply \notin connected_user_list)
    /\ UNCHANGED <<connected_user_list, actors>>

SplitLeaver ==
    /\ Answered("SplitLeaver")
    /\ op' = [op EXCEPT !.pc = "SplitRemoved", !.user = reply,
                        !.out = Message("RemovePlayer", reply)]
    /\ panicked' = (panicked \/ reply \notin connected_user_list)
    /\ UNCHANGED <<table, actors, told>>

SplitRemoved ==
    /\ Answered("SplitRemoved")
    /\ panicked' = (panicked \/ reply # "Waiting")
    /\ RemoveFromLobby(op.user)
    /\ Await("SplitReset", Message("ResetLobby", NoUser))
    /\ UNCHANGED <<connected_user_list, lobby_list, votes, actors>>

SplitReset ==
    /\ Sent("SplitReset")
    /\ Finish(op.lobby, "Waiting")
    /\ UNCHANGED <<connected_user_list, lobby_id, actors, told, panicked>>

-----------------------------------------------------------------------------
(***************************************************************************)
(* handle_user_unreliable_rpc: the inputs of a datagram are sent on one by *)
(* one, each waiting for room in the mailbox.                              *)
(***************************************************************************)
Inputs(u) ==
    /\ Idle
    /\ u \in connected_user_list /\ lobby_id[u] # NoLobby
    /\ lobby_list[lobby_id[u]] = "Running"
    /\ \E n \in 1..InputsPerDatagram :
           /\ lobby_list' = [lobby_list EXCEPT ![lobby_id[u]] = "Absent"]
           /\ op' = [NoOp EXCEPT !.pc = "Inputs", !.user = u,
                                 !.lobby = lobby_id[u], !.left = n - 1,
                                 !.out = Message("MoveInput", u)]
    /\ UNCHANGED <<connected_user_list, lobby_id, votes, reply, actors, told,
                   panicked>>

InputSent ==
    /\ Sent("Inputs")
    /\ IF op.left > 0
       THEN /\ op' = [op EXCEPT !.left = @ - 1,
                              !.out = Message("MoveInput", op.user)]
            /\ UNCHANGED <<lobby_list, votes>>
       ELSE Finish(op.lobby, "Running")
    /\ UNCHANGED <<connected_user_list, lobby_id, actors, told, panicked>>

-----------------------------------------------------------------------------
(***************************************************************************)
(* run_lobby_session: whichever of the mailbox and the timer is ready.     *)
(***************************************************************************)
\* Mutant: nobody is told of a rejection.
RejectionsDropped(answer) ==
    IF answer \in {"Sent", "Error"} THEN reply ELSE answer

Replied(answer) == IF answer = "Sent" THEN reply ELSE answer

Receive(l) ==
    /\ l \in up
    /\ mailbox[l] # <<>>
    /\ \E answer \in HandleMessage(actor[l], Head(mailbox[l])) :
           /\ actor' = [actor EXCEPT ![l] = answer.actor]
           /\ reply' = Replied(answer.reply)
    /\ mailbox' = [mailbox EXCEPT ![l] = Tail(@)]
    /\ UNCHANGED <<table, op, up, told, panicked>>

\* The lobby state goes to both seats before the round is stepped.
Tick(l) ==
    /\ l \in up
    /\ told' = [u \in Users |-> IF HasPlayer(actor[l], u)
                                THEN GetCurrentLobbyState(actor[l])
                                ELSE told[u]]
    /\ \E next \in StepGame(actor[l]) : actor' = [actor EXCEPT ![l] = next]
    /\ UNCHANGED <<table, op, reply, up, mailbox, panicked>>

\* Mutant: the operation at work on a lobby keeps no handle of it.
InTable(l) == lobby_list[l] # "Absent"

HasHandle(l) == lobby_list[l] # "Absent" \/ op.lobby = l

\* Mutant: only a session without players stops.
DrainedAndEmpty(l) == mailbox[l] = <<>> /\ Occupied(actor[l]) = {}

Drained(l) == mailbox[l] = <<>>

\* recv() yields None once the mailbox is empty and no handle is left.
Stop(l) ==
    /\ l \in up
    /\ ~ HasHandle(l)
    /\ Drained(l)
    /\ up' = up \ {l}
    /\ actor' = [actor EXCEPT ![l] = StoppedActor]
    /\ UNCHANGED <<table, op, reply, mailbox, told, panicked>>

-----------------------------------------------------------------------------
Operation ==
    \/ SendMessage \/ DisconnectRemoved
    \/ JoinInsert \/ JoinInserted \/ JoinStarted
    \/ RunningState \/ TurnTaken
    \/ VoteSide \/ Restarted \/ BothLeaveLeft \/ BothLeaveRight
    \/ SplitLeaver \/ SplitRemoved \/ SplitReset
    \/ InputSent

Request(u) ==
    \/ ConnectUser(u) \/ DisconnectUser(u)
    \/ JoinWaiting(u) \/ JoinNew(u)
    \/ \E msg \in ClientMessages : RpcRunning(u, msg) \/ RpcFinished(u, msg)
    \/ Inputs(u)

Next ==
    \/ Operation
    \/ \E u \in Users : Request(u)
    \/ \E l \in Lobbies : Receive(l) \/ Tick(l) \/ Stop(l)

(***************************************************************************)
(* Tasks that can run do run, and select! picks its ready branches at      *)
(* random, so an actor reads its mailbox however often it ticks.  Users    *)
(* owe nothing.                                                            *)
(***************************************************************************)
Fairness ==
    /\ WF_vars(Operation)
    /\ \A l \in Lobbies : WF_vars(Receive(l)) /\ WF_vars(Stop(l))

Spec == Init /\ [][Next]_vars /\ Fairness

-----------------------------------------------------------------------------
(***************************************************************************)
(* Properties.                                                             *)
(***************************************************************************)
Messages ==
    [kind : {"None", "InsertPlayer", "RemovePlayer", "TurnAction", "MoveInput",
             "LobbyState", "GetPlayerSide", "GetLeft", "GetRight",
             "ResetLobby"},
     user : Users \cup {NoUser}]

\* Every variable has its type.
TypeOK ==
    /\ connected_user_list \subseteq Users
    /\ lobby_id \in [Users -> Lobbies \cup {NoLobby}]
    /\ lobby_list \in [Lobbies -> {"Absent", "Waiting", "Running", "Finished"}]
    /\ votes \in [Lobbies -> [Sides -> {"None", "Yes", "No"}]]
    /\ op.user \in Users \cup {NoUser}
    /\ op.lobby \in Lobbies \cup {NoLobby}
    /\ op.out \in Messages
    /\ up \subseteq Lobbies
    /\ actor \in [Lobbies -> Actors]
    /\ \A l \in Lobbies : /\ Len(mailbox[l]) <= MailboxSize
                          /\ \A i \in DOMAIN mailbox[l] :
                                 mailbox[l][i] \in Messages
    /\ told \in [Users -> LobbyStates \cup {"None"}]
    /\ panicked \in BOOLEAN

Members(l) == {u \in connected_user_list : lobby_id[u] = l}
Seated(l) == {actor[l].seat[s] : s \in Sides} \ {NoUser}

\* Whenever the mutex is free the server's two tables and the actors agree:
\* a waiting lobby has one player, a running or finished one two, they are
\* the users the table puts there, and a user is never left in a lobby that
\* has no entry.
TablesAgree ==
    Idle =>
        /\ \A l \in Lobbies :
               lobby_list[l] # "Absent" =>
                   /\ l \in up
                   /\ Members(l) = Seated(l)
                   /\ Cardinality(Members(l)) =
                          (IF lobby_list[l] = "Waiting" THEN 1 ELSE 2)
        /\ \A u \in connected_user_list : lobby_id[u] # NoLobby => InLobby(u)

\* No assert!, expect or unreachable! of lobby_db.rs fails, in whatever order
\* rounds end, users leave and votes are cast.
NeverPanics == ~ panicked

\* A player who is seated next to another one starts a fresh round, and the
\* one already there has not played on alone (put_connected_user_in_lobby).
NewcomerStartsFresh ==
    [][\A l \in Lobbies :
           Cardinality(Occupied(actor[l])) = 1
               /\ Cardinality(Occupied(actor'[l])) = 2
                   => actor'[l].round = "Fresh"]_vars

\* Where an operation only sends and waits for nothing.
Telling == {"JoinReset", "Restarted", "SplitReset", "Inputs"}

\* A message without a oneshot.
QuietMessage(m) == m.kind \in {"MoveInput", "ResetLobby"}

\* Until a question is answered its actor runs and has it as its newest
\* message.  Under the mutex the "normal shutdown race" of lobby.rs never
\* happens: no request is answered ActorStopped, and none waits for nobody.
AnswerOnItsWay ==
    ~ Idle /\ op.pc \notin Telling /\ op.out = NoMessage /\ reply = NoReply =>
        /\ op.lobby \in up
        /\ Len(mailbox[op.lobby]) > 0
        /\ ~ QuietMessage(mailbox[op.lobby][Len(mailbox[op.lobby])])

\* An operation that awaits actors while it holds the mutex lets it go again:
\* full mailboxes and actors that end cannot leave the server locked.
MutexReleased == ~ Idle ~> Idle

\* A session whose last handle is dropped stops.
OrphansStop == \A l \in Lobbies : l \in up /\ ~ HasHandle(l) ~> l \notin up

\* "If both players leave, the lobby gets torn down": a user the server has
\* put out of a lobby has been told last that he is in none.
EvictedIsTold ==
    Idle => \A u \in connected_user_list :
                lobby_id[u] = NoLobby => told[u] \in {"None", "Empty"}

\* For the users the server is a matchmaker: whoever looks for a game joins a
\* player who waits if there is one, and nobody else is moved meanwhile.
M == INSTANCE Matchmaking WITH online <- connected_user_list,
                               lobby_of <- lobby_id

ImplementsMatchmaking == M!MatchSpec
=============================================================================
