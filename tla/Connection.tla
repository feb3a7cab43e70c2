----------------------------- MODULE Connection -----------------------------
(***************************************************************************)
(* The life of the server's connections (handle_connection in              *)
(* server/src/main.rs): opening a session, the OAuth request answered from *)
(* a browser, the user table that holds one connection per user, the four  *)
(* tasks that serve a connection, and what is left of them when one ends.  *)
(*                                                                         *)
(* A connection is also its CSRF token.  A session is Lost once the server *)
(* can see that it is over, whoever closed it.  A request is any reliable  *)
(* message; what it does to lobbies is in LobbyServer, here it only makes  *)
(* a lobby's actor hold the channels of the connection that is registered. *)
(***************************************************************************)
EXTENDS Naturals

CONSTANTS
    Conns,        \* sessions that clients open (bounded)
    NoConn,
    Users,
    NoUser,
    MaxRequests   \* bound: requests of a connection waiting in its stream

ASSUME ConnAssumption ==
    /\ NoConn \notin Conns
    /\ NoUser \notin Users
    /\ MaxRequests \in Nat

VARIABLES
    stage,      \* what handle_connection does next for each connection
    session,    \* Open or Lost
    pending,    \* PendingOAuthRequests.map
    announced,  \* the login URL has been sent to the client
    who,        \* the user a connection was authenticated as
    refused,    \* approvals answered "CSRF Token did not match!"
    table,      \* connected_user_list: the connection of each user
    tasks,      \* the spawned tasks of a connection that still run
    incoming,   \* requests in the stream, not read yet
    held        \* connections whose channels a lobby's actor holds

oauth == <<pending, announced, who, refused>>
serving == <<table, tasks, incoming, held>>
vars == <<stage, session, oauth, serving>>

Stages == {"Accept", "GetReceiver", "Announce", "Await", "Connect",
           "Serving", "Disconnect", "Done"}

Tasks == {"Reliable", "Datagram", "SendReliable", "SendUnreliable"}

Init ==
    /\ stage = [c \in Conns |-> "Accept"]
    /\ session = [c \in Conns |-> "Lost"]
    /\ pending = {}
    /\ announced = {}
    /\ who = [c \in Conns |-> NoUser]
    /\ refused = {}
    /\ table = [u \in Users |-> NoConn]
    /\ tasks = [c \in Conns |-> {}]
    /\ incoming = [c \in Conns |-> 0]
    /\ held = {}

-----------------------------------------------------------------------------
(***************************************************************************)
(* Authentication.                                                         *)
(***************************************************************************)

\* Mutant: the login URL is sent out before anybody waits for the answer.
AnnounceFirst ==
    [Accept |-> "Announce", Announce |-> "GetReceiver", GetReceiver |-> "Await"]

\* The order in which a connection is set up.
Following ==
    [Accept |-> "GetReceiver", GetReceiver |-> "Announce", Announce |-> "Await"]

GoOn(c) == stage' = [stage EXCEPT ![c] = Following[stage[c]]]

\* The handler returns and drops its session before any task was spawned.
GiveUp(c) ==
    /\ stage' = [stage EXCEPT ![c] = "Done"]
    /\ session' = [session EXCEPT ![c] = "Lost"]

Accept(c) ==
    /\ stage[c] = "Accept"
    /\ GoOn(c)
    /\ session' = [session EXCEPT ![c] = "Open"]
    /\ UNCHANGED <<oauth, serving>>

GetReceiver(c) ==
    /\ stage[c] = "GetReceiver"
    /\ GoOn(c)
    /\ pending' = pending \cup {c}
    /\ UNCHANGED <<session, announced, who, refused, serving>>

\* The URL cannot be written to a session that is over.
Announce(c) ==
    /\ stage[c] = "Announce"
    /\ session[c] = "Open"
    /\ GoOn(c)
    /\ announced' = announced \cup {c}
    /\ UNCHANGED <<session, pending, who, refused, serving>>

(***************************************************************************)
(* submit_oauth_result, after itch.io named the user of the browser: the   *)
(* answer goes to the handler that waits for it, if one does.              *)
(***************************************************************************)
Waits(c) == stage[c] = "Await" /\ who[c] = NoUser

Approve(c, u) ==
    /\ c \in announced
    /\ IF c \in pending
       THEN /\ pending' = pending \ {c}
            /\ who' = IF Waits(c) THEN [who EXCEPT ![c] = u] ELSE who
            /\ refused' = IF Waits(c) THEN refused ELSE refused \cup {c}
       ELSE refused' = refused \cup {c} /\ UNCHANGED <<pending, who>>
    /\ UNCHANGED <<stage, session, announced, serving>>

\* Mutant: the handler does not wait for the answer.
AnyAnswer(c) == TRUE

HasAnswer(c) == who[c] # NoUser

\* The user is written into the database.
Store(c) ==
    /\ stage[c] = "Await"
    /\ HasAnswer(c)
    /\ stage' = [stage EXCEPT ![c] = "Connect"]
    /\ UNCHANGED <<session, oauth, serving>>

\* A call that can fail has failed: the session, the OAuth endpoint, the
\* write of the URL, the database.
Fail(c) ==
    /\ stage[c] \in {"GetReceiver", "Announce", "Connect"}
    /\ GiveUp(c)
    /\ UNCHANGED <<oauth, serving>>

-----------------------------------------------------------------------------
(***************************************************************************)
(* Registering: connect_user, under the mutex of the server's state.       *)
(***************************************************************************)

\* Mutant: a user who is connected already is replaced.
AnyUser(u) == TRUE

MayConnect(u) == table[u] = NoConn

ConnectUser(c) ==
    /\ stage[c] = "Connect"
    /\ IF MayConnect(who[c])
       THEN /\ table' = [table EXCEPT ![who[c]] = c]
            /\ tasks' = [tasks EXCEPT ![c] = Tasks]
            /\ stage' = [stage EXCEPT ![c] = "Serving"]
            /\ UNCHANGED session
       ELSE GiveUp(c) /\ UNCHANGED <<table, tasks>>
    /\ UNCHANGED <<oauth, incoming, held>>

-----------------------------------------------------------------------------
(***************************************************************************)
(* Serving: four tasks.                                                    *)
(***************************************************************************)
EndTask(c, t) == tasks' = [tasks EXCEPT ![c] = @ \ {t}]

(***************************************************************************)
(* handle_user_reliable_rpc: the reader knows its user, not the connection *)
(* the user has now.  A user who is not in the table is an error on which  *)
(* the reader panics.                                                      *)
(***************************************************************************)
HandleRequest(c) ==
    LET d == table[who[c]]
    IN  IF d = NoConn
        THEN EndTask(c, "Reliable") /\ UNCHANGED held
        ELSE held' \in {held, held \cup {d}} /\ UNCHANGED tasks

\* A whole message is in the next chunk of the stream and is handled.
ReadRequest(c) ==
    /\ "Reliable" \in tasks[c]
    /\ incoming[c] > 0
    /\ incoming' = [incoming EXCEPT ![c] = @ - 1]
    /\ HandleRequest(c)
    /\ UNCHANGED <<stage, session, oauth, table>>

\* The next chunk holds only a part of it, which cannot be decoded.
ReadPart(c) ==
    /\ "Reliable" \in tasks[c]
    /\ incoming[c] > 0
    /\ incoming' = [incoming EXCEPT ![c] = @ - 1]
    /\ EndTask(c, "Reliable")
    /\ UNCHANGED <<stage, session, oauth, table, held>>

\* Reading from a session that is over is an error.
ReaderEnds(c, t) ==
    /\ t \in tasks[c]
    /\ session[c] = "Lost"
    /\ EndTask(c, t)
    /\ UNCHANGED <<stage, session, oauth, table, incoming, held>>

\* Mutant: the datagram task keeps a sender of its own.
ReaderHoldsSender(c) ==
    table[who[c]] # c /\ c \notin held /\ "Datagram" \notin tasks[c]

\* Nobody can put a message into the channels of c any more.
SendersDropped(c) == table[who[c]] # c /\ c \notin held

\* A failed write is only logged: a sending task ends with its channel.
SenderEnds(c, t) ==
    /\ t \in tasks[c]
    /\ SendersDropped(c)
    /\ EndTask(c, t)
    /\ UNCHANGED <<stage, session, oauth, table, incoming, held>>

\* Mutant: the handler waits for all of its tasks (join instead of select).
AllEnded(c) == tasks[c] = {}

AnyEnded(c) == tasks[c] # Tasks

\* select! drops the handles of the other tasks, which go on by themselves.
Select(c) ==
    /\ stage[c] = "Serving"
    /\ AnyEnded(c)
    /\ stage' = [stage EXCEPT ![c] = "Disconnect"]
    /\ UNCHANGED <<session, oauth, serving>>

\* disconnect_user, which has the lobby's actor remove the player, too.
DisconnectUser(c) ==
    /\ stage[c] = "Disconnect"
    /\ table' = [table EXCEPT ![who[c]] = NoConn]
    /\ stage' = [stage EXCEPT ![c] = "Done"]
    /\ UNCHANGED <<session, oauth, tasks, incoming, held>>

-----------------------------------------------------------------------------
(***************************************************************************)
(* The others.                                                             *)
(***************************************************************************)

\* The client puts a message into its stream, JoinServer even before the
\* server has authenticated it.
SendRequest(c) ==
    /\ session[c] = "Open"
    /\ incoming[c] < MaxRequests
    /\ incoming' = [incoming EXCEPT ![c] = @ + 1]
    /\ UNCHANGED <<stage, session, oauth, table, tasks, held>>

\* The client leaves or connects anew, or the network fails.
LoseSession(c) ==
    /\ session[c] = "Open"
    /\ session' = [session EXCEPT ![c] = "Lost"]
    /\ UNCHANGED <<stage, oauth, serving>>

\* When the server's stream ends one of the client's four loops ends, and
\* with it the client's session.
ClientSeesEnd(c) ==
    /\ stage[c] \in {"Serving", "Disconnect", "Done"}
    /\ "SendReliable" \notin tasks[c]
    /\ LoseSession(c)

\* The actor removes the player, or stops.
ActorLetsGo(c) ==
    /\ c \in held
    /\ held' = held \ {c}
    /\ UNCHANGED <<stage, session, oauth, table, tasks, incoming>>

-----------------------------------------------------------------------------
Handler(c) ==
    \/ GetReceiver(c) \/ Announce(c) \/ Store(c)
    \/ ConnectUser(c) \/ Select(c) \/ DisconnectUser(c)

Running(c) ==
    \/ ReadRequest(c)
    \/ \E t \in {"Reliable", "Datagram"} : ReaderEnds(c, t)
    \/ \E t \in {"SendReliable", "SendUnreliable"} : SenderEnds(c, t)

Others(c) ==
    \/ Accept(c) \/ Fail(c) \/ ReadPart(c)
    \/ SendRequest(c) \/ LoseSession(c) \/ ClientSeesEnd(c) \/ ActorLetsGo(c)
    \/ \E u \in Users : Approve(c, u)

Next == \E c \in Conns : Handler(c) \/ Running(c) \/ Others(c)

(***************************************************************************)
(* The handler and its tasks run when they can (the mutex is let go:       *)
(* MutexReleased in LobbyServer), a client whose stream ends closes, and a *)
(* lobby's actor lets go of somebody who has disconnected (OrphansStop).   *)
(* Browsers, clients and the network owe nothing.                          *)
(***************************************************************************)
Fairness ==
    \A c \in Conns :
        /\ WF_vars(Handler(c))
        /\ WF_vars(ReadRequest(c))
        /\ \A t \in {"Reliable", "Datagram"} : WF_vars(ReaderEnds(c, t))
        /\ \A t \in {"SendReliable", "SendUnreliable"} :
               WF_vars(SenderEnds(c, t))
        /\ WF_vars(ClientSeesEnd(c))
        /\ WF_vars(stage[c] = "Done" /\ ActorLetsGo(c))

Spec == Init /\ [][Next]_vars /\ Fairness

-----------------------------------------------------------------------------
(***************************************************************************)
(* Properties.                                                             *)
(***************************************************************************)

\* Every variable has its type.
TypeOK ==
    /\ stage \in [Conns -> Stages]
    /\ session \in [Conns -> {"Open", "Lost"}]
    /\ pending \subseteq Conns
    /\ announced \subseteq Conns
    /\ who \in [Conns -> Users \cup {NoUser}]
    /\ refused \subseteq Conns
    /\ table \in [Users -> Conns \cup {NoConn}]
    /\ tasks \in [Conns -> SUBSET Tasks]
    /\ incoming \in [Conns -> 0..MaxRequests]
    /\ held \subseteq Conns
    /\ \A c \in Conns :
           stage[c] \in {"Connect", "Serving", "Disconnect"} \/ tasks[c] # {}
               => who[c] \in Users

\* The user table holds exactly the connections that are being served, each
\* under the user it was authenticated as, until it disconnects that user: a
\* second connection of a user neither takes his place nor, when it ends,
\* takes him out of the table (connect_user, disconnect_user go by the user).
RegisteredIsServed ==
    \A c \in Conns, u \in Users :
        table[u] = c <=> stage[c] \in {"Serving", "Disconnect"} /\ who[c] = u

\* The first approval of a login is never turned away while its connection
\* waits for it, however fast the browser is (the receiver is registered
\* before the URL is sent).
ApprovalAccepted ==
    \A c \in refused : ~ Waits(c) /\ stage[c] \notin {"GetReceiver", "Announce"}

\* "a user left stranded in this map can never get back in": once the session
\* of a registered connection is over or one of its tasks has ended, the user
\* is taken out of the table, whatever the other tasks wait for.
NoLockout ==
    \A c \in Conns, u \in Users :
        table[u] = c /\ (session[c] = "Lost" \/ tasks[c] # Tasks)
            ~> table[u] # c

\* Nothing is left of a connection the handler is done with: the tasks it
\* detached all end and the session closes, although each waits for another
\* (the readers for the client, the client for the stream, the senders for
\* the table and the lobby).
NothingLeft ==
    \A c \in Conns :
        stage[c] = "Done" ~> tasks[c] = {} /\ session[c] = "Lost"

\* "Reliable messages HAVE to be sent and received": a request that is taken
\* from the stream of an open session, whose user is registered, is handled
\* and the reader goes on.
RequestsReceived ==
    [][\A c \in Conns :
           incoming'[c] < incoming[c] /\ session[c] = "Open"
               /\ table[who[c]] = c
                   => "Reliable" \in tasks'[c]]_vars
=============================================================================
