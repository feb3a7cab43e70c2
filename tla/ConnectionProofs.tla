-------------------------- MODULE ConnectionProofs --------------------------
(***************************************************************************)
(* Proofs about module Connection, for any number of connections, users    *)
(* and waiting requests.                                                   *)
(***************************************************************************)
EXTENDS Connection, TLAPS

Actions(c) ==
    \/ Accept(c) \/ GetReceiver(c) \/ Announce(c) \/ Store(c) \/ Fail(c)
    \/ ConnectUser(c) \/ Select(c) \/ DisconnectUser(c)
    \/ \E u \in Users : Approve(c, u)

\* The actions that leave the stage of a connection, its authentication and
\* the user table alone.
Quiet(c) ==
    \/ ReadRequest(c) \/ ReadPart(c)
    \/ \E t \in Tasks : ReaderEnds(c, t) \/ SenderEnds(c, t)
    \/ SendRequest(c) \/ LoseSession(c) \/ ActorLetsGo(c)

\* Every step of Next is one of these.
LEMMA NextSplit ==
    ASSUME Next
    PROVE  \E c \in Conns : Actions(c) \/ Quiet(c)
<1>1. PICK c \in Conns : Handler(c) \/ Running(c) \/ Others(c)
    BY DEF Next
<1>2. CASE Handler(c)
    BY <1>2 DEF Handler, Actions
<1>3. CASE Running(c)
    BY <1>3 DEF Running, Quiet, Tasks
<1>4. CASE Others(c)
    BY <1>4 DEF Others, Actions, Quiet, ClientSeesEnd
<1> QED
    BY <1>1, <1>2, <1>3, <1>4

-----------------------------------------------------------------------------
(***************************************************************************)
(* Types.                                                                  *)
(***************************************************************************)
LEMMA TypeInit == ASSUME Init PROVE TypeOK
BY ConnAssumption DEF Init, TypeOK, Stages, ConnAssumption

LEMMA TypeActions ==
    ASSUME TypeOK, NEW c \in Conns, Actions(c)
    PROVE  TypeOK'
<1> USE DEF TypeOK, Stages, Tasks, oauth, serving
<1>1. CASE Accept(c)
    BY <1>1 DEF Accept, GoOn, Following
<1>2. CASE GetReceiver(c)
    BY <1>2 DEF GetReceiver, GoOn, Following
<1>3. CASE Announce(c)
    BY <1>3 DEF Announce, GoOn, Following
<1>4. CASE Store(c)
    BY <1>4 DEF Store, HasAnswer
<1>5. CASE Fail(c)
    BY <1>5 DEF Fail, GiveUp
<1>6. CASE ConnectUser(c)
    BY <1>6 DEF ConnectUser, GiveUp
<1>7. CASE Select(c)
    BY <1>7 DEF Select
<1>8. CASE DisconnectUser(c)
    BY <1>8 DEF DisconnectUser
<1>9. CASE \E u \in Users : Approve(c, u)
    BY <1>9 DEF Approve, Waits
<1> QED
    BY <1>1, <1>2, <1>3, <1>4, <1>5, <1>6, <1>7, <1>8, <1>9 DEF Actions

LEMMA TypeQuiet ==
    ASSUME TypeOK, NEW c \in Conns, Quiet(c)
    PROVE  TypeOK'
<1> USE ConnAssumption DEF TypeOK, ConnAssumption, oauth, serving, EndTask
<1>1. CASE ReadRequest(c)
    BY <1>1 DEF ReadRequest, HandleRequest
<1>2. CASE ReadPart(c)
    BY <1>2 DEF ReadPart
<1>3. CASE \E t \in Tasks : ReaderEnds(c, t) \/ SenderEnds(c, t)
    BY <1>3 DEF ReaderEnds, SenderEnds
<1>4. CASE SendRequest(c)
    BY <1>4 DEF SendRequest
<1>5. CASE LoseSession(c)
    BY <1>5 DEF LoseSession
<1>6. CASE ActorLetsGo(c)
    BY <1>6 DEF ActorLetsGo
<1> QED
    BY <1>1, <1>2, <1>3, <1>4, <1>5, <1>6 DEF Quiet

\* Every variable keeps its type in every behaviour (TypeOK): the users of
\* the connections that are registered are known.
THEOREM TypeCorrect == Spec => []TypeOK
<1>1. TypeOK /\ [Next]_vars => TypeOK'
    <2> SUFFICES ASSUME TypeOK, [Next]_vars PROVE TypeOK'
        OBVIOUS
    <2>1. CASE Next
        BY <2>1, NextSplit, TypeActions, TypeQuiet
    <2>2. CASE UNCHANGED vars
        BY <2>2 DEF TypeOK, vars, oauth, serving
    <2> QED
        BY <2>1, <2>2
<1> QED
    BY TypeInit, <1>1, PTL DEF Spec

-----------------------------------------------------------------------------
(***************************************************************************)
(* The user table.                                                         *)
(***************************************************************************)
core == <<stage, oauth, table>>

LEMMA QuietCore == ASSUME NEW c, Quiet(c) PROVE UNCHANGED core
BY DEF Quiet, ReadRequest, ReadPart, ReaderEnds, SenderEnds, SendRequest,
       LoseSession, ActorLetsGo, core, oauth, serving

LEMMA RegisteredActions ==
    ASSUME TypeOK, RegisteredIsServed, NEW c \in Conns, Actions(c)
    PROVE  RegisteredIsServed'
<1> USE DEF TypeOK, RegisteredIsServed, oauth, serving
<1>1. CASE Accept(c)
    BY <1>1 DEF Accept, GoOn, Following
<1>2. CASE GetReceiver(c)
    BY <1>2 DEF GetReceiver, GoOn, Following
<1>3. CASE Announce(c)
    BY <1>3 DEF Announce, GoOn, Following
<1>4. CASE Store(c)
    BY <1>4 DEF Store
<1>5. CASE Fail(c)
    BY <1>5 DEF Fail, GiveUp
\* The user had no connection, so nobody is served in his name.
<1>6. CASE ConnectUser(c)
    BY <1>6, ConnAssumption DEF ConnectUser, GiveUp, MayConnect, ConnAssumption
<1>7. CASE Select(c)
    BY <1>7 DEF Select
\* The table had this connection for the user, and no other.
<1>8. CASE DisconnectUser(c)
    BY <1>8, ConnAssumption DEF DisconnectUser, ConnAssumption
\* Only a connection that is not registered yet learns its user.
<1>9. CASE \E u \in Users : Approve(c, u)
    BY <1>9 DEF Approve, Waits
<1> QED
    BY <1>1, <1>2, <1>3, <1>4, <1>5, <1>6, <1>7, <1>8, <1>9 DEF Actions

\* A second connection of a user neither takes his place in the user table
\* nor takes him out of it when it ends (connect_user, disconnect_user):
\* RegisteredIsServed holds in every behaviour.
THEOREM TableCorrect == Spec => []RegisteredIsServed
<1>1. Init => RegisteredIsServed
    BY ConnAssumption DEF Init, RegisteredIsServed, ConnAssumption
<1>2. TypeOK /\ RegisteredIsServed /\ [Next]_vars => RegisteredIsServed'
    <2> SUFFICES ASSUME TypeOK, RegisteredIsServed, [Next]_vars
                 PROVE  RegisteredIsServed'
        OBVIOUS
    <2>1. CASE UNCHANGED core
        BY <2>1 DEF RegisteredIsServed, core, oauth
    <2>2. CASE Next
        BY <2>1, <2>2, NextSplit, RegisteredActions, QuietCore
    <2>3. CASE UNCHANGED vars
        BY <2>1, <2>3 DEF vars, core, serving
    <2> QED
        BY <2>2, <2>3
<1> QED
    BY <1>1, <1>2, TypeCorrect, PTL DEF Spec

-----------------------------------------------------------------------------
(***************************************************************************)
(* Approvals.  The inductive invariant says what registering the receiver  *)
(* before sending the URL is for: who knows the URL of a connection that   *)
(* waits finds its receiver.                                               *)
(***************************************************************************)
Early == {"Accept", "GetReceiver", "Announce"}

ReceiverFirst ==
    \A c \in Conns :
        /\ c \in announced => stage[c] \notin Early
        /\ stage[c] = "Announce" \/ Waits(c) => c \in pending
        /\ c \in refused => c \in announced /\ ~ Waits(c)

LEMMA ReceiverActions ==
    ASSUME TypeOK, ReceiverFirst, NEW c \in Conns, Actions(c)
    PROVE  ReceiverFirst'
<1> USE DEF TypeOK, ReceiverFirst, Early, Waits, oauth, serving
<1>1. CASE Accept(c)
    BY <1>1 DEF Accept, GoOn, Following
<1>2. CASE GetReceiver(c)
    BY <1>2 DEF GetReceiver, GoOn, Following
<1>3. CASE Announce(c)
    BY <1>3 DEF Announce, GoOn, Following
<1>4. CASE Store(c)
    BY <1>4 DEF Store
<1>5. CASE Fail(c)
    BY <1>5 DEF Fail, GiveUp
<1>6. CASE ConnectUser(c)
    BY <1>6 DEF ConnectUser, GiveUp
<1>7. CASE Select(c)
    BY <1>7 DEF Select
<1>8. CASE DisconnectUser(c)
    BY <1>8 DEF DisconnectUser
<1>9. CASE \E u \in Users : Approve(c, u)
    BY <1>9, ConnAssumption DEF Approve, ConnAssumption
<1> QED
    BY <1>1, <1>2, <1>3, <1>4, <1>5, <1>6, <1>7, <1>8, <1>9 DEF Actions

\* The first approval of a login is never turned away while its connection
\* waits for it (get_receiver before the URL is sent, submit_oauth_result):
\* ApprovalAccepted holds in every behaviour.
THEOREM ApprovalNeverLost == Spec => []ApprovalAccepted
<1>1. Init => ReceiverFirst
    BY DEF Init, ReceiverFirst, Waits
<1>2. TypeOK /\ ReceiverFirst /\ [Next]_vars => ReceiverFirst'
    <2> SUFFICES ASSUME TypeOK, ReceiverFirst, [Next]_vars
                 PROVE  ReceiverFirst'
        OBVIOUS
    <2>1. CASE UNCHANGED core
        BY <2>1 DEF ReceiverFirst, Waits, core, oauth
    <2>2. CASE Next
        BY <2>1, <2>2, NextSplit, ReceiverActions, QuietCore
    <2>3. CASE UNCHANGED vars
        BY <2>1, <2>3 DEF vars, core, serving
    <2> QED
        BY <2>2, <2>3
<1>3. TypeOK /\ ReceiverFirst => ApprovalAccepted
    BY DEF TypeOK, ReceiverFirst, ApprovalAccepted, Early
<1> QED
    BY <1>1, <1>2, <1>3, TypeCorrect, PTL DEF Spec
=============================================================================
