------------------------------ MODULE MoveSync ------------------------------
(***************************************************************************)
(* The move inputs of one player on their way from the client's prediction *)
(* buffer (client/src/main.rs) through unreliable datagrams to the pending *)
(* inputs of the server's GameSession (server/src/battle.rs), and the      *)
(* acknowledgements on their way back in the snapshots.                    *)
(*                                                                         *)
(* An input is its sequence number: what is held down and where it moves   *)
(* the player is left out.  A datagram may be lost or be overtaken by a    *)
(* later one, but is never repeated.  The server may begin a new round (a  *)
(* fresh GameSession) at any time; the client resets when the reliable     *)
(* stream tells it that the lobby runs again, and that stream is not       *)
(* ordered with the datagrams.                                             *)
(***************************************************************************)
EXTENDS Naturals, SequencesExt

CONSTANTS
    MAX_PENDING_INPUTS,
    MAX_INPUTS_TO_SEND,
    MaxSeq,           \* bound: sequence numbers of a client, 0..MaxSeq
    MaxTick,          \* bound: server ticks of a round
    MaxRound,         \* bound: rounds, 0..MaxRound
    MaxInFlight       \* bound: datagrams under way in each direction

ASSUME SyncAssumption ==
    /\ MAX_INPUTS_TO_SEND \in Nat \ {0}
    /\ MAX_PENDING_INPUTS \in Nat \ {0}
    /\ {MaxSeq, MaxTick, MaxRound, MaxInFlight} \subseteq Nat

\* 8 and 256 in the code.  A smaller buffer could be cut to fewer inputs than
\* a datagram has to repeat after losses.
ASSUME BundleAssumption ==
    MAX_INPUTS_TO_SEND <= MAX_PENDING_INPUTS + 1

Seqs == 0..MaxSeq
NoSnapshot == [round |-> 0, ack |-> 0, tick |-> 0]
Snapshots == [round : 0..MaxRound, ack : Seqs, tick : 0..MaxTick]

VARIABLES
    \* the client's ClientGameLogic
    pending_inputs,              \* inputs not acknowledged yet
    current_input_sequence,
    last_acknowledged_sequence,
    latest_remote_snapshot,
    \* the server's GameSession
    round,                       \* which GameSession it is
    ack,                         \* *_remote_clock_ack
    queued,                      \* *_pending_move_inputs
    tick,
    \* in between
    uplink,                      \* input datagrams, oldest first
    mailbox,                     \* MoveInput messages to the lobby actor
    downlink,                    \* snapshots
    running_news,                \* "the lobby runs again" on the stream
    \* what was: input datagrams lost in a row (it stays at
    \* MAX_INPUTS_TO_SEND once one has been overtaken, so many have been
    \* lost or the round was restarted), and the sequences issued so far
    losses,
    issued

client == <<pending_inputs, current_input_sequence,
            last_acknowledged_sequence, latest_remote_snapshot>>
server == <<round, ack, queued, tick>>
vars == <<client, server, uplink, mailbox, downlink, running_news,
          losses, issued>>

Init ==
    /\ pending_inputs = {}
    /\ current_input_sequence = 0
    /\ last_acknowledged_sequence = 0
    /\ latest_remote_snapshot = NoSnapshot
    /\ round = 0
    /\ ack = 0
    /\ queued = {}
    /\ tick = 0
    /\ uplink = <<>>
    /\ mailbox = <<>>
    /\ downlink = {}
    /\ running_news = 0
    /\ losses = 0
    /\ issued = 0

-----------------------------------------------------------------------------
(***************************************************************************)
(* The client.                                                             *)
(***************************************************************************)

\* Mutant: the oldest inputs of S are kept.
OldestOf(S, n) == {q \in S : Cardinality({r \in S : r < q}) < n}

\* The n largest sequences of S.
NewestOf(S, n) == {q \in S : Cardinality({r \in S : r > q}) < n}

\* Mutant: all of the backlog goes into every datagram.
SendAll(buffer) == buffer

\* Mutant: one input less than allowed goes into a datagram.
SendFewer(buffer) == NewestOf(buffer, MAX_INPUTS_TO_SEND - 1)

InputsToSend(buffer) == NewestOf(buffer, MAX_INPUTS_TO_SEND)

\* Mutant: the front of the buffer is kept when it is cut.
PruneNewest(buffer, acknowledged) ==
    OldestOf({q \in buffer : q > acknowledged}, MAX_PENDING_INPUTS)

prune_acknowledged_inputs(buffer, acknowledged) ==
    NewestOf({q \in buffer : q > acknowledged}, MAX_PENDING_INPUTS)

\* In this round the network has kept the datagrams in order and always let
\* one in MAX_INPUTS_TO_SEND through.
WellBehaved == losses < MAX_INPUTS_TO_SEND

\* A game tick of the client issues one input and sends the newest ones.
ClientTick ==
    /\ current_input_sequence < MaxSeq
    /\ Len(uplink) < MaxInFlight
    /\ pending_inputs' = pending_inputs \cup {current_input_sequence}
    /\ current_input_sequence' = current_input_sequence + 1
    /\ issued' = Max({issued, current_input_sequence'})
    /\ \/ /\ uplink' = Append(uplink, InputsToSend(pending_inputs'))
          /\ losses' = IF WellBehaved THEN 0 ELSE losses
       \/ /\ losses' = Min({losses + 1, MAX_INPUTS_TO_SEND})
          /\ UNCHANGED uplink
    /\ UNCHANGED <<last_acknowledged_sequence, latest_remote_snapshot, server,
                   mailbox, downlink, running_news>>

\* Only the acknowledgement is compared, the snapshot's tick is not read.
Outdated(snapshot) == snapshot.ack < last_acknowledged_sequence

ReceiveSnapshot(snapshot) ==
    /\ downlink' = downlink \ {snapshot}
    /\ IF Outdated(snapshot)
       THEN UNCHANGED client
       ELSE /\ last_acknowledged_sequence' = snapshot.ack
            /\ pending_inputs' =
                   prune_acknowledged_inputs(pending_inputs, snapshot.ack)
            /\ latest_remote_snapshot' = snapshot
            /\ UNCHANGED current_input_sequence
    /\ UNCHANGED <<server, uplink, mailbox, running_news, losses, issued>>

\* ClientGameLogic::reset when the lobby state becomes Running.
HearRunning ==
    /\ running_news > 0
    /\ running_news' = running_news - 1
    /\ pending_inputs' = {}
    /\ current_input_sequence' = 0
    /\ last_acknowledged_sequence' = 0
    /\ latest_remote_snapshot' = NoSnapshot
    /\ UNCHANGED <<server, uplink, mailbox, downlink, losses, issued>>

-----------------------------------------------------------------------------
(***************************************************************************)
(* The server.                                                             *)
(***************************************************************************)

\* The inputs of a datagram in the order of the client's buffer.
OldestFirst(S) ==
    {s \in [1..Cardinality(S) -> S] :
        Range(s) = S /\ \A i, j \in DOMAIN s : i < j => s[i] < s[j]}

\* A datagram arrives; its inputs are posted to the lobby one by one.
Deliver(i) ==
    /\ i \in DOMAIN uplink
    /\ uplink' = RemoveAt(uplink, i)
    /\ \E inputs \in OldestFirst(uplink[i]) : mailbox' = mailbox \o inputs
    /\ losses' = IF i = 1 THEN losses ELSE MAX_INPUTS_TO_SEND
    /\ UNCHANGED <<client, server, downlink, running_news, issued>>

Newer(seq) == seq > ack

SetMoveInput ==
    /\ mailbox # <<>>
    /\ mailbox' = Tail(mailbox)
    /\ queued' = IF Newer(Head(mailbox))
                 THEN queued \cup {Head(mailbox)} ELSE queued
    /\ UNCHANGED <<client, round, ack, tick, uplink, downlink, running_news,
                   losses, issued>>

\* Mutant: a number is acknowledged whether or not its input has come.
CountUp == ack + 1

\* The sequence acknowledged after a tick: the oldest queued one is taken.
AckAfterTick == IF queued = {} THEN ack ELSE Min(queued)

\* step_player_inputs, then the snapshot, which may be lost.
ServerTick ==
    /\ tick < MaxTick
    /\ tick' = tick + 1
    /\ ack' = AckAfterTick
    /\ queued' = queued \ {ack'}
    /\ \/ /\ Cardinality(downlink) < MaxInFlight
          /\ downlink' = downlink \cup
                 {[round |-> round, ack |-> ack', tick |-> tick']}
       \/ UNCHANGED downlink
    /\ UNCHANGED <<client, round, uplink, mailbox, running_news,
                   losses, issued>>

(***************************************************************************)
(* The lobby replaces the round, after the messages already in its         *)
(* mailbox.  The client hears of it when a tick of the actor saw the lobby *)
(* not running in between, and hears nothing otherwise.                    *)
(***************************************************************************)
NewRound ==
    /\ round < MaxRound
    /\ mailbox = <<>>
    /\ round' = round + 1
    /\ ack' = 0
    /\ queued' = {}
    /\ tick' = 0
    /\ running_news' \in {running_news, running_news + 1}
    /\ losses' = MAX_INPUTS_TO_SEND
    /\ UNCHANGED <<client, uplink, mailbox, downlink, issued>>

Next ==
    \/ ClientTick
    \/ \E snapshot \in downlink : ReceiveSnapshot(snapshot)
    \/ HearRunning
    \/ \E i \in 1..MaxInFlight : Deliver(i)
    \/ SetMoveInput
    \/ ServerTick
    \/ NewRound

Spec == Init /\ [][Next]_vars

-----------------------------------------------------------------------------
(***************************************************************************)
(* Properties.                                                             *)
(***************************************************************************)

\* Every variable has its type; a datagram carries at most MAX_INPUTS_TO_SEND
\* inputs, however deep the backlog.
TypeOK ==
    /\ pending_inputs \subseteq Seqs
    /\ current_input_sequence \in Seqs
    /\ last_acknowledged_sequence \in Seqs
    /\ latest_remote_snapshot \in Snapshots
    /\ round \in 0..MaxRound
    /\ ack \in Seqs
    /\ queued \subseteq Seqs
    /\ tick \in 0..MaxTick
    /\ Len(uplink) <= MaxInFlight
    /\ \A i \in DOMAIN uplink :
           /\ uplink[i] \subseteq Seqs
           /\ Cardinality(uplink[i]) <= MAX_INPUTS_TO_SEND
    /\ \A i \in DOMAIN mailbox : mailbox[i] \in Seqs
    /\ downlink \subseteq Snapshots
    /\ running_news \in 0..MaxRound
    /\ losses \in 0..MAX_INPUTS_TO_SEND
    /\ issued \in Seqs

\* The inputs the server has not got to yet are still in the prediction
\* buffer, but for those beyond its capacity: replaying the buffer on top of
\* a snapshot leaves out nothing the server may still apply.  Stated for one
\* round, from the second input on (the first is never applied).
BufferCoversUnapplied ==
    round = 0 =>
        \A q \in 1..(current_input_sequence - 1) :
            q > ack /\ q + MAX_PENDING_INPUTS >= current_input_sequence
                => q \in pending_inputs

\* Whatever the client takes for acknowledged, and whatever the server has
\* queued or applied, was issued by this client, in this round or in an
\* earlier one: a restart can confuse the two, but only up to the number of
\* inputs issued before it.
AckWasIssued ==
    \A q \in queued \cup {ack, last_acknowledged_sequence} :
        q = 0 \/ q < issued

\* Bundling makes up for losses: as long as datagrams stay in order and
\* fewer than MAX_INPUTS_TO_SEND in a row are lost, the server applies every
\* input in turn (ROLLBACK.md on bundling inputs; the newest unacknowledged
\* ones go into each packet).
NoInputSkipped ==
    [][WellBehaved' /\ ack' # ack => ack' = ack + 1]_vars

\* ROLLBACK.md: incoming snapshots are ordered by their server timestamp.
SnapshotsInOrder ==
    [][latest_remote_snapshot'.round = latest_remote_snapshot.round =>
           latest_remote_snapshot'.tick >= latest_remote_snapshot.tick
               \/ latest_remote_snapshot' = NoSnapshot]_vars

\* ROLLBACK.md: the client is always running ahead of the server's messages.
ClientAhead ==
    last_acknowledged_sequence = 0
        \/ last_acknowledged_sequence < current_input_sequence
=============================================================================
