# A verification of the multiplayer UTDR game

This directory models the multiplayer game of this repository in TLA+. TLC
checks the models on small instances, TLAPS proves the theorems listed below for
every value of the constants. Paths are relative to `src/`.

## 1. The system

Two players fight one enemy. A Rust server (tokio) holds all game state; the
client (native or in the browser) predicts it.

| Part | Where | State | Operations | Talks to |
|---|---|---|---|---|
| Round rules, `GameSession` | `server/src/battle.rs` | phase, choices, block, bullets spawned, health, pending inputs and acknowledgement of each side, tick | `set_turn_action`, `set_left/right_move_input`, `step` | called by the lobby actor; calls the simulation |
| Bullet schedule | `shared/src/game.rs` | none | `get_current_bullet_count`, `get_data_for_projectile_from_index` | server and client evaluate it independently |
| Simulation, `GameLogic` | `shared/src/game.rs` | physics world, players, bullets | move, step, spawn, clear, `detect_projectile_hits` | rapier2d |
| Lobby actor, `LobbySession` | `server/src/lobby.rs` | two seats, the current round, a mailbox of 32 | one per `LobbySessionMessage`, the timer tick, end when no handle is left | replies over oneshot channels; sends states to both clients |
| Server state | `server/src/lobby_db.rs` | connected users with their lobby, lobby entries (waiting, running, finished with votes) | connect, disconnect, reliable and unreliable request | one async mutex around everything; awaits lobby actors while holding it |
| Connection | `server/src/main.rs` | pending OAuth requests, session and four tasks of each connection | accept, authenticate, register, read, write, disconnect | server state, itch.io, SQLite, the client's loops |
| Move input pipeline | `client/src/main.rs`, `server/src/battle.rs` | prediction buffer, sequence, last acknowledgement, last snapshot | client tick, snapshot, reset | datagrams, lossy and unordered |
| Client screens | `client/src/main.rs` | `UiState`, lobby state, last game state | one per server message, buttons | reliable stream |
| Client dodge clock | `client/src/main.rs` | ticks elapsed, bullets spawned | set when a dodge is announced, tick | bullet schedule |
| Framing | `shared/src/rpc.rs`, read loops | none | header, length, payload | streams |

What is hard here:

* **Interleaving.** `ServerState` is serialised by a mutex, but its operations
  await lobby actors which go on ticking (and can end a round) meanwhile, and an
  operation takes the lobby's entry out of the table while it works on it.
* **Two authorities.** The table of users, the entry of a lobby and the actor
  each know who plays where and whether the round is over, and learn it at
  different times.
* **Delivery.** Inputs and snapshots are datagrams: lost, late, in any order, and
  not ordered with the reliable stream that announces a new round.
* **Phases.** Death, the end of a segment and the last choice can fall together.
* **Two clocks.** No bullet is ever sent: server and client each run the schedule
  on a clock of their own, and the client sets its clock from an estimate.
* **Ends.** A connection ends by any of its tasks, its session, the client or the
  network, and each of these waits for another to end.

The properties that make each part correct are those of section 4; every hazard
we know of, with its line and the properties that cover it, is in `PROJECT.json`.

## 2. The modules

| Module | What it is |
|---|---|
| `BulletSchedule` | tick constants (by integer division of milliseconds), bullets due at a tick |
| `BulletScheduleProofs` | lemmas on division and on the bullets due, for both modules that follow the schedule |
| `Battle` | the `GameSession`: one action per public operation |
| `Round` | abstract: what a round promises the players |
| `BattleRefinement` | the mapping of `Battle` to `Round` |
| `BattleProofs` | theorems about `Battle`, the damage it deals and the refinement |
| `LobbyActor` | a lobby actor as a record and one operator per mailbox message |
| `LobbyServer` | `ServerState` and all actors, one step per await |
| `MCLobbyServer` | `LobbyServer` with the symmetry of users and of lobbies |
| `LobbyServerProofs` | theorems about `LobbyServer`, and that it implements `Matchmaking` |
| `Matchmaking` | abstract: matchmaking with no actors and no awaits |
| `MatchmakingProofs` | theorems about `Matchmaking` |
| `MoveSync` | one player's inputs: client buffer, datagrams, mailbox, session, snapshots |
| `MoveSyncProofs` | theorems about `MoveSync` |
| `DodgeClock` | the server's dodge clock and the client's, the `GameState` messages between them; extends `BulletSchedule` |
| `DodgeClockProofs` | theorems about `DodgeClock` |
| `LobbyUi` | one player's screens and buttons against his lobby, over two streams |
| `LobbyUiProofs` | theorems about `LobbyUi` |
| `Connection` | the server's connections: OAuth, user table, tasks, sessions |
| `ConnectionProofs` | theorems about `Connection` |

### Battle

`phase` is the variant of `BattlePhase`; `action`, `ticks_remaining`, `block`
and `spawned_bullets` are the variants' fields (undecided or zero while another
variant is held). Left and right fields of the struct are functions on `Sides`.
`SetTurnAction` is `set_turn_action` with `resolve_turn`; calls the code rejects
change nothing and are stuttering steps. `Step` is `step`: inputs first
(`StepPlayerInputs`), then, in a dodge, `StepDodge`. `pending` is the BTreeMap as
a function; a tick pops its least key even when the player may not move.

The physics engine decides which bullets touch whom. Here any number of the
bullets in flight at the start of the tick may hit each side or leave the arena,
each counting once, and dead players are not hit; a bullet spawned in a tick is
not yet in the engine's collision structure. So every physical outcome is
covered, and some impossible ones (a bullet that hits from far away). Positions
and the echoed client time are left out: no rule reads them.

### LobbyServer and LobbyActor

`op` is the operation holding the mutex, with the await at which it stands
(`pc`), the entry or message it was begun with and the message it is about to
post (`out`). Posting waits for room in the mailbox; `reply` is the oneshot. An
entry taken out of `lobby_list` is `"Absent"`. `actor[l]` is the `LobbySession`,
`up` says which actors run, `told[u]` is the last `LobbyState` put in the user's
channel. A failed `assert!`, `expect` or `unreachable!` sets `panicked`.

The round is reduced to `Fresh`, `Choosing`, `Dodging`, `Won`, with every
transition `Battle` allows (and a rejection of any action). Sending to a
connected client cannot fail: its writer task only warns on a failed write and
keeps the receiver, so the error branches behind a send are not modelled. An actor
identifier is used again once no user and no entry refers to it (ids are fresh
UUIDs in the code); a seat of a session without handle whose user disconnected is
`Departed`. `MailboxSize` is 32 in the code.

### MoveSync

An input is its sequence number. `ClientTick` issues one and sends the newest
`MAX_INPUTS_TO_SEND` of the buffer; `ReceiveSnapshot` drops an older
acknowledgement, otherwise prunes the buffer. On the server `Deliver` posts a
datagram's inputs one by one, in the order of the client's buffer
(`OldestFirst`), to the actor's mailbox, `SetMoveInput` handles one of them, `ServerTick` pops the least and sends a snapshot. `NewRound` replaces
the session; the client is told if an actor tick fell in between
(`HearRunning`), over a stream that is not ordered with the datagrams. Since a
frame of the client handles all reliable messages and then all datagrams it
has received, old snapshots handled after the reset are an ordinary case (a browser
tab in the background). `BundleAssumption` (8 <= 256 + 1 in the code): pruning
must not cut the buffer below what a datagram has to repeat.

### DodgeClock

Time is counted in milliseconds: `Pass` is one of them, on both machines. A `Tick`,
one every `GAME_TIME_STEP_MS`, is one of the actor's interval: it sends the state,
then steps the round. A frame of the client is a number of `Hear` steps, one for
each `GameState` it finds, and then `Frame`: the time since the last frame, at most
`MAX_TIME_BETWEEN_FRAMES` (250 in the code), is added to `game_time_step_timer`, the
ticks that are due run, and the rest stays in the timer, which may hold anything
below a tick when the lobby begins. `Frame` waits until everything that is
`MaxDelay` ticks old has been heard. (What passes between a `Hear` and its `Frame`
counts as before the frame.) `Hear` is the `GameState` arm of the message loop
(`TakeState`): a known state is skipped, leaving the dodge clears the prediction,
entering it sets the clock by an estimated latency of 0..`MaxEstimate` ticks,
whatever the real delay is. Health is left out; a win during the dodge is always
possible. Drift between the two machines' clocks is not modelled, and the server's
tick is never late.

### LobbyUi

`ui` holds the screen and the lobby state the client believes in; `down` and `up`
are the two directions of the reliable stream. A frame of the client first takes
the signal that the connection ended (`CheckFinished`), then hears the messages
that have arrived, one by one (`Hear`), and draws its buttons last: all that was
delivered came before the signal, so the player presses nothing between the
signal and the last of these messages (`Press`). The server side is the lobby as this one
player meets it: its state and round, who voted, and whether an actor that was
dropped from the table still holds the player's channel (`orphan`). The partner
votes, leaves and joins freely. Messages carry the number of the round only for
the properties. `JoinServer` is sent with the connection; `Kick` and `StreamEnds`
are the two halves of a disconnect by the server, and `LoseLink` one that the
network causes, which may take undelivered messages with it.

### Connection

`stage[c]` is the await at which `handle_connection` stands for connection `c`,
`tasks[c]` which of its four spawned tasks still run, `session[c]` whether its
session is over. `select!` drops the handles of the tasks, which detaches them:
they stay in `tasks[c]` after the handler is `Done`. A request goes by the user,
not by the connection, so a detached reader may act for a user's next connection
(`HandleRequest`). `held` are the connections whose channels a lobby's actor
holds. `Approve` is a browser that finishes the login: any user, at any moment
after the URL was sent, repeatedly, also with somebody else's account. Every `?`
of the handler is `Fail` (for a session, an endpoint, a database) or a reader that
ends.

## 3. Findings

Runs that end in a violation, each of a statement of the repository:

* `evicted`: after two No votes an actor tick can send `Finished` behind the
  server's `Empty`. The client then shows the vote of a lobby that is gone, and
  nothing it sends is answered.
* `dead_screen`: the client looks for the end of its connection before it handles
  the messages that came before it. The `Empty` that `disconnect_user` sends as
  its last word, or a `ConnectionInit`, puts up the "connected" screen of a
  connection that is gone, and no button leads out of it.
* `server_chunk`: the server takes a request from one chunk of the stream, which
  may hold less than the request; the rest is lost and the connection ends.
  `DESIGN.md`: "Reliable messages HAVE to be sent and received".
* `snapshot_order`: `ROLLBACK.md` orders snapshots by their server time in a
  BTreeMap. The client never reads the tick; with equal acknowledgements an
  overtaken snapshot wins.
* `round_mix`: datagrams carry no round. A snapshot of the old round handled
  after the reset puts the acknowledgement ahead of the client, which then
  ignores the new round's snapshots until it catches up. The passing property
  `AckWasIssued` bounds the damage: never beyond what was issued before.

Observations that are no finding, because no line says otherwise:

* `get_data_for_projectile_from_index` says the last bullet of a phase has
  progress 1.0. It divides by the number of bullets, and the lead leaves room for
  19 of 20, so the last has 0.9.
* Input 0 of a round is removed from the client's buffer by the first snapshot
  (acknowledgement 0) and never accepted. It is a neutral input.
* Votes and choices carry no round. A choice made in the last moment of a round can
  be taken for the first turn of the next; `StaleVoteNeedsStaleChoice` shows that
  a vote goes astray only after such a choice.
* The client runs the time of a frame after that frame's messages. In the frame in
  which it hears of a segment its clock is ahead by up to 8 ticks on top of the
  estimate (250 ms and what earlier frames left over). `NoPhantomBullet` therefore needs a schedule whose next bullet after
  the end of a segment lies further off than delay, estimate and frame together:
  in the code the last bullet is due at tick 300 of 303 and the next at 315, so
  it holds up to 3 ticks (99 ms) of delay and estimate after a frame of 250 ms.
* A pending OAuth request is removed only by an approval, and the login has no
  timeout (the TODO in `handle_connection`).

## 4. The runs

`CHECK_DEADLOCK FALSE` except in `dodge_clock`: a won round is not stepped, the
server may be idle with nobody connected, and the bounds of `MoveSync`, `LobbyUi`
and `Connection` stop them.

| Run | Bounds | Shows |
|---|---|---|
| `battle` | 8 ticks, lead and interval of 2 ticks, health 3 with hits of 2, enemy 3 with attacks of 2, block 2, two input numbers a side | `TypeOK`; `TurnNeverStuck`; `OutcomeConsistent`; `BulletsOnSchedule`; `AckedNeverQueued`; `ChoiceKept`; `DamageAccounted`; `DodgeEnds`; `QueuedInputTaken`; `ImplementsRound` |
| `lobby_server` | 3 users, 2 lobbies, mailbox 2, one input per datagram | `TypeOK`; `TablesAgree` whenever the mutex is free; `NeverPanics`; `AnswerOnItsWay`; `NewcomerStartsFresh`; `ImplementsMatchmaking` |
| `lobby_server_live` | 2 users, 2 lobbies, mailbox 1, two inputs per datagram | `MutexReleased`; `OrphansStop` |
| `move_sync` | sequences 0..3, 3 ticks a round, one restart, 2 datagrams in flight each way, datagrams of 2, buffer of 1 | `TypeOK`; `BufferCoversUnapplied`; `AckWasIssued`; `NoInputSkipped` |
| `dodge_clock` | ticks of 2 ms; 22 ticks, lead 14, interval 7, delay 1, estimate 0..1; frames of up to 7 ms of which 5 count | `TypeOK`; `PredictedOnSchedule`; `AtMostOneAhead`; `NoPhantomBullet` |
| `lobby_ui` | 3 messages to the client, 2 to the server, 3 rounds in a connection | `TypeOK`; `StaleVoteNeedsStaleChoice`; `ScreenSettles` |
| `connection` | 2 connections, 2 users, one request waiting | `TypeOK`; `RegisteredIsServed`; `ApprovalAccepted`; `NoLockout`; `NothingLeft` |
| `evicted` | 2 users, mailbox 2 | violates `EvictedIsTold` |
| `snapshot_order`, `round_mix`, `dead_screen`, `server_chunk` | as small as the counterexample | violate `SnapshotsInOrder`, `ClientAhead`, `StillConnected`, `RequestsReceived` |

Why the bounds are enough. In `battle` health and damage are chosen so that a
hit neither kills at once nor divides the health, saturation happens on both
subtractions, several bullets are in flight together, the segment ends with
bullets alive, and two attacks are needed to kill; two input numbers arrive in
either order, late and twice. Three users make a newcomer meet a lobby whose
players leave, vote and win; two lobbies let one wait while the other plays. A
mailbox of one makes every post wait (`lobby_server_live`), one of two lets a
question stand behind an input or a reset (`lobby_server`). `MoveSync` overflows the buffer and the
datagram, one restart is enough to mix two rounds, and the loss that
`NoInputSkipped` allows is exactly one below the size of a datagram. In
`dodge_clock` the delay, the estimate, the lost time of a long frame and the rest
of a tick in the timer all occur together, so that the clock reaches `MaxAhead` and
the bound in `TypeOK` exactly; the segment has two bullets, and the third would be
due in the tick after that bound (in the code the reach depends on the network). `lobby_ui` has room for a stale vote, a
stale choice before it and a third round; two connections of one user, and of
two, are the cases of the user table (each connection has its own task, and
connections meet nowhere else).

Fairness. `Battle`: weak fairness of `Step`, since the actor's interval ticks for
ever (a won round excepted); players owe nothing. `LobbyServer`: weak fairness
of the operation that holds the mutex, of every actor's reading of its mailbox
(tokio's `select!` chooses among ready branches at random, so ticks cannot
starve it) and of its end; none of users, ticks or disconnects. `LobbyUi`: the
client draws frames (`CheckFinished`, `Hear`), the actor's interval ticks and a
dropped actor stops (which is `OrphansStop`); nobody has to press anything. `Connection`: the handler and the
tasks run when they can (the mutex they wait for is released, `MutexReleased`), a
client whose stream ended closes its session (its four loops are joined by a
`select!`), and an actor lets go of a player who has disconnected; browsers,
clients and the network owe nothing, so a login may wait for ever. `MoveSync` and
`DodgeClock` have safety properties only and no fairness.

How the modules lean on each other. `Connection` and `LobbyUi` take from
`LobbyServer` that the mutex is released and that a dropped actor stops, and state
it as fairness; `LobbyServer` takes from `Connection` that a user is connected at
most once and disconnected once (`RegisteredIsServed`). `LobbyUi` takes `Finished`
only after a choice of the player, which `Battle` justifies: the first turn waits
for both (`TurnNeverStuck`, `Decided`).

## 5. The proofs

Every safety property of the passing runs is a theorem for all values of the
constants; what TLC adds is liveness, and the counterexamples of section 3.

Assumptions, each stated in the module of its constants: `ScheduleAssumption`
(time step not zero, interval and lead at least one tick), `BattleAssumption`
(health, damage positive; block any natural number), `ActorAssumption`,
`ServerAssumption`, `ReplyAssumption`, `MatchAssumption` and `ConnAssumption` (markers are not users,
lobbies or connections; a mailbox has room for a message), `SyncAssumption` (sizes
positive, bounds natural numbers), `BundleAssumption` (a datagram holds at most one
input more than the buffer), `ClockAssumption` (a segment and a frame have at least
one tick, the estimate is less than the lead), `UiAssumption` (bounds natural
numbers, room for the two messages of a login). Bounds such as `MaxRound` or `MaxTick`
are constants like others: the theorems hold however large they are.

`BattleProofs`: the inductive invariant `IInv` is the conjunction of `TypeOK`,
`TurnNeverStuck`, `OutcomeConsistent`, `BulletsOnSchedule` and
`AckedNeverQueued`. None is inductive without others: that a choice phase waits
for somebody needs that not everybody is dead when a dodge ends
(`OutcomeConsistent`), that the bullet count is typed needs that it follows the
schedule, and the schedule step needs that the due count is monotone in the
ticks (`CountMonotone` of `BulletScheduleProofs`, from a lemma on integer
division). Each action has one lemma. From `IInv`:

* `TypeCorrect`, `NeverStuck`, `OutcomeCorrect`, `ScheduleKept`,
  `AcknowledgedInputsGone`: the five invariants;
* `ChoicesKept`: the action property `ChoiceKept`;
* `DamagePaidFor`: the action property `DamageAccounted`. For one side, what hits
  cost in block and health is no more than the hits (`HitsPayForLosses`, with two
  subtractions that saturate); the sum over both sides is bounded because a bullet
  hits one side only;
* `RefinesRound`: the safety part of `ImplementsRound`.

`LobbyServerProofs`, for any number of users and lobbies and any mailbox:

* The inductive invariant is `TypeInv /\ Calls /\ Entries /\ NoGhosts /\ AtWork /\
  panicked = FALSE`. `TablesAgree` alone is not inductive: it speaks of the moments
  in which the mutex is free, and everything that could break it happens in
  between. `Calls` says that at most one question is under way, that it is the last
  message of its mailbox and the one the operation at its `pc` waits for; all else
  in mailboxes are messages without reply. `Entries` is the agreement of user table,
  entry and seats for every lobby in the table, including that a waiting player's
  round is fresh and no move input is on its way to it (`Lone`); `NoGhosts` that a
  user is in no lobby but one in the table or the one being worked on. `AtWork` is
  the rest: for each await, what holds of the lobby that is out of the table, before
  and after its actor has handled the question (`reply`).
* `TypeCorrect`, `PanicFree`, `TablesCorrect` follow from it. `PanicFree` is the
  reason for most of `AtWork`: each `unreachable!` names a reply that the state of
  the seats at that await rules out.
* `QuestionsKept`: `AnswerOnItsWay` is the safety half of `MutexReleased`, and says that
  the `ActorStopped` fallback of every request in `lobby.rs` is never taken: the
  operation's handle keeps its actor from stopping, a question is the newest message
  of its mailbox and only quiet ones are before it, and whatever the actor answers, an
  error too, is an answer. It is inductive on top of `IInv`, which says that a
  mailbox holds nothing but quiet messages and the question (`Calls`) and that both
  seats are taken when an operation asks who has one (`ReplyAssumption`: a user is
  not mistaken for an answer of another kind, as the code's types ensure);
* `NewcomersFresh`: the action property `NewcomerStartsFresh`, from `Lone` at the
  awaits of a join.
* `RefinesMatchmaking`: `ImplementsMatchmaking`. The steps that write the user table
  (connect, disconnect, the last step of a join, the removals after a vote, one
  player at a time) are the matchmaker's; all other steps, the actors and ticks
  stutter. That a newcomer opens a lobby only if nobody waits needs that nobody can
  begin to wait while the mutex is held (`NobodyWaits` in `Joining`).

`MoveSyncProofs`, for any number of inputs, ticks, rounds and datagrams:

* `AcksWereIssued`: `AckWasIssued`, strengthened to everything under way in either
  direction, in mailboxes and buffers (`AllIssued`);
* `BufferCovers`: `BufferCoversUnapplied`. It needs that in the first round no
  snapshot is ahead of the server's acknowledgement (`Acknowledged`), otherwise
  pruning would forget too much; the capacity by counting (`Cardinality` of an
  interval);
* `EveryInputTaken`: the action property `NoInputSkipped`, by `NoGaps`: while
  datagrams come in order and fewer in a row are lost than they hold inputs, each
  input on its way has all its predecessors before it, in the queue, the mailbox or
  an earlier datagram. This is where the datagram's order, the pruning
  (`BundleAssumption`) and the losses meet;
* `TypeCorrect`: `TypeOK`, with the number of inputs a datagram carries.

`DodgeClockProofs`, for any schedule, delay, estimate and frame:

* `IInv` is `TypeOK /\ PredictedOnSchedule /\ InOrder /\ ClockBounded`. `InOrder`: the
  client is told every phase in order and each segment from its first tick on, because
  the actor sends before it steps. `ClockBounded` bounds `Reach`, the time the clock
  has reached with what is not run yet, all in milliseconds: `Pass` adds to both
  sides of it, `Frame` conserves it (`MsSplit`: a time is a number of ticks and a
  rest), and news of a segment sets it to `AheadMs` at most; once the news of the end
  is under way the bound is that of the end and the age of that news. `AheadInTicks`
  turns it into ticks: the clock is at most `MaxAhead` past the server's. The bound of
  `TypeOK` (delay and `MaxAhead` over the end) is a consequence that is not inductive.
* `TypeCorrect`, `PredictionExact`: `TypeOK` and `PredictedOnSchedule`;
* `NeverTwoAhead`: `AtMostOneAhead`, if `MaxAhead` is at most the interval of two
  bullets. In the code the interval is 15 ticks and a frame 8 (rounded up), so it
  holds for estimates up to 7 ticks (a round trip of 460 ms);
* `NoPhantoms`: `NoPhantomBullet`, if no bullet is due in the `MaxDelay + MaxAhead`
  ticks after a segment: 11 ticks in the code, 8 of them a frame. Both hypotheses
  hold in the run; without them the statements are false.

`LobbyUiProofs`, for streams of any length and any number of rounds:

* `StaleVotes`: the action property `StaleVoteNeedsStaleChoice`. No message names its
  round, so the invariant has to carry the argument that order does the work:
  `InOrder` (what is under way to the server, what the client shows, what is under way
  to it and the round played have rounds in this order), `SeenRound` (once a choice
  made on this round's screen was taken, everything behind it was sent in this round;
  no round ends without a choice). `InOrder` would fail for a client that carries a
  screen of an earlier connection over, hence `Quiet` and `GreetingFirst`: until it
  has heard `ConnectionInit`, which forgets that screen, it shows no lobby button and
  has sent nothing but its request to join, and nothing of a lobby is ahead of it.
* `TypeCorrect`: `TypeOK`.

`ConnectionProofs`, for any number of connections and users:

* `TypeCorrect`: `TypeOK`, whose last part (whoever is being connected or served was
  authenticated) makes it inductive;
* `TableCorrect`: `RegisteredIsServed`, inductive with `TypeOK`: `connect_user`
  writes only where nobody is, and only the handler that registered a user takes
  him out;
* `ApprovalNeverLost`: `ApprovalAccepted`. It is not inductive: the invariant
  `ReceiverFirst` adds that a login that was announced and not answered is in the
  map of pending requests, and that nothing is announced before it is there. The
  order of `get_receiver` and `write_all` in the handler is what it rests on.

`MatchmakingProofs!NeverCrowded`: no lobby ever has three players, by the
inductive invariant of types and `AtMostTwoPlayers`; the three lemmas say what
joining somebody, opening a lobby and leaving do to it.

Only model-checked: everything about liveness, which the prover cannot do
(`DodgeEnds`, `QueuedInputTaken`, `MutexReleased`, `OrphansStop`, `ScreenSettles`,
`NoLockout`, `NothingLeft`, and the fairness part of `ImplementsRound`). The runs
that expect a violation have nothing to prove.

## 6. Not modelled

* Positions, collisions, interpolation and round trip estimate: floating point,
  computed by rapier2d or from wall clock times.
* Rendering, keyboard, assets, configuration, TLS, HTTP pages, SQL statements: I/O.
* Wrap-around of sequences (years of play in one round).
* The bytes of a frame (header, length) and the encoding (rkyv). Only whether a
  request is read whole matters to the models.
* Text messages: forwarded or ignored, they change no state.
* The exchange of the browser with itch.io and the server's HTTP pages: one step,
  `Approve`.
* The end of the server: nothing but the table of user names is persisted, and a
  restart is a start with no connection.

## 7. What comes next

1. `LobbyServer` composed with two `LobbyUi` clients, instead of one client and a
   free partner, once an instance of it fits; `LobbyUi`'s partner as a projection of
   `LobbyServer`, so that the invariants of both meet.
2. The other safety fact that a liveness property rests on, as a theorem: that a
   detached task of a connection waits for one that can end. (For the operations of
   the server it is proved: `QuestionsKept`.)
