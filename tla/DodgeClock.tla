----------------------------- MODULE DodgeClock -----------------------------
(***************************************************************************)
(* The bullets a client predicts (GameState messages and the tick loop in  *)
(* client/src/main.rs) against those of the server (run_lobby_session,     *)
(* step_enemy_turn_phase).  No bullet is ever sent: the client guesses     *)
(* once per dodge segment how far the server's tick clock is, from half of *)
(* its estimate of the round trip, and runs a clock of its own from there. *)
(*                                                                         *)
(* Time passes by milliseconds (Pass).  The server ticks every             *)
(* GAME_TIME_STEP_MS; the client runs the ticks that are due when it draws *)
(* a frame, which may take long, and keeps the rest of the time.           *)
(***************************************************************************)
EXTENDS BulletSchedule, Sequences

CONSTANTS
    MAX_TIME_BETWEEN_FRAMES,  \* in ms: 250 in the code
    MaxDelay,     \* bound: ticks a reliable message is under way
    MaxEstimate,  \* bound: ticks of half the estimated round trip
    MaxStall      \* bound: ms between two frames of the client

ASSUME ClockAssumption ==
    /\ {MAX_TIME_BETWEEN_FRAMES, MaxDelay, MaxEstimate, MaxStall} \subseteq Nat
    /\ MAX_TIME_BETWEEN_FRAMES > 0 /\ MaxStall > 0
    /\ ENEMY_TURN_PHASE_TICKS > 0
    \* The lead is there for this (game.rs:35): a client hears of the segment
    \* and estimates the delay before the first bullet.
    /\ MaxEstimate < PATTERN_START_LEAD_TICKS

VARIABLES
    phase,    \* server: BattlePhase
    remaining,\* server: ticks_remaining of an enemy turn
    told,     \* server: it has sent its present phase
    stream,   \* GameState messages under way, with the ticks they have aged
    known,    \* client: current_game_state
    clock,    \* client: ticks_elapsed_in_current_dodge_phase
    spawned,  \* client: amount_of_spawned_bullets
    since_tick,           \* ms since the server's last tick
    since_last_frame,     \* ms since the client's last frame
    game_time_step_timer  \* client: ms it has not run yet

server == <<phase, remaining, told>>
predicted == <<known, clock, spawned>>
frame == <<since_last_frame, game_time_step_timer>>
vars == <<server, stream, predicted, since_tick, frame>>

Phases == {"PlayerTurn", "EnemyTurn", "Win"}

GameStates == [phase : Phases, remaining : 0..ENEMY_TURN_PHASE_TICKS]

NoState == [phase |-> "None", remaining |-> 0]

Init ==
    /\ phase = "PlayerTurn" /\ remaining = 0 /\ told = FALSE
    /\ stream = <<>>
    /\ known = NoState
    /\ clock = 0
    /\ spawned = 0
    /\ since_tick = 0 /\ since_last_frame = 0
    /\ game_time_step_timer \in 0..(GAME_TIME_STEP_MS - 1)

\* A millisecond passes on both machines; no tick of the server is late.
Pass ==
    /\ since_tick < GAME_TIME_STEP_MS /\ since_last_frame < MaxStall
    /\ since_tick' = since_tick + 1
    /\ since_last_frame' = since_last_frame + 1
    /\ UNCHANGED <<server, stream, predicted, game_time_step_timer>>

-----------------------------------------------------------------------------
(***************************************************************************)
(* The server.                                                             *)
(***************************************************************************)
Enter(p, r) == phase' = p /\ remaining' = r /\ told' = FALSE

\* Nobody chooses before he was told of the choice phase, so it was sent.
ChoicesMade ==
    /\ phase = "PlayerTurn" /\ told
    /\ Enter("EnemyTurn", ENEMY_TURN_PHASE_TICKS) \/ Enter("Win", 0)
    /\ UNCHANGED <<stream, predicted, since_tick, frame>>

\* A player leaves, or both vote for another round.  (The client resets its
\* prediction when it hears that the new round runs; it has nothing left
\* then, since the choice phase is told with it.)
NewRound ==
    /\ phase # "PlayerTurn" /\ told
    /\ Enter("PlayerTurn", 0)
    /\ UNCHANGED <<stream, predicted, since_tick, frame>>

\* step_enemy_turn_phase; everybody may have been hit once too often.
Step ==
    IF phase # "EnemyTurn"
    THEN told' = TRUE /\ UNCHANGED <<phase, remaining>>
    ELSE \/ Enter("Win", 0)
         \/ IF remaining <= 1 THEN Enter("PlayerTurn", 0)
            ELSE /\ remaining' = remaining - 1
                 /\ told' = TRUE
                 /\ UNCHANGED phase

Older(m) == [m EXCEPT !.age = AtMost(m.age + 1, MaxDelay)]

\* A tick of run_lobby_session sends the state and then steps the round.
Tick ==
    /\ since_tick = GAME_TIME_STEP_MS
    /\ stream' = Append([i \in DOMAIN stream |-> Older(stream[i])],
                        [state |-> [phase |-> phase, remaining |-> remaining],
                         age |-> 0])
    /\ Step
    /\ since_tick' = 0
    /\ UNCHANGED <<predicted, frame>>

-----------------------------------------------------------------------------
(***************************************************************************)
(* The client's frame: the messages that have arrived are heard one by     *)
(* one, then the ticks that are due run.  (What passes between the two     *)
(* counts as before the frame.)                                            *)
(***************************************************************************)

\* Mutant: the whole round trip is added.
RoundTrips == 0..(2 * MaxEstimate)

latency_ticks == 0..MaxEstimate

\* Mutant: the bullets of the last segment are still counted.
KeepCount == clock' = 0 /\ UNCHANGED spawned

ClearPrediction == clock' = 0 /\ spawned' = 0

Sync(s) ==
    /\ \E latency \in latency_ticks :
           clock' = ENEMY_TURN_PHASE_TICKS - s.remaining + latency
    /\ UNCHANGED spawned

\* Only a state that is news, and enters or leaves the dodge, changes the
\* prediction.
TakeState(s) ==
    /\ known' = s
    /\ \/ s # known /\ s.phase # "EnemyTurn" /\ ClearPrediction
       \/ s.phase = "EnemyTurn" /\ known.phase # "EnemyTurn" /\ Sync(s)
       \/ /\ s = known \/ (s.phase = "EnemyTurn" /\ known.phase = "EnemyTurn")
          /\ UNCHANGED <<clock, spawned>>

Hear ==
    /\ stream # <<>>
    /\ TakeState(Head(stream).state)
    /\ stream' = Tail(stream)
    /\ UNCHANGED <<server, since_tick, frame>>

\* Mutant: the time of a long frame counts in full.
WholeFrame == since_last_frame

\* Time beyond max_time_between_frames is lost.
FrameTime == AtMost(since_last_frame, MAX_TIME_BETWEEN_FRAMES)

Due == (game_time_step_timer + FrameTime) \div GAME_TIME_STEP_MS

\* The dodge part of the game loop, once for every tick that is due.
RunTicks ==
    /\ clock' = clock + Due
    /\ LET scheduled_bullets == get_current_bullet_count(clock + Due)
       IN  spawned' = IF spawned < scheduled_bullets THEN scheduled_bullets
                      ELSE spawned

\* Mutant: the ticks that were run are not taken off the timer.
KeepTimer == game_time_step_timer + FrameTime

\* What is left of the time is kept for the next frame.
TimerAfter == (game_time_step_timer + FrameTime) % GAME_TIME_STEP_MS

Arrived(m) == m.age = MaxDelay

Frame ==
    /\ since_last_frame > 0
    /\ \A i \in DOMAIN stream : ~ Arrived(stream[i])
    /\ IF known.phase = "EnemyTurn"
       THEN RunTicks ELSE UNCHANGED <<clock, spawned>>
    /\ since_last_frame' = 0
    /\ game_time_step_timer' = TimerAfter
    /\ UNCHANGED <<server, stream, known, since_tick>>

-----------------------------------------------------------------------------
Next == Pass \/ ChoicesMade \/ NewRound \/ Tick \/ Hear \/ Frame

Spec == Init /\ [][Next]_vars

-----------------------------------------------------------------------------
(***************************************************************************)
(* Properties.                                                             *)
(***************************************************************************)

\* Ticks by which the client's clock can be ahead of the server's: what it
\* adds for the delay, and the time of the frame in which it hears of the
\* segment, which it runs although it was before the segment.  (Rounded up:
\* there may be time left from earlier frames.)
MaxAhead ==
    MaxEstimate + (MAX_TIME_BETWEEN_FRAMES + GAME_TIME_STEP_MS - 1)
                      \div GAME_TIME_STEP_MS

\* Every variable has its type; the clock runs over the end of the segment
\* only while the news of the end is under way.
TypeOK ==
    /\ phase \in Phases
    /\ remaining \in 0..ENEMY_TURN_PHASE_TICKS
    /\ (phase = "EnemyTurn" <=> remaining > 0)
    /\ told \in BOOLEAN
    /\ stream \in Seq([state : GameStates, age : 0..MaxDelay])
    /\ known \in GameStates \cup {NoState}
    /\ clock \in 0..(ENEMY_TURN_PHASE_TICKS + MaxDelay + MaxAhead)
    /\ spawned \in 0..AMOUNT_OF_PROJECTILES_IN_ENEMY_TURN_PHASE
    /\ since_tick \in 0..GAME_TIME_STEP_MS
    /\ since_last_frame \in 0..MaxStall
    /\ game_time_step_timer \in 0..(GAME_TIME_STEP_MS - 1)

\* The bullets the client shows are those of its own clock, segment after
\* segment, whatever of the states it heard late, at once or not at all: none
\* is left of an earlier segment and none is skipped (main.rs, GameState).
PredictedOnSchedule ==
    spawned = IF known.phase = "EnemyTurn"
              THEN get_current_bullet_count(clock) ELSE 0

\* Both are in the same segment, as far as the client can know.
SameSegment ==
    /\ phase = "EnemyTurn" /\ known.phase = "EnemyTurn"
    /\ \A i \in DOMAIN stream : stream[i].state.phase = "EnemyTurn"

\* "Both client and server run this against the phase's tick counter": the
\* client is never more than one bullet ahead of the server, however long its
\* frames take and however late it heard of the segment.
AtMostOneAhead ==
    SameSegment =>
        spawned <= 1 + get_current_bullet_count(
                           ENEMY_TURN_PHASE_TICKS - remaining)

\* The client never shows a bullet that the server does not shoot at all,
\* although its clock runs on until it hears that the segment is over.  (This
\* takes a schedule without a bullet in the MaxDelay + MaxAhead ticks after
\* the end of the segment; there are 11 such ticks in the code.)
NoPhantomBullet ==
    spawned <= get_current_bullet_count(ENEMY_TURN_PHASE_TICKS)
=============================================================================
