-------------------------- MODULE DodgeClockProofs --------------------------
(***************************************************************************)
(* The client's dodge clock for any schedule, delay and length of frames.  *)
(* The client is told every phase in order and the first state of a        *)
(* segment is its first tick (InOrder); therefore its clock is ahead by no *)
(* more than what it adds itself (ClockBounded), until it hears the end.   *)
(***************************************************************************)
EXTENDS DodgeClock, BulletScheduleProofs, SequenceTheorems

Dodging(s) == s.phase = "EnemyTurn"

\* The states the client knows and will hear, in their order.
Told(i) == IF i = 0 THEN known ELSE stream[i].state

LastTold == Told(Len(stream))

\* Every phase is told, and each segment from its first tick on.
InOrder ==
    /\ \A i \in 1..Len(stream) :
           Dodging(Told(i)) /\ ~ Dodging(Told(i - 1))
               => Told(i).remaining = ENEMY_TURN_PHASE_TICKS
    /\ told => LastTold.phase = phase
    /\ phase = "EnemyTurn" /\ ~ told =>
           remaining = ENEMY_TURN_PHASE_TICKS /\ ~ Dodging(LastTold)
    /\ phase = "EnemyTurn" /\ told => remaining < ENEMY_TURN_PHASE_TICKS

NoEndUpTo(n) == \A i \in 0..n : Dodging(Told(i))

\* Ticks of the segment on the server, all of them once it is over.
Elapsed == IF phase = "EnemyTurn" THEN ENEMY_TURN_PHASE_TICKS - remaining
           ELSE ENEMY_TURN_PHASE_TICKS

ms(n) == n * GAME_TIME_STEP_MS

\* The time the client's clock has reached, with what it has not run yet.
Reach == ms(clock) + game_time_step_timer + FrameTime

\* What it adds when it hears of the segment.
AheadMs == ms(MaxEstimate) + MAX_TIME_BETWEEN_FRAMES + GAME_TIME_STEP_MS - 1

\* The time reached by the client, against the server's, which tells of the
\* segment in the tick that steps it first; once the news of the end is under
\* way, against the age of the news.
ClockBounded ==
    Dodging(known) =>
        /\ NoEndUpTo(Len(stream)) =>
               Reach + GAME_TIME_STEP_MS <= ms(Elapsed) + since_tick + AheadMs
        /\ \A i \in 1..Len(stream) :
               NoEndUpTo(i - 1) /\ ~ Dodging(Told(i))
                   /\ stream[i].age < MaxDelay
               => Reach <= ms(ENEMY_TURN_PHASE_TICKS + stream[i].age)
                               + since_tick + AheadMs

IInv == TypeOK /\ PredictedOnSchedule /\ InOrder /\ ClockBounded

-----------------------------------------------------------------------------
(***************************************************************************)
(* Numbers and sequences.                                                  *)
(***************************************************************************)
LEMMA Bounds ==
    /\ ENEMY_TURN_PHASE_TICKS \in Nat \ {0}
    /\ PATTERN_START_LEAD_TICKS \in Nat
    /\ GAME_TIME_STEP_MS \in Nat \ {0}
    /\ MAX_TIME_BETWEEN_FRAMES \in Nat \ {0}
    /\ MaxDelay \in Nat /\ MaxEstimate \in Nat /\ MaxStall \in Nat \ {0}
    /\ MaxEstimate < PATTERN_START_LEAD_TICKS
    /\ MaxAhead \in Nat /\ MaxEstimate <= MaxAhead
<1>1. /\ ENEMY_TURN_PHASE_TICKS \in Nat \ {0}
      /\ PATTERN_START_LEAD_TICKS \in Nat
      /\ GAME_TIME_STEP_MS \in Nat \ {0}
      /\ MAX_TIME_BETWEEN_FRAMES \in Nat \ {0}
      /\ MaxDelay \in Nat /\ MaxEstimate \in Nat /\ MaxStall \in Nat \ {0}
      /\ MaxEstimate < PATTERN_START_LEAD_TICKS
    BY TicksType, ClockAssumption, ScheduleAssumption
<1> DEFINE x == MAX_TIME_BETWEEN_FRAMES + GAME_TIME_STEP_MS - 1
<1>2. x \in Nat
    BY <1>1
<1> HIDE DEF x
<1>3. x \div GAME_TIME_STEP_MS \in Nat
    BY <1>1, <1>2, DivType
<1>4. MaxAhead = MaxEstimate + x \div GAME_TIME_STEP_MS
    BY DEF MaxAhead, x
<1> QED
    BY <1>1, <1>3, <1>4

\* Ticks and milliseconds.
LEMMA MsType == ASSUME NEW n \in Nat PROVE ms(n) \in Nat
BY Bounds DEF ms

LEMMA MsAdd ==
    ASSUME NEW m \in Nat, NEW n \in Nat
    PROVE  ms(m + n) = ms(m) + ms(n)
BY Bounds DEF ms

LEMMA MsNext ==
    ASSUME NEW n \in Nat
    PROVE  ms(n + 1) = ms(n) + GAME_TIME_STEP_MS
BY Bounds DEF ms

LEMMA MsMonotone ==
    ASSUME NEW m \in Nat, NEW n \in Nat, m <= n
    PROVE  ms(m) <= ms(n)
<1>1. PICK k \in Nat : n = m + k
    <2>1. n - m \in Nat /\ n = m + (n - m)
        OBVIOUS
    <2> QED
        BY <2>1
<1>2. ms(n) = ms(m) + ms(k)
    BY <1>1, MsAdd
<1> QED
    BY <1>2, MsType

\* A time is a number of ticks and a rest.
LEMMA MsSplit ==
    ASSUME NEW x \in Nat
    PROVE  /\ x \div GAME_TIME_STEP_MS \in Nat
           /\ x % GAME_TIME_STEP_MS \in 0..(GAME_TIME_STEP_MS - 1)
           /\ x = ms(x \div GAME_TIME_STEP_MS) + (x % GAME_TIME_STEP_MS)
<1>1. x \div GAME_TIME_STEP_MS \in Nat
    BY Bounds, DivType
<1>2. x % GAME_TIME_STEP_MS \in 0..(GAME_TIME_STEP_MS - 1)
    BY Bounds
<1>3. x = (x \div GAME_TIME_STEP_MS) * GAME_TIME_STEP_MS
              + (x % GAME_TIME_STEP_MS)
    BY Bounds
<1> QED
    BY <1>1, <1>2, <1>3 DEF ms

\* A lead in milliseconds is a lead in ticks.
LEMMA AheadInTicks ==
    ASSUME NEW c \in Nat, NEW e \in Nat, NEW s \in 0..GAME_TIME_STEP_MS,
           ms(c) + GAME_TIME_STEP_MS <= ms(e) + s + AheadMs
    PROVE  c <= e + MaxAhead
<1> DEFINE x == MAX_TIME_BETWEEN_FRAMES + GAME_TIME_STEP_MS - 1
           q == x \div GAME_TIME_STEP_MS
<1>n. /\ GAME_TIME_STEP_MS \in Nat \ {0} /\ MaxEstimate \in Nat
      /\ MAX_TIME_BETWEEN_FRAMES \in Nat
    BY Bounds
<1>1. x \in Nat
    BY <1>n
<1>2. MaxAhead = MaxEstimate + q
    BY DEF MaxAhead
<1>3. AheadMs = ms(MaxEstimate) + x
    BY <1>n, MsType DEF AheadMs
<1> HIDE DEF x
<1>4. PICK r \in Nat : r < GAME_TIME_STEP_MS /\ x = ms(q) + r
    BY <1>1, <1>n, MsSplit
<1>5. q \in Nat
    BY <1>1, MsSplit
<1> HIDE DEF q
<1>6. ms(e + MaxAhead) = ms(e) + ms(MaxEstimate) + ms(q)
    <2>1. ms(MaxAhead) = ms(MaxEstimate) + ms(q)
        BY <1>n, <1>2, <1>5, MsAdd
    <2>2. ms(e + MaxAhead) = ms(e) + ms(MaxAhead)
        BY Bounds, MsAdd
    <2> QED
        BY <1>n, <1>5, <2>1, <2>2, MsType
<1>7. ms(c) < ms(e + MaxAhead) + GAME_TIME_STEP_MS
    <2>1. /\ ms(c) \in Nat /\ ms(e) \in Nat /\ ms(MaxEstimate) \in Nat
          /\ ms(q) \in Nat
        BY <1>n, <1>5, MsType
    <2> QED
        BY <1>n, <1>1, <1>3, <1>4, <1>6, <2>1
<1>8. e + MaxAhead \in Nat
    BY Bounds
<1>9. CASE c > e + MaxAhead
    <2>1. (e + MaxAhead) + 1 <= c
        BY <1>8, <1>9
    <2>2. ms((e + MaxAhead) + 1) <= ms(c)
        BY <1>8, <2>1, MsMonotone
    <2>3. ms(e + MaxAhead) + GAME_TIME_STEP_MS <= ms(c)
        BY <1>8, <2>2, MsNext
    <2> QED
        BY <1>7, <1>8, <1>n, <2>3, MsType
<1> QED
    BY <1>8, <1>9

LEMMA ReachType ==
    ASSUME TypeOK
    PROVE  /\ clock \in Nat /\ ms(clock) \in Nat
           /\ game_time_step_timer \in 0..(GAME_TIME_STEP_MS - 1)
           /\ FrameTime \in 0..MAX_TIME_BETWEEN_FRAMES
           /\ Reach \in Nat /\ ms(clock) <= Reach
           /\ since_tick \in 0..GAME_TIME_STEP_MS
           /\ AheadMs \in Nat
<1>1. clock \in Nat
    BY Bounds DEF TypeOK
<1>2. ms(clock) \in Nat
    BY <1>1, MsType
<1>3. game_time_step_timer \in 0..(GAME_TIME_STEP_MS - 1)
      /\ since_tick \in 0..GAME_TIME_STEP_MS
    BY DEF TypeOK
<1>4. FrameTime \in 0..MAX_TIME_BETWEEN_FRAMES
    BY Bounds DEF TypeOK, FrameTime, AtMost
<1>5. Reach \in Nat /\ ms(clock) <= Reach
    BY <1>2, <1>3, <1>4, Bounds DEF Reach
<1>6. AheadMs \in Nat
    <2>1. ms(MaxEstimate) \in Nat
        BY Bounds, MsType
    <2> QED
        BY <2>1, Bounds DEF AheadMs
<1> QED
    BY <1>1, <1>2, <1>3, <1>4, <1>5, <1>6

LEMMA ElapsedType ==
    ASSUME TypeOK
    PROVE  /\ Elapsed \in Nat /\ Elapsed <= ENEMY_TURN_PHASE_TICKS
           /\ ms(Elapsed) \in Nat
           /\ ms(Elapsed) <= ms(ENEMY_TURN_PHASE_TICKS)
           /\ ms(ENEMY_TURN_PHASE_TICKS) \in Nat
<1>1. Elapsed \in Nat /\ Elapsed <= ENEMY_TURN_PHASE_TICKS
    BY Bounds DEF TypeOK, Elapsed
<1> QED
    BY <1>1, Bounds, MsType, MsMonotone

LEMMA ToldType ==
    ASSUME TypeOK, NEW i \in 0..Len(stream)
    PROVE  /\ Len(stream) \in Nat
           /\ Told(i) \in GameStates \cup {NoState}
           /\ i # 0 => /\ Told(i) \in GameStates
                       /\ stream[i].age \in 0..MaxDelay
<1>1. Len(stream) \in Nat
    BY DEF TypeOK
<1>2. CASE i = 0
    BY <1>1, <1>2 DEF Told, TypeOK
<1>3. CASE i # 0
    <2> DEFINE Arrivals == [state : GameStates, age : 0..MaxDelay]
    <2>1. stream[i] \in Arrivals
        <3>1. stream \in Seq(Arrivals) /\ i \in 1..Len(stream)
            BY <1>1, <1>3 DEF TypeOK
        <3> HIDE DEF Arrivals
        <3> QED
            BY <3>1, ElementOfSeq
    <2> QED
        BY <1>1, <1>3, <2>1 DEF Told
<1> QED
    BY <1>2, <1>3

\* Either no end of the segment is told yet, or one is told first.
LEMMA FirstEnd ==
    ASSUME TypeOK, Dodging(known), ~ NoEndUpTo(Len(stream))
    PROVE  \E i \in 1..Len(stream) : NoEndUpTo(i - 1) /\ ~ Dodging(Told(i))
<1> DEFINE Ends == {i \in 0..Len(stream) : ~ Dodging(Told(i))}
<1>1. Len(stream) \in Nat
    BY DEF TypeOK
<1>2. PICK i \in Ends : \A j \in Ends : i <= j
    <2>1. Ends \in SUBSET Nat /\ Ends # {}
        BY <1>1 DEF NoEndUpTo
    <2> HIDE DEF Ends
    <2> QED
        BY <2>1, LeastExists
<1>3. i # 0
    BY DEF Told
<1>4. i \in 1..Len(stream)
    BY <1>1, <1>3
<1>5. NoEndUpTo(i - 1)
    BY <1>1, <1>2, <1>4 DEF NoEndUpTo
<1> QED
    BY <1>4, <1>5

-----------------------------------------------------------------------------
(***************************************************************************)
(* Every step keeps the invariant.                                         *)
(***************************************************************************)
LEMMA InitInv == ASSUME Init PROVE IInv
<1>1. known = NoState /\ stream = <<>> /\ Len(stream) = 0 /\ ~ Dodging(known)
    BY DEF Init, Dodging, NoState
<1>2. TypeOK
    <2>1. stream \in Seq([state : GameStates, age : 0..MaxDelay])
        BY <1>1
    <2>2. clock \in 0..(ENEMY_TURN_PHASE_TICKS + MaxDelay + MaxAhead)
        BY Bounds DEF Init
    <2>3. spawned \in 0..AMOUNT_OF_PROJECTILES_IN_ENEMY_TURN_PHASE
        BY TicksType DEF Init
    <2>4. phase \in Phases /\ remaining \in 0..ENEMY_TURN_PHASE_TICKS
          /\ told = FALSE
        BY Bounds DEF Init, Phases
    <2>6. /\ since_tick \in 0..GAME_TIME_STEP_MS
          /\ since_last_frame \in 0..MaxStall
          /\ game_time_step_timer \in 0..(GAME_TIME_STEP_MS - 1)
        BY Bounds DEF Init
    <2>5. phase # "EnemyTurn" /\ ~ (remaining > 0)
        BY DEF Init
    <2> QED
        BY <1>1, <2>1, <2>2, <2>3, <2>4, <2>5, <2>6 DEF TypeOK
<1>3. PredictedOnSchedule /\ InOrder /\ ClockBounded
    BY <1>1 DEF Init, PredictedOnSchedule, InOrder, ClockBounded, NoState
<1> QED
    BY <1>2, <1>3 DEF IInv

LEMMA StutterInv == ASSUME IInv, UNCHANGED vars PROVE IInv'
BY DEF IInv, TypeOK, PredictedOnSchedule, InOrder, ClockBounded, vars, server,
       predicted, frame, Told, LastTold, NoEndUpTo, Elapsed, Reach, FrameTime,
       Dodging

\* The time that passes is added on both sides.
LEMMA PassInv == ASSUME IInv, Pass PROVE IInv'
<1>1. /\ UNCHANGED <<phase, remaining, told, stream, known, clock, spawned>>
      /\ since_tick' = since_tick + 1
      /\ since_last_frame' = since_last_frame + 1
      /\ game_time_step_timer' = game_time_step_timer
    BY DEF Pass, server, predicted
<1>2. TypeOK'
    <2>1. since_tick' \in 0..GAME_TIME_STEP_MS
          /\ since_last_frame' \in 0..MaxStall
        BY <1>1, Bounds DEF IInv, TypeOK, Pass
    <2> QED
        BY <1>1, <2>1 DEF IInv, TypeOK
<1>3. PredictedOnSchedule' /\ InOrder'
    BY <1>1 DEF IInv, PredictedOnSchedule, InOrder, LastTold, Told, Dodging
<1>4. ClockBounded'
    <2>1. PICK r \in Nat : Reach' = r /\ r <= Reach + 1
        <3>1. PICK f \in Nat : FrameTime' = f /\ f <= FrameTime + 1
            <4>1. since_last_frame \in Nat
                BY Bounds DEF IInv, TypeOK
            <4> QED
                BY <1>1, <4>1, Bounds DEF FrameTime, AtMost
        <3>2. Reach' = ms(clock) + game_time_step_timer + f
            BY <1>1, <3>1 DEF Reach, ms
        <3>3. /\ ms(clock) \in Nat /\ game_time_step_timer \in Nat
              /\ FrameTime \in Nat
            BY ReachType, Bounds DEF IInv
        <3> QED
            BY <3>1, <3>2, <3>3 DEF Reach
    <2>2. /\ Elapsed' = Elapsed /\ ms(Elapsed)' = ms(Elapsed)
          /\ \A i \in Nat : Told(i)' = Told(i) /\ NoEndUpTo(i)' = NoEndUpTo(i)
        BY <1>1 DEF Elapsed, ms, Told, NoEndUpTo, Dodging
    <2>n. /\ Reach \in Nat /\ since_tick \in Nat /\ AheadMs \in Nat
          /\ GAME_TIME_STEP_MS \in Nat /\ ms(Elapsed) \in Nat
          /\ Len(stream) \in Nat
        BY ReachType, ElapsedType, Bounds DEF IInv, TypeOK
    <2> SUFFICES ASSUME Dodging(known)
                 PROVE  ClockBounded'
        BY <1>1 DEF ClockBounded, Dodging
    <2>3. ASSUME NoEndUpTo(Len(stream))
          PROVE  (Reach + GAME_TIME_STEP_MS <= ms(Elapsed) + since_tick + AheadMs)'
        <3>1. Reach + GAME_TIME_STEP_MS <= ms(Elapsed) + since_tick + AheadMs
            BY <2>3 DEF IInv, ClockBounded
        <3>2. r + GAME_TIME_STEP_MS <= ms(Elapsed) + (since_tick + 1) + AheadMs
            BY <2>1, <2>n, <3>1
        <3>3. AheadMs' = AheadMs
            BY DEF AheadMs, ms
        <3> QED
            BY <1>1, <2>1, <2>2, <3>2, <3>3, Zenon
    <2>4. ASSUME NEW i \in 1..Len(stream), NoEndUpTo(i - 1),
                 ~ Dodging(Told(i)), stream[i].age < MaxDelay
          PROVE  Reach' <= ms(ENEMY_TURN_PHASE_TICKS + stream[i].age)
                               + since_tick' + AheadMs
        <3>1. Reach <= ms(ENEMY_TURN_PHASE_TICKS + stream[i].age)
                           + since_tick + AheadMs
            BY <2>4 DEF IInv, ClockBounded
        <3>2. stream[i].age \in Nat
            BY <2>n, ToldType, Bounds DEF IInv
        <3>3. ms(ENEMY_TURN_PHASE_TICKS + stream[i].age) \in Nat
            <4>1. ENEMY_TURN_PHASE_TICKS + stream[i].age \in Nat
                BY <3>2, Bounds
            <4> QED
                BY <4>1, MsType
        <3> QED
            BY <1>1, <2>1, <2>n, <3>1, <3>3
    <2> QED
        BY <1>1, <2>2, <2>3, <2>4, <2>n
           DEF ClockBounded, Dodging, ms, AheadMs
<1> QED
    BY <1>2, <1>3, <1>4 DEF IInv

\* The server enters another phase between two ticks.
LEMMA EnterInv ==
    ASSUME IInv, told, UNCHANGED <<stream, predicted, since_tick, frame>>,
           \/ ~ Dodging(LastTold) /\ Enter("EnemyTurn", ENEMY_TURN_PHASE_TICKS)
           \/ Enter("Win", 0)
           \/ Enter("PlayerTurn", 0)
    PROVE  IInv'
<1>1. TypeOK'
    <2>1. /\ phase' \in Phases /\ remaining' \in 0..ENEMY_TURN_PHASE_TICKS
          /\ told' = FALSE
        BY Bounds DEF Enter, Phases
    <2>2. phase' = "EnemyTurn" <=> remaining' > 0
        <3>1. CASE Enter("EnemyTurn", ENEMY_TURN_PHASE_TICKS)
            BY <3>1, Bounds DEF Enter
        <3>2. CASE Enter("Win", 0) \/ Enter("PlayerTurn", 0)
            BY <3>2 DEF Enter
        <3> QED
            BY <3>1, <3>2
    <2> QED
        BY <2>1, <2>2 DEF IInv, TypeOK, predicted, frame
<1>2. PredictedOnSchedule'
    BY DEF IInv, PredictedOnSchedule, predicted
<1>3. LastTold' = LastTold /\ \A i \in 0..Len(stream) : Told(i)' = Told(i)
    BY DEF LastTold, Told, predicted
<1>4. InOrder'
    <2>1. /\ phase' = "EnemyTurn" => /\ remaining' = ENEMY_TURN_PHASE_TICKS
                                     /\ ~ Dodging(LastTold)
          /\ ~ told'
        BY DEF Enter
    <2> QED
        BY <1>3, <2>1 DEF IInv, InOrder, Told, predicted, Dodging
<1>5. ClockBounded'
    <2> SUFFICES ASSUME Dodging(known)
                 PROVE  ClockBounded'
        BY DEF ClockBounded, predicted, Dodging
    <2>1. /\ Len(stream') = Len(stream) /\ Len(stream) \in Nat
          /\ Reach' = Reach /\ since_tick' = since_tick /\ Dodging(known')
        BY DEF IInv, TypeOK, Reach, ms, FrameTime, predicted, frame
    <2>2. ASSUME NEW n \in 0..Len(stream)
          PROVE  NoEndUpTo(n)' <=> NoEndUpTo(n)
        BY <1>3 DEF NoEndUpTo, Told, predicted, Dodging
    <2>3. CASE NoEndUpTo(Len(stream))
        <3>1. Dodging(LastTold)
            BY <2>1, <2>3 DEF NoEndUpTo, LastTold
        <3>2. phase' # "EnemyTurn" /\ Elapsed' = ENEMY_TURN_PHASE_TICKS
            BY <3>1 DEF Enter, Elapsed
        <3>3. Reach + GAME_TIME_STEP_MS <= ms(Elapsed) + since_tick + AheadMs
            BY <2>3 DEF IInv, ClockBounded
        <3>4. /\ Reach \in Nat /\ since_tick \in Nat /\ AheadMs \in Nat
              /\ GAME_TIME_STEP_MS \in Nat
            BY ReachType, Bounds DEF IInv
        <3>5. Reach + GAME_TIME_STEP_MS
                  <= ms(ENEMY_TURN_PHASE_TICKS) + since_tick + AheadMs
            BY <3>3, <3>4, ElapsedType DEF IInv
        <3>6. ms(Elapsed)' = ms(ENEMY_TURN_PHASE_TICKS) /\ AheadMs' = AheadMs
            BY <3>2 DEF ms, AheadMs
        <3>7. (Reach + GAME_TIME_STEP_MS <= ms(Elapsed) + since_tick + AheadMs)'
            BY <2>1, <3>5, <3>6, Zenon
        <3> QED
            BY <2>1, <2>3, <3>7, <1>3 DEF ClockBounded, NoEndUpTo, Dodging
    <2>4. CASE ~ NoEndUpTo(Len(stream))
        BY <2>1, <2>2, <2>4, <1>3 DEF IInv, ClockBounded, Dodging, ms, AheadMs
    <2> QED
        BY <2>3, <2>4
<1> QED
    BY <1>1, <1>2, <1>4, <1>5 DEF IInv

LEMMA ChoicesMadeInv == ASSUME IInv, ChoicesMade PROVE IInv'
<1>1. LastTold.phase = "PlayerTurn"
    BY DEF IInv, InOrder, ChoicesMade
<1> QED
    BY <1>1, EnterInv DEF ChoicesMade, Dodging

LEMMA NewRoundInv == ASSUME IInv, NewRound PROVE IInv'
BY EnterInv DEF NewRound

\* The state sent in a tick comes last; what is under way gets older.
LEMMA TickSends ==
    ASSUME TypeOK, Tick, NEW N, N = Len(stream)
    PROVE  /\ stream' \in Seq([state : GameStates, age : 0..MaxDelay])
           /\ Len(stream') = N + 1
           /\ \A i \in 0..N : Told(i)' = Told(i)
           /\ Told(N + 1)' = [phase |-> phase, remaining |-> remaining]
           /\ \A i \in 1..N :
                  stream'[i].age = AtMost(stream[i].age + 1, MaxDelay)
           /\ stream'[N + 1].age = 0
<1> DEFINE older == [i \in DOMAIN stream |-> Older(stream[i])]
           new == [state |-> [phase |-> phase, remaining |-> remaining],
                   age |-> 0]
           Arrivals == [state : GameStates, age : 0..MaxDelay]
<1>1. N \in Nat /\ DOMAIN stream = 1..N
    BY DEF TypeOK
<1>2. new \in Arrivals
    BY Bounds DEF TypeOK, GameStates
<1>3. ASSUME NEW i \in 1..N
      PROVE  /\ older[i] \in Arrivals
             /\ older[i].state = stream[i].state
             /\ older[i].age = AtMost(stream[i].age + 1, MaxDelay)
    <2>1. stream[i] \in Arrivals
        <3>1. stream \in Seq(Arrivals)
            BY DEF TypeOK
        <3> HIDE DEF Arrivals
        <3> QED
            BY <3>1, ElementOfSeq
    <2>2. older[i] = [stream[i] EXCEPT !.age = AtMost(stream[i].age + 1, MaxDelay)]
        BY <1>1 DEF Older
    <2>3. stream[i].age \in Nat
        BY <2>1, Bounds
    <2>4. AtMost(stream[i].age + 1, MaxDelay) \in 0..MaxDelay
        BY <2>3, Bounds DEF AtMost
    <2> HIDE DEF older
    <2> QED
        BY <2>1, <2>2, <2>4
<1>4. older \in Seq(Arrivals) /\ Len(older) = N
    <2>1. older \in [1..N -> Arrivals]
        BY <1>1, <1>3
    <2> HIDE DEF older, Arrivals
    <2> QED
        BY <1>1, <2>1
<1>5. stream' = Append(older, new)
    BY DEF Tick
<1> HIDE DEF older, new, Arrivals
<1>6. /\ stream' \in Seq(Arrivals) /\ Len(stream') = N + 1
      /\ \A i \in 1..N : stream'[i] = older[i]
      /\ stream'[N + 1] = new
    BY <1>1, <1>2, <1>4, <1>5
<1>7. \A i \in 0..N : Told(i)' = Told(i)
    <2>1. known' = known
        BY DEF Tick, predicted
    <2> QED
        BY <1>1, <1>3, <1>6, <2>1 DEF Told
<1>8. Told(N + 1)' = [phase |-> phase, remaining |-> remaining]
    <2>1. new.state = [phase |-> phase, remaining |-> remaining]
        BY DEF new
    <2> QED
        BY <1>1, <1>6, <2>1 DEF Told
<1>9. new.age = 0
    BY DEF new
<1> QED
    BY <1>3, <1>6, <1>7, <1>8, <1>9 DEF Arrivals

LEMMA TickInv == ASSUME IInv, Tick PROVE IInv'
<1> DEFINE new == [phase |-> phase, remaining |-> remaining]
<1>1. PICK N \in Nat : N = Len(stream)
    BY DEF IInv, TypeOK
<1>2. /\ stream' \in Seq([state : GameStates, age : 0..MaxDelay])
      /\ Len(stream') = N + 1
      /\ \A i \in 0..N : Told(i)' = Told(i)
      /\ Told(N + 1)' = new
      /\ \A i \in 1..N :
             stream'[i].age = AtMost(stream[i].age + 1, MaxDelay)
      /\ stream'[N + 1].age = 0
    BY <1>1, TickSends DEF IInv
<1>3. known' = known /\ clock' = clock /\ spawned' = spawned
    BY DEF Tick, predicted
<1>4. LastTold = Told(N) /\ LastTold' = new
    BY <1>1, <1>2 DEF LastTold, Told
<1>5. \/ told' = TRUE /\ phase' = phase /\ phase # "EnemyTurn"
         /\ remaining' = remaining
      \/ /\ phase = "EnemyTurn" /\ phase' # "EnemyTurn" /\ told' = FALSE
         /\ phase' \in Phases /\ remaining' = 0
      \/ /\ phase = "EnemyTurn" /\ phase' = "EnemyTurn" /\ told' = TRUE
         /\ remaining > 1 /\ remaining' = remaining - 1
    <2>1. remaining \in Nat
        BY DEF IInv, TypeOK
    <2> QED
        BY <2>1 DEF Tick, Step, Enter, Phases
<1>6. /\ since_tick = GAME_TIME_STEP_MS /\ since_tick' = 0
      /\ UNCHANGED <<since_last_frame, game_time_step_timer>>
    BY DEF Tick, frame
<1>7. Reach' = Reach
    BY <1>3, <1>6 DEF Reach, ms, FrameTime
<1>n. /\ ENEMY_TURN_PHASE_TICKS \in Nat /\ GAME_TIME_STEP_MS \in Nat
      /\ Reach \in Nat /\ AheadMs \in Nat
    BY Bounds, ReachType DEF IInv
<1>8. TypeOK'
    <2>1. /\ since_tick' \in 0..GAME_TIME_STEP_MS
          /\ since_last_frame' \in 0..MaxStall
          /\ game_time_step_timer' \in 0..(GAME_TIME_STEP_MS - 1)
        BY <1>6, <1>n DEF IInv, TypeOK
    <2>2. /\ phase' \in Phases /\ remaining' \in 0..ENEMY_TURN_PHASE_TICKS
          /\ told' \in BOOLEAN
        <3>1. phase \in Phases /\ remaining \in 0..ENEMY_TURN_PHASE_TICKS
            BY DEF IInv, TypeOK
        <3>2. told' \in BOOLEAN
            BY <1>5
        <3>3. phase' \in Phases
            BY <1>5, <3>1
        <3>4. remaining' = remaining \/ remaining' = 0
                  \/ (remaining > 1 /\ remaining' = remaining - 1)
            BY <1>5
        <3>5. remaining' \in 0..ENEMY_TURN_PHASE_TICKS
            BY <1>n, <3>1, <3>4
        <3> QED
            BY <3>2, <3>3, <3>5
    <2>3. phase' = "EnemyTurn" <=> remaining' > 0
        BY <1>5 DEF IInv, TypeOK
    <2> QED
        BY <1>2, <1>3, <2>1, <2>2, <2>3 DEF IInv, TypeOK
<1>9. PredictedOnSchedule'
    BY <1>3 DEF IInv, PredictedOnSchedule
<1>10. InOrder'
    <2>1. ASSUME NEW i \in 1..Len(stream'),
                 Dodging(Told(i)'), ~ Dodging(Told(i - 1)')
          PROVE  Told(i)'.remaining = ENEMY_TURN_PHASE_TICKS
        <3>1. CASE i \in 1..N
            <4>1. Told(i)' = Told(i) /\ Told(i - 1)' = Told(i - 1)
                BY <1>1, <1>2, <3>1
            <4> QED
                BY <1>1, <2>1, <3>1, <4>1 DEF IInv, InOrder
        <3>2. CASE i = N + 1
            <4>1. Told(i - 1)' = LastTold
                BY <1>1, <1>2, <1>4, <3>2
            <4>2. Told(i)' = new
                BY <1>2, <3>2
            <4>3. phase = "EnemyTurn" /\ ~ Dodging(LastTold)
                BY <2>1, <4>1, <4>2 DEF Dodging
            <4>4. ~ told
                BY <4>3 DEF IInv, InOrder, Dodging
            <4> QED
                BY <4>2, <4>3, <4>4 DEF IInv, InOrder
        <3> QED
            BY <1>1, <1>2, <3>1, <3>2
    <2>2. told' => LastTold'.phase = phase'
        BY <1>4, <1>5
    <2>3. ~ (phase' = "EnemyTurn" /\ ~ told')
        BY <1>5
    <2>4. phase' = "EnemyTurn" => remaining' < ENEMY_TURN_PHASE_TICKS
        <3>1. remaining \in 0..ENEMY_TURN_PHASE_TICKS
            BY DEF IInv, TypeOK
        <3> QED
            BY <1>5, <1>n, <3>1
    <2> QED
        BY <2>1, <2>2, <2>3, <2>4 DEF InOrder, Dodging
<1>11. ClockBounded'
    <2> SUFFICES ASSUME Dodging(known)
                 PROVE  ClockBounded'
        BY <1>3 DEF ClockBounded, Dodging
    <2>2. ASSUME NEW n \in 0..N
          PROVE  NoEndUpTo(n)' <=> NoEndUpTo(n)
        <3>1. \A i \in 0..n : Told(i)' = Told(i)
            BY <1>1, <1>2
        <3> QED
            BY <3>1, Zenon DEF NoEndUpTo, Dodging
    <2>3. ASSUME NoEndUpTo(N + 1)'
          PROVE  (Reach + GAME_TIME_STEP_MS <= ms(Elapsed) + since_tick + AheadMs)'
        <3>1. NoEndUpTo(N)
            BY <1>1, <1>2, <2>3 DEF NoEndUpTo, Dodging
        <3>2. Dodging(Told(N + 1)')
            BY <1>1, <2>3 DEF NoEndUpTo, Dodging
        <3>3. phase = "EnemyTurn"
            BY <1>2, <3>2 DEF Dodging
        <3>4. Reach + GAME_TIME_STEP_MS
                  <= ms(Elapsed) + GAME_TIME_STEP_MS + AheadMs
            BY <1>1, <1>6, <3>1 DEF IInv, ClockBounded
        <3>5. PICK t \in Nat : t = Elapsed' /\ Elapsed + 1 <= t
            <4>1. remaining \in 1..ENEMY_TURN_PHASE_TICKS
                BY <3>3 DEF IInv, TypeOK
            <4>2. Elapsed = ENEMY_TURN_PHASE_TICKS - remaining
                BY <3>3 DEF Elapsed
            <4>3. CASE phase' = "EnemyTurn"
                BY <1>5, <1>n, <4>1, <4>2, <4>3 DEF Elapsed
            <4>4. CASE phase' # "EnemyTurn"
                <5>1. Elapsed' = ENEMY_TURN_PHASE_TICKS
                    BY <4>4 DEF Elapsed
                <5> QED
                    BY <1>n, <4>1, <4>2, <5>1
            <4> QED
                BY <4>3, <4>4
        <3>6. ms(Elapsed) + GAME_TIME_STEP_MS <= ms(t)
            <4>1. Elapsed \in Nat /\ Elapsed + 1 \in Nat
                BY ElapsedType DEF IInv
            <4> QED
                BY <3>5, <4>1, MsNext, MsMonotone
        <3>7. ms(Elapsed) \in Nat /\ ms(t) \in Nat
            BY ElapsedType, MsType DEF IInv
        <3>8. Reach + GAME_TIME_STEP_MS <= ms(t) + 0 + AheadMs
            BY <1>n, <3>4, <3>6, <3>7
        <3>9. ms(Elapsed)' = ms(t) /\ AheadMs' = AheadMs
            BY <3>5 DEF ms, AheadMs
        <3> QED
            BY <1>6, <1>7, <3>8, <3>9, Zenon
    <2>4. ASSUME NEW i \in 1..(N + 1), NoEndUpTo(i - 1)', ~ Dodging(Told(i)'),
                 stream'[i].age < MaxDelay
          PROVE  Reach' <= ms(ENEMY_TURN_PHASE_TICKS + stream'[i].age)
                               + since_tick' + AheadMs
        <3>1. NoEndUpTo(i - 1)
            BY <1>1, <2>2, <2>4
        <3>2. CASE i \in 1..N
            <4>1. ~ Dodging(Told(i))
                BY <1>1, <1>2, <2>4, <3>2
            <4>2. stream[i].age \in 0..MaxDelay
                BY <1>1, <3>2, ToldType DEF IInv
            <4>3. stream[i].age < MaxDelay /\ stream'[i].age = stream[i].age + 1
                <5>1. stream'[i].age = AtMost(stream[i].age + 1, MaxDelay)
                    BY <1>2, <3>2
                <5>2. PICK a \in 0..MaxDelay : a = stream[i].age
                    BY <4>2
                <5>3. AtMost(a + 1, MaxDelay) < MaxDelay
                    BY <2>4, <5>1, <5>2
                <5>4. a < MaxDelay /\ AtMost(a + 1, MaxDelay) = a + 1
                    BY <5>3, Bounds DEF AtMost
                <5> QED
                    BY <5>1, <5>2, <5>4
            <4>4. PICK a \in Nat : a = ENEMY_TURN_PHASE_TICKS + stream[i].age
                BY <1>n, <4>2
            <4>5. Reach <= ms(a) + GAME_TIME_STEP_MS + AheadMs
                BY <1>1, <1>6, <3>1, <3>2, <4>1, <4>3, <4>4
                   DEF IInv, ClockBounded
            <4>6. ENEMY_TURN_PHASE_TICKS + stream'[i].age = a + 1
                BY <1>n, <4>2, <4>3, <4>4
            <4>7. ms(a + 1) = ms(a) + GAME_TIME_STEP_MS /\ ms(a) \in Nat
                BY MsNext, MsType
            <4>8. Reach <= ms(a + 1) + 0 + AheadMs
                BY <1>n, <4>5, <4>7
            <4> QED
                BY <1>6, <1>7, <4>6, <4>8, Zenon
        <3>3. CASE i = N + 1
            <4>1. NoEndUpTo(N)
                BY <1>1, <3>1, <3>3
            <4>2. Reach + GAME_TIME_STEP_MS
                      <= ms(Elapsed) + GAME_TIME_STEP_MS + AheadMs
                BY <1>1, <1>6, <4>1 DEF IInv, ClockBounded
            <4>3. ENEMY_TURN_PHASE_TICKS + stream'[i].age
                      = ENEMY_TURN_PHASE_TICKS
                BY <1>2, <1>n, <3>3
            <4>4. Reach <= ms(ENEMY_TURN_PHASE_TICKS) + 0 + AheadMs
                BY <1>n, <4>2, ElapsedType DEF IInv
            <4> QED
                BY <1>6, <1>7, <4>3, <4>4, Zenon
        <3> QED
            BY <1>1, <3>2, <3>3
    <2> QED
        BY <1>2, <2>3, <2>4 DEF ClockBounded, Dodging, ms, AheadMs
<1> QED
    BY <1>8, <1>9, <1>10, <1>11 DEF IInv

\* A state that is heard becomes the known one, the others move up.
LEMMA HearTakes ==
    ASSUME TypeOK, Hear, NEW N \in Nat, N = Len(stream)
    PROVE  /\ N > 0
           /\ stream' \in Seq([state : GameStates, age : 0..MaxDelay])
           /\ Len(stream') = N - 1
           /\ \A i \in 0..(N - 1) : Told(i)' = Told(i + 1)
           /\ \A i \in 1..(N - 1) : stream'[i] = stream[i + 1]
<1> DEFINE Arrivals == [state : GameStates, age : 0..MaxDelay]
<1>1. stream \in Seq(Arrivals) /\ stream # <<>> /\ stream' = Tail(stream)
    BY DEF TypeOK, Hear
<1>2. known' = Head(stream).state
    BY DEF Hear, TakeState
<1> HIDE DEF Arrivals
<1>3. /\ N > 0 /\ stream' \in Seq(Arrivals) /\ Len(stream') = N - 1
      /\ \A i \in 1..(N - 1) : stream'[i] = stream[i + 1]
    BY <1>1
<1>4. known' = stream[1].state
    BY <1>1, <1>2
<1>5. ASSUME NEW i \in 0..(N - 1)
      PROVE  Told(i)' = Told(i + 1)
    <2>1. CASE i = 0
        BY <1>4, <2>1 DEF Told
    <2>2. CASE i # 0
        <3>1. i \in 1..(N - 1) /\ i + 1 # 0
            BY <2>2
        <3> QED
            BY <1>3, <2>2, <3>1 DEF Told
    <2> QED
        BY <2>1, <2>2
<1> QED
    BY <1>3, <1>5 DEF Arrivals

LEMMA HearInv == ASSUME IInv, Hear PROVE IInv'
<1>1. PICK N \in Nat : N = Len(stream)
    BY DEF IInv, TypeOK
<1>2. /\ N > 0
      /\ stream' \in Seq([state : GameStates, age : 0..MaxDelay])
      /\ Len(stream') = N - 1
      /\ \A i \in 0..(N - 1) : Told(i)' = Told(i + 1)
      /\ \A i \in 1..(N - 1) : stream'[i] = stream[i + 1]
    BY <1>1, HearTakes DEF IInv
<1>3. /\ phase' = phase /\ remaining' = remaining /\ told' = told
      /\ since_tick' = since_tick /\ since_last_frame' = since_last_frame
      /\ game_time_step_timer' = game_time_step_timer
    BY DEF Hear, server, frame
<1>n. /\ ENEMY_TURN_PHASE_TICKS \in Nat /\ MaxAhead \in Nat /\ MaxDelay \in Nat
      /\ MaxEstimate \in Nat /\ MaxEstimate <= MaxAhead
      /\ MAX_TIME_BETWEEN_FRAMES \in Nat /\ GAME_TIME_STEP_MS \in Nat
    BY Bounds
<1>4. known' = Told(1) /\ known' \in GameStates
    <2>1. known' = Told(0)'
        BY DEF Told
    <2>2. Told(1) \in GameStates
        BY <1>1, <1>2, ToldType DEF IInv
    <2> QED
        BY <1>1, <1>2, <2>1, <2>2
\* What the news does to the prediction.
<1>5. \/ /\ Dodging(known) <=> Dodging(known')
         /\ UNCHANGED <<clock, spawned>>
      \/ ~ Dodging(known') /\ clock' = 0 /\ spawned' = 0
      \/ /\ Dodging(known') /\ ~ Dodging(known)
         /\ clock' \in 0..MaxEstimate /\ UNCHANGED spawned
    <2> DEFINE s == Head(stream).state
    <2>1. known' = s
        BY DEF Hear, TakeState
    <2>2. CASE s # known /\ s.phase # "EnemyTurn" /\ ClearPrediction
        BY <2>1, <2>2 DEF ClearPrediction, Dodging
    <2>3. CASE s.phase = "EnemyTurn" /\ known.phase # "EnemyTurn" /\ Sync(s)
        <3>1. Dodging(Told(1)) /\ ~ Dodging(Told(0))
            BY <1>4, <2>1, <2>3 DEF Dodging, Told
        <3>2. 1 \in 1..Len(stream) /\ 1 - 1 = 0
            BY <1>1, <1>2
        <3>3. Told(1).remaining = ENEMY_TURN_PHASE_TICKS
            BY <3>1, <3>2 DEF IInv, InOrder
        <3>4. s.remaining = ENEMY_TURN_PHASE_TICKS
            BY <1>4, <2>1, <3>3
        <3>5. clock' \in 0..MaxEstimate /\ UNCHANGED spawned
            BY <1>n, <2>3, <3>4 DEF Sync, latency_ticks
        <3> QED
            BY <2>1, <2>3, <3>5 DEF Dodging
    <2>4. CASE /\ s = known \/ (s.phase = "EnemyTurn" /\ known.phase = "EnemyTurn")
               /\ UNCHANGED <<clock, spawned>>
        BY <2>1, <2>4 DEF Dodging
    <2> QED
        BY <2>2, <2>3, <2>4 DEF Hear, TakeState
<1>6. PredictedOnSchedule'
    <2>1. CASE /\ Dodging(known) <=> Dodging(known')
               /\ UNCHANGED <<clock, spawned>>
        BY <2>1 DEF IInv, PredictedOnSchedule, Dodging
    <2>2. CASE ~ Dodging(known') /\ clock' = 0 /\ spawned' = 0
        BY <2>2 DEF PredictedOnSchedule, Dodging
    <2>3. CASE /\ Dodging(known') /\ ~ Dodging(known)
               /\ clock' \in 0..MaxEstimate /\ UNCHANGED spawned
        <3>1. spawned' = 0
            BY <2>3 DEF IInv, PredictedOnSchedule, Dodging
        <3>2. clock' < PATTERN_START_LEAD_TICKS
            BY <2>3, Bounds
        <3>3. get_current_bullet_count(clock') = 0
            BY <3>2 DEF get_current_bullet_count
        <3> QED
            BY <2>3, <3>1, <3>3 DEF PredictedOnSchedule, Dodging
    <2> QED
        BY <1>5, <2>1, <2>2, <2>3
<1>7. TypeOK'
    <2>1. clock' \in 0..(ENEMY_TURN_PHASE_TICKS + MaxDelay + MaxAhead)
        BY <1>5, <1>n DEF IInv, TypeOK
    <2>2. spawned' \in 0..AMOUNT_OF_PROJECTILES_IN_ENEMY_TURN_PHASE
        BY <1>5, TicksType DEF IInv, TypeOK
    <2> QED
        BY <1>2, <1>3, <1>4, <2>1, <2>2 DEF IInv, TypeOK
<1>8. InOrder'
    <2>1. ASSUME NEW i \in 1..(N - 1),
                 Dodging(Told(i)'), ~ Dodging(Told(i - 1)')
          PROVE  Told(i)'.remaining = ENEMY_TURN_PHASE_TICKS
        <3>1. /\ i + 1 \in 1..N /\ (i + 1) - 1 = i
              /\ Told(i)' = Told(i + 1) /\ Told(i - 1)' = Told(i)
            BY <1>2
        <3> QED
            BY <1>1, <2>1, <3>1 DEF IInv, InOrder
    <2>2. LastTold' = LastTold
        <3>1. LastTold' = Told(N - 1)'
            BY <1>1, <1>2 DEF LastTold, Told
        <3>2. Told(N - 1)' = Told(N)
            BY <1>2
        <3> QED
            BY <1>1, <3>1, <3>2 DEF LastTold
    <2> QED
        BY <1>2, <1>3, <2>1, <2>2 DEF IInv, InOrder, Dodging
<1>9. ClockBounded'
    <2> SUFFICES ASSUME Dodging(known')
                 PROVE  ClockBounded'
        BY DEF ClockBounded, Dodging
    <2>1. /\ Reach \in Nat /\ AheadMs \in Nat /\ since_tick \in Nat
          /\ game_time_step_timer \in 0..(GAME_TIME_STEP_MS - 1)
          /\ FrameTime \in 0..MAX_TIME_BETWEEN_FRAMES
        BY ReachType, <1>n DEF IInv
    <2>2. Elapsed' = Elapsed /\ FrameTime' = FrameTime
        BY <1>3 DEF Elapsed, FrameTime
    <2>5. ASSUME NEW i \in 1..(N - 1)
          PROVE  stream'[i].age \in Nat
        <3>1. i + 1 \in 0..Len(stream) /\ i + 1 # 0
            BY <1>1, <1>2
        <3>2. stream[i + 1].age \in 0..MaxDelay
            BY <3>1, ToldType DEF IInv
        <3>3. stream'[i] = stream[i + 1]
            BY <1>2
        <3> QED
            BY <1>n, <3>2, <3>3
    <2>6. CASE Dodging(known) /\ clock' = clock
        <3>r. Reach' = Reach
            BY <1>3, <2>2, <2>6 DEF Reach, ms
        <3>1. ASSUME NEW n \in 0..(N - 1), NoEndUpTo(n)'
              PROVE  NoEndUpTo(n + 1)
            <4>1. ASSUME NEW i \in 0..(n + 1)
                  PROVE  Dodging(Told(i))
                <5>1. CASE i = 0
                    BY <2>6, <5>1 DEF Told
                <5>2. CASE i # 0
                    <6>1. i - 1 \in 0..n /\ i - 1 \in 0..(N - 1)
                          /\ (i - 1) + 1 = i
                        BY <1>1, <5>2
                    <6>2. Told(i - 1)' = Told(i)
                        BY <1>2, <6>1
                    <6>3. Dodging(Told(i - 1)')
                        BY <3>1, <6>1 DEF NoEndUpTo, Dodging
                    <6> QED
                        BY <6>2, <6>3
                <5> QED
                    BY <5>1, <5>2
            <4> QED
                BY <4>1 DEF NoEndUpTo
        <3>2. ASSUME NoEndUpTo(N - 1)'
              PROVE  (Reach + GAME_TIME_STEP_MS
                          <= ms(Elapsed) + since_tick + AheadMs)'
            <4>1. NoEndUpTo(N)
                <5>1. N - 1 \in 0..(N - 1) /\ (N - 1) + 1 = N
                    BY <1>2
                <5> QED
                    BY <3>1, <3>2, <5>1
            <4>2. Reach + GAME_TIME_STEP_MS
                      <= ms(Elapsed) + since_tick + AheadMs
                BY <1>1, <2>6, <4>1 DEF IInv, ClockBounded
            <4>3. ms(Elapsed)' = ms(Elapsed) /\ AheadMs' = AheadMs
                BY <2>2 DEF ms, AheadMs
            <4> QED
                BY <1>3, <3>r, <4>2, <4>3, Zenon
        <3>3. ASSUME NEW i \in 1..(N - 1), NoEndUpTo(i - 1)',
                     ~ Dodging(Told(i)'), stream'[i].age < MaxDelay
              PROVE  Reach' <= ms(ENEMY_TURN_PHASE_TICKS + stream'[i].age)
                                   + since_tick' + AheadMs
            <4>1. /\ i - 1 \in 0..(N - 1) /\ (i - 1) + 1 = i
                  /\ i + 1 \in 1..N /\ (i + 1) - 1 = i
                BY <1>2
            <4>2. NoEndUpTo(i)
                BY <3>1, <3>3, <4>1
            <4>3. ~ Dodging(Told(i + 1)) /\ stream[i + 1].age < MaxDelay
                BY <1>2, <3>3, <4>1
            <4>4. Reach <= ms(ENEMY_TURN_PHASE_TICKS + stream[i + 1].age)
                               + since_tick + AheadMs
                BY <1>1, <2>6, <4>1, <4>2, <4>3 DEF IInv, ClockBounded
            <4>5. stream'[i] = stream[i + 1]
                BY <1>2, <3>3
            <4> QED
                BY <1>3, <3>r, <4>4, <4>5, Zenon
        <3> QED
            BY <1>2, <3>2, <3>3 DEF ClockBounded, Dodging, ms, AheadMs
    <2>7. CASE ~ Dodging(known) /\ clock' \in 0..MaxEstimate
        <3>1. Reach' <= AheadMs /\ Reach' \in Nat
            <4>1. PICK c \in Nat : c = clock' /\ c <= MaxEstimate
                BY <1>n, <2>7
            <4>2. /\ ms(c) \in Nat /\ ms(MaxEstimate) \in Nat
                  /\ ms(c) <= ms(MaxEstimate)
                BY <1>n, <4>1, MsType, MsMonotone
            <4>3. Reach' = ms(c) + game_time_step_timer + FrameTime
                BY <1>3, <2>2, <4>1 DEF Reach, ms
            <4> QED
                BY <1>n, <2>1, <4>2, <4>3 DEF AheadMs
        <3>2. ASSUME NoEndUpTo(N - 1)'
              PROVE  (Reach + GAME_TIME_STEP_MS
                          <= ms(Elapsed) + since_tick + AheadMs)'
            <4>1. Dodging(LastTold)
                <5>1. Dodging(Told(N - 1)')
                    BY <1>2, <3>2 DEF NoEndUpTo, Dodging
                <5>2. Told(N - 1)' = Told(N)
                    BY <1>2
                <5> QED
                    BY <1>1, <5>1, <5>2 DEF LastTold
            <4>2. phase = "EnemyTurn" => remaining < ENEMY_TURN_PHASE_TICKS
                BY <4>1 DEF IInv, InOrder, TypeOK
            <4>3. Elapsed \in Nat /\ 1 <= Elapsed
                BY <4>2, Bounds DEF IInv, TypeOK, Elapsed
            <4>4. GAME_TIME_STEP_MS <= ms(Elapsed) /\ ms(Elapsed) \in Nat
                <5>1. ms(1) = GAME_TIME_STEP_MS
                    BY <1>n DEF ms
                <5> QED
                    BY <4>3, <5>1, MsMonotone, MsType
            <4>5. ms(Elapsed)' = ms(Elapsed) /\ AheadMs' = AheadMs
                BY <2>2 DEF ms, AheadMs
            <4>6. Reach' + GAME_TIME_STEP_MS
                      <= ms(Elapsed) + since_tick + AheadMs
                BY <1>n, <2>1, <3>1, <4>4
            <4> QED
                BY <1>3, <4>5, <4>6, Zenon
        <3>3. ASSUME NEW i \in 1..(N - 1)
              PROVE  Reach' <= ms(ENEMY_TURN_PHASE_TICKS + stream'[i].age)
                                   + since_tick' + AheadMs
            <4>1. ENEMY_TURN_PHASE_TICKS + stream'[i].age \in Nat
                BY <1>n, <2>5
            <4>2. ms(ENEMY_TURN_PHASE_TICKS + stream'[i].age) \in Nat
                BY <4>1, MsType
            <4> QED
                BY <1>3, <2>1, <3>1, <4>2
        <3> QED
            BY <1>2, <3>2, <3>3 DEF ClockBounded, ms, AheadMs
    <2>8. /\ Dodging(known) => clock' = clock
          /\ ~ Dodging(known) => clock' \in 0..MaxEstimate
        BY <1>5
    <2> QED
        BY <2>6, <2>7, <2>8
<1> QED
    BY <1>6, <1>7, <1>8, <1>9 DEF IInv

\* A frame that has heard what has arrived catches up with what it owes.
LEMMA FrameInv == ASSUME IInv, Frame PROVE IInv'
<1>1. /\ stream' = stream /\ known' = known /\ phase' = phase
      /\ remaining' = remaining /\ told' = told
      /\ \A i \in DOMAIN stream : stream[i].age # MaxDelay
    BY DEF Frame, server, Arrived
<1>n. /\ ENEMY_TURN_PHASE_TICKS \in Nat /\ MaxAhead \in Nat /\ MaxDelay \in Nat
      /\ MaxStall \in Nat /\ GAME_TIME_STEP_MS \in Nat \ {0}
      /\ MAX_TIME_BETWEEN_FRAMES \in Nat
    BY Bounds
<1>r. /\ Reach \in Nat /\ AheadMs \in Nat /\ clock \in Nat
      /\ ms(clock) \in Nat /\ since_tick \in 0..GAME_TIME_STEP_MS
      /\ game_time_step_timer \in 0..(GAME_TIME_STEP_MS - 1)
      /\ FrameTime \in 0..MAX_TIME_BETWEEN_FRAMES
    BY ReachType DEF IInv
\* The frame's time is split into ticks, which are run, and a rest.
<1>2. PICK d \in Nat, rest \in 0..(GAME_TIME_STEP_MS - 1) :
          /\ d = Due /\ rest = TimerAfter
          /\ game_time_step_timer + FrameTime = ms(d) + rest
    <2>1. game_time_step_timer + FrameTime \in Nat
        BY <1>n, <1>r
    <2> QED
        BY <2>1, MsSplit DEF Due, TimerAfter
<1>3. /\ since_last_frame' = 0 /\ game_time_step_timer' = rest
      /\ since_tick' = since_tick
    BY <1>2 DEF Frame
<1>4. FrameTime' = 0
    BY <1>3, <1>n DEF FrameTime, AtMost
<1>5. ms(clock + d) \in Nat /\ Reach = ms(clock + d) + rest
    <2>1. ms(clock + d) = ms(clock) + ms(d) /\ ms(d) \in Nat
        BY <1>2, <1>r, MsAdd, MsType
    <2>2. Reach = ms(clock) + (game_time_step_timer + FrameTime)
        BY <1>n, <1>r DEF Reach
    <2> QED
        BY <1>2, <1>n, <1>r, <2>1, <2>2
\* A bound of the time reached bounds the clock after the frame.
<1>e. ASSUME NEW e \in Nat,
             Reach + GAME_TIME_STEP_MS <= ms(e) + since_tick + AheadMs
      PROVE  clock + d <= e + MaxAhead
    <2>1. ms(clock + d) + GAME_TIME_STEP_MS <= ms(e) + since_tick + AheadMs
        BY <1>5, <1>n, <1>r, <1>e, MsType
    <2> QED
        BY <1>r, <2>1, AheadInTicks
<1>6. /\ Dodging(known) => clock' = clock + d
      /\ ~ Dodging(known) => clock' = clock
    BY <1>2 DEF Frame, RunTicks, Dodging
<1>7. Dodging(known) =>
          clock' \in 0..(ENEMY_TURN_PHASE_TICKS + MaxDelay + MaxAhead)
    <2> SUFFICES ASSUME Dodging(known)
                 PROVE  clock + d
                     \in 0..(ENEMY_TURN_PHASE_TICKS + MaxDelay + MaxAhead)
        BY <1>6
    <2>1. CASE NoEndUpTo(Len(stream))
        <3>1. PICK t \in Nat : t = Elapsed /\ t <= ENEMY_TURN_PHASE_TICKS
            BY ElapsedType DEF IInv
        <3>2. Reach + GAME_TIME_STEP_MS <= ms(t) + since_tick + AheadMs
            BY <2>1, <3>1 DEF IInv, ClockBounded
        <3>3. clock + d <= t + MaxAhead
            BY <3>1, <3>2, <1>e
        <3> QED
            BY <1>n, <1>r, <3>1, <3>3
    <2>2. CASE ~ NoEndUpTo(Len(stream))
        <3>1. PICK a \in Nat :
                  /\ a < MaxDelay
                  /\ Reach <= ms(ENEMY_TURN_PHASE_TICKS + a)
                                   + since_tick + AheadMs
            <4>1. PICK i \in 1..Len(stream) :
                      NoEndUpTo(i - 1) /\ ~ Dodging(Told(i))
                BY <2>2, FirstEnd DEF IInv
            <4>2. stream[i].age \in 0..MaxDelay /\ i \in DOMAIN stream
                BY <4>1, ToldType DEF IInv, TypeOK
            <4>3. stream[i].age < MaxDelay /\ stream[i].age \in Nat
                BY <1>1, <1>n, <4>2
            <4> QED
                BY <4>1, <4>3 DEF IInv, ClockBounded
        <3>2. PICK b \in Nat : b = ENEMY_TURN_PHASE_TICKS + a
            BY <1>n
        <3>3. ms(b + 1) = ms(b) + GAME_TIME_STEP_MS /\ ms(b) \in Nat
            BY MsNext, MsType
        <3>4. Reach + GAME_TIME_STEP_MS <= ms(b + 1) + since_tick + AheadMs
            BY <1>n, <1>r, <3>1, <3>2, <3>3
        <3>5. clock + d <= (b + 1) + MaxAhead
            BY <3>4, <1>e
        <3> QED
            BY <1>n, <1>r, <3>1, <3>2, <3>5
    <2> QED
        BY <2>1, <2>2
<1>8. PredictedOnSchedule'
    <2>1. CASE Dodging(known)
        <3>1. /\ spawned = get_current_bullet_count(clock)
              /\ spawned' = IF spawned < get_current_bullet_count(clock')
                            THEN get_current_bullet_count(clock') ELSE spawned
            BY <2>1 DEF IInv, PredictedOnSchedule, Frame, RunTicks, Dodging
        <3>2. clock' \in Nat /\ clock <= clock'
            BY <1>2, <1>r, <1>6, <2>1
        <3>3. get_current_bullet_count(clock) <= get_current_bullet_count(clock')
            BY <1>r, <3>2, CountMonotone
        <3>4. /\ get_current_bullet_count(clock) \in Nat
              /\ get_current_bullet_count(clock') \in Nat
            BY <1>r, <3>2, CountType, TicksType
        <3>5. spawned' = get_current_bullet_count(clock')
            BY <3>1, <3>3, <3>4
        <3> QED
            BY <1>1, <2>1, <3>5 DEF PredictedOnSchedule, Dodging
    <2>2. CASE ~ Dodging(known)
        BY <1>1, <2>2 DEF IInv, PredictedOnSchedule, Frame, Dodging
    <2> QED
        BY <2>1, <2>2
<1>9. TypeOK'
    <2>1. clock' \in 0..(ENEMY_TURN_PHASE_TICKS + MaxDelay + MaxAhead)
        BY <1>6, <1>7 DEF IInv, TypeOK
    <2>2. spawned' \in 0..AMOUNT_OF_PROJECTILES_IN_ENEMY_TURN_PHASE
        <3>1. clock' \in Nat
            BY <1>n, <2>1
        <3> QED
            BY <1>8, <3>1, CountType, TicksType DEF PredictedOnSchedule
    <2> QED
        BY <1>1, <1>3, <1>n, <2>1, <2>2 DEF IInv, TypeOK
<1>10. InOrder'
    BY <1>1 DEF IInv, InOrder, LastTold, Told, Dodging
<1>11. ClockBounded'
    <2>1. Dodging(known) => Reach' = Reach
        <3>1. Dodging(known) => ms(clock)' = ms(clock + d)
            BY <1>6 DEF ms
        <3>2. Reach' = ms(clock)' + rest + 0
            BY <1>3, <1>4 DEF Reach
        <3> QED
            BY <1>2, <1>5, <1>n, <3>1, <3>2
    <2>2. Elapsed' = Elapsed
        BY <1>1 DEF Elapsed
    <2>3. ASSUME NEW i \in Nat
          PROVE  Told(i)' = Told(i) /\ NoEndUpTo(i)' = NoEndUpTo(i)
        BY <1>1 DEF Told, NoEndUpTo, Dodging
    <2> SUFFICES ASSUME Dodging(known)
                 PROVE  ClockBounded'
        BY <1>1 DEF ClockBounded, Dodging
    <2>4. ASSUME NoEndUpTo(Len(stream))'
          PROVE  (Reach + GAME_TIME_STEP_MS <= ms(Elapsed) + since_tick + AheadMs)'
        <3>1. NoEndUpTo(Len(stream))
            BY <1>1, <2>4 DEF NoEndUpTo, Told, Dodging
        <3>2. Reach + GAME_TIME_STEP_MS <= ms(Elapsed) + since_tick + AheadMs
            BY <3>1 DEF IInv, ClockBounded
        <3>3. ms(Elapsed)' = ms(Elapsed) /\ AheadMs' = AheadMs
            BY <2>2 DEF ms, AheadMs
        <3> QED
            BY <1>3, <2>1, <3>2, <3>3, Zenon
    <2>5. ASSUME NEW i \in 1..Len(stream), NoEndUpTo(i - 1)',
                 ~ Dodging(Told(i)'), stream[i].age < MaxDelay
          PROVE  Reach' <= ms(ENEMY_TURN_PHASE_TICKS + stream[i].age)
                               + since_tick' + AheadMs
        <3>1. NoEndUpTo(i - 1) /\ ~ Dodging(Told(i))
            BY <2>3, <2>5
        <3>2. Reach <= ms(ENEMY_TURN_PHASE_TICKS + stream[i].age)
                           + since_tick + AheadMs
            BY <2>5, <3>1 DEF IInv, ClockBounded
        <3> QED
            BY <1>3, <2>1, <3>2, Zenon
    <2> QED
        BY <1>1, <2>4, <2>5 DEF ClockBounded, Dodging, ms, AheadMs
<1> QED
    BY <1>8, <1>9, <1>10, <1>11 DEF IInv

LEMMA Inductive == IInv /\ [Next]_vars => IInv'
BY PassInv, ChoicesMadeInv, NewRoundInv, TickInv, HearInv, FrameInv, StutterInv DEF Next

THEOREM IInvInvariant == Spec => []IInv
BY InitInv, Inductive, PTL DEF Spec

-----------------------------------------------------------------------------
(***************************************************************************)
(* What the player may rely on.                                            *)
(***************************************************************************)

\* Types, and the bound on the client's clock: it runs over the end of a
\* segment by no more than the delay and what it is ahead.
THEOREM TypeCorrect == Spec => []TypeOK
BY IInvInvariant, PTL DEF IInv

\* The bullets shown are those of the client's clock, whatever it heard late
\* (the GameState arm of the client's message loop).
THEOREM PredictionExact == Spec => []PredictedOnSchedule
BY IInvInvariant, PTL DEF IInv

\* As long as what a client adds to its clock is no more than the interval of
\* two bullets (15 ticks in the code), it is at most one bullet ahead.
THEOREM NeverTwoAhead ==
    ASSUME MaxAhead <= PROJECTILE_SPAWN_INTERVAL_TICKS
    PROVE  Spec => []AtMostOneAhead
<1>1. IInv => AtMostOneAhead
    <2> SUFFICES ASSUME IInv, SameSegment
                 PROVE  spawned <= 1 + get_current_bullet_count(
                                           ENEMY_TURN_PHASE_TICKS - remaining)
        BY DEF AtMostOneAhead
    <2> DEFINE e == ENEMY_TURN_PHASE_TICKS - remaining
    <2>n. /\ MaxAhead \in Nat /\ PROJECTILE_SPAWN_INTERVAL_TICKS \in Nat
          /\ GAME_TIME_STEP_MS \in Nat
        BY Bounds, TicksType
    <2>1. e \in Nat /\ Elapsed = e
        BY Bounds DEF IInv, TypeOK, SameSegment, Elapsed
    <2>2. NoEndUpTo(Len(stream))
        <3>1. ASSUME NEW i \in 0..Len(stream)
              PROVE  Dodging(Told(i))
            <4>1. Len(stream) \in Nat /\ DOMAIN stream = 1..Len(stream)
                BY DEF IInv, TypeOK
            <4> QED
                BY <4>1 DEF SameSegment, Told, Dodging
        <3> QED
            BY <3>1 DEF NoEndUpTo
    <2>3. clock <= e + MaxAhead
        <3>1. Reach + GAME_TIME_STEP_MS <= ms(e) + since_tick + AheadMs
            BY <2>1, <2>2 DEF IInv, ClockBounded, SameSegment, Dodging
        <3>2. /\ clock \in Nat /\ ms(clock) \in Nat /\ ms(clock) <= Reach
              /\ Reach \in Nat /\ since_tick \in 0..GAME_TIME_STEP_MS
              /\ AheadMs \in Nat
            BY ReachType DEF IInv
        <3> HIDE DEF e
        <3>3. ms(clock) + GAME_TIME_STEP_MS <= ms(e) + since_tick + AheadMs
            BY <2>1, <2>n, <3>1, <3>2, MsType
        <3> QED
            BY <2>1, <3>2, <3>3, AheadInTicks
    <2>4. clock \in Nat
        BY Bounds DEF IInv, TypeOK
    <2> HIDE DEF e
    <2>5. clock <= e + PROJECTILE_SPAWN_INTERVAL_TICKS
        BY <2>1, <2>3, <2>4, <2>n
    <2>6. get_current_bullet_count(clock)
              <= get_current_bullet_count(e + PROJECTILE_SPAWN_INTERVAL_TICKS)
        <3>1. e + PROJECTILE_SPAWN_INTERVAL_TICKS \in Nat
            BY <2>1, <2>n
        <3> QED
            BY <2>4, <2>5, <3>1, CountMonotone
    <2>7. get_current_bullet_count(e + PROJECTILE_SPAWN_INTERVAL_TICKS)
              <= get_current_bullet_count(e) + 1
        BY <2>1, CountOneInterval
    <2>8. spawned = get_current_bullet_count(clock)
        BY DEF IInv, PredictedOnSchedule, SameSegment
    <2>9. /\ get_current_bullet_count(clock) \in Nat
          /\ get_current_bullet_count(e) \in Nat
          /\ get_current_bullet_count(e + PROJECTILE_SPAWN_INTERVAL_TICKS) \in Nat
        BY <2>1, <2>4, <2>n, CountType, TicksType
    <2>10. spawned <= 1 + get_current_bullet_count(e)
        BY <2>6, <2>7, <2>8, <2>9
    <2> QED
        BY <2>10 DEF e
<1> QED
    BY <1>1, IInvInvariant, PTL

\* As long as the schedule has no bullet in the ticks by which the clock can
\* run over the end of a segment, the client shows none the server does not
\* shoot.
THEOREM NoPhantoms ==
    ASSUME get_current_bullet_count(ENEMY_TURN_PHASE_TICKS + MaxDelay + MaxAhead)
               = get_current_bullet_count(ENEMY_TURN_PHASE_TICKS)
    PROVE  Spec => []NoPhantomBullet
<1>1. IInv => NoPhantomBullet
    <2> SUFFICES ASSUME IInv
                 PROVE  NoPhantomBullet
        OBVIOUS
    <2> DEFINE last == ENEMY_TURN_PHASE_TICKS + MaxDelay + MaxAhead
    <2>1. clock \in Nat /\ last \in Nat /\ clock <= last
        BY Bounds DEF IInv, TypeOK
    <2> HIDE DEF last
    <2>2. get_current_bullet_count(clock) <= get_current_bullet_count(last)
        BY <2>1, CountMonotone
    <2>3. get_current_bullet_count(last)
              = get_current_bullet_count(ENEMY_TURN_PHASE_TICKS)
        BY DEF last
    <2>4. /\ get_current_bullet_count(last) \in Nat
          /\ get_current_bullet_count(ENEMY_TURN_PHASE_TICKS) \in Nat
        BY <2>1, <2>3, CountType, TicksType
    <2>5. spawned = get_current_bullet_count(clock) \/ spawned = 0
        BY DEF IInv, PredictedOnSchedule
    <2> QED
        BY <2>2, <2>3, <2>4, <2>5 DEF NoPhantomBullet
<1> QED
    BY <1>1, IInvInvariant, PTL
=============================================================================
