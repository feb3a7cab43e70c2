------------------------ MODULE BulletScheduleProofs ------------------------
(***************************************************************************)
(* Arithmetic of the bullet schedule, for any lengths: what server and     *)
(* client rely on when each evaluates it on a clock of its own.            *)
(***************************************************************************)
EXTENDS BulletSchedule, WellFoundedInduction, TLAPS

\* A non-empty set of ticks or sequence numbers has a least one.
LEMMA LeastExists ==
    ASSUME NEW S \in SUBSET Nat, S # {}
    PROVE  \E q \in S : \A r \in S : q <= r
<1> DEFINE Less == OpToRel(<, Nat)
<1>1. IsWellFoundedOn(Less, Nat)
  BY NatLessThanWellFounded, Zenon
<1>2. \A r, q \in Nat : r < q => <<r, q>> \in Less
  BY Zenon DEF OpToRel
<1> HIDE DEF Less
<1>3. PICK q \in S : \A r \in S : ~ (<<r, q>> \in Less)
  BY <1>1, WFMin, Zenon
<1>4. ASSUME NEW r \in S
      PROVE  q <= r
  <2>1. r \in Nat /\ q \in Nat
    OBVIOUS
  <2>2. ~ (r < q)
    BY <1>2, <1>3, <2>1, Zenon
  <2> QED
    BY <2>1, <2>2
<1> QED
  BY <1>4

\* Integer division by a tick length yields a number of ticks.
LEMMA DivType ==
    ASSUME NEW a \in Nat, NEW d \in Nat \ {0}
    PROVE  a \div d \in Nat
  BY SMT

\* More time never means fewer intervals.
LEMMA DivMonotone ==
    ASSUME NEW a \in Nat, NEW b \in Nat, NEW d \in Nat \ {0}, a <= b
    PROVE  a \div d <= b \div d
  BY SMT

\* The tick constants of shared/src/game.rs are natural numbers, and the two
\* that divide or delay are positive.
LEMMA TicksType ==
    /\ ENEMY_TURN_PHASE_TICKS \in Nat
    /\ PROJECTILE_SPAWN_INTERVAL_TICKS \in Nat \ {0}
    /\ PATTERN_START_LEAD_TICKS \in Nat \ {0}
    /\ AMOUNT_OF_PROJECTILES_IN_ENEMY_TURN_PHASE \in Nat
<1>1. /\ ENEMY_TURN_PHASE_TICKS \in Nat
      /\ PROJECTILE_SPAWN_INTERVAL_TICKS \in Nat \ {0}
      /\ PATTERN_START_LEAD_TICKS \in Nat \ {0}
  BY DivType, ScheduleAssumption
     DEF ENEMY_TURN_PHASE_TICKS, PROJECTILE_SPAWN_INTERVAL_TICKS,
         PATTERN_START_LEAD_TICKS
<1>2. AMOUNT_OF_PROJECTILES_IN_ENEMY_TURN_PHASE \in Nat
  BY <1>1, DivType DEF AMOUNT_OF_PROJECTILES_IN_ENEMY_TURN_PHASE
<1> QED
  BY <1>1, <1>2

\* No bullet is due when the segment begins.
LEMMA CountAtStart == get_current_bullet_count(0) = 0
  BY TicksType DEF get_current_bullet_count

\* The pattern never has more bullets than its length.
LEMMA CountType ==
    ASSUME NEW e \in Nat
    PROVE  get_current_bullet_count(e)
               \in 0..AMOUNT_OF_PROJECTILES_IN_ENEMY_TURN_PHASE
<1> DEFINE k == (e - PATTERN_START_LEAD_TICKS)
                    \div PROJECTILE_SPAWN_INTERVAL_TICKS
<1>1. CASE e < PATTERN_START_LEAD_TICKS
  BY <1>1, TicksType DEF get_current_bullet_count
<1>2. CASE ~ (e < PATTERN_START_LEAD_TICKS)
  <2>1. k \in Nat
    BY <1>2, TicksType, DivType
  <2>2. get_current_bullet_count(e) =
            AtMost(k + 1, AMOUNT_OF_PROJECTILES_IN_ENEMY_TURN_PHASE)
    BY <1>2 DEF get_current_bullet_count
  <2> QED
    BY <2>1, <2>2, TicksType DEF AtMost
<1> QED
  BY <1>1, <1>2

\* Bullets are only ever added as the segment goes on.
LEMMA CountMonotone ==
    ASSUME NEW e \in Nat, NEW f \in Nat, e <= f
    PROVE  get_current_bullet_count(e) <= get_current_bullet_count(f)
<1> DEFINE k(n) == (n - PATTERN_START_LEAD_TICKS)
                       \div PROJECTILE_SPAWN_INTERVAL_TICKS
<1>1. CASE e < PATTERN_START_LEAD_TICKS
  <2>1. get_current_bullet_count(e) = 0
    BY <1>1 DEF get_current_bullet_count
  <2> QED
    BY <2>1, CountType, TicksType
<1>2. CASE ~ (e < PATTERN_START_LEAD_TICKS)
  <2>1. /\ e - PATTERN_START_LEAD_TICKS \in Nat
        /\ f - PATTERN_START_LEAD_TICKS \in Nat
        /\ e - PATTERN_START_LEAD_TICKS <= f - PATTERN_START_LEAD_TICKS
        /\ ~ (f < PATTERN_START_LEAD_TICKS)
    BY <1>2, TicksType
  <2>2. k(e) \in Nat /\ k(f) \in Nat /\ k(e) <= k(f)
    BY <2>1, DivType, DivMonotone, TicksType
  <2>3. /\ get_current_bullet_count(e) =
               AtMost(k(e) + 1, AMOUNT_OF_PROJECTILES_IN_ENEMY_TURN_PHASE)
        /\ get_current_bullet_count(f) =
               AtMost(k(f) + 1, AMOUNT_OF_PROJECTILES_IN_ENEMY_TURN_PHASE)
    BY <1>2, <2>1 DEF get_current_bullet_count
  <2> HIDE DEF k
  <2> QED
    BY <2>2, <2>3, TicksType DEF AtMost
<1> QED
  BY <1>1, <1>2

\* One interval later there is at most one bullet more.
LEMMA CountOneInterval ==
    ASSUME NEW e \in Nat
    PROVE  get_current_bullet_count(e + PROJECTILE_SPAWN_INTERVAL_TICKS)
               <= get_current_bullet_count(e) + 1
<1> DEFINE I == PROJECTILE_SPAWN_INTERVAL_TICKS
           L == PATTERN_START_LEAD_TICKS
           A == AMOUNT_OF_PROJECTILES_IN_ENEMY_TURN_PHASE
<1> SUFFICES get_current_bullet_count(e + I)
                 <= get_current_bullet_count(e) + 1
  OBVIOUS
<1>n. I \in Nat \ {0} /\ L \in Nat /\ A \in Nat
  BY TicksType
<1>1. CASE e + I < L
  <2>1. get_current_bullet_count(e + I) = 0
    BY <1>1 DEF get_current_bullet_count
  <2> QED
    BY <2>1, CountType, <1>n
<1>2. CASE ~ (e + I < L)
  <2> DEFINE x == (e + I) - L
  <2>1. x \in Nat
    BY <1>2, <1>n
  <2>2. get_current_bullet_count(e + I) = AtMost(x \div I + 1, A)
    BY <1>2 DEF get_current_bullet_count
  <2>3. CASE e < L
    <3>1. x \div I = 0
      <4>1. x < I
        BY <2>3, <1>n
      <4> HIDE DEF I, x
      <4> QED
        BY <4>1, <2>1, <1>n
    <3>2. get_current_bullet_count(e) = 0
      BY <2>3 DEF get_current_bullet_count
    <3> HIDE DEF I, L, x, A
    <3> QED
      BY <2>2, <3>1, <3>2, <1>n DEF AtMost
  <2>4. CASE ~ (e < L)
    <3> DEFINE y == e - L
    <3>1. y \in Nat /\ x = y + I
      BY <2>4, <1>n
    <3>2. get_current_bullet_count(e) = AtMost(y \div I + 1, A)
      BY <2>4 DEF get_current_bullet_count
    <3> HIDE DEF I, L, x, y, A
    <3>3. (y + I) \div I = y \div I + 1
      BY <3>1, <1>n
    <3>4. y \div I \in Nat
      BY <3>1, <1>n, DivType
    <3> QED
      BY <2>2, <3>1, <3>2, <3>3, <3>4, <1>n DEF AtMost
  <2> QED
    BY <2>3, <2>4
<1> QED
  BY <1>1, <1>2
=============================================================================
