--------------------------- MODULE MoveSyncProofs ---------------------------
(***************************************************************************)
(* Proofs about module MoveSync, for every number of inputs, ticks, rounds *)
(* and datagrams under way.                                                *)
(***************************************************************************)
EXTENDS MoveSync, TLAPS, FiniteSetTheorems, SequenceTheorems,
        WellFoundedInduction

-----------------------------------------------------------------------------
(***************************************************************************)
(* The inductive invariant.                                                *)
(***************************************************************************)
TypeInv ==
    /\ TypeOK
    /\ uplink \in Seq(SUBSET Seqs)
    /\ mailbox \in Seq(Seqs)
    /\ running_news <= round

\* Everything under way, and everything acknowledged, has been issued.
AllIssued ==
    /\ current_input_sequence <= issued
    /\ \A q \in pending_inputs : q < current_input_sequence
    /\ \A i \in 1..Len(uplink) : \A q \in uplink[i] : q < issued
    /\ \A i \in 1..Len(mailbox) : mailbox[i] < issued
    /\ \A snapshot \in downlink : snapshot.ack = 0 \/ snapshot.ack < issued
    /\ AckWasIssued

\* What is queued has not been acknowledged, and in the first round no
\* snapshot is ahead of the server.
Acknowledged ==
    /\ \A q \in queued : q > ack
    /\ round = 0 => \A snapshot \in downlink : snapshot.ack <= ack

\* The inputs that the server has, or will have once it has read its mailbox
\* up to the i-th message, or also received the first i datagrams.
HasBy(i) == queued \cup {q \in Seqs : \E j \in 1..i : mailbox[j] = q}
GetsBy(i) == HasBy(Len(mailbox))
                 \cup {q \in Seqs : \E j \in 1..i : q \in uplink[j]}

\* No gaps: whatever comes, all inputs between the acknowledgement and it are
\* there before it; and all but the last few, those lost in a row, are coming.
NoGaps ==
    WellBehaved =>
        /\ round = 0
        /\ \A q \in queued : (ack + 1)..(q - 1) \subseteq queued
        /\ \A i \in 1..Len(mailbox) :
               (ack + 1)..(mailbox[i] - 1) \subseteq HasBy(i - 1)
        /\ \A i \in 1..Len(uplink) : \A q \in uplink[i] :
               (ack + 1)..(q - 1) \subseteq GetsBy(i)
        /\ (ack + 1)..(current_input_sequence - losses - 1)
               \subseteq GetsBy(Len(uplink))

IInv ==
    /\ TypeInv
    /\ AllIssued
    /\ Acknowledged
    /\ BufferCoversUnapplied
    /\ NoGaps

-----------------------------------------------------------------------------
(***************************************************************************)
(* Smallest and largest numbers, counting, and sequences.                  *)
(***************************************************************************)
LEMMA SmallestExists ==
    ASSUME NEW T \in SUBSET Nat, T # {}
    PROVE  \E x \in T : \A y \in T : x <= y
<1> DEFINE R == OpToRel(<, Nat)
<1>1. IsWellFoundedOn(R, Nat)
    BY NatLessThanWellFounded
<1>2. \A y, x \in T : <<y, x>> \in R <=> y < x
    BY DEF OpToRel
<1> HIDE DEF R
<1>3. PICK x \in T : \A y \in T : ~ (<<y, x>> \in R)
    BY <1>1, WFMin
<1>4. \A y \in T : ~ (y < x)
    BY <1>2, <1>3, Zenon
<1>5. x \in Nat /\ \A y \in T : y \in Nat
    OBVIOUS
<1> QED
    BY <1>4, <1>5

LEMMA MinFacts ==
    ASSUME NEW T \in SUBSET Nat, T # {}
    PROVE  Min(T) \in T /\ \A y \in T : Min(T) <= y
BY SmallestExists DEF Min

LEMMA MaxOfTwo ==
    ASSUME NEW a \in Nat, NEW b \in Nat
    PROVE  Max({a, b}) = IF a <= b THEN b ELSE a
BY DEF Max

LEMMA MinOfTwo ==
    ASSUME NEW a \in Nat, NEW b \in Nat
    PROVE  Min({a, b}) = IF a <= b THEN a ELSE b
BY DEF Min

LEMMA BetweenIsFinite ==
    ASSUME NEW a \in Nat, NEW b \in Nat, NEW T \in SUBSET ((a + 1)..b), a <= b
    PROVE  IsFiniteSet(T) /\ Cardinality(T) \in Nat /\ Cardinality(T) <= b - a
<1> DEFINE I == (a + 1)..b
<1>1. a + 1 \in Int /\ b \in Int
    OBVIOUS
<1>2. /\ IsFiniteSet(I)
      /\ Cardinality(I) = IF a + 1 > b THEN 0 ELSE b - (a + 1) + 1
    BY <1>1, FS_Interval
<1>3. Cardinality(I) = b - a
    BY <1>2
<1>4. IsFiniteSet(T) /\ Cardinality(T) <= Cardinality(I)
    BY <1>2, FS_Subset
<1> QED
    BY <1>3, <1>4, FS_CardinalityType

LEMMA SeqsFinite ==
    ASSUME NEW S \in SUBSET Seqs
    PROVE  S \subseteq Nat /\ IsFiniteSet(S) /\ Cardinality(S) \in Nat
<1>1. MaxSeq \in Nat
    BY SyncAssumption DEF SyncAssumption
<1>2. IsFiniteSet(0..MaxSeq)
    BY <1>1, FS_Interval
<1>3. S \in SUBSET (0..MaxSeq)
    BY DEF Seqs
<1>4. IsFiniteSet(S)
    BY <1>2, <1>3, FS_Subset
<1> QED
    BY <1>1, <1>3, <1>4, FS_CardinalityType

LEMMA LaterInputs ==
    ASSUME NEW a \in Nat, NEW b \in Nat, a <= b
    PROVE  \A n \in Int : \A r \in (b + 1)..n : r \in (a + 1)..n /\ r # b
OBVIOUS

LEMMA NewestSize ==
    ASSUME NEW S \in SUBSET Seqs, NEW n \in Nat
    PROVE  /\ NewestOf(S, n) \subseteq S
           /\ Cardinality(NewestOf(S, n)) <= n
<1> DEFINE N == NewestOf(S, n)
<1>1. N \subseteq S
    BY DEF NewestOf
<1>2. IsFiniteSet(S) /\ S \subseteq Nat
    BY SeqsFinite
<1>3. IsFiniteSet(N) /\ Cardinality(N) \in Nat
    BY <1>1, <1>2, FS_Subset, FS_CardinalityType
<1>4. CASE N = {}
    BY <1>4, FS_EmptySet
<1>5. CASE N # {}
    <2>1. PICK q \in N : \A r \in N : q <= r
        BY <1>1, <1>2, <1>5, SmallestExists
    <2> DEFINE Larger == {r \in S : r > q}
    <2>2. \A r \in N \ {q} : r \in Larger
        <3> HIDE DEF N
        <3> QED
            BY <1>1, <1>2, <2>1
    <2>3. Cardinality(Larger) < n
        BY <2>1 DEF NewestOf
    <2>4. IsFiniteSet(Larger) /\ Cardinality(Larger) \in Nat
        BY <1>2, FS_Subset, FS_CardinalityType
    <2>5. Cardinality(N \ {q}) <= Cardinality(Larger)
        <3> HIDE DEF N, Larger
        <3> QED
            BY <2>2, <2>4, FS_Subset
    <2>6. Cardinality(N \ {q}) = Cardinality(N) - 1
        <3> HIDE DEF N
        <3> QED
            BY <1>3, <2>1, FS_RemoveElement
    <2>7. Cardinality(N) <= n
        <3> HIDE DEF N, Larger
        <3> QED
            BY <1>3, <2>3, <2>4, <2>5, <2>6
    <2> QED
        BY <1>1, <2>7
<1> QED
    BY <1>1, <1>4, <1>5

\* An element is among the n newest if no more than n of S are not older.
LEMMA NewestHas ==
    ASSUME NEW S \in SUBSET Nat, NEW n \in Nat, NEW top \in Nat,
           \A r \in S : r < top,
           NEW q \in S, q + n >= top
    PROVE  q \in NewestOf(S, n)
<1> DEFINE Larger == {r \in S : r > q}
<1>1. q \in Nat /\ top - 1 \in Nat /\ q <= top - 1
    OBVIOUS
<1>2. \A r \in Larger : r \in (q + 1)..(top - 1)
    OBVIOUS
<1>3. Cardinality(Larger) \in Nat /\ Cardinality(Larger) <= (top - 1) - q
    <2> HIDE DEF Larger
    <2> QED
        BY <1>1, <1>2, BetweenIsFinite
<1> QED
    BY <1>1, <1>3 DEF NewestOf

LEMMA RemoveAtFacts ==
    ASSUME NEW S, NEW s \in Seq(S), NEW i \in 1..Len(s)
    PROVE  /\ RemoveAt(s, i) \in Seq(S)
           /\ Len(RemoveAt(s, i)) = Len(s) - 1
           /\ \A j \in 1..(Len(s) - 1) :
                  RemoveAt(s, i)[j] = IF j < i THEN s[j] ELSE s[j + 1]
<1> DEFINE before == SubSeq(s, 1, i - 1)
           after == SubSeq(s, i + 1, Len(s))
<1>1. Len(s) \in Nat /\ i \in Nat /\ 1 <= i /\ i <= Len(s)
    OBVIOUS
<1>2. /\ before \in Seq(S) /\ Len(before) = i - 1
      /\ \A j \in 1..(i - 1) : before[j] = s[j]
    BY <1>1, SubSeqProperties
<1>3. /\ after \in Seq(S) /\ Len(after) = Len(s) - i
      /\ \A j \in 1..(Len(s) - i) : after[j] = s[i + j]
    BY <1>1, SubSeqProperties
<1>4. RemoveAt(s, i) = before \o after
    BY DEF RemoveAt
<1> HIDE DEF before, after
<1>5. /\ before \o after \in Seq(S)
      /\ Len(before \o after) = Len(s) - 1
      /\ \A j \in 1..(Len(s) - 1) :
             (before \o after)[j] =
                 IF j <= i - 1 THEN before[j] ELSE after[j - (i - 1)]
    <2>1. Len(before) + Len(after) = Len(s) - 1
        BY <1>1, <1>2, <1>3
    <2>2. /\ before \o after \in Seq(S)
          /\ Len(before \o after) = Len(before) + Len(after)
          /\ \A j \in 1..(Len(before) + Len(after)) :
                 (before \o after)[j] =
                     IF j <= Len(before) THEN before[j]
                                         ELSE after[j - Len(before)]
        BY <1>2, <1>3, ConcatProperties
    <2> QED
        BY <1>2, <2>1, <2>2
<1>6. ASSUME NEW j \in 1..(Len(s) - 1)
      PROVE  (before \o after)[j] = IF j < i THEN s[j] ELSE s[j + 1]
    <2>1. CASE j < i
        BY <1>1, <1>2, <1>5, <2>1
    <2>2. CASE j >= i
        <3>1. j - (i - 1) \in 1..(Len(s) - i) /\ i + (j - (i - 1)) = j + 1
            BY <1>1, <2>2
        <3>2. after[j - (i - 1)] = s[j + 1]
            BY <1>3, <3>1
        <3>3. (before \o after)[j] = after[j - (i - 1)]
            BY <1>1, <1>5, <2>2
        <3> QED
            BY <1>1, <2>2, <3>2, <3>3
    <2>3. j < i \/ j >= i
        BY <1>1
    <2> QED
        BY <2>1, <2>2, <2>3
<1> QED
    BY <1>4, <1>5, <1>6

LEMMA OldestFirstFacts ==
    ASSUME NEW S \in SUBSET Seqs, NEW s \in OldestFirst(S)
    PROVE  /\ s \in Seq(Seqs) /\ Len(s) \in Nat
           /\ \A i \in 1..Len(s) : s[i] \in S
           /\ \A q \in S : \E i \in 1..Len(s) : s[i] = q
           /\ \A i, j \in 1..Len(s) : i < j => s[i] < s[j]
<1>1. Cardinality(S) \in Nat
    BY SeqsFinite
<1>2. s \in [1..Cardinality(S) -> S]
    BY DEF OldestFirst
<1>3. s \in Seq(Seqs) /\ Len(s) = Cardinality(S)
    BY <1>1, <1>2
<1> QED
    BY <1>1, <1>2, <1>3 DEF OldestFirst, Range

LEMMA Bounds ==
    /\ {MaxSeq, MaxTick, MaxRound, MaxInFlight} \subseteq Nat
    /\ MAX_INPUTS_TO_SEND \in Nat /\ MAX_INPUTS_TO_SEND >= 1
    /\ MAX_PENDING_INPUTS \in Nat /\ MAX_PENDING_INPUTS >= 1
    /\ MAX_INPUTS_TO_SEND <= MAX_PENDING_INPUTS + 1
BY SyncAssumption, BundleAssumption DEF SyncAssumption, BundleAssumption

\* The type invariant in the form the steps below use it.
LEMMA Types ==
    ASSUME TypeInv
    PROVE  /\ Seqs \subseteq Nat /\ 0 \in Seqs
           /\ ack \in Nat /\ current_input_sequence \in Nat /\ issued \in Nat
           /\ round \in Nat /\ tick \in Nat /\ losses \in Nat
           /\ running_news \in Nat /\ running_news <= round
           /\ Len(uplink) \in Nat /\ Len(mailbox) \in Nat
           /\ \A i \in 1..Len(uplink) :
                  /\ uplink[i] \subseteq Seqs
                  /\ Cardinality(uplink[i]) <= MAX_INPUTS_TO_SEND
           /\ \A i \in 1..Len(mailbox) : mailbox[i] \in Seqs
           /\ queued \subseteq Nat /\ pending_inputs \subseteq Nat
           /\ \A snapshot \in downlink : snapshot \in Snapshots
<1>1. Seqs \subseteq Nat /\ 0 \in Seqs
    BY Bounds DEF Seqs
<1>2. /\ round \in Nat /\ tick \in Nat /\ losses \in Nat
      /\ running_news \in Nat /\ running_news <= round
    BY Bounds DEF TypeInv, TypeOK
<1>3. /\ ack \in Seqs /\ current_input_sequence \in Seqs /\ issued \in Seqs
      /\ queued \subseteq Seqs /\ pending_inputs \subseteq Seqs
      /\ \A snapshot \in downlink : snapshot \in Snapshots
    BY DEF TypeInv, TypeOK
<1>4. /\ Len(uplink) \in Nat /\ Len(mailbox) \in Nat
      /\ \A i \in 1..Len(uplink) :
             /\ uplink[i] \subseteq Seqs
             /\ Cardinality(uplink[i]) <= MAX_INPUTS_TO_SEND
      /\ \A i \in 1..Len(mailbox) : mailbox[i] \in Seqs
    BY DEF TypeInv, TypeOK
<1> QED
    BY <1>1, <1>2, <1>3, <1>4

-----------------------------------------------------------------------------
(***************************************************************************)
(* Every step preserves the invariant.                                     *)
(***************************************************************************)
LEMMA InitInv == Init => IInv
<1> SUFFICES ASSUME Init PROVE IInv
    OBVIOUS
<1> USE DEF Init
<1>1. TypeInv
    BY Bounds DEF TypeInv, TypeOK, Seqs, Snapshots, NoSnapshot
<1>2. AllIssued
    BY DEF AllIssued, AckWasIssued
<1>3. Acknowledged /\ BufferCoversUnapplied
    BY DEF Acknowledged, BufferCoversUnapplied
<1>4. NoGaps
    BY DEF NoGaps, HasBy, GetsBy
<1> QED
    BY <1>1, <1>2, <1>3, <1>4 DEF IInv

LEMMA StutterInv ==
    ASSUME IInv, UNCHANGED vars
    PROVE  IInv'
<1> USE DEF vars, client, server
<1>1. TypeInv'
    BY DEF IInv, TypeInv, TypeOK
<1>2. AllIssued' /\ Acknowledged' /\ BufferCoversUnapplied'
    BY DEF IInv, AllIssued, AckWasIssued, Acknowledged, BufferCoversUnapplied
<1>3. NoGaps'
    BY DEF IInv, NoGaps, HasBy, GetsBy, WellBehaved
<1> QED
    BY <1>1, <1>2, <1>3 DEF IInv

LEMMA NewRoundInv ==
    ASSUME IInv, NewRound
    PROVE  IInv'
<1> USE DEF NewRound, client
<1>0. TypeInv /\ AllIssued
    BY DEF IInv
<1>1. TypeInv'
    <2>1. /\ round' \in 0..MaxRound /\ tick' \in 0..MaxTick
          /\ ack' \in Seqs /\ queued' \subseteq Seqs
          /\ losses' \in 0..MAX_INPUTS_TO_SEND
        BY <1>0, Types, Bounds DEF TypeInv, TypeOK
    <2>2. running_news' \in 0..MaxRound /\ running_news' <= round'
        BY <1>0, Types, Bounds DEF TypeInv, TypeOK
    <2> QED
        BY <1>0, <2>1, <2>2 DEF TypeInv, TypeOK
<1>2. AllIssued'
    BY <1>0 DEF AllIssued, AckWasIssued
<1>3. round' # 0 /\ ~ WellBehaved'
    <2>1. round \in Nat /\ round' = round + 1 /\ losses' = MAX_INPUTS_TO_SEND
        BY <1>0, Types
    <2> QED
        BY <2>1, Bounds DEF WellBehaved
<1> QED
    BY <1>1, <1>2, <1>3
       DEF IInv, Acknowledged, BufferCoversUnapplied, NoGaps

LEMMA HearRunningInv ==
    ASSUME IInv, HearRunning
    PROVE  IInv'
<1> USE DEF HearRunning, server
<1>0. TypeInv /\ AllIssued /\ Acknowledged /\ NoGaps
    BY DEF IInv
<1>1. TypeInv'
    <2>1. /\ NoSnapshot \in Snapshots
          /\ running_news' \in 0..MaxRound /\ running_news' <= round'
        BY <1>0, Types, Bounds
           DEF TypeInv, TypeOK, Snapshots, NoSnapshot
    <2> QED
        BY <1>0, <2>1, Types DEF TypeInv, TypeOK
<1>2. AllIssued'
    BY <1>0, Types DEF AllIssued, AckWasIssued
\* The news of a new round is never early: there has been one.
<1>3. round # 0
    BY <1>0, Types
<1>4. ~ WellBehaved'
    BY <1>0, <1>3 DEF NoGaps, WellBehaved
<1> QED
    BY <1>0, <1>1, <1>2, <1>3, <1>4
       DEF IInv, Acknowledged, BufferCoversUnapplied, NoGaps

LEMMA ReceiveSnapshotInv ==
    ASSUME IInv, NEW snapshot \in downlink, ReceiveSnapshot(snapshot)
    PROVE  IInv'
<1> USE DEF ReceiveSnapshot, server
<1>0. TypeInv /\ AllIssued /\ Acknowledged /\ BufferCoversUnapplied /\ NoGaps
    BY DEF IInv
<1> DEFINE kept == {q \in pending_inputs : q > snapshot.ack}
<1>1. /\ pending_inputs' \subseteq pending_inputs
      /\ UNCHANGED current_input_sequence
      /\ last_acknowledged_sequence' \in
             {last_acknowledged_sequence, snapshot.ack}
    BY DEF prune_acknowledged_inputs, NewestOf, client
<1>2. TypeInv'
    BY <1>0, <1>1 DEF TypeInv, TypeOK, client, Snapshots
<1>3. AllIssued'
    BY <1>0, <1>1 DEF AllIssued, AckWasIssued
<1>4. Acknowledged'
    BY <1>0 DEF Acknowledged
\* What the server has not got to is newer than the snapshot, and new enough
\* to survive the cut.
<1>5. BufferCoversUnapplied'
    <2> SUFFICES ASSUME round' = 0,
                        NEW q \in 1..(current_input_sequence' - 1),
                        q > ack', q + MAX_PENDING_INPUTS >=
                                      current_input_sequence'
                 PROVE  q \in pending_inputs'
        BY DEF BufferCoversUnapplied
    <2>1. q \in pending_inputs /\ q \in Nat
        BY <1>0, <1>1 DEF BufferCoversUnapplied
    <2>2. CASE Outdated(snapshot)
        BY <2>1, <2>2 DEF client
    <2>3. CASE ~ Outdated(snapshot)
        <3>1. q > snapshot.ack
            BY <1>0, Types DEF Acknowledged, Snapshots
        <3>2. kept \in SUBSET Nat /\ q \in kept
            BY <1>0, <2>1, <3>1, Types
        <3>3. \A r \in kept : r < current_input_sequence
            BY <1>0 DEF AllIssued
        <3>4. q \in NewestOf(kept, MAX_PENDING_INPUTS)
            <4> HIDE DEF kept
            <4> QED
                BY <1>0, <1>1, <3>2, <3>3, Types, Bounds, NewestHas
        <3> QED
            BY <2>3, <3>4 DEF prune_acknowledged_inputs
    <2> QED
        BY <2>2, <2>3
<1>6. NoGaps'
    BY <1>0, <1>1 DEF NoGaps, HasBy, GetsBy, WellBehaved
<1> QED
    BY <1>2, <1>3, <1>4, <1>5, <1>6 DEF IInv

LEMMA ClientTickInv ==
    ASSUME IInv, ClientTick
    PROVE  IInv'
<1> DEFINE cur == current_input_sequence
           bundle == InputsToSend(pending_inputs')
           Sent == uplink' = Append(uplink, bundle)
<1>0. TypeInv /\ AllIssued /\ Acknowledged /\ BufferCoversUnapplied /\ NoGaps
    BY DEF IInv
<1>n. /\ Len(uplink) \in Nat /\ Len(mailbox) \in Nat /\ cur \in Nat
      /\ ack \in Nat /\ losses \in Nat /\ issued \in Nat /\ Seqs \subseteq Nat
    BY <1>0, Types
<1>1. /\ cur < MaxSeq /\ cur' = cur + 1 /\ Len(uplink) < MaxInFlight
      /\ pending_inputs' = pending_inputs \cup {cur}
      /\ UNCHANGED <<last_acknowledged_sequence, latest_remote_snapshot,
                     server, mailbox, downlink, running_news>>
      /\ issued' = Max({issued, cur'})
    BY DEF ClientTick
<1>2. \/ Sent /\ losses' = IF WellBehaved THEN 0 ELSE losses
      \/ /\ UNCHANGED uplink
         /\ losses' = Min({losses + 1, MAX_INPUTS_TO_SEND})
    BY DEF ClientTick
<1>3. /\ cur \in Nat /\ cur \in Seqs /\ cur' \in Nat /\ cur' \in Seqs
      /\ pending_inputs' \subseteq Seqs /\ pending_inputs' \subseteq Nat
      /\ \A q \in pending_inputs' : q < cur'
    <2>1. MaxSeq \in Nat /\ pending_inputs \subseteq Seqs
        BY <1>0, Bounds DEF TypeInv, TypeOK
    <2>2. \A q \in pending_inputs : q \in Nat /\ q < cur
        BY <1>0, <1>n, <2>1 DEF AllIssued
    <2> QED
        BY <1>1, <1>n, <2>1, <2>2 DEF Seqs
<1>4. /\ issued' \in Seqs /\ issued' \in Nat
      /\ cur' <= issued' /\ issued <= issued'
    <2>1. issued \in Seqs
        BY <1>0 DEF TypeInv, TypeOK
    <2>2. issued' = IF issued <= cur' THEN cur' ELSE issued
        BY <1>1, <1>3, <1>n, MaxOfTwo
    <2> QED
        BY <1>3, <1>n, <2>1, <2>2
<1>5. /\ bundle \subseteq pending_inputs'
      /\ Cardinality(bundle) <= MAX_INPUTS_TO_SEND
    BY <1>3, NewestSize, Bounds DEF InputsToSend
<1> HIDE DEF bundle, Sent
<1>6. /\ losses' \in 0..MAX_INPUTS_TO_SEND
      /\ WellBehaved' => WellBehaved
      /\ WellBehaved' => \/ losses' = 0 /\ Sent
                         \/ losses' = losses + 1 /\ UNCHANGED uplink
    <2>1. losses \in Nat /\ losses <= MAX_INPUTS_TO_SEND
        BY <1>0 DEF TypeInv, TypeOK
    <2>2. Min({losses + 1, MAX_INPUTS_TO_SEND}) =
              IF losses + 1 <= MAX_INPUTS_TO_SEND
              THEN losses + 1 ELSE MAX_INPUTS_TO_SEND
        BY <2>1, Bounds, MinOfTwo
    <2> QED
        BY <1>2, <2>1, <2>2, Bounds DEF WellBehaved
<1>7. /\ Len(uplink') \in {Len(uplink), Len(uplink) + 1}
      /\ uplink' \in Seq(SUBSET Seqs)
      /\ \A i \in 1..Len(uplink) : uplink'[i] = uplink[i]
      /\ Sent => /\ Len(uplink') = Len(uplink) + 1
                 /\ uplink'[Len(uplink) + 1] = bundle
    <2>1. bundle \in SUBSET Seqs /\ uplink \in Seq(SUBSET Seqs)
        BY <1>0, <1>3, <1>5 DEF TypeInv
    <2> QED
        BY <1>2, <2>1, AppendProperties DEF Sent
<1>8. \A i \in 1..Len(uplink') : \/ i \in 1..Len(uplink)
                                 \/ Sent /\ i = Len(uplink) + 1
    BY <1>0, <1>2, <1>7, Types
<1>9. TypeInv'
    <2>1. \A i \in 1..Len(uplink') :
              /\ uplink'[i] \subseteq Seqs
              /\ Cardinality(uplink'[i]) <= MAX_INPUTS_TO_SEND
        BY <1>0, <1>3, <1>5, <1>7, <1>8, Types
    <2>2. Len(uplink') <= MaxInFlight /\ DOMAIN uplink' = 1..Len(uplink')
        BY <1>0, <1>1, <1>7, Types, Bounds DEF TypeInv, TypeOK
    <2> QED
        BY <1>0, <1>1, <1>3, <1>4, <1>6, <1>7, <2>1, <2>2
           DEF TypeInv, TypeOK, server
<1>10. AllIssued'
    <2>1. ASSUME NEW i \in 1..Len(uplink'), NEW q \in uplink'[i]
          PROVE  q < issued'
        <3>1. CASE i \in 1..Len(uplink)
            <4>1. q \in uplink[i] /\ q \in Nat /\ q < issued
                BY <1>0, <1>7, <2>1, <3>1, Types DEF AllIssued
            <4> QED
                BY <1>4, <1>n, <4>1
        <3>2. CASE Sent /\ i = Len(uplink) + 1
            <4>1. q \in pending_inputs'
                BY <1>5, <1>7, <2>1, <3>2
            <4> QED
                BY <1>3, <1>4, <4>1
        <3> QED
            BY <1>8, <3>1, <3>2
    <2>2. \A i \in 1..Len(mailbox') : mailbox'[i] < issued'
        <3>1. \A i \in 1..Len(mailbox) :
                  mailbox[i] \in Nat /\ mailbox[i] < issued
            BY <1>0, Types DEF AllIssued
        <3> QED
            BY <1>0, <1>1, <1>4, <3>1, Types
    <2>3. /\ \A s \in downlink' : s.ack = 0 \/ s.ack < issued'
          /\ AckWasIssued'
        <3>1. \A s \in downlink : /\ s.ack \in Nat
                                  /\ s.ack = 0 \/ s.ack < issued
            BY <1>0, Types DEF AllIssued, Snapshots
        <3>2. \A q \in queued \cup {ack, last_acknowledged_sequence} :
                  q \in Nat /\ (q = 0 \/ q < issued)
            BY <1>0, Types DEF AllIssued, AckWasIssued, TypeInv, TypeOK
        <3>3. UNCHANGED <<queued, ack, last_acknowledged_sequence, downlink>>
            BY <1>1 DEF server
        <3>4. \A s \in downlink : s.ack = 0 \/ s.ack < issued'
            BY <1>4, <1>n, <3>1
        <3>5. \A q \in queued \cup {ack, last_acknowledged_sequence} :
                  q = 0 \/ q < issued'
            BY <1>4, <1>n, <3>2
        <3> QED
            BY <3>3, <3>4, <3>5 DEF AckWasIssued
    <2> QED
        BY <1>3, <1>4, <2>1, <2>2, <2>3 DEF AllIssued
<1>11. Acknowledged'
    BY <1>0, <1>1 DEF Acknowledged, server
<1>12. BufferCoversUnapplied'
    <2> SUFFICES ASSUME round' = 0, NEW q \in 1..(cur' - 1),
                        q > ack', q + MAX_PENDING_INPUTS >= cur'
                 PROVE  q \in pending_inputs'
        BY DEF BufferCoversUnapplied
    <2>1. q = cur \/ (q \in 1..(cur - 1) /\ q + MAX_PENDING_INPUTS >= cur)
        BY <1>1, <1>3, Bounds
    <2> QED
        BY <1>0, <1>1, <2>1 DEF BufferCoversUnapplied, server
\* A bundle reaches back to the last input that is not coming already.
<1>13. ASSUME WellBehaved, Sent,
              NEW r \in (ack + 1)..cur
       PROVE  r \in GetsBy(Len(uplink)) \/ r \in bundle
    <2>1. CASE r <= cur - losses - 1
        BY <1>0, <1>13, <2>1, Types DEF NoGaps
    <2>2. CASE r > cur - losses - 1
        <3>1. /\ r \in Nat /\ r >= 1 /\ r > ack
              /\ r + MAX_INPUTS_TO_SEND >= cur'
              /\ r + MAX_PENDING_INPUTS >= cur
            <4>1. ack \in Nat /\ losses \in Nat
                BY <1>0, Types
            <4> QED
                BY <1>1, <1>3, <1>13, <2>2, <4>1, Bounds DEF WellBehaved
        <3>2. r \in pending_inputs'
            BY <1>0, <1>1, <1>3, <1>13, <3>1, Types
               DEF NoGaps, BufferCoversUnapplied
        <3> QED
            BY <1>3, <3>1, <3>2, NewestHas, Bounds DEF bundle, InputsToSend
    <2> QED
        BY <1>0, <1>3, <1>13, <2>1, <2>2, Types
<1>14. NoGaps'
    <2> SUFFICES ASSUME WellBehaved' PROVE NoGaps'
        BY DEF NoGaps
    <2>1. /\ UNCHANGED <<round, ack, queued>>
          /\ \A i : HasBy(i)' = HasBy(i)
          /\ HasBy(Len(mailbox))' = HasBy(Len(mailbox))
        BY <1>1 DEF HasBy, server
    <2>2. \A i \in 1..Len(uplink) : GetsBy(i)' = GetsBy(i)
        <3> TAKE i \in 1..Len(uplink)
        <3>1. \A j \in 1..i : uplink'[j] = uplink[j]
            BY <1>7, <1>n
        <3> QED
            BY <2>1, <3>1 DEF GetsBy
    <2>3. CASE Sent
        <3>0. PICK n \in Nat : n = Len(uplink) + 1
            BY <1>n
        <3>1. n = Len(uplink') /\ uplink'[n] = bundle
            BY <1>7, <2>3, <3>0
        <3>2. (ack + 1)..cur \subseteq GetsBy(n)'
            <4>1. \A k \in 1..Len(uplink) :
                      k \in 1..n /\ uplink'[k] = uplink[k]
                BY <1>7, <1>n, <3>0
            <4>2. bundle \subseteq Seqs /\ n \in 1..n
                BY <1>3, <1>5, <1>n, <3>0
            <4>3. GetsBy(Len(uplink)) \subseteq GetsBy(n)'
                BY <2>1, <4>1 DEF GetsBy
            <4>4. bundle \subseteq GetsBy(n)'
                BY <3>1, <4>2 DEF GetsBy
            <4> QED
                BY <1>6, <1>13, <2>3, <4>3, <4>4
        <3>3. ASSUME NEW i \in 1..Len(uplink'), NEW q \in uplink'[i]
              PROVE  (ack + 1)..(q - 1) \subseteq GetsBy(i)'
            <4>1. CASE i \in 1..Len(uplink)
                <5>1. q \in uplink[i]
                    BY <1>7, <3>3, <4>1
                <5>2. (ack + 1)..(q - 1) \subseteq GetsBy(i)
                    BY <1>0, <1>6, <4>1, <5>1 DEF NoGaps
                <5> QED
                    BY <2>2, <4>1, <5>2
            <4>2. CASE i = n
                <5>1. q \in Nat /\ q <= cur
                    <6>1. q \in pending_inputs'
                        BY <1>5, <3>1, <3>3, <4>2
                    <6> QED
                        BY <1>1, <1>3, <1>n, <6>1
                <5> QED
                    BY <1>n, <3>2, <4>2, <5>1
            <4> QED
                BY <1>8, <3>0, <4>1, <4>2
        <3>4. losses' = 0 => cur' - losses' - 1 = cur
            BY <1>1, <1>n
        <3> QED
            <4>1. WellBehaved /\ losses' = 0
                BY <1>6, <1>7, <1>n, <2>3
            <4>2. GetsBy(Len(uplink))' = GetsBy(n)'
                BY <3>1
            <4>3. (ack' + 1)..(cur' - losses' - 1)
                      \subseteq GetsBy(Len(uplink))'
                BY <2>1, <3>2, <3>4, <4>1, <4>2
            <4>4. /\ round = 0
                  /\ \A q \in queued : (ack + 1)..(q - 1) \subseteq queued
                  /\ \A i \in 1..Len(mailbox) :
                         (ack + 1)..(mailbox[i] - 1) \subseteq HasBy(i - 1)
                BY <1>0, <4>1 DEF NoGaps
            <4> QED
                BY <1>1, <2>1, <3>3, <4>3, <4>4 DEF NoGaps
    <2>4. CASE ~ Sent
        <3>1. UNCHANGED uplink /\ cur' - losses' - 1 = cur - losses - 1
            <4>1. losses' = losses + 1 /\ UNCHANGED uplink
                BY <1>6, <2>4, Zenon
            <4> QED
                BY <1>1, <1>n, <4>1
        <3>2. \A i : GetsBy(i)' = GetsBy(i)
            BY <2>1, <3>1 DEF GetsBy
        <3> QED
            BY <1>0, <1>1, <1>6, <2>1, <3>1, <3>2 DEF NoGaps
    <2> QED
        BY <2>3, <2>4
<1> QED
    BY <1>9, <1>10, <1>11, <1>12, <1>14 DEF IInv

LEMMA DeliverInv ==
    ASSUME IInv, NEW i \in 1..MaxInFlight, Deliver(i)
    PROVE  IInv'
<1>0. TypeInv /\ AllIssued /\ Acknowledged /\ BufferCoversUnapplied /\ NoGaps
    BY DEF IInv
<1>n. /\ Len(uplink) \in Nat /\ Len(mailbox) \in Nat /\ Seqs \subseteq Nat
      /\ uplink \in Seq(SUBSET Seqs) /\ mailbox \in Seq(Seqs)
    BY <1>0, Types DEF TypeInv
<1>1. /\ i \in 1..Len(uplink) /\ uplink' = RemoveAt(uplink, i)
      /\ UNCHANGED <<client, server, downlink, running_news, issued>>
      /\ losses' = IF i = 1 THEN losses ELSE MAX_INPUTS_TO_SEND
    BY <1>n DEF Deliver
<1>2. PICK inputs \in OldestFirst(uplink[i]) : mailbox' = mailbox \o inputs
    BY DEF Deliver
<1>3. /\ uplink[i] \subseteq Seqs
      /\ inputs \in Seq(Seqs) /\ Len(inputs) \in Nat
      /\ \A k \in 1..Len(inputs) : inputs[k] \in uplink[i]
      /\ \A q \in uplink[i] : \E k \in 1..Len(inputs) : inputs[k] = q
      /\ \A j, k \in 1..Len(inputs) : j < k => inputs[j] < inputs[k]
    <2>1. uplink[i] \in SUBSET Seqs
        BY <1>0, <1>1, Types
    <2> QED
        BY <1>2, <2>1, OldestFirstFacts
<1>4. /\ uplink' \in Seq(SUBSET Seqs) /\ Len(uplink') = Len(uplink) - 1
      /\ \A j \in 1..Len(uplink') :
             uplink'[j] = IF j < i THEN uplink[j] ELSE uplink[j + 1]
    BY <1>1, <1>n, RemoveAtFacts
<1>5. \A j \in 1..Len(uplink') :
          \E k \in 1..Len(uplink) : uplink'[j] = uplink[k]
    BY <1>4, <1>n
<1>6. /\ mailbox' \in Seq(Seqs) /\ Len(mailbox') \in Nat
      /\ Len(mailbox') = Len(mailbox) + Len(inputs)
      /\ \A k \in 1..Len(mailbox) : k \in 1..Len(mailbox')
                                    /\ mailbox'[k] = mailbox[k]
      /\ \A k \in 1..Len(inputs) : /\ Len(mailbox) + k \in 1..Len(mailbox')
                                   /\ mailbox'[Len(mailbox) + k] = inputs[k]
    <2>1. /\ mailbox' \in Seq(Seqs)
          /\ Len(mailbox') = Len(mailbox) + Len(inputs)
          /\ \A k \in 1..(Len(mailbox) + Len(inputs)) :
                 mailbox'[k] = IF k <= Len(mailbox) THEN mailbox[k]
                                         ELSE inputs[k - Len(mailbox)]
        BY <1>2, <1>3, <1>n, ConcatProperties
    <2>2. ASSUME NEW k \in 1..Len(inputs)
          PROVE  /\ Len(mailbox) + k \in 1..(Len(mailbox) + Len(inputs))
                 /\ ~ (Len(mailbox) + k <= Len(mailbox))
                 /\ (Len(mailbox) + k) - Len(mailbox) = k
        BY <1>3, <1>n
    <2>3. ASSUME NEW k \in 1..Len(mailbox)
          PROVE  /\ k \in 1..(Len(mailbox) + Len(inputs))
                 /\ k <= Len(mailbox)
        BY <1>3, <1>n
    <2>4. Len(mailbox') \in Nat
        BY <1>3, <1>n, <2>1
    <2> QED
        BY <2>1, <2>2, <2>3, <2>4
<1>7. \A k \in 1..Len(mailbox') :
          \/ k \in 1..Len(mailbox)
          \/ \E j \in 1..Len(inputs) : k = Len(mailbox) + j
    <2> TAKE k \in 1..Len(mailbox')
    <2>1. k > Len(mailbox) => /\ k - Len(mailbox) \in 1..Len(inputs)
                              /\ k = Len(mailbox) + (k - Len(mailbox))
        BY <1>3, <1>6, <1>n
    <2> QED
        BY <1>6, <1>n, <2>1
<1>8. TypeInv'
    <2>1. /\ Len(uplink') <= MaxInFlight /\ DOMAIN uplink' = 1..Len(uplink')
          /\ DOMAIN mailbox' = 1..Len(mailbox')
        <3>1. Len(uplink) <= MaxInFlight /\ MaxInFlight \in Nat
            BY <1>0, Bounds DEF TypeInv, TypeOK
        <3> QED
            BY <1>4, <1>6, <1>n, <3>1
    <2>2. \A j \in 1..Len(uplink') :
              /\ uplink'[j] \subseteq Seqs
              /\ Cardinality(uplink'[j]) <= MAX_INPUTS_TO_SEND
        BY <1>0, <1>5, Types
    <2>3. losses' \in 0..MAX_INPUTS_TO_SEND
        BY <1>0, <1>1, Bounds DEF TypeInv, TypeOK
    <2>4. \A j \in 1..Len(mailbox') : mailbox'[j] \in Seqs
        BY <1>6
    <2> QED
        BY <1>0, <1>1, <1>4, <1>6, <2>1, <2>2, <2>3, <2>4
           DEF TypeInv, TypeOK, client, server
<1>9. AllIssued'
    <2>1. \A j \in 1..Len(uplink') : \A q \in uplink'[j] : q < issued
        BY <1>0, <1>5 DEF AllIssued
    <2>2. ASSUME NEW k \in 1..Len(mailbox')
          PROVE  mailbox'[k] < issued
        <3>1. CASE k \in 1..Len(mailbox)
            BY <1>0, <1>6, <3>1 DEF AllIssued
        <3>2. CASE \E j \in 1..Len(inputs) : k = Len(mailbox) + j
            <4>1. mailbox'[k] \in uplink[i]
                BY <1>3, <1>6, <3>2
            <4> QED
                BY <1>0, <1>1, <4>1 DEF AllIssued
        <3> QED
            BY <1>7, <3>1, <3>2
    <2> QED
        BY <1>0, <1>1, <2>1, <2>2
           DEF AllIssued, AckWasIssued, client, server
<1>10. Acknowledged' /\ BufferCoversUnapplied'
    BY <1>0, <1>1 DEF Acknowledged, BufferCoversUnapplied, client, server
<1>11. NoGaps'
    <2> SUFFICES ASSUME WellBehaved' PROVE NoGaps'
        BY DEF NoGaps
    <2>1. /\ i = 1 /\ losses' = losses /\ WellBehaved
          /\ UNCHANGED <<round, ack, queued, current_input_sequence>>
        BY <1>1, Bounds DEF WellBehaved, client, server
    <2>2. \A k \in 0..Len(mailbox) : HasBy(k)' = HasBy(k)
        <3> TAKE k \in 0..Len(mailbox)
        <3>1. \A j \in 1..k : mailbox'[j] = mailbox[j]
            BY <1>6, <1>n
        <3> QED
            BY <2>1, <3>1 DEF HasBy
    <2>3. HasBy(Len(mailbox)) \subseteq HasBy(Len(mailbox))'
        BY <1>6, <2>1 DEF HasBy
    <2>4. uplink[1] \subseteq HasBy(Len(mailbox))'
        <3>1. \A q \in uplink[1] : \E k \in 1..Len(mailbox') : mailbox'[k] = q
            BY <1>3, <1>6, <2>1
        <3> QED
            BY <1>3, <2>1, <3>1 DEF HasBy
    <2>5. \A j \in 1..Len(uplink') :
              j + 1 \in 1..Len(uplink) /\ uplink'[j] = uplink[j + 1]
        BY <1>4, <1>n, <2>1
    <2>6. \A k \in 1..Len(uplink) : k = 1 \/ \E j \in 1..Len(uplink') :
              k = j + 1
        <3> TAKE k \in 1..Len(uplink)
        <3>1. k # 1 => k - 1 \in 1..Len(uplink') /\ k = (k - 1) + 1
            BY <1>4, <1>n
        <3> QED
            BY <3>1
    <2>7. \A j \in 0..Len(uplink') : GetsBy(j + 1) \subseteq GetsBy(j)'
        <3> TAKE j \in 0..Len(uplink')
        <3> SUFFICES ASSUME NEW q \in GetsBy(j + 1)
                     PROVE  q \in GetsBy(j)'
            OBVIOUS
        <3>1. CASE q \in HasBy(Len(mailbox))
            BY <2>3, <3>1 DEF GetsBy
        <3>2. CASE q \in Seqs /\ \E k \in 1..(j + 1) : q \in uplink[k]
            <4>1. PICK k \in 1..(j + 1) : q \in uplink[k]
                BY <3>2
            <4>2. CASE k = 1
                BY <2>4, <4>1, <4>2 DEF GetsBy
            <4>3. CASE k # 1
                <5>1. k - 1 \in 1..j /\ k - 1 \in 1..Len(uplink')
                      /\ (k - 1) + 1 = k
                    BY <1>4, <1>n, <4>3
                <5>2. q \in uplink'[k - 1]
                    BY <2>5, <4>1, <5>1
                <5> QED
                    BY <3>2, <5>1, <5>2 DEF GetsBy
            <4> QED
                BY <4>2, <4>3
        <3> QED
            BY <3>1, <3>2 DEF GetsBy
    <2>8. ASSUME NEW k \in 1..Len(mailbox'),
                 NEW r \in (ack' + 1)..(mailbox'[k] - 1)
          PROVE  r \in HasBy(k - 1)'
        <3>1. CASE k \in 1..Len(mailbox)
            <4>1. mailbox'[k] = mailbox[k] /\ k - 1 \in 0..Len(mailbox)
                BY <1>6, <1>n, <3>1
            <4> QED
                BY <1>0, <2>1, <2>2, <2>8, <3>1, <4>1 DEF NoGaps
        <3>2. ASSUME NEW j \in 1..Len(inputs), k = Len(mailbox) + j
              PROVE  r \in HasBy(k - 1)'
            <4>0. /\ inputs[j] \in Nat
                  /\ \A l \in 1..Len(inputs) : inputs[l] \in Nat
                BY <1>3, <1>n
            <4>1. mailbox'[k] = inputs[j] /\ inputs[j] \in uplink[1]
                BY <1>3, <1>6, <2>1, <3>2
            <4>2. r \in GetsBy(1) /\ r \in Nat /\ r < inputs[j]
                <5>1. r \in (ack + 1)..(inputs[j] - 1)
                    BY <2>1, <2>8, <4>1
                <5>2. ack \in Nat
                    BY <1>0, Types
                <5>3. (ack + 1)..(inputs[j] - 1) \subseteq GetsBy(1)
                    BY <1>0, <1>1, <2>1, <4>1 DEF NoGaps
                <5> QED
                    BY <4>0, <5>1, <5>2, <5>3
            <4>3. Len(mailbox) \in 0..(k - 1)
                BY <1>n, <1>3, <3>2
            <4>4. CASE r \in HasBy(Len(mailbox))
                <5>1. \A l \in 1..Len(mailbox) :
                          l \in 1..(k - 1) /\ mailbox'[l] = mailbox[l]
                    BY <1>6, <1>n, <4>3
                <5> QED
                    BY <2>1, <4>4, <5>1 DEF HasBy
            <4>5. CASE r \in uplink[1]
                <5>1. PICK l \in 1..Len(inputs) : inputs[l] = r
                    BY <1>3, <2>1, <4>5
                <5>2. inputs[l] < inputs[j]
                    BY <4>2, <5>1
                <5>3. l < j
                    <6>1. j < l => inputs[j] < inputs[l]
                        BY <1>3
                    <6>2. l \in Nat /\ j \in Nat
                        BY <1>3
                    <6> QED
                        BY <4>0, <5>2, <6>1, <6>2
                <5>4. /\ Len(mailbox) + l \in 1..(k - 1)
                      /\ mailbox'[Len(mailbox) + l] = r
                    BY <1>3, <1>6, <1>n, <3>2, <5>1, <5>3
                <5> QED
                    BY <1>3, <2>1, <4>5, <5>4 DEF HasBy
            <4> QED
                BY <4>2, <4>4, <4>5 DEF GetsBy
        <3> QED
            BY <1>7, <3>1, <3>2
    <2>9. ASSUME NEW j \in 1..Len(uplink'), NEW q \in uplink'[j]
          PROVE  (ack' + 1)..(q - 1) \subseteq GetsBy(j)'
        <3>1. (ack + 1)..(q - 1) \subseteq GetsBy(j + 1)
            BY <1>0, <2>1, <2>5, <2>9 DEF NoGaps
        <3> QED
            BY <2>1, <2>7, <3>1
    <2>10. (ack' + 1)..(current_input_sequence' - losses' - 1)
               \subseteq GetsBy(Len(uplink))'
        <3>1. PICK n \in Nat : n = Len(uplink') /\ n + 1 = Len(uplink)
            BY <1>1, <1>4, <1>n
        <3>2. GetsBy(Len(uplink)) \subseteq GetsBy(n)'
            BY <2>7, <3>1
        <3>3. GetsBy(Len(uplink))' = GetsBy(n)'
            BY <3>1
        <3> QED
            BY <1>0, <2>1, <3>2, <3>3 DEF NoGaps
    <2>11. /\ round = 0
           /\ \A q \in queued : (ack + 1)..(q - 1) \subseteq queued
        BY <1>0, <2>1 DEF NoGaps
    <2> QED
        BY <2>1, <2>8, <2>9, <2>10, <2>11 DEF NoGaps
<1> QED
    BY <1>8, <1>9, <1>10, <1>11 DEF IInv

LEMMA SetMoveInputInv ==
    ASSUME IInv, SetMoveInput
    PROVE  IInv'
<1>0. TypeInv /\ AllIssued /\ Acknowledged /\ BufferCoversUnapplied /\ NoGaps
    BY DEF IInv
<1> DEFINE head == mailbox[1]
<1>n. /\ Len(uplink) \in Nat /\ Len(mailbox) \in Nat /\ ack \in Nat
      /\ queued \subseteq Seqs /\ Seqs \subseteq Nat
      /\ mailbox \in Seq(Seqs) /\ mailbox # <<>>
    BY <1>0, Types DEF TypeInv, TypeOK, SetMoveInput
<1>1. /\ mailbox' = Tail(mailbox) /\ Head(mailbox) = head
      /\ 1 \in 1..Len(mailbox) /\ head \in Seqs /\ head \in Nat
    <2>1. Len(mailbox) # 0
        BY <1>n, EmptySeq
    <2>2. 1 \in 1..Len(mailbox) /\ head \in Seqs
        BY <1>n, <2>1
    <2>3. Head(mailbox) = mailbox[1]
        BY <1>n
    <2>4. mailbox' = Tail(mailbox)
        BY DEF SetMoveInput
    <2> QED
        BY <1>n, <2>2, <2>3, <2>4
<1> HIDE DEF head
<1>2. /\ queued' = IF head > ack THEN queued \cup {head} ELSE queued
      /\ UNCHANGED <<client, round, ack, tick, uplink, downlink, running_news,
                     losses, issued>>
    BY <1>1 DEF SetMoveInput, Newer
<1>3. /\ mailbox' \in Seq(Seqs) /\ Len(mailbox') = Len(mailbox) - 1
      /\ \A k \in 1..Len(mailbox') :
             k + 1 \in 1..Len(mailbox) /\ mailbox'[k] = mailbox[k + 1]
    BY <1>1, <1>n, HeadTailProperties
<1>4. TypeInv'
    <2>1. queued' \subseteq Seqs
        BY <1>1, <1>2, <1>n
    <2> QED
        BY <1>0, <1>2, <1>3, <2>1 DEF TypeInv, TypeOK, client
<1>5. AllIssued'
    <2>1. head < issued
        BY <1>0, <1>1 DEF AllIssued, head
    <2>2. \A k \in 1..Len(mailbox') : mailbox'[k] < issued
        BY <1>0, <1>3 DEF AllIssued
    <2> QED
        BY <1>0, <1>2, <2>1, <2>2 DEF AllIssued, AckWasIssued, client
<1>6. Acknowledged' /\ BufferCoversUnapplied'
    BY <1>0, <1>2 DEF Acknowledged, BufferCoversUnapplied, client
<1>7. NoGaps'
    <2> SUFFICES ASSUME WellBehaved' PROVE NoGaps'
        BY DEF NoGaps
    <2>1. /\ WellBehaved
          /\ UNCHANGED <<round, ack, uplink, losses, current_input_sequence>>
        BY <1>2 DEF WellBehaved, client
    <2>2. ASSUME NEW k \in 0..Len(mailbox'), NEW r \in HasBy(k + 1), r > ack
          PROVE  r \in HasBy(k)'
        <3>1. CASE r \in queued
            BY <1>2, <3>1 DEF HasBy
        <3>2. CASE r \in Seqs /\ \E j \in 1..(k + 1) : mailbox[j] = r
            <4>1. PICK j \in 1..(k + 1) : mailbox[j] = r
                BY <3>2
            <4>2. CASE j = 1
                BY <1>2, <2>2, <4>1, <4>2 DEF HasBy, head
            <4>3. CASE j # 1
                <5>1. j - 1 \in 1..k /\ j - 1 \in 1..Len(mailbox')
                      /\ (j - 1) + 1 = j
                    BY <1>3, <1>n, <4>3
                <5>2. mailbox'[j - 1] = r
                    BY <1>3, <4>1, <5>1
                <5> QED
                    BY <3>2, <5>1, <5>2 DEF HasBy
            <4> QED
                BY <4>2, <4>3
        <3> QED
            BY <2>2, <3>1, <3>2 DEF HasBy
    <2>3. ASSUME NEW k, NEW r \in GetsBy(k), r > ack
          PROVE  r \in GetsBy(k)'
        <3>0. Len(mailbox') \in Nat /\ Len(mailbox') + 1 = Len(mailbox)
            BY <1>1, <1>3, <1>n
        <3>1. PICK n \in Nat : n = Len(mailbox') /\ n + 1 = Len(mailbox)
            BY <3>0
        <3>2. r \in HasBy(n + 1) => r \in HasBy(n)'
            BY <2>2, <2>3, <3>1
        <3>3. HasBy(Len(mailbox)) = HasBy(n + 1)
              /\ HasBy(Len(mailbox))' = HasBy(n)'
            BY <3>1
        <3> QED
            BY <2>1, <2>3, <3>2, <3>3 DEF GetsBy
    <2>4. ASSUME NEW q \in queued', NEW r \in (ack + 1)..(q - 1)
          PROVE  r \in queued'
        <3>1. CASE q \in queued
            BY <1>0, <1>2, <2>1, <2>4, <3>1 DEF NoGaps
        <3>2. CASE q = head
            <4>1. r \in HasBy(1 - 1)
                BY <1>0, <1>1, <2>1, <2>4, <3>2 DEF NoGaps, head
            <4> QED
                BY <1>2, <4>1 DEF HasBy
        <3> QED
            BY <1>2, <2>4, <3>1, <3>2
    <2>5. ASSUME NEW k \in 1..Len(mailbox'),
                 NEW r \in (ack + 1)..(mailbox'[k] - 1)
          PROVE  r \in HasBy(k - 1)'
        <3>1. /\ k + 1 \in 1..Len(mailbox) /\ mailbox'[k] = mailbox[k + 1]
              /\ (k + 1) - 1 = (k - 1) + 1 /\ k - 1 \in 0..Len(mailbox')
              /\ mailbox[k + 1] \in Nat
            <4>1. k + 1 \in 1..Len(mailbox) /\ mailbox'[k] = mailbox[k + 1]
                BY <1>3
            <4>2. mailbox[k + 1] \in Seqs
                BY <1>n, <4>1
            <4>3. /\ (k + 1) - 1 = (k - 1) + 1
                  /\ k - 1 \in 0..(Len(mailbox) - 1)
                BY <1>3, <1>n
            <4> QED
                BY <1>3, <1>n, <4>1, <4>2, <4>3
        <3>2. r \in HasBy((k + 1) - 1) /\ r > ack
            BY <1>0, <1>n, <2>1, <2>5, <3>1 DEF NoGaps
        <3> QED
            BY <2>2, <3>1, <3>2
    <2>6. ASSUME NEW j \in 1..Len(uplink), NEW q \in uplink[j],
                 NEW r \in (ack + 1)..(q - 1)
          PROVE  r \in GetsBy(j)'
        <3>1. r \in GetsBy(j)
            BY <1>0, <2>1, <2>6 DEF NoGaps
        <3>2. q \in Nat
            BY <1>0, <2>6, Types
        <3> QED
            BY <1>n, <2>3, <2>6, <3>1, <3>2
    <2>7. ASSUME NEW r \in (ack + 1)..(current_input_sequence - losses - 1)
          PROVE  r \in GetsBy(Len(uplink))'
        <3>1. PICK n \in Nat : n = Len(uplink)
            BY <1>n
        <3>2. r \in GetsBy(n)
            BY <1>0, <2>1, <2>7, <3>1 DEF NoGaps
        <3>3. r > ack
            BY <1>0, <1>n, <2>7, Types
        <3>4. GetsBy(Len(uplink))' = GetsBy(n)'
            BY <2>1, <3>1
        <3> QED
            BY <2>3, <3>2, <3>3, <3>4
    <2>8. round = 0
        BY <1>0, <2>1 DEF NoGaps
    <2> QED
        BY <2>1, <2>4, <2>5, <2>6, <2>7, <2>8 DEF NoGaps
<1> QED
    BY <1>4, <1>5, <1>6, <1>7 DEF IInv

\* The oldest queued input, if any, is the next to be acknowledged.
LEMMA AckAfterTickFacts ==
    ASSUME IInv
    PROVE  /\ AckAfterTick \in Seqs /\ AckAfterTick >= ack
           /\ \/ AckAfterTick = ack /\ queued = {}
              \/ AckAfterTick \in queued
           /\ \A q \in queued : q >= AckAfterTick
           /\ WellBehaved => AckAfterTick \in {ack, ack + 1}
<1>1. TypeInv /\ Acknowledged /\ NoGaps
    BY DEF IInv
<1>2. queued \in SUBSET Nat /\ queued \subseteq Seqs /\ ack \in Nat
      /\ ack \in Seqs
    BY <1>1, Types DEF TypeInv, TypeOK
<1>3. CASE queued = {}
    BY <1>2, <1>3 DEF AckAfterTick
<1>4. CASE queued # {}
    <2>1. /\ AckAfterTick \in queued
          /\ \A q \in queued : q >= AckAfterTick
        BY <1>2, <1>4, MinFacts DEF AckAfterTick
    <2>2. AckAfterTick > ack
        BY <1>1, <2>1 DEF Acknowledged
    <2>3. ASSUME WellBehaved
          PROVE  AckAfterTick = ack + 1
        <3>1. AckAfterTick # ack + 1 =>
                  ack + 1 \in (ack + 1)..(AckAfterTick - 1)
            BY <1>2, <2>1, <2>2
        <3>2. AckAfterTick # ack + 1 => ack + 1 \in queued
            BY <1>1, <2>1, <2>3, <3>1 DEF NoGaps
        <3> QED
            BY <1>2, <2>1, <2>2, <3>2
    <2> QED
        BY <1>2, <2>1, <2>2, <2>3
<1> QED
    BY <1>3, <1>4

LEMMA ServerTickInv ==
    ASSUME IInv, ServerTick
    PROVE  IInv'
<1>0. TypeInv /\ AllIssued /\ Acknowledged /\ BufferCoversUnapplied /\ NoGaps
    BY DEF IInv
<1>n. /\ Len(uplink) \in Nat /\ Len(mailbox) \in Nat /\ ack \in Nat
      /\ queued \subseteq Seqs /\ Seqs \subseteq Nat /\ tick \in Nat
      /\ round \in 0..MaxRound
    BY <1>0, Types DEF TypeInv, TypeOK
<1>1. /\ ack' \in Seqs /\ ack' \in Nat /\ ack' >= ack
      /\ ack' = ack \/ ack' \in queued
      /\ \A q \in queued : q >= ack'
    BY <1>n, AckAfterTickFacts DEF ServerTick
<1>2. /\ tick < MaxTick /\ tick' = tick + 1
      /\ queued' = queued \ {ack'}
      /\ UNCHANGED <<client, round, uplink, mailbox, running_news,
                     losses, issued>>
    BY DEF ServerTick
<1>3. /\ tick' \in 0..MaxTick
      /\ \A snapshot \in downlink' :
             \/ snapshot \in downlink
             \/ /\ snapshot \in Snapshots
                /\ snapshot.ack = ack'
    <2>1. tick' \in 0..MaxTick
        BY <1>2, <1>n, Bounds
    <2>2. [round |-> round, ack |-> ack', tick |-> tick'] \in Snapshots
        BY <1>1, <1>n, <2>1 DEF Snapshots
    <2> QED
        BY <2>1, <2>2 DEF ServerTick
<1>4. TypeInv'
    BY <1>0, <1>1, <1>2, <1>3 DEF TypeInv, TypeOK, client
<1>5. AllIssued'
    <2>1. ack' = 0 \/ ack' < issued
        BY <1>0, <1>1 DEF AllIssued, AckWasIssued
    <2>2. \A snapshot \in downlink' :
              snapshot.ack = 0 \/ snapshot.ack < issued
        BY <1>0, <1>3, <2>1 DEF AllIssued
    <2>3. AckWasIssued'
        BY <1>0, <1>2, <2>1 DEF AllIssued, AckWasIssued, client
    <2> QED
        BY <1>0, <1>2, <2>2, <2>3 DEF AllIssued, client
<1>6. Acknowledged'
    <2>1. \A q \in queued' : q > ack'
        BY <1>1, <1>2, <1>n
    <2>2. ASSUME round = 0, NEW snapshot \in downlink'
          PROVE  snapshot.ack <= ack'
        <3>1. CASE snapshot \in downlink
            <4>1. snapshot.ack \in Nat /\ snapshot.ack <= ack
                BY <1>0, <1>n, <2>2, <3>1, Types DEF Acknowledged, Snapshots
            <4> QED
                BY <1>1, <1>n, <4>1
        <3>2. CASE snapshot.ack = ack'
            BY <1>1, <3>2
        <3> QED
            BY <1>3, <3>1, <3>2
    <2> QED
        BY <1>2, <2>1, <2>2 DEF Acknowledged
<1>7. BufferCoversUnapplied'
    <2> SUFFICES ASSUME round' = 0,
                        NEW q \in 1..(current_input_sequence - 1), q > ack',
                        q + MAX_PENDING_INPUTS >= current_input_sequence
                 PROVE  q \in pending_inputs
        BY <1>2 DEF BufferCoversUnapplied, client
    <2>1. q > ack
        BY <1>1, <1>n
    <2> QED
        BY <1>0, <1>2, <2>1 DEF BufferCoversUnapplied
<1>8. NoGaps'
    <2> SUFFICES ASSUME WellBehaved' PROVE NoGaps'
        BY DEF NoGaps
    <2>1. /\ WellBehaved
          /\ UNCHANGED <<round, uplink, mailbox, losses,
                         current_input_sequence>>
        BY <1>2 DEF WellBehaved, client
    <2>2. \A k, r : r \in HasBy(k) /\ r # ack' => r \in HasBy(k)'
        BY <1>2, <2>1 DEF HasBy
    <2>3. \A k, r : r \in GetsBy(k) /\ r # ack' => r \in GetsBy(k)'
        <3>1. PICK n \in Nat : n = Len(mailbox)
            BY <1>n
        <3>2. HasBy(Len(mailbox))' = HasBy(n)' /\ HasBy(Len(mailbox)) = HasBy(n)
            BY <2>1, <3>1
        <3> QED
            BY <2>1, <2>2, <3>2 DEF GetsBy
    <2>4. \A n \in Int : \A r \in (ack' + 1)..n :
              r \in (ack + 1)..n /\ r # ack'
        BY <1>1, <1>n, LaterInputs
    <2>5. \A q \in queued : (ack + 1)..(q - 1) \subseteq queued
        BY <1>0, <2>1 DEF NoGaps
    <2>6. ASSUME NEW q \in queued'
          PROVE  (ack' + 1)..(q - 1) \subseteq queued'
        <3>1. q \in queued /\ q - 1 \in Int
            BY <1>2, <1>n
        <3> QED
            BY <1>2, <2>4, <2>5, <3>1
    <2>7. ASSUME NEW k \in 1..Len(mailbox)
          PROVE  (ack' + 1)..(mailbox[k] - 1) \subseteq HasBy(k - 1)'
        <3>1. mailbox[k] - 1 \in Int
            <4>1. mailbox[k] \in Seqs
                BY <1>0, Types
            <4>2. mailbox[k] \in Nat
                BY <1>n, <4>1
            <4> QED
                BY <4>2
        <3>2. (ack + 1)..(mailbox[k] - 1) \subseteq HasBy(k - 1)
            BY <1>0, <2>1 DEF NoGaps
        <3> QED
            BY <2>2, <2>4, <3>1, <3>2
    <2>8. ASSUME NEW j \in 1..Len(uplink), NEW q \in uplink[j]
          PROVE  (ack' + 1)..(q - 1) \subseteq GetsBy(j)'
        <3>1. q - 1 \in Int
            <4>1. q \in Seqs
                BY <1>0, <2>8, Types
            <4> QED
                BY <1>n, <4>1
        <3>2. (ack + 1)..(q - 1) \subseteq GetsBy(j)
            BY <1>0, <2>1 DEF NoGaps
        <3> QED
            BY <2>3, <2>4, <3>1, <3>2
    <2>9. (ack' + 1)..(current_input_sequence - losses - 1)
              \subseteq GetsBy(Len(uplink))'
        <3>1. PICK n \in Nat : n = Len(uplink)
            BY <1>n
        <3>2. (ack + 1)..(current_input_sequence - losses - 1)
                  \subseteq GetsBy(n)
            BY <1>0, <2>1, <3>1 DEF NoGaps
        <3>3. GetsBy(Len(uplink))' = GetsBy(n)'
            BY <2>1, <3>1
        <3>4. current_input_sequence - losses - 1 \in Int
            BY <1>0, Types
        <3> QED
            BY <2>3, <2>4, <3>2, <3>3, <3>4
    <2> QED
        BY <1>0, <2>1, <2>6, <2>7, <2>8, <2>9 DEF NoGaps
<1> QED
    BY <1>4, <1>5, <1>6, <1>7, <1>8 DEF IInv

LEMMA NextInv ==
    ASSUME IInv, [Next]_vars
    PROVE  IInv'
BY ClientTickInv, ReceiveSnapshotInv, HearRunningInv, DeliverInv,
   SetMoveInputInv, ServerTickInv, NewRoundInv, StutterInv DEF Next

LEMMA Inductive == Spec => []IInv
<1>1. Init => IInv
    BY InitInv
<1>2. IInv /\ [Next]_vars => IInv'
    BY NextInv
<1> QED
    BY <1>1, <1>2, PTL DEF Spec

-----------------------------------------------------------------------------
(***************************************************************************)
(* The theorems.                                                           *)
(***************************************************************************)

\* Types, and the bound on a datagram of the client (client/src/main.rs): it
\* carries at most MAX_INPUTS_TO_SEND inputs, however deep the backlog is.
THEOREM TypeCorrect == Spec => []TypeOK
<1>1. IInv => TypeOK
    BY DEF IInv, TypeInv
<1> QED
    BY <1>1, Inductive, PTL

\* What the client takes for acknowledged, and what the server (GameSession)
\* has queued or applied, was issued by this client.
THEOREM AcksWereIssued == Spec => []AckWasIssued
<1>1. IInv => AckWasIssued
    BY DEF IInv, AllIssued
<1> QED
    BY <1>1, Inductive, PTL

\* The prediction buffer, pruned by prune_acknowledged_inputs, holds all that
\* the server may still apply, but for what exceeds its capacity.
THEOREM BufferCovers == Spec => []BufferCoversUnapplied
<1>1. IInv => BufferCoversUnapplied
    BY DEF IInv
<1> QED
    BY <1>1, Inductive, PTL

\* Bundling makes up for losses: while datagrams stay in order and fewer than
\* MAX_INPUTS_TO_SEND in a row are lost, step_player_inputs takes every input
\* in turn.
THEOREM EveryInputTaken == Spec => NoInputSkipped
<1> DEFINE Step == WellBehaved' /\ ack' # ack => ack' = ack + 1
<1>1. IInv /\ [Next]_vars => [Step]_vars
    <2> SUFFICES ASSUME IInv, Next, WellBehaved', ack' # ack
                 PROVE  ack' = ack + 1
        OBVIOUS
    <2>1. CASE ServerTick
        <3>1. WellBehaved /\ ack' = AckAfterTick
            BY <2>1 DEF ServerTick, WellBehaved
        <3> QED
            BY <3>1, AckAfterTickFacts
    <2>2. CASE NewRound
        <3>1. losses' = MAX_INPUTS_TO_SEND
            BY <2>2 DEF NewRound
        <3> QED
            BY <3>1, Bounds DEF WellBehaved
    <2> QED
        BY <2>1, <2>2 DEF Next, ClientTick, ReceiveSnapshot, HearRunning,
           Deliver, SetMoveInput, server, client
<1> QED
    BY <1>1, Inductive, PTL DEF Spec, NoInputSkipped
=============================================================================
