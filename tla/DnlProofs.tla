----------------------------- MODULE DnlProofs ------------------------------
(***************************************************************************)
(* The invariants of the Dead Nonce List, for every capacity, mark count   *)
(* and eviction limit that satisfies DnlAssumption.                        *)
(***************************************************************************)
EXTENDS DeadNonceList, FiniteSetTheorems, TLAPS

\* recent is what the queue ends with.
EndsWithRecent ==
  Len(recent) <= MIN_CAPACITY =>
    /\ Len(recent) <= Len(queue)
    /\ \A i \in 1 .. Len(recent) : queue[Len(queue) - Len(recent) + i] = recent[i]

\* How the two timers run against each other: the mark is due first unless it
\* has just run.
Timers ==
  /\ markIn <= 1
  /\ adjustIn <= EXPECTED_MARK_COUNT
  /\ counts = {} => markIn < adjustIn

\* How far the queue can be above MAX_CAPACITY: one for every MARK since the last
\* adjustCapacity, of which there is one more than intervals elapsed.
Excess == Len(queue) - MAX_CAPACITY

ExcessBounded ==
  /\ adjustIn > 0 => Excess <= EXPECTED_MARK_COUNT - adjustIn + (IF markIn = 1 THEN 1 ELSE 0)
  /\ adjustIn <= 0 /\ markIn > adjustIn => Excess <= EXPECTED_MARK_COUNT + 1
  /\ adjustIn <= 0 /\ markIn <= adjustIn => Excess <= EXPECTED_MARK_COUNT

Inv == TypeOK /\ EndsWithRecent /\ Timers /\ ExcessBounded

\* evictEntries removes from the front, at least one entry when the queue is above
\* the capacity, and stops at the capacity.
LEMMA EvictEntriesSpec ==
  ASSUME NEW S, NEW q \in Seq(S), NEW c \in Nat, NEW r, r = evictEntries(q, c)
  PROVE  /\ r \in Seq(S)
         /\ Len(r) <= Len(q)
         /\ Len(q) <= c => r = q
         /\ Len(q) > c => Len(r) < Len(q) /\ Len(r) >= c
         /\ Len(q) - c <= EVICT_LIMIT => Len(r) <= c
         /\ Len(q) - c > EVICT_LIMIT => Len(r) = Len(q) - EVICT_LIMIT
         /\ \A i \in 1 .. Len(r) : r[i] = q[Len(q) - Len(r) + i]
<1>0. Len(q) \in Nat /\ EVICT_LIMIT \in Nat /\ EVICT_LIMIT >= 1
  BY DnlAssumption
<1>1. CASE Len(q) <= c
  <2>1. r = q
    BY <1>1 DEF evictEntries
  <2> QED
    BY <2>1, <1>1, <1>0
<1>2. CASE Len(q) > c
  <2> DEFINE k == AtMost(Len(q) - c, EVICT_LIMIT)
  <2>1. k \in Nat /\ k >= 1 /\ k <= EVICT_LIMIT /\ k <= Len(q) - c
    BY <1>2, <1>0 DEF AtMost
  <2>a. ~(Len(q) <= c)
    BY <1>2, <1>0
  <2>2. r = SubSeq(q, k + 1, Len(q))
    BY <2>a, Zenon DEF evictEntries
  <2>3. /\ Len(q) - c <= EVICT_LIMIT => k = Len(q) - c
        /\ Len(q) - c > EVICT_LIMIT => k = EVICT_LIMIT
    BY <1>2, <1>0 DEF AtMost
  <2> HIDE DEF k
  <2>4. /\ r \in Seq(S)
        /\ Len(r) = Len(q) - k
        /\ \A i \in 1 .. Len(q) - k : r[i] = q[k + i]
    BY <1>0, <1>2, <2>1, <2>2
  <2>5. \A i \in 1 .. Len(r) : r[i] = q[Len(q) - Len(r) + i]
    <3>1. Len(q) - Len(r) = k
      BY <1>0, <2>1, <2>4
    <3> QED
      BY <2>4, <3>1
  <2>6. Len(r) \in Nat /\ Len(r) <= Len(q) /\ Len(r) < Len(q) /\ Len(r) >= c
    BY <1>0, <1>2, <2>1, <2>4
  <2>7. /\ Len(q) - c <= EVICT_LIMIT => Len(r) <= c
        /\ Len(q) - c > EVICT_LIMIT => Len(r) = Len(q) - EVICT_LIMIT
    <3>1. CASE Len(q) - c <= EVICT_LIMIT
      <4>1. k = Len(q) - c
        BY <3>1, <2>3
      <4>2. Len(r) = c
        BY <4>1, <2>4, <1>0
      <4> QED
        BY <4>2, <3>1, <1>0
    <3>2. CASE Len(q) - c > EVICT_LIMIT
      BY <3>2, <2>3, <2>4, <1>0
    <3> QED
      BY <3>1, <3>2, <1>0
  <2> QED
    BY <2>a, <2>4, <2>5, <2>6, <2>7
<1> QED
  BY <1>0, <1>1, <1>2

\* adjusted stays between MIN_CAPACITY and MAX_CAPACITY.
LEMMA AdjustedInRange ==
  ASSUME NEW c \in MIN_CAPACITY .. MAX_CAPACITY
  PROVE  adjusted(c) \in MIN_CAPACITY .. MAX_CAPACITY
<1>1. CAPACITY_UP(c) \in Nat /\ CAPACITY_DOWN(c) \in Nat
  BY DnlAssumption DEF CAPACITY_UP, CAPACITY_DOWN
<1>2. CAPACITY_DOWN(c) <= c
  BY DnlAssumption DEF CAPACITY_DOWN
<1>3. MIN_CAPACITY <= CAPACITY_UP(c)
  BY DnlAssumption DEF CAPACITY_UP
<1> QED
  BY <1>1, <1>2, <1>3, DnlAssumption DEF adjusted, AtLeast, AtMost

\* Every step of add, mark, adjustCapacity and the clock preserves Inv.
LEMMA NextInv == Inv /\ [Next]_vars => Inv'
<1> SUFFICES ASSUME Inv, [Next]_vars PROVE Inv'
  OBVIOUS
<1> USE DnlAssumption
<1>c. capacity \in Nat /\ capacity <= MAX_CAPACITY /\ MIN_CAPACITY <= capacity
  BY DEF Inv, TypeOK
<1>1. ASSUME NEW p \in Pair, add(p) PROVE Inv'
  <2> DEFINE q == Append(queue, p)
  <2>1. q \in Seq(Pair \cup {MARK}) /\ Len(q) = Len(queue) + 1 /\ q[Len(q)] = p
        /\ \A i \in 1 .. Len(queue) : q[i] = queue[i]
    BY DEF Inv, TypeOK
  <2>2. queue' = evictEntries(q, capacity)
    BY <1>1 DEF add
  <2> HIDE DEF q
  <2>3. /\ queue' \in Seq(Pair \cup {MARK})
        /\ Len(queue') <= Len(q)
        /\ Len(q) <= capacity => queue' = q
        /\ Len(q) > capacity => Len(queue') < Len(q) /\ Len(queue') >= capacity
        /\ \A i \in 1 .. Len(queue') : queue'[i] = q[Len(q) - Len(queue') + i]
    <3>1. q \in Seq(Pair \cup {MARK}) /\ capacity \in Nat
      BY <2>1, <1>c
    <3>2. queue' \in Seq(Pair \cup {MARK}) /\ Len(queue') <= Len(q)
      BY <3>1, <2>2, EvictEntriesSpec, Zenon
    <3>3. Len(q) <= capacity => queue' = q
      BY <3>1, <2>2, EvictEntriesSpec, Zenon
    <3>4. Len(q) > capacity => Len(queue') < Len(q) /\ Len(queue') >= capacity
      BY <3>1, <2>2, EvictEntriesSpec, Zenon
    <3>5. \A i \in 1 .. Len(queue') : queue'[i] = q[Len(q) - Len(queue') + i]
      <4>1. \A c \in Nat : \A r : r = evictEntries(q, c) =>
              \A i \in 1 .. Len(r) : r[i] = q[Len(q) - Len(r) + i]
        BY <3>1, EvictEntriesSpec
      <4> QED
        BY <3>1, <2>2, <4>1
    <3> QED
      BY <3>2, <3>3, <3>4, <3>5
  <2>4. TypeOK'
    BY <1>1, <2>3 DEF add, Inv, TypeOK
  <2>5. Timers'
    BY <1>1 DEF add, Inv, Timers
  <2>6. ExcessBounded'
    <3>1. Len(queue') <= Len(queue) \/ Len(queue') <= MAX_CAPACITY
      <4>1. Len(queue') \in Nat /\ Len(q) \in Nat /\ Len(queue) \in Nat
        BY <2>1, <2>3 DEF Inv, TypeOK
      <4>2. CASE Len(q) <= capacity
        BY <4>1, <4>2, <2>3, <1>c
      <4>3. CASE Len(q) > capacity
        BY <4>1, <4>3, <2>1, <2>3
      <4> QED
        BY <4>1, <4>2, <4>3, <1>c
    <3> QED
      BY <1>1, <3>1, <2>4 DEF add, Inv, TypeOK, Timers, ExcessBounded, Excess
  <2>7. EndsWithRecent'
    <3> SUFFICES ASSUME Len(recent') <= MIN_CAPACITY
                 PROVE  /\ Len(recent') <= Len(queue')
                        /\ \A i \in 1 .. Len(recent') :
                             queue'[Len(queue') - Len(recent') + i] = recent'[i]
      BY DEF EndsWithRecent
    <3>1. recent \in Seq(Pair) /\ queue \in Seq(Pair \cup {MARK})
      BY DEF Inv, TypeOK
    <3>2. Len(recent) <= MIN_CAPACITY /\ recent' = Append(recent, p)
      BY <1>1, <3>1 DEF add
    <3>3. Len(recent') = Len(recent) + 1
      BY <3>1, <3>2
    <3>4. Len(recent) <= Len(queue)
      BY <3>2 DEF Inv, EndsWithRecent
    <3>5. Len(queue') \in Nat /\ Len(recent') <= Len(queue')
      BY <3>1, <3>3, <3>4, <2>1, <2>3, <1>c
    <3>6. ASSUME NEW i \in 1 .. Len(recent')
          PROVE  queue'[Len(queue') - Len(recent') + i] = recent'[i]
      <4>1. queue'[Len(queue') - Len(recent') + i] = q[Len(q) - Len(recent') + i]
        <5>1. Len(queue') - Len(recent') + i \in 1 .. Len(queue')
          BY <3>1, <3>3, <3>5
        <5>2. Len(q) - Len(queue') + (Len(queue') - Len(recent') + i)
                = Len(q) - Len(recent') + i
          BY <3>1, <3>3, <3>5, <2>1
        <5> QED
          BY <5>1, <5>2, <2>3
      <4>2. CASE i = Len(recent')
        BY <4>1, <4>2, <2>1, <3>1, <3>2, <3>3
      <4>3. CASE i <= Len(recent)
        <5>1. Len(q) - Len(recent') + i = Len(queue) - Len(recent) + i
          BY <2>1, <3>1, <3>3
        <5>2. Len(queue) - Len(recent) + i \in 1 .. Len(queue)
          BY <3>1, <3>4, <4>3
        <5>3. queue[Len(queue) - Len(recent) + i] = recent[i]
          BY <3>1, <3>2, <4>3 DEF Inv, EndsWithRecent
        <5>4. recent'[i] = recent[i]
          BY <3>1, <3>2, <4>3
        <5> QED
          BY <4>1, <5>1, <5>2, <5>3, <5>4, <2>1, Zenon
      <4> QED
        BY <4>2, <4>3, <3>1, <3>3
    <3> QED
      BY <3>5, <3>6
  <2> QED
    BY <2>4, <2>5, <2>6, <2>7 DEF Inv
<1>2. CASE mark
  <2>1. queue' \in Seq(Pair \cup {MARK}) /\ Len(queue') = Len(queue) + 1
    BY <1>2 DEF mark, Inv, TypeOK
  <2>2. countMarks(queue') \in Nat
    <3>1. IsFiniteSet({i \in DOMAIN queue' : queue'[i] = MARK})
      <4>1. DOMAIN queue' = 1 .. Len(queue') /\ Len(queue') \in Int
        BY <2>1
      <4>2. IsFiniteSet(DOMAIN queue')
        BY <4>1, FS_Interval
      <4> QED
        BY <4>2, FS_Subset, Zenon
    <3> QED
      BY <3>1, FS_CardinalityType DEF countMarks
  <2>3. TypeOK'
    <3>1. counts' \subseteq Nat
      BY <1>2, <2>2, Zenon DEF mark, Inv, TypeOK
    <3>2. markIn' \in Int /\ adjustIn' \in Int /\ recent' \in Seq(Pair)
      BY <1>2 DEF mark, Inv, TypeOK, m_markInterval
    <3>3. capacity' \in MIN_CAPACITY .. MAX_CAPACITY
      BY <1>2 DEF mark, Inv, TypeOK
    <3> QED
      BY <2>1, <3>1, <3>2, <3>3 DEF TypeOK
  <2>4. EndsWithRecent'
    BY <1>2, <2>1 DEF mark, EndsWithRecent, Inv, TypeOK
  <2>5. Timers'
    BY <1>2 DEF mark, Inv, Timers, m_markInterval
  <2>6. ExcessBounded'
    BY <1>2, <2>1 DEF mark, Inv, TypeOK, Timers, ExcessBounded, Excess, m_markInterval
  <2> QED
    BY <2>3, <2>4, <2>5, <2>6 DEF Inv
<1>3. CASE adjustCapacity
  <2>1. capacity' \in MIN_CAPACITY .. MAX_CAPACITY
    BY <1>3, AdjustedInRange DEF adjustCapacity, Inv, TypeOK
  <2>2. /\ queue' \in Seq(Pair \cup {MARK})
        /\ Len(queue') <= Len(queue)
        /\ Len(queue) - capacity' <= EVICT_LIMIT => Len(queue') <= capacity'
        /\ Len(queue) - capacity' > EVICT_LIMIT => Len(queue') = Len(queue) - EVICT_LIMIT
    BY <1>3, <2>1, EvictEntriesSpec DEF adjustCapacity, Inv, TypeOK
  <2>3. TypeOK'
    BY <1>3, <2>1, <2>2 DEF adjustCapacity, Inv, TypeOK, m_adjustCapacityInterval
  <2>4. EndsWithRecent'
    BY <1>3, <2>2 DEF adjustCapacity, EndsWithRecent
  <2>5. Timers'
    BY <1>3 DEF adjustCapacity, Inv, TypeOK, Timers, m_adjustCapacityInterval
  <2>6. Len(queue') <= MAX_CAPACITY
    <3>1. Len(queue) <= MAX_CAPACITY + EXPECTED_MARK_COUNT + 1
      BY <1>3 DEF adjustCapacity, Inv, TypeOK, Timers, ExcessBounded, Excess
    <3> QED
      BY <3>1, <2>1, <2>2 DEF Inv, TypeOK
  <2>7. ExcessBounded'
    BY <1>3, <2>2, <2>5, <2>6
       DEF adjustCapacity, ExcessBounded, Excess, Timers, m_adjustCapacityInterval
  <2> QED
    BY <2>3, <2>4, <2>5, <2>7 DEF Inv
<1>4. CASE Tick
  BY <1>4 DEF Tick, Inv, TypeOK, EndsWithRecent, Timers, ExcessBounded, Excess
<1>5. CASE UNCHANGED vars
  BY <1>5 DEF vars, Inv, TypeOK, EndsWithRecent, Timers, ExcessBounded, Excess
<1> QED
  BY <1>1, <1>2, <1>3, <1>4, <1>5 DEF Next

\* Inv holds initially.
LEMMA InitInv == Init => Inv
<1> SUFFICES ASSUME Init PROVE Inv
  OBVIOUS
<1> USE DnlAssumption
<1>1. queue \in Seq(Pair \cup {MARK}) /\ Len(queue) = EXPECTED_MARK_COUNT
  BY DEF Init
<1> QED
  BY <1>1 DEF Init, Inv, TypeOK, EndsWithRecent, Timers, ExcessBounded, Excess,
              m_markInterval, m_adjustCapacityInterval

\* Inv is an invariant.
THEOREM DnlInvariance == Spec => []Inv
  BY InitInv, NextInv, PTL DEF Spec

\* The queue never outgrows MAX_CAPACITY by more than the MARKs of one interval.
THEOREM MemoryBoundedAlways == Spec => []MemoryBounded
<1>1. Inv => MemoryBounded
  BY DnlAssumption DEF Inv, TypeOK, Timers, ExcessBounded, Excess, MemoryBounded
<1> QED
  BY <1>1, DnlInvariance, PTL

\* Up to MIN_CAPACITY pairs added between two events are all still there.
THEOREM RecentKeptAlways == Spec => []RecentKept
<1>1. ASSUME Inv PROVE RecentKept
  <2> SUFFICES ASSUME Len(recent) <= MIN_CAPACITY, NEW i \in DOMAIN recent
               PROVE  has(recent[i])
    BY DEF RecentKept
  <2>1. recent \in Seq(Pair) /\ queue \in Seq(Pair \cup {MARK}) /\ i \in 1 .. Len(recent)
    BY <1>1 DEF Inv, TypeOK
  <2>2. /\ Len(recent) <= Len(queue)
        /\ queue[Len(queue) - Len(recent) + i] = recent[i]
    BY <1>1, <2>1 DEF Inv, EndsWithRecent
  <2>3. Len(queue) - Len(recent) + i \in DOMAIN queue
    BY <2>1, <2>2
  <2> QED
    BY <2>2, <2>3 DEF has
<1> QED
  BY <1>1, DnlInvariance, PTL

\* adjustCapacity never runs without a count.
THEOREM CountsBeforeAdjustAlways == Spec => []CountsBeforeAdjust
<1>1. Inv => CountsBeforeAdjust
  BY DEF Inv, TypeOK, Timers, CountsBeforeAdjust
<1> QED
  BY <1>1, DnlInvariance, PTL

\* An eviction by add or adjustCapacity never goes below the capacity.
THEOREM NeverBelowCapacityAlways == Spec => NeverBelowCapacity
<1> DEFINE Full == (\E p \in Pair : has(p) /\ ~has(p)') => Len(queue') >= capacity'
<1>1. ASSUME Inv, [Next]_vars PROVE [Full]_vars
  <2> SUFFICES ASSUME NEW x \in Pair, has(x), ~has(x)' PROVE Len(queue') >= capacity'
    OBVIOUS
  <2>1. queue \in Seq(Pair \cup {MARK}) /\ capacity \in Nat
    BY <1>1, DnlAssumption DEF Inv, TypeOK
  <2>2. ASSUME NEW p \in Pair, add(p) PROVE Len(queue') >= capacity'
    <3> DEFINE q == Append(queue, p)
    <3>1. q \in Seq(Pair \cup {MARK}) /\ \A i \in DOMAIN queue : i \in DOMAIN q /\ q[i] = queue[i]
      BY <2>1
    <3>2. queue' = evictEntries(q, capacity) /\ capacity' = capacity
      BY <2>2 DEF add
    <3> HIDE DEF q
    <3>3. queue' # q
      BY <3>1 DEF has
    <3>4. Len(q) <= capacity => queue' = q
      BY <2>1, <3>1, <3>2, EvictEntriesSpec, Zenon
    <3>5. Len(q) > capacity => Len(queue') >= capacity
      BY <2>1, <3>1, <3>2, EvictEntriesSpec, Zenon
    <3>6. Len(q) \in Nat
      BY <3>1
    <3> QED
      BY <2>1, <3>2, <3>3, <3>4, <3>5, <3>6
  <2>3. CASE mark
    <3>1. \A i \in DOMAIN queue : i \in DOMAIN queue' /\ queue'[i] = queue[i]
      BY <2>3, <2>1 DEF mark
    <3> QED
      BY <3>1 DEF has
  <2>4. CASE adjustCapacity
    <3>1. capacity' \in Nat /\ queue' = evictEntries(queue, capacity')
      BY <1>1, <2>4, AdjustedInRange, DnlAssumption DEF adjustCapacity, Inv, TypeOK
    <3>2. queue' # queue
      BY DEF has
    <3>3. Len(queue) <= capacity' => queue' = queue
      BY <2>1, <3>1, EvictEntriesSpec, Zenon
    <3>4. Len(queue) > capacity' => Len(queue') >= capacity'
      BY <2>1, <3>1, EvictEntriesSpec, Zenon
    <3> QED
      BY <2>1, <3>1, <3>2, <3>3, <3>4
  <2>5. CASE Tick \/ UNCHANGED vars
    BY <2>5 DEF Tick, vars, has
  <2> QED
    BY <1>1, <2>2, <2>3, <2>4, <2>5 DEF Next
<1> QED
  BY <1>1, DnlInvariance, PTL DEF Spec, NeverBelowCapacity

=============================================================================
