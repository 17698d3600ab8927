---------------------------- MODULE DeadNonceList ---------------------------
(***************************************************************************)
(* The Dead Nonce List: a queue without timestamps, whose capacity follows *)
(* the number of MARKs found in it so that entries live for about one      *)
(* lifetime.  Times are in units of the mark interval.                     *)
(***************************************************************************)
EXTENDS Integers, Sequences, FiniteSets

CONSTANTS
  Pair,                   \* 64-bit hashes of (name, nonce)
  MARK,
  INITIAL_CAPACITY, MIN_CAPACITY, MAX_CAPACITY,
  EXPECTED_MARK_COUNT, EVICT_LIMIT,
  MaxLate                 \* bound: how late the event loop may run a timer

ASSUME DnlAssumption ==
  /\ MARK \notin Pair
  /\ EXPECTED_MARK_COUNT \in Nat \ {0, 1}
  /\ EVICT_LIMIT \in Nat /\ EVICT_LIMIT > EXPECTED_MARK_COUNT
  /\ MIN_CAPACITY \in Nat /\ MAX_CAPACITY \in Nat /\ INITIAL_CAPACITY \in Nat
  /\ MIN_CAPACITY <= INITIAL_CAPACITY /\ INITIAL_CAPACITY <= MAX_CAPACITY
  /\ EXPECTED_MARK_COUNT <= MIN_CAPACITY
  /\ MaxLate \in Nat

VARIABLES
  queue,                  \* m_queue: pairs and MARKs, oldest first
  capacity,               \* m_capacity
  counts,                 \* m_actualMarkCounts
  markIn, adjustIn,       \* time until the two events, negative when overdue
  recent                  \* history: the pairs added since the last event

vars == <<queue, capacity, counts, markIn, adjustIn, recent>>

m_markInterval == 1
m_adjustCapacityInterval == EXPECTED_MARK_COUNT

CAPACITY_UP(c) == (c * 12) \div 10
CAPACITY_DOWN(c) == (c * 9) \div 10

AtMost(a, b) == IF a <= b THEN a ELSE b
AtLeast(a, b) == IF a >= b THEN a ELSE b

countMarks(q) == Cardinality({i \in DOMAIN q : q[i] = MARK})

\* evictEntries that takes the newest entries.
evictEntries_newest(q, c) ==
  IF Len(q) <= c THEN q ELSE SubSeq(q, 1, Len(q) - AtMost(Len(q) - c, EVICT_LIMIT))

evictEntries(q, c) ==
  IF Len(q) <= c THEN q ELSE SubSeq(q, AtMost(Len(q) - c, EVICT_LIMIT) + 1, Len(q))

has(p) == \E i \in DOMAIN queue : queue[i] = p

----------------------------------------------------------------------------

add(p) ==
  /\ queue' = evictEntries(Append(queue, p), capacity)
  /\ recent' = IF Len(recent) <= MIN_CAPACITY THEN Append(recent, p) ELSE recent
  /\ UNCHANGED <<capacity, counts, markIn, adjustIn>>

\* mark on a timer as slow as that of adjustCapacity.
mark_everyLifetime ==
  /\ markIn <= 0 /\ markIn <= adjustIn
  /\ queue' = Append(queue, MARK)
  /\ counts' = counts \cup {countMarks(queue')}
  /\ markIn' = m_adjustCapacityInterval
  /\ recent' = <<>>
  /\ UNCHANGED <<capacity, adjustIn>>

\* The scheduler runs the event that was due first.
mark ==
  /\ markIn <= 0 /\ markIn <= adjustIn
  /\ queue' = Append(queue, MARK)
  /\ counts' = counts \cup {countMarks(queue')}
  /\ markIn' = m_markInterval
  /\ recent' = <<>>
  /\ UNCHANGED <<capacity, adjustIn>>

\* A capacity that never grows.
adjusted_noUp(c) ==
  IF \A n \in counts : n > EXPECTED_MARK_COUNT THEN AtLeast(MIN_CAPACITY, CAPACITY_DOWN(c)) ELSE c

adjusted(c) ==
  IF \A n \in counts : n > EXPECTED_MARK_COUNT THEN AtLeast(MIN_CAPACITY, CAPACITY_DOWN(c))
  ELSE IF \A n \in counts : n < EXPECTED_MARK_COUNT THEN AtMost(MAX_CAPACITY, CAPACITY_UP(c))
  ELSE c

\* adjustCapacity that leaves the eviction to the next add.
adjustCapacity_noEvict ==
  /\ adjustIn <= 0 /\ adjustIn <= markIn
  /\ capacity' = adjusted(capacity)
  /\ counts' = {}
  /\ UNCHANGED queue
  /\ adjustIn' = m_adjustCapacityInterval
  /\ recent' = <<>>
  /\ UNCHANGED markIn

adjustCapacity ==
  /\ adjustIn <= 0 /\ adjustIn <= markIn
  /\ capacity' = adjusted(capacity)
  /\ counts' = {}
  /\ queue' = evictEntries(queue, capacity')
  /\ adjustIn' = m_adjustCapacityInterval
  /\ recent' = <<>>
  /\ UNCHANGED markIn

\* Time passes, also while an event is due and the loop is busy.
Tick ==
  /\ markIn > -MaxLate /\ adjustIn > -MaxLate
  /\ markIn' = markIn - 1
  /\ adjustIn' = adjustIn - 1
  /\ UNCHANGED <<queue, capacity, counts, recent>>

Init ==
  /\ queue = [i \in 1 .. EXPECTED_MARK_COUNT |-> MARK]
  /\ capacity = INITIAL_CAPACITY
  /\ counts = {}
  /\ markIn = m_markInterval
  /\ adjustIn = m_adjustCapacityInterval
  /\ recent = <<>>

Next == (\E p \in Pair : add(p)) \/ mark \/ adjustCapacity \/ Tick

Spec == Init /\ [][Next]_vars

----------------------------------------------------------------------------
(* Properties.                                                             *)

\* The queue holds pairs and MARKs and the capacity keeps the two limits of the
\* header; part of the inductive invariant of DnlProofs.
TypeOK ==
  /\ queue \in Seq(Pair \cup {MARK})
  /\ capacity \in MIN_CAPACITY .. MAX_CAPACITY
  /\ counts \subseteq Nat
  /\ markIn \in Int /\ adjustIn \in Int
  /\ recent \in Seq(Pair)

\* What the forwarder relies on: the Nonces of one PIT entry are added by calls
\* of add with no event between them, and adding some of them never evicts the
\* others, up to MIN_CAPACITY.
RecentKept == Len(recent) <= MIN_CAPACITY => \A i \in DOMAIN recent : has(recent[i])

\* dead-nonce-list.hpp: MAX_CAPACITY "is to limit memory usage".  MARKs are pushed
\* without an eviction, but never pile up beyond those of one adjust interval,
\* whatever is added, and however late the events run.
MemoryBounded == Len(queue) <= MAX_CAPACITY + EXPECTED_MARK_COUNT + 1

\* adjustCapacity takes an empty set of counts for "all above expected" and would
\* shrink the list: it always finds a count, because a mark is due before it.
CountsBeforeAdjust == adjustIn <= 0 /\ adjustIn <= markIn => counts # {}

\* The assertion that ends evictEntries: a list that loses an entry is still full.
NeverBelowCapacity ==
  [][(\E p \in Pair : has(p) /\ ~has(p)') => Len(queue') >= capacity']_vars

=============================================================================
