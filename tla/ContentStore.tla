---------------------------- MODULE ContentStore ----------------------------
(***************************************************************************)
(* The ContentStore with its replacement policies, priority FIFO and LRU.  *)
(*                                                                         *)
(* The table is a std::set of entries, here a function from the Data held  *)
(* to what the entry knows of it.  The policy keeps iterators into the     *)
(* table in its queues, which nothing but the code keeps in step with it.  *)
(***************************************************************************)
EXTENDS CsContract, SequencesExt

CONSTANTS
  DataPacket,       \* records [name, freshness, noCache]
  Query,            \* Interests looked up: records [name, fresh]
  TableOrder,       \* DataPacket in the order of EntryImpl::operator<
  Policy,           \* replacement policies in use, of "priority_fifo" and "lru"
  Limit,            \* values setLimit is called with
  MaxTime,          \* bound: the clock stops here
  MaxOps            \* bound: number of operations

VARIABLES
  table,            \* Cs::m_table
  policy,           \* Cs::m_policy
  queues,           \* m_queues, or m_queue of the LRU policy
  info,             \* m_entryInfoMap: which queue an entry is attached to
  events,           \* moveToStaleQueue events in the scheduler
  limit,            \* Policy::m_limit
  now,
  ops,              \* operations so far
  inserts,          \* history: insertions so far
  arrived,          \* history: the operation that last inserted or refreshed
  used              \* an entry, and the one that last did so or found it

vars == <<table, policy, queues, info, events, limit, now, ops, inserts, arrived, used>>

QueueType == {"UNSOLICITED", "STALE", "FIFO", "LRU"}

ProperPrefix(p, n) == p # n /\ IsPrefixOf(p, n)

\* What the order of full names guarantees: a name comes before the names it is
\* a prefix of, and names with a common prefix are next to each other.
ASSUME TableOrderAssumption ==
  /\ ToSet(TableOrder) = DataPacket
  /\ \A i, j \in DOMAIN TableOrder : i < j =>
       /\ TableOrder[i] # TableOrder[j]
       /\ ~ProperPrefix(TableOrder[j].name, TableOrder[i].name)
       /\ \A l \in DOMAIN TableOrder, n \in 0 .. Len(TableOrder[i].name) :
            i < l /\ l < j /\ IsPrefixOf(SubSeq(TableOrder[i].name, 1, n), TableOrder[j].name)
              => IsPrefixOf(SubSeq(TableOrder[i].name, 1, n), TableOrder[l].name)

\* The state the policy works on.
State == [table |-> table, queues |-> queues, info |-> info, events |-> events]

----------------------------------------------------------------------------
(* PriorityFifoPolicy.                                                     *)

\* isLate: the clock has moved on since the stale time was computed.
attachQueue(s, d, isLate) ==
  LET e    == s.table[d]
      type == IF e.unsolicited THEN "UNSOLICITED"
              ELSE IF isStale(e, now) \/ (isLate /\ e.stale = now) THEN "STALE" ELSE "FIFO"
  IN  [s EXCEPT !.queues[type] = Append(@, d),
                !.info = (d :> type) @@ @,
                !.events = IF type = "FIFO" /\ e.stale # NeverStale
                           THEN @ \cup {[data |-> d, at |-> now + d.freshness]} ELSE @]

\* detachQueue that leaves the event in the scheduler.
detachQueue_noCancel(s, d) ==
  [s EXCEPT !.queues[s.info[d]] = RemoveFirst(@, d),
            !.info = [x \in DOMAIN @ \ {d} |-> @[x]]]

detachQueue(s, d) ==
  [s EXCEPT !.queues[s.info[d]] = RemoveFirst(@, d),
            !.info = [x \in DOMAIN @ \ {d} |-> @[x]],
            !.events = IF s.info[d] = "FIFO" THEN {v \in @ : v.data # d} ELSE @]

\* The connection to beforeEvict in Cs::setPolicyImpl.
eraseEntry(s, d) == [s EXCEPT !.table = [x \in DOMAIN @ \ {d} |-> @[x]]]

evictOne(s) ==
  LET types == <<"UNSOLICITED", "STALE", "FIFO">>
      type  == SelectInSeq(types, LAMBDA q : s.queues[q] # <<>>)
      d     == Head(s.queues[types[type]])
  IN  eraseEntry(detachQueue(s, d), d)

----------------------------------------------------------------------------
(* LruPolicy.                                                              *)

\* The body of the loop in LruPolicy::evictEntries.
evictLru(s) ==
  eraseEntry([s EXCEPT !.queues["LRU"] = Tail(@)], Head(s.queues["LRU"]))

\* insertToQueue that never relocates.
insertToQueue_noRelocate(s, d, isNewEntry) ==
  IF Contains(s.queues["LRU"], d) THEN s ELSE [s EXCEPT !.queues["LRU"] = Append(@, d)]

insertToQueue(s, d, isNewEntry) ==
  LET pushed == IF Contains(s.queues["LRU"], d) THEN s
                ELSE [s EXCEPT !.queues["LRU"] = Append(@, d)]
  IN  IF isNewEntry THEN pushed
      ELSE [pushed EXCEPT !.queues["LRU"] = Append(RemoveFirst(@, d), d)]

----------------------------------------------------------------------------
(* What Cs calls.                                                          *)

\* evictEntries: the loop runs once for every entry above the limit n.
evictEntries(s, n) ==
  LET size == Cardinality(DOMAIN s.table)
      over == IF size > n THEN size - n ELSE 0
      after[i \in 0 .. over] ==
        IF i = 0 THEN s
        ELSE IF policy = "lru" THEN evictLru(after[i - 1]) ELSE evictOne(after[i - 1])
  IN  after[over]

enqueue(s, d, isLate) ==
  IF policy = "lru" THEN insertToQueue(s, d, TRUE) ELSE attachQueue(s, d, isLate)

afterInsert(s, d, isLate) == evictEntries(enqueue(s, d, isLate), limit)

\* afterRefresh that does not detach the entry first.
afterRefresh_attachOnly(s, d, isLate) ==
  IF policy = "lru" THEN insertToQueue(s, d, FALSE) ELSE attachQueue(s, d, isLate)

afterRefresh(s, d, isLate) ==
  IF policy = "lru" THEN insertToQueue(s, d, FALSE)
  ELSE attachQueue(detachQueue(s, d), d, isLate)

beforeUse(s, d) == IF policy = "lru" THEN insertToQueue(s, d, FALSE) ELSE s

----------------------------------------------------------------------------
(* Cs::find.                                                               *)

\* Table order, from lower_bound(prefix) to lower_bound(successor).
matchRange(q) ==
  SelectSeq(TableOrder, LAMBDA d : d \in DOMAIN table /\ IsPrefixOf(q.name, d.name))

satisfies(d, q) == canSatisfy([data |-> d, stale |-> table[d].stale], q, now)

\* Position in r of the first (last) match in from .. to, 0 if there is none.
findLeftmost(q, r, from, to) == SelectInSubSeq(r, from, to, LAMBDA d : satisfies(d, q))

findRightmostAmongExact(q, r, to) == SelectLastInSubSeq(r, 1, to, LAMBDA d : satisfies(d, q))

\* findRightmost that returns the last match of the sub-namespace.
findRightmost_last(q) ==
  LET r == matchRange(q)
  IN  SelectLastInSubSeq(r, 1, Len(r), LAMBDA d : satisfies(d, q))

\* The loop over sub-namespaces one component longer than the name, from the right.
findRightmost(q) ==
  LET r == matchRange(q)
      n == Len(q.name)
      before(p, right) ==                       \* entries left of lower_bound(p)
        Cardinality({i \in 1 .. right : ~IsPrefixOf(p, r[i].name)})
      from[right \in 0 .. Len(r)] ==
        IF right = 0 THEN 0
        ELSE IF Len(r[right].name) = n THEN findRightmostAmongExact(q, r, right)
        ELSE LET left  == before(SubSeq(r[right].name, 1, n + 1), right)
                 match == findLeftmost(q, r, left + 1, right)
             IN  IF match # 0 THEN match ELSE from[left]
  IN  from[Len(r)]

\* The Data found, as a set with at most one element.
find(q, isRightmost) ==
  LET r == matchRange(q)
      i == IF isRightmost THEN findRightmost(q) ELSE findLeftmost(q, r, 1, Len(r))
  IN  IF i = 0 THEN {} ELSE {r[i]}

----------------------------------------------------------------------------
(* Actions.                                                                *)

Become(s) ==
  /\ table' = s.table
  /\ queues' = s.queues
  /\ info' = s.info
  /\ events' = s.events

Operation == ops < MaxOps /\ ops' = ops + 1

\* Operation number ops + 1 concerns d.
Stamp(history, d) == [x \in DOMAIN table' |-> IF x = d THEN ops + 1 ELSE history[x]]

Keep(history) == [x \in DOMAIN table' |-> history[x]]

\* entryFor that leaves the stale time of an existing entry alone.
entryFor_keepStaleTime(d, isUnsolicited) ==
  IF d \in DOMAIN table
  THEN [table[d] EXCEPT !.unsolicited = @ /\ isUnsolicited]
  ELSE [stale |-> StaleTime(d, now), unsolicited |-> isUnsolicited]

\* The entry after m_table.insert, updateStaleTime and unsetUnsolicited.
entryFor(d, isUnsolicited) ==
  [stale |-> StaleTime(d, now),
   unsolicited |-> isUnsolicited /\ (d \in DOMAIN table => table[d].unsolicited)]

\* Cs::insert.
insert(d, isUnsolicited, isLate) ==
  LET s == [State EXCEPT !.table = (d :> entryFor(d, isUnsolicited)) @@ @]
  IN  /\ Operation
      /\ ~d.noCache
      /\ Become(IF d \in DOMAIN table THEN afterRefresh(s, d, isLate)
                ELSE afterInsert(s, d, isLate))
      /\ inserts' = inserts + 1
      /\ arrived' = Stamp(arrived, d)
      /\ used' = Stamp(used, d)
      /\ UNCHANGED <<policy, limit, now>>

\* Data that may not be cached is turned away.
insertNoCache(d) ==
  /\ Operation
  /\ d.noCache
  /\ UNCHANGED <<table, policy, queues, info, events, limit, now, inserts, arrived, used>>

\* Cs::find with a hit; a miss changes nothing.
hit(q, isRightmost) ==
  /\ Operation
  /\ \E d \in find(q, isRightmost) : Become(beforeUse(State, d)) /\ used' = Stamp(used, d)
  /\ UNCHANGED <<policy, limit, now, inserts, arrived>>

setLimit(n) ==
  /\ Operation
  /\ limit' = n
  /\ Become(evictEntries(State, n))
  /\ arrived' = Keep(arrived)
  /\ used' = Keep(used)
  /\ UNCHANGED <<policy, now, inserts>>

\* A new policy starts with empty queues and the old limit.  The table has to be
\* empty (cs.hpp), so the old queues are empty too.
setPolicy(p) ==
  /\ Operation
  /\ DOMAIN table = {}
  /\ policy' = p
  /\ queues' = [q \in QueueType |-> <<>>]
  /\ info' = [d \in {} |-> 0]
  /\ UNCHANGED <<table, events, limit, now, inserts, arrived, used>>

\* The event a FIFO entry scheduled when it was attached.
moveToStaleQueue(v) ==
  /\ v \in events
  /\ v.at <= now
  /\ Become([State EXCEPT !.queues["FIFO"] = RemoveFirst(@, v.data),
                          !.queues["STALE"] = Append(@, v.data),
                          !.info[v.data] = "STALE",
                          !.events = @ \ {v}])
  /\ UNCHANGED <<policy, limit, now, ops, inserts, arrived, used>>

Tick ==
  /\ now < MaxTime
  /\ now' = now + 1
  /\ UNCHANGED <<table, policy, queues, info, events, limit, ops, inserts, arrived, used>>

Init ==
  /\ table = [d \in {} |-> 0]
  /\ policy \in Policy
  /\ queues = [q \in QueueType |-> <<>>]
  /\ info = [d \in {} |-> 0]
  /\ events = {}
  /\ limit \in Limit
  /\ now = 0
  /\ ops = 0
  /\ inserts = 0
  /\ arrived = [d \in {} |-> 0]
  /\ used = [d \in {} |-> 0]

Next ==
  \/ \E d \in DataPacket : \/ \E isUnsolicited, isLate \in BOOLEAN : insert(d, isUnsolicited, isLate)
                           \/ insertNoCache(d)
  \/ \E q \in Query, isRightmost \in BOOLEAN : hit(q, isRightmost)
  \/ \E n \in Limit : setLimit(n)
  \/ \E p \in Policy \ {policy} : setPolicy(p)
  \/ \E v \in events : moveToStaleQueue(v)
  \/ Tick

Spec == Init /\ [][Next]_vars

----------------------------------------------------------------------------
(* Properties.                                                             *)

Occurrences(d) == {<<q, i>> \in QueueType \X (1 .. MaxOps) : i <= Len(queues[q]) /\ queues[q][i] = d}

\* cs.hpp: "The Table iterator of an Entry should be in exactly one queue at any
\* moment."  No insertion, refresh, move, use or eviction leaves an entry in two
\* queues or in none, or an erased entry in any, and the EntryInfo of the
\* priority FIFO policy always names the queue the entry is in.
ExactlyOneQueue ==
  /\ \A d \in DOMAIN table : Cardinality(Occurrences(d)) = 1
  /\ \A q \in QueueType : ToSet(queues[q]) \subseteq DOMAIN table
  /\ policy = "priority_fifo" =>
       /\ DOMAIN info = DOMAIN table
       /\ \A d \in DOMAIN table : Contains(queues[info[d]], d)

\* moveToStaleQueue assumes its entry is still there and still in the FIFO
\* queue: an event is never left behind by an eviction or a refresh, and a fresh
\* entry that can become stale always has exactly the event for its stale time.
EventsMatchFifo ==
  /\ \A v \in events : v.data \in DOMAIN info /\ info[v.data] = "FIFO"
  /\ \A d \in DOMAIN info : info[d] = "FIFO" /\ table[d].stale # NeverStale =>
       {v \in events : v.data = d} = {[data |-> d, at |-> table[d].stale]}

\* The class of an entry in the order of eviction of the priority FIFO policy.
Class(e) == IF e.unsolicited THEN 0 ELSE IF e.stale # NeverStale /\ e.stale <= now THEN 1 ELSE 2

\* What a step evicts goes before all it keeps, what it inserts included.
\* cs-policy-priority-fifo.hpp: unsolicited Data is removed first, then Data with
\* expired freshness, then the Data that arrived first.  This holds of every
\* eviction made while no moveToStaleQueue event is due.  The LRU policy removes
\* what was neither inserted nor found for the longest time.
EvictionOrder ==
  [][\A d \in DOMAIN table \ DOMAIN table', x \in DOMAIN table' :
       IF policy = "lru" THEN used[d] < used'[x]
       ELSE (\A v \in events \cup events' : v.at > now) =>
              \/ Class(table[d]) < Class(table'[x])
              \/ /\ Class(table[d]) = Class(table'[x])
                 /\ Class(table[d]) # 1 => arrived[d] < arrived'[x]]_vars

\* Cs::find hits exactly when an entry satisfies the Interest.  ChildSelector 0
\* yields the first such entry in table order; ChildSelector 1 yields the first
\* one under the rightmost child that has any, or the last among exact matches
\* when no longer name matches.
FindIsRight ==
  \A q \in Query :
    LET matches  == {i \in DOMAIN TableOrder :
                       TableOrder[i] \in DOMAIN table /\ satisfies(TableOrder[i], q)}
        longer   == {i \in matches : Len(TableOrder[i].name) > Len(q.name)}
        child(i) == SubSeq(TableOrder[i].name, 1, Len(q.name) + 1)
        first(S) == {i \in S : \A j \in S : i <= j}
        last(S)  == {i \in S : \A j \in S : j <= i}
        under    == {i \in longer : \E j \in last(longer) : child(i) = child(j)}
        data(S)  == {TableOrder[i] : i \in S}
    IN  /\ find(q, FALSE) = data(first(matches))
        /\ find(q, TRUE) = data(IF longer = {} THEN last(matches) ELSE first(under))

Abstract == INSTANCE CsAbstract
              WITH store <- {[data |-> d, stale |-> table[d].stale] : d \in DOMAIN table}

\* The ContentStore keeps the contract the forwarder is specified against: every
\* insertion leaves the packet with a new stale time, a refresh included, unless
\* the limit forces an eviction, and nothing else changes what is stored.
ImplementsContract == Abstract!Spec

=============================================================================
