------------------------ MODULE ForwarderActionProofs -----------------------
(***************************************************************************)
(* The action properties of the forwarder, for any number of faces, names, *)
(* nonces and packets, from the inductive invariant of ForwarderProofs.    *)
(***************************************************************************)
EXTENDS ForwarderProofs

\* The steps in which a packet leaves.
Sending ==
  \/ \E f \in Face, i \in InterestPacket : ContentStoreHit(f, i) \/ ContentStoreMiss(f, i)
  \/ \E f \in Face, d \in DataPacket : onIncomingData(f, d)
  \/ \E f \in Face, k \in Key, n \in Nonce, reason \in NackReason :
       onIncomingNack(f, k, n, reason)

\* Every other step sends nothing.
LEMMA OnlySendingSends ==
  ASSUME Next
  PROVE  Sending \/ sent' = {}
BY Zenon DEF Next, Interest, Data, Nack, Timer, Management, Tick, Sending,
       InterestViolatesLocalhost, InterestLoop, DataViolatesLocalhost, onDataUnsolicited,
       NackDropped, onInterestUnsatisfied, stragglerTimer, onInterestFinalize,
       dnlAdjustCapacity, addFace, removeFace, addNextHopCommand, removeNextHopCommand

----------------------------------------------------------------------------
(* Flow balance.                                                           *)

Balanced(p) ==
  \/ \E o \in owed : Asked(p, o)
  \/ rcv'.type = "Interest" /\ Answers(p, rcv'.face, rcv'.key)

\* The Data of a ContentStore hit answers the Interest at hand.
LEMMA HitBalanced ==
  ASSUME NEW f \in Face, NEW i \in InterestPacket, ContentStoreHit(f, i), NEW p \in sent'
  PROVE  Balanced(p)
<1>1. PICK c \in CsMatches(cs, KeyOf(i), now) : sent' = onOutgoingData(c.data, {f})
  BY DEF ContentStoreHit, onContentStoreHit
<1>2. p.type = "Data" /\ p.face = f /\ p.data = c.data
  BY <1>1 DEF onOutgoingData, DataTo
<1>3. IsPrefixOf(KeyOf(i).name, c.data.name)
  BY <1>1 DEF CsMatches, canSatisfy
<1>4. rcv' = InterestFrom(f, i)
  BY DEF ContentStoreHit, Input
<1>5. QED
  BY <1>2, <1>3, <1>4 DEF Balanced, Answers, InterestFrom

\* A strategy Nacks the Interest at hand or one that is owed an answer.
LEMMA MissBalanced ==
  ASSUME Inv, NEW f \in Face, NEW i \in InterestPacket, ContentStoreMiss(f, i),
         NEW p \in sent', p.type # "Interest"
  PROVE  Balanced(p)
<1> DEFINE k == KeyOf(i)
           e == PendingEntry(f, i)
<1>1. /\ DOMAIN e.in = DOMAIN PitInsert(k).in \cup {f}
      /\ \E r : sent' = r.sent /\ GoodResult(k, e, r)
  BY MissStep
<1> HIDE DEF e
<1>2. p.type = "Nack" /\ p.key = k /\ p.face \in DOMAIN e.in
  BY <1>1 DEF GoodResult, ForwardedOK, NackedOK
<1>3. rcv' = InterestFrom(f, i)
  BY DEF ContentStoreMiss, Input
<1>4. CASE p.face = f
  BY <1>2, <1>3, <1>4 DEF Balanced, Answers, InterestFrom
<1>5. CASE p.face # f
  <2>1. k \in DOMAIN pit /\ p.face \in DOMAIN pit[k].in
    BY <1>1, <1>2, <1>5 DEF PitInsert, NewEntry, NoRecords
  <2>2. [face |-> p.face, key |-> k, until |-> pit[k].in[p.face].expiry] \in owed
    BY <2>1 DEF Inv, InRecordsAreOwed
  <2>3. QED
    BY <1>2, <2>2 DEF Balanced, Asked, Answers
<1>6. QED
  BY <1>4, <1>5

\* Data goes to the in-records that are not expired.
LEMMA DataBalanced ==
  ASSUME Inv, NEW f \in Face, NEW d \in DataPacket, onIncomingData(f, d), NEW p \in sent'
  PROVE  Balanced(p)
<1>1. p.type = "Data" /\ p.data = d /\ p.face \in pendingDownstreams(d)
  BY DEF onIncomingData, onOutgoingData, DataTo
<1>2. PICK k \in DOMAIN pit : /\ IsPrefixOf(k.name, d.name)
                              /\ p.face \in DOMAIN pit[k].in
                              /\ pit[k].in[p.face].expiry > now
  BY <1>1 DEF pendingDownstreams, findAllDataMatches
<1>3. [face |-> p.face, key |-> k, until |-> pit[k].in[p.face].expiry] \in owed
  BY <1>2 DEF Inv, InRecordsAreOwed
<1>4. QED
  BY <1>1, <1>2, <1>3 DEF Balanced, Asked, Answers

\* A Nack that is passed on goes to an in-record.
LEMMA NackBalanced ==
  ASSUME Inv, NEW f \in Face, NEW k \in Key, NEW n, NEW reason \in NackReason,
         onIncomingNack(f, k, n, reason), NEW p \in sent', p.type # "Interest"
  PROVE  Balanced(p)
<1> DEFINE e == [pit[k] EXCEPT !.out[f].nack = reason]
<1>1. k \in DOMAIN pit /\ f \in DOMAIN pit[k].out
  BY DEF onIncomingNack, NackMatchesOutRecord
<1>2. sent' = afterReceiveNack(k, e).sent
  BY DEF onIncomingNack
<1>3. IsEntry(e) /\ e.in = pit[k].in
  BY <1>1, NackedEntry DEF Inv, PitOK, EntryInv
<1> HIDE DEF e
<1>4. p.type = "Nack" /\ p.key = k /\ p.face \in DOMAIN pit[k].in
  BY <1>2, <1>3, AfterReceiveNackGood DEF GoodResult, ForwardedOK, NackedOK
<1>5. [face |-> p.face, key |-> k, until |-> pit[k].in[p.face].expiry] \in owed
  BY <1>1, <1>4 DEF Inv, InRecordsAreOwed
<1>6. QED
  BY <1>4, <1>5 DEF Balanced, Asked, Answers

\* Flow balance, for every instance: no Data or Nack leaves a face that did not
\* ask for it.
THEOREM FlowBalanceAlways == Spec => FlowBalance
<1>1. ASSUME Inv, Next, NEW p \in sent', p.type # "Interest"
      PROVE  Balanced(p)
  <2>1. Sending
    BY <1>1, OnlySendingSends
  <2>2. QED
    BY <1>1, <2>1, HitBalanced, MissBalanced, DataBalanced, NackBalanced DEF Sending
<1>2. Inv /\ [Next]_vars =>
        [\A p \in sent' : p.type # "Interest" =>
           \/ \E o \in owed : Asked(p, o)
           \/ rcv'.type = "Interest" /\ Answers(p, rcv'.face, rcv'.key)]_vars
  BY <1>1 DEF Balanced
<1>3. QED
  BY <1>2, Invariance, PTL DEF Spec, FlowBalance

----------------------------------------------------------------------------
(* No answer is lost, no entry goes early.                                 *)

\* Data is accepted by two actions only.
LEMMA DataStep ==
  ASSUME Next, rcv'.type = "Data"
  PROVE  \E f \in Face, d \in DataPacket :
           /\ onDataUnsolicited(f, d) \/ onIncomingData(f, d)
           /\ rcv' = DataFrom(f, d)
<1>1. rcv' # NoPacket /\ \A f, i : rcv' # InterestFrom(f, i)
  BY DEF NoPacket, InterestFrom
<1>2. ~Interest
  BY <1>1 DEF Interest, InterestViolatesLocalhost, InterestLoop, ContentStoreHit,
              ContentStoreMiss, Input
<1>3. ~Nack /\ ~Management
  <2>1. ~Nack
    <3>1. \A f, k, n, reason :
            NackDropped(f, k, n, reason) \/ onIncomingNack(f, k, n, reason) => rcv' = NoPacket
      BY DEF NackDropped, onIncomingNack, Input
    <3>2. QED
      BY <1>1, <3>1 DEF Nack
  <2>2. ~Management
    BY <1>1 DEF Management, addFace, removeFace, addNextHopCommand, removeNextHopCommand,
                Input
  <2>3. QED
    BY <2>1, <2>2
<1>4. ~Timer /\ ~Tick
  BY <1>1, Zenon DEF Timer, onInterestUnsatisfied, stragglerTimer, onInterestFinalize,
              dnlAdjustCapacity, Tick
<1>5. Data
  BY <1>2, <1>3, <1>4 DEF Next
<1>6. \A f, d : onDataUnsolicited(f, d) \/ onIncomingData(f, d) => rcv' = DataFrom(f, d)
  BY DEF onDataUnsolicited, onIncomingData, Input
<1>7. \A f, d : ~DataViolatesLocalhost(f, d)
  BY <1>1 DEF DataViolatesLocalhost, Input
<1>8. QED
  BY <1>5, <1>6, <1>7 DEF Data

\* PIT entries are erased by the timers only.
LEMMA OnlyTimersErase ==
  ASSUME Next, ~ (DOMAIN pit \subseteq DOMAIN pit')
  PROVE  \E k \in Key : onInterestUnsatisfied(k) \/ stragglerTimer(k)
<1>1. \A k, e : pit' = PitPut(k, e) => DOMAIN pit \subseteq DOMAIN pit'
  BY DEF PitPut
<1>2. ~Interest
  BY <1>1, Zenon DEF Interest, InterestViolatesLocalhost, InterestLoop, ContentStoreHit,
              onContentStoreHit, ContentStoreMiss
<1>3. ~Data
  BY Zenon DEF Data, DataViolatesLocalhost, onDataUnsolicited, onIncomingData
<1>4. ~Nack
  BY <1>1, ZenonT(30) DEF Nack, NackDropped, onIncomingNack
<1>5. ~Management /\ ~Tick /\ ~dnlAdjustCapacity
  BY DEF Management, addFace, removeFace, addNextHopCommand, removeNextHopCommand, Tick,
         dnlAdjustCapacity
<1>6. QED
  BY <1>2, <1>3, <1>4, <1>5 DEF Next, Timer

\* onIncomingData reaches every downstream that still waits.
THEOREM NoAnswerLostAlways == Spec => NoAnswerLost
<1>1. ASSUME Inv, Next, rcv'.type = "Data", NEW o \in owed,
             IsPrefixOf(o.key.name, rcv'.data.name), o.until > now,
             o.face \in faces \ {rcv'.face}, ~violatesLocalhost(o.face, rcv'.data.name)
      PROVE  DataTo(o.face, rcv'.data) \in sent'
  <2>1. /\ o.key \in DOMAIN pit /\ o.face \in DOMAIN pit[o.key].in
        /\ pit[o.key].in[o.face].expiry > now
    BY <1>1 DEF Inv, InRecordsAreOwed
  <2>2. PICK f \in Face, d \in DataPacket :
          /\ onDataUnsolicited(f, d) \/ onIncomingData(f, d)
          /\ rcv' = DataFrom(f, d)
    BY <1>1, DataStep
  <2>3. rcv'.face = f /\ rcv'.data = d
    BY <2>2 DEF DataFrom
  <2>4. o.key \in findAllDataMatches(d)
    BY <1>1, <2>1, <2>3 DEF findAllDataMatches
  <2>5. onIncomingData(f, d)
    BY <2>2, <2>4 DEF onDataUnsolicited
  <2>6. o.face \in pendingDownstreams(d)
    BY <2>1, <2>4 DEF pendingDownstreams
  <2>7. QED
    BY <1>1, <2>3, <2>5, <2>6 DEF onIncomingData, onOutgoingData
<1>2. Inv /\ [Next]_vars =>
        [rcv'.type = "Data" =>
           \A o \in owed :
             /\ IsPrefixOf(o.key.name, rcv'.data.name) /\ o.until > now
             /\ o.face \in faces \ {rcv'.face}
             /\ ~violatesLocalhost(o.face, rcv'.data.name)
             => DataTo(o.face, rcv'.data) \in sent']_vars
  BY <1>1
<1>3. QED
  BY <1>2, Invariance, PTL DEF Spec, NoAnswerLost

\* An entry that was neither satisfied nor rejected outlives its in-records.
THEOREM ExpiresOnlyAfterLifetimeAlways == Spec => ExpiresOnlyAfterLifetime
<1>1. ASSUME Inv, Next, NEW k \in DOMAIN pit \ DOMAIN pit', pit[k].straggler.at = NoTimer,
             NEW o \in owed, o.key = k
      PROVE  o.until <= now
  <2>1. \E x \in Key : onInterestUnsatisfied(x) \/ stragglerTimer(x)
    BY <1>1, OnlyTimersErase
  <2>2. onInterestUnsatisfied(k)
    BY <1>1, <2>1, Zenon DEF onInterestUnsatisfied, stragglerTimer, onInterestFinalize
  <2>3. /\ o.face \in DOMAIN pit[k].in /\ o.until = pit[k].in[o.face].expiry
        /\ EntryInv(k, pit[k]) /\ now \in Nat
    BY <1>1 DEF Inv, Tables, InRecordsAreOwed, PitOK
  <2>4. o.until \in Nat /\ pit[k].unsatisfy \in Nat /\ o.until <= pit[k].unsatisfy
    BY <2>2, <2>3
       DEF EntryInv, IsEntry, RecordsOver, InRecordType, NoTimer, onInterestUnsatisfied
  <2>5. QED
    BY <2>2, <2>3, <2>4 DEF onInterestUnsatisfied
<1>2. Inv /\ [Next]_vars =>
        [\A k \in DOMAIN pit \ DOMAIN pit' :
           pit[k].straggler.at = NoTimer =>
             \A o \in owed : o.key = k => o.until <= now]_vars
  BY <1>1
<1>3. QED
  BY <1>2, Invariance, PTL DEF Spec, ExpiresOnlyAfterLifetime


----------------------------------------------------------------------------
(* Retransmission suppression.                                             *)

\* What onOutgoingInterest leaves of the entry: the suppression interval.
LEMMA OutgoingKeepsSuppress ==
  ASSUME NEW k, NEW e, IsEntry(e), NEW G, NEW r \in onOutgoingInterest(k, e, G)
  PROVE  r.entry.suppress = e.suppress
<1> DEFINE to == {g \in G \cap faces : ~violatesScope(k.name, e, g)}
           rec(g, i) == insertOrUpdateOutRecord(e, g, i, now).out[g]
           out(p) == [g \in DOMAIN e.out \cup to |->
                        IF g \in to THEN rec(g, e.in[p[g]].interest) ELSE e.out[g]]
<1>1. PICK p \in [to -> DOMAIN e.in] :
        r = Result([e EXCEPT !.out = out(p)],
                   {InterestTo(g, k, e.in[p[g]].interest) : g \in to})
  BY Zenon DEF onOutgoingInterest
<1> HIDE DEF out
<1>2. r.entry = [e EXCEPT !.out = out(p)]
  BY <1>1 DEF Result
<1>3. QED
  BY <1>2 DEF IsEntry

\* Best-route, while an Interest is outstanding: what leaves leaves on FORWARD,
\* after the interval and with the interval increased.
LEMMA BestRoutePaced ==
  ASSUME NEW k, NEW e, IsEntry(e), now \in Nat, NEW f, NEW hops,
         hasUnexpiredOutRecords(e, now),
         NEW r \in bestRouteAfterReceiveInterest(k, e, f, hops),
         NEW p \in r.sent
  PROVE  /\ \A g \in DOMAIN e.out : now - e.out[g].renewed >= e.suppress
         /\ r.entry.suppress > e.suppress \/ r.entry.suppress = SuppressMax
<1> DEFINE longer == suppressLonger(e)
<1>1. decide(e) \in {"SUPPRESS", "FORWARD"}
  BY DEF decide
<1>2. decide(e) = "FORWARD" /\ \E g : r \in onOutgoingInterest(k, longer, {g})
  <2>1. decide(e) # "NEW"
    BY <1>1
  <2>2. r # Result(e, {}) /\ r # Result(longer, {})
    BY DEF Result
  <2> HIDE DEF longer
  <2>3. QED
    BY <1>1, <2>1, <2>2, Zenon DEF bestRouteAfterReceiveInterest, longer
<1>3. \A g \in DOMAIN e.out : e.out[g].renewed \in Nat
  BY DEF IsEntry, RecordsOver, OutRecordType
<1>4. e.suppress \in SuppressInitial .. SuppressMax
  BY DEF IsEntry
<1>5. \A g \in DOMAIN e.out : now - e.out[g].renewed >= e.suppress
  <2>1. \A g \in DOMAIN e.out : ~(now - e.out[g].renewed < e.suppress)
    BY <1>2 DEF decide
  <2>2. e.suppress \in Nat
    BY <1>4, PitEntryAssumption, StrategyAssumption
  <2>3. QED
    BY <1>3, <2>1, <2>2
<1>6. longer.suppress = IF 2 * e.suppress < SuppressMax THEN 2 * e.suppress ELSE SuppressMax
  BY DEF suppressLonger, IsEntry
<1>7. longer.suppress > e.suppress \/ longer.suppress = SuppressMax
  BY <1>4, <1>6, PitEntryAssumption, StrategyAssumption
<1>8. r.entry.suppress = longer.suppress
  BY <1>2, SuppressLongerGood, OutgoingKeepsSuppress
<1>9. QED
  BY <1>5, <1>7, <1>8

\* The entry handed to the strategy has the out-records and the suppression
\* interval it had before.
LEMMA PendingKeepsOut ==
  ASSUME NEW f, NEW i, IsEntry(PitInsert(KeyOf(i)))
  PROVE  /\ PendingEntry(f, i).out = PitInsert(KeyOf(i)).out
         /\ PendingEntry(f, i).suppress = PitInsert(KeyOf(i)).suppress
<1> DEFINE c == cancelUnsatisfyAndStragglerTimer(PitInsert(KeyOf(i)))
           j == [i EXCEPT !.sel = fibLookup(i).sel]
           d == insertOrUpdateInRecord(c, f, j, now)
<1>1. IsEntry(c) /\ c.out = PitInsert(KeyOf(i)).out /\ c.suppress = PitInsert(KeyOf(i)).suppress
  BY CancelGood
<1> HIDE DEF c, j
<1>2. /\ d.out = c.out /\ d.suppress = c.suppress
      /\ DOMAIN d = {"in", "out", "unsatisfy", "straggler", "suppress"}
  BY <1>1 DEF insertOrUpdateInRecord, IsEntry
<1>3. PendingEntry(f, i) = [d EXCEPT !.unsatisfy = LastExpiry(d)]
  BY DEF PendingEntry, setUnsatisfyTimer, c, j
<1> HIDE DEF d
<1>4. QED
  BY <1>1, <1>2, <1>3

\* RetxSuppressionExponential paces every best-route retransmission, whichever
\* downstream it comes from and whichever upstream it goes to.
THEOREM RetxPacedAlways == Spec => RetxPaced
<1> DEFINE Paced(p) ==
      LET before == pit[p.key]
          after  == pit'[p.key]
      IN  /\ \A g \in DOMAIN before.out : now - before.out[g].renewed >= before.suppress
          /\ after.suppress > before.suppress \/ after.suppress = SuppressMax
<1>1. ASSUME Inv, Next, NEW p \in sent', p.type = "Interest", p.key \in DOMAIN pit,
             StrategyOf[p.key.name] = "best-route",
             hasUnexpiredOutRecords(pit[p.key], now)
      PROVE  Paced(p)
  <2>1. PICK f \in Face, i \in InterestPacket : ContentStoreMiss(f, i)
    <3>1. Sending
      BY <1>1, OnlySendingSends
    <3>2. ASSUME NEW f \in Face, NEW i \in InterestPacket, ContentStoreHit(f, i)
          PROVE  FALSE
      <4>1. \E d : sent' = onOutgoingData(d, {f})
        BY <3>2 DEF ContentStoreHit, onContentStoreHit
      <4>2. QED
        BY <1>1, <4>1 DEF onOutgoingData, DataTo
    <3>3. ASSUME NEW f \in Face, NEW d \in DataPacket, onIncomingData(f, d)
          PROVE  FALSE
      <4>1. \E D : sent' = onOutgoingData(d, D)
        BY <3>3, Zenon DEF onIncomingData
      <4>2. QED
        BY <1>1, <4>1 DEF onOutgoingData, DataTo
    <3>4. ASSUME NEW f \in Face, NEW k \in Key, NEW n \in Nonce, NEW reason \in NackReason,
                 onIncomingNack(f, k, n, reason)
          PROVE  FALSE
      <4>1. \A x, e, D, why : \A q \in onOutgoingNack(x, e, D, why).sent : q.type = "Nack"
        BY DEF onOutgoingNack, Result, NackTo
      <4>2. \A x, e : Result(e, {}).sent = {}
        BY DEF Result
      <4>3. \A x, e : \A q \in afterReceiveNack(x, e).sent : q.type = "Nack"
        BY <4>1, <4>2 DEF afterReceiveNack, bestRouteAfterReceiveNack
      <4>4. \E e : sent' = afterReceiveNack(k, e).sent
        BY <3>4 DEF onIncomingNack
      <4>5. QED
        BY <1>1, <4>3, <4>4
    <3>5. QED
      BY <3>1, <3>2, <3>3, <3>4 DEF Sending
  <2> DEFINE k == KeyOf(i)
             e == PendingEntry(f, i)
  <2>2. PICK r \in afterReceiveInterest(k, e, f, fibLookup(i).hops) :
          pit' = PitPut(k, r.entry) /\ sent' = r.sent /\ GoodResult(k, e, r)
    BY <1>1, <2>1, MissStep
  <2>3. IsEntry(e)
    BY <1>1, <2>1, MissStep, Zenon DEF EntryInv
  <2>4. p.key = k
    BY <1>1, <2>2 DEF GoodResult, ForwardedOK, NackedOK
  <2>5. PitInsert(k) = pit[k] /\ IsEntry(pit[k]) /\ now \in Nat
    BY <1>1, <2>4 DEF PitInsert, Inv, PitOK, EntryInv, Tables
  <2>6. e.out = pit[k].out /\ e.suppress = pit[k].suppress
    BY <2>5, PendingKeepsOut
  <2> DEFINE hops == fibLookup(i).hops
  <2> HIDE DEF e, hops
  <2>7. hasUnexpiredOutRecords(e, now)
    BY <1>1, <2>4, <2>6 DEF hasUnexpiredOutRecords
  <2>8. r \in bestRouteAfterReceiveInterest(k, e, f, hops)
    BY <1>1, <2>2, <2>4 DEF afterReceiveInterest, hops
  <2>9. p \in r.sent
    BY <1>1, <2>2
  <2> HIDE DEF k
  <2>10. /\ \A g \in DOMAIN e.out : now - e.out[g].renewed >= e.suppress
         /\ r.entry.suppress > e.suppress \/ r.entry.suppress = SuppressMax
    <3>1. \A q \in r.sent :
            /\ \A g \in DOMAIN e.out : now - e.out[g].renewed >= e.suppress
            /\ r.entry.suppress > e.suppress \/ r.entry.suppress = SuppressMax
      BY <2>3, <2>5, <2>7, <2>8, BestRoutePaced, Zenon
    <3>2. QED
      BY <2>9, <3>1
  <2>11. pit'[k] = r.entry
    BY <2>2 DEF PitPut
  <2>12. QED
    BY <2>4, <2>6, <2>10, <2>11
<1>2. Inv /\ [Next]_vars =>
        [\A p \in sent' :
           /\ p.type = "Interest" /\ p.key \in DOMAIN pit
           /\ StrategyOf[p.key.name] = "best-route"
           /\ hasUnexpiredOutRecords(pit[p.key], now)
           => Paced(p)]_vars
  BY <1>1
<1>3. QED
  BY <1>2, Invariance, PTL DEF Spec, RetxPaced

=============================================================================
