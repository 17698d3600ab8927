--------------------------- MODULE ForwarderProofs --------------------------
(***************************************************************************)
(* The invariants and the action properties of the forwarder, for any      *)
(* number of faces, names, nonces and packets.                             *)
(*                                                                         *)
(* The inductive invariant Inv is the conjunction of the properties: what  *)
(* the tables hold (Tables), what every PIT entry keeps (EntryInv), what   *)
(* was sent (SentOK), and that in-records and owed answers are the same    *)
(* thing (InRecordsAreOwed).                                               *)
(***************************************************************************)
EXTENDS Forwarder, Extremum

----------------------------------------------------------------------------
(* What the outgoing pipelines and the strategies may do to a PIT entry.   *)
(* One predicate, GoodResult, is all the proofs about the forwarder need   *)
(* to know of a strategy; it is shown for every strategy trigger.          *)

\* The in-records of e2 are in-records of e.
KeptIn(e2, e) ==
  /\ DOMAIN e2.in \subseteq DOMAIN e.in
  /\ \A g \in DOMAIN e2.in : e2.in[g] = e.in[g]

\* The timers are those of e, or the entry was rejected.
TimersKept(e2, e) ==
  \/ e2.unsatisfy = e.unsatisfy /\ e2.straggler = e.straggler
  \/ e2.unsatisfy = NoTimer /\ e2.straggler.at # NoTimer

\* p is the Interest of a downstream that goes to another face, in scope.
ForwardedOK(k, e, e2, p) ==
  /\ p.type = "Interest" /\ p.key = k /\ p.face \in Face
  /\ \E h \in DOMAIN e.in \ {p.face} : p.nonce = e.in[h].interest.nonce
  /\ ~violatesScope(k.name, e, p.face)
  /\ e2.in = e.in

\* p is a Nack to a downstream whose in-record is erased.
NackedOK(k, e, e2, p) ==
  /\ p.type = "Nack" /\ p.key = k
  /\ p.face \in DOMAIN e.in \ DOMAIN e2.in

GoodResult(k, e, r) ==
  /\ IsEntry(r.entry)
  /\ KeptIn(r.entry, e)
  /\ TimersKept(r.entry, e)
  /\ \A p \in r.sent : ForwardedOK(k, e, r.entry, p) \/ NackedOK(k, e, r.entry, p)
  /\ \A g \in DOMAIN e.in \ DOMAIN r.entry.in :
       \E p \in r.sent : p.type = "Nack" /\ p.key = k /\ p.face = g

\* The Interest of an in-record has a nonce and a lifetime.
LEMMA StoredInterestType ==
  ASSUME NEW i \in StoredInterest
  PROVE  i.nonce \in Nonce /\ Lifetime(i) \in Nat
<1>1. PICK j \in InterestPacket : \E s : i = [j EXCEPT !.sel = s]
  BY DEF StoredInterest
<1>2. j \in [name : Name, fresh : BOOLEAN, nonce : Nonce, lifetime : Int,
             link : Seq(Name), sel : SUBSET Name]
  BY ForwarderAssumption
<1>3. i.nonce = j.nonce /\ i.lifetime = j.lifetime
  BY <1>1, <1>2
<1>4. QED
  BY <1>2, <1>3, PitEntryAssumption DEF Lifetime

\* setUnsatisfyTimer: the deadline is the expiry of the last in-record.
LEMMA LastExpiryCovers ==
  ASSUME NEW e, IsEntry(e), DOMAIN e.in # {}
  PROVE  /\ LastExpiry(e) \in Nat
         /\ \A f \in DOMAIN e.in : e.in[f].expiry <= LastExpiry(e)
<1> DEFINE v == [f \in DOMAIN e.in |-> e.in[f].expiry]
           IsLast(f) == \A g \in DOMAIN e.in : e.in[g].expiry <= e.in[f].expiry
<1>1. IsFiniteSet(DOMAIN e.in)
  <2>1. DOMAIN e.in \in SUBSET Face
    BY DEF IsEntry, RecordsOver
  <2>2. QED
    BY <2>1, ForwarderAssumption, FS_Subset
<1>2. \A f \in DOMAIN e.in : e.in[f].expiry \in Nat
  BY DEF IsEntry, RecordsOver, InRecordType
<1>3. \A f \in DOMAIN e.in : v[f] \in Int
  BY <1>2
<1>4. \E f \in DOMAIN e.in : \A g \in DOMAIN e.in : v[g] <= v[f]
  <2> HIDE DEF v
  <2>1. QED
    BY <1>1, <1>3, MaximumExists
<1>5. \E f \in DOMAIN e.in : IsLast(f)
  BY <1>4, Zenon
<1>6. LastExpiry(e) = e.in[CHOOSE f \in DOMAIN e.in : IsLast(f)].expiry
  BY DEF LastExpiry
<1>7. QED
  BY <1>2, <1>5, <1>6

\* What makes an out-record.
LEMMA OutRecordFields ==
  ASSUME NEW a \in Nonce, NEW b \in Nat, NEW c \in Nat, NEW d \in NackReason \cup {NoNack}
  PROVE  [nonce |-> a, renewed |-> b, expiry |-> c, nack |-> d] \in OutRecordType
BY DEF OutRecordType

\* onOutgoingInterest picks an Interest of another face than the one it goes to,
\* provided there is one, and touches nothing but the out-records.
LEMMA OutgoingInterestGood ==
  ASSUME NEW k, NEW e, IsEntry(e), NEW G \in SUBSET Face,
         \A g \in G : \E h \in DOMAIN e.in : h # g,
         now \in Nat,
         NEW r \in onOutgoingInterest(k, e, G)
  PROVE  GoodResult(k, e, r)
<1> DEFINE to == {g \in G \cap faces : ~violatesScope(k.name, e, g)}
           rec(g, i) == insertOrUpdateOutRecord(e, g, i, now).out[g]
           out(p) == [g \in DOMAIN e.out \cup to |->
                        IF g \in to THEN rec(g, e.in[p[g]].interest) ELSE e.out[g]]
<1>1. PICK p \in [to -> DOMAIN e.in] :
        /\ \A g \in to : p[g] \in pickInterest(e, g)
        /\ r = Result([e EXCEPT !.out = out(p)],
                      {InterestTo(g, k, e.in[p[g]].interest) : g \in to})
  BY Zenon DEF onOutgoingInterest
<1>2. \A g \in to : p[g] \in DOMAIN e.in \ {g}
  BY <1>1, Zenon DEF pickInterest
<1>3. \A g \in to : rec(g, e.in[p[g]].interest) \in OutRecordType
  <2> SUFFICES ASSUME NEW g \in to
               PROVE  rec(g, e.in[p[g]].interest) \in OutRecordType
    OBVIOUS
  <2> DEFINE i == e.in[p[g]].interest
             kept == IF g \in DOMAIN e.out THEN e.out[g].nack ELSE NoNack
  <2>1. i \in StoredInterest
    BY <1>2 DEF IsEntry, RecordsOver, InRecordType
  <2>2. i.nonce \in Nonce /\ Lifetime(i) \in Nat
    BY <2>1, StoredInterestType
  <2>3. kept \in NackReason \cup {NoNack}
    BY DEF IsEntry, RecordsOver, OutRecordType
  <2>4. rec(g, i) = [nonce |-> i.nonce, renewed |-> now, expiry |-> now + Lifetime(i), nack |-> kept]
    BY DEF insertOrUpdateOutRecord, IsEntry
  <2>5. now + Lifetime(i) \in Nat
    BY <2>2
  <2> HIDE DEF i, kept, rec
  <2>6. rec(g, i) \in OutRecordType
    BY <2>2, <2>3, <2>4, <2>5, OutRecordFields, Zenon
  <2>7. QED
    BY <2>6, Zenon DEF i
<1>4. RecordsOver(out(p), OutRecordType)
  <2>1. to \subseteq Face
    OBVIOUS
  <2>2. \A g \in DOMAIN e.out : g \in Face /\ e.out[g] \in OutRecordType
    BY DEF IsEntry, RecordsOver
  <2>3. QED
    BY <1>3, <2>1, <2>2 DEF RecordsOver
<1> DEFINE e2 == [e EXCEPT !.out = out(p)]
<1>5. /\ IsEntry(e2) /\ e2.in = e.in
      /\ e2.unsatisfy = e.unsatisfy /\ e2.straggler = e.straggler
  <2> HIDE DEF out
  <2>1. QED
    BY <1>4 DEF IsEntry
<1>6. r.entry = e2 /\ r.sent = {InterestTo(g, k, e.in[p[g]].interest) : g \in to}
  BY <1>1, Zenon DEF Result
<1>7. \A q \in r.sent : ForwardedOK(k, e, r.entry, q)
  <2> SUFFICES ASSUME NEW g \in to
               PROVE  ForwardedOK(k, e, r.entry, InterestTo(g, k, e.in[p[g]].interest))
    BY <1>6
  <2> HIDE DEF e2, out
  <2>1. QED
    BY <1>2, <1>5, <1>6, SMTT(30) DEF ForwardedOK, InterestTo
<1>8. QED
  <2> HIDE DEF e2, out
  <2>1. QED
    BY <1>5, <1>6, <1>7 DEF GoodResult, KeptIn, TimersKept

\* onOutgoingNack erases the in-record of every downstream it answers.
LEMMA OutgoingNackGood ==
  ASSUME NEW k, NEW e, IsEntry(e), NEW D, NEW reason
  PROVE  /\ GoodResult(k, e, onOutgoingNack(k, e, D, reason))
         /\ onOutgoingNack(k, e, D, reason).entry.unsatisfy = e.unsatisfy
         /\ onOutgoingNack(k, e, D, reason).entry.straggler = e.straggler
<1> DEFINE to == (D \cap faces \cap DOMAIN e.in) \ MultiAccessFace
           in == [f \in DOMAIN e.in \ to |-> e.in[f]]
           e2 == [e EXCEPT !.in = in]
           r == onOutgoingNack(k, e, D, reason)
<1>1. r.entry = e2 /\ r.sent = {NackTo(f, k, e.in[f].interest, reason) : f \in to}
  BY DEF onOutgoingNack, Result
<1>2. RecordsOver(in, InRecordType)
  BY DEF IsEntry, RecordsOver
<1>3. /\ IsEntry(e2) /\ e2.in = in
      /\ e2.unsatisfy = e.unsatisfy /\ e2.straggler = e.straggler
  <2> HIDE DEF in
  <2>1. QED
    BY <1>2 DEF IsEntry
<1>4. \A p \in r.sent : NackedOK(k, e, r.entry, p)
  <2> SUFFICES ASSUME NEW f \in to
               PROVE  NackedOK(k, e, r.entry, NackTo(f, k, e.in[f].interest, reason))
    BY <1>1, Zenon
  <2>1. r.entry.in = in
    BY <1>1, <1>3
  <2>2. QED
    BY <2>1 DEF NackedOK, NackTo
<1>5. KeptIn(r.entry, e)
  BY <1>1, <1>3 DEF KeptIn
<1>6. \A g \in DOMAIN e.in \ DOMAIN r.entry.in :
        \E p \in r.sent : p.type = "Nack" /\ p.key = k /\ p.face = g
  <2> SUFFICES ASSUME NEW g \in to
               PROVE  \E p \in r.sent : p.type = "Nack" /\ p.key = k /\ p.face = g
    BY <1>1, <1>3
  <2>1. NackTo(g, k, e.in[g].interest, reason) \in r.sent
    BY <1>1
  <2>2. QED
    BY <2>1 DEF NackTo
<1>7. QED
  BY <1>1, <1>3, <1>4, <1>5, <1>6, Zenon DEF GoodResult, TimersKept

\* cancelUnsatisfyAndStragglerTimer clears both timers and nothing else.
LEMMA CancelGood ==
  ASSUME NEW e, IsEntry(e)
  PROVE  LET c == cancelUnsatisfyAndStragglerTimer(e)
         IN  /\ IsEntry(c) /\ c.in = e.in /\ c.out = e.out
             /\ c.unsatisfy = NoTimer /\ c.straggler = NoStraggler
             /\ c.suppress = e.suppress
<1> DEFINE c == cancelUnsatisfyAndStragglerTimer(e)
<1>1. /\ c.in = e.in /\ c.out = e.out /\ c.suppress = e.suppress
      /\ c.unsatisfy = NoTimer /\ c.straggler = NoStraggler
      /\ c = [in |-> e.in, out |-> e.out, unsatisfy |-> NoTimer, straggler |-> NoStraggler,
              suppress |-> e.suppress]
  <2> DEFINE d == [e EXCEPT !.unsatisfy = NoTimer]
  <2>1. e = [in |-> e.in, out |-> e.out, unsatisfy |-> e.unsatisfy,
             straggler |-> e.straggler, suppress |-> e.suppress]
    BY DEF IsEntry
  <2>2. d = [in |-> e.in, out |-> e.out, unsatisfy |-> NoTimer,
             straggler |-> e.straggler, suppress |-> e.suppress]
    BY <2>1
  <2>3. c = [d EXCEPT !.straggler = NoStraggler]
    BY DEF cancelUnsatisfyAndStragglerTimer
  <2> HIDE DEF c, d
  <2>4. QED
    BY <2>2, <2>3
<1>2. NoStraggler \in [at : Nat \cup {NoTimer}, satisfied : BOOLEAN, freshness : Int]
  BY DEF NoStraggler, NoTimer
<1> HIDE DEF c
<1>3. IsEntry(c)
  BY <1>1, <1>2 DEF IsEntry
<1>4. QED
  BY <1>1, <1>3 DEF c

\* setStragglerTimer arms the straggler timer and changes nothing else.
LEMMA StragglerGood ==
  ASSUME NEW e, IsEntry(e), now \in Nat, NEW satisfied \in BOOLEAN, NEW freshness \in Int
  PROVE  LET c == setStragglerTimer(e, satisfied, freshness)
         IN  /\ IsEntry(c) /\ c.in = e.in /\ c.out = e.out
             /\ c.unsatisfy = e.unsatisfy /\ c.straggler.at # NoTimer
<1> DEFINE c == setStragglerTimer(e, satisfied, freshness)
           st == [at |-> now + StragglerTime, satisfied |-> satisfied, freshness |-> freshness]
<1>1. now + StragglerTime \in Nat
  BY OutgoingAssumption
<1>2. /\ st \in [at : Nat \cup {NoTimer}, satisfied : BOOLEAN, freshness : Int]
      /\ st.at # NoTimer
  BY <1>1 DEF NoTimer
<1> HIDE DEF st
<1>3. /\ c.in = e.in /\ c.out = e.out /\ c.suppress = e.suppress
      /\ c.unsatisfy = e.unsatisfy /\ c.straggler = st
      /\ c = [in |-> e.in, out |-> e.out, unsatisfy |-> e.unsatisfy, straggler |-> st,
              suppress |-> e.suppress]
  BY DEF IsEntry, setStragglerTimer, st
<1> HIDE DEF c
<1>4. IsEntry(c)
  BY <1>2, <1>3 DEF IsEntry
<1>5. QED
  BY <1>2, <1>3, <1>4 DEF c

\* onInterestReject only exchanges the timers, for a straggler timer.
LEMMA RejectGood ==
  ASSUME NEW e, IsEntry(e), now \in Nat
  PROVE  /\ IsEntry(onInterestReject(e))
         /\ onInterestReject(e).in = e.in
         /\ TimersKept(onInterestReject(e), e)
<1> DEFINE c == cancelUnsatisfyAndStragglerTimer(e)
           e2 == setStragglerTimer(c, FALSE, -1)
<1>1. IsEntry(c) /\ c.in = e.in /\ c.unsatisfy = NoTimer
  BY CancelGood
<1> HIDE DEF c
<1>2. IsEntry(e2) /\ e2.in = c.in /\ e2.unsatisfy = NoTimer /\ e2.straggler.at # NoTimer
  <2>1. -1 \in Int /\ FALSE \in BOOLEAN
    OBVIOUS
  <2>2. QED
    BY <1>1, <2>1, StragglerGood, Zenon
<1>3. onInterestReject(e) = IF hasUnexpiredOutRecords(e, now) THEN e ELSE e2
  BY DEF onInterestReject, c
<1> HIDE DEF e2
<1>4. QED
  BY <1>1, <1>2, <1>3 DEF TimersKept

\* A result that is rejected on top stays good.
LEMMA RejectResultGood ==
  ASSUME NEW k, NEW e, NEW r, GoodResult(k, e, r), now \in Nat
  PROVE  GoodResult(k, e, Result(onInterestReject(r.entry), r.sent))
<1> DEFINE e2 == onInterestReject(r.entry)
<1>1. IsEntry(e2) /\ e2.in = r.entry.in /\ TimersKept(e2, r.entry)
  BY RejectGood DEF GoodResult
<1> HIDE DEF e2
<1>2. TimersKept(e2, e)
  BY <1>1 DEF GoodResult, TimersKept
<1>3. KeptIn(e2, e)
  BY <1>1 DEF GoodResult, KeptIn
<1>4. \A p \in r.sent : ForwardedOK(k, e, e2, p) \/ NackedOK(k, e, e2, p)
  BY <1>1 DEF GoodResult, ForwardedOK, NackedOK
<1>5. Result(e2, r.sent).entry = e2 /\ Result(e2, r.sent).sent = r.sent
  BY DEF Result
<1>6. GoodResult(k, e, Result(e2, r.sent))
  BY <1>1, <1>2, <1>3, <1>4, <1>5 DEF GoodResult
<1>7. QED
  BY <1>6 DEF e2

\* Leaving the entry alone is good.
LEMMA NothingGood ==
  ASSUME NEW k, NEW e, IsEntry(e)
  PROVE  GoodResult(k, e, Result(e, {}))
BY DEF GoodResult, Result, KeptIn, TimersKept

\* suppressLonger changes the suppression interval and nothing else.
LEMMA SuppressLongerGood ==
  ASSUME NEW e, IsEntry(e)
  PROVE  /\ IsEntry(suppressLonger(e))
         /\ suppressLonger(e).in = e.in
         /\ suppressLonger(e).unsatisfy = e.unsatisfy
         /\ suppressLonger(e).straggler = e.straggler
<1>1. e.suppress \in SuppressInitial .. SuppressMax
  BY DEF IsEntry
<1>2. (IF 2 * e.suppress < SuppressMax THEN 2 * e.suppress ELSE SuppressMax)
        \in SuppressInitial .. SuppressMax
  BY <1>1, PitEntryAssumption, StrategyAssumption
<1>3. QED
  BY <1>2 DEF IsEntry, suppressLonger

\* GoodResult looks at nothing of an entry but in-records and timers.
LEMMA SameInGood ==
  ASSUME NEW k, NEW e, NEW d, NEW r, GoodResult(k, d, r),
         d.in = e.in, d.unsatisfy = e.unsatisfy, d.straggler = e.straggler
  PROVE  GoodResult(k, e, r)
BY DEF GoodResult, KeptIn, TimersKept, ForwardedOK, NackedOK, violatesScope, hasLocalInRecord

----------------------------------------------------------------------------
(* Strategy triggers.                                                      *)

\* BestRouteStrategy2::afterReceiveInterest for the downstream f.
LEMMA BestRouteInterestGood ==
  ASSUME NEW k, NEW e, IsEntry(e), NEW f \in DOMAIN e.in,
         NEW hops, DOMAIN hops \subseteq Face, now \in Nat,
         NEW r \in bestRouteAfterReceiveInterest(k, e, f, hops)
  PROVE  GoodResult(k, e, r)
<1> DEFINE eligible == {g \in DOMAIN hops : predicate_NextHop_eligible(k, e, f, g)}
           unused   == {g \in eligible : unusedNextHop(e, g)}
           retry    == IF unused # {} THEN LowestCost(hops, unused)
                       ELSE findEligibleNextHopWithEarliestOutRecord(e, eligible)
           noRoute  == onOutgoingNack(k, e, {f}, NO_ROUTE)
           longer   == suppressLonger(e)
<1>1. \A g \in eligible : g \in Face /\ f # g
  BY DEF predicate_NextHop_eligible
<1>2. LowestCost(hops, eligible) \subseteq eligible /\ retry \subseteq eligible
  BY DEF LowestCost, findEligibleNextHopWithEarliestOutRecord
<1>3. CASE r \in UNION {onOutgoingInterest(k, e, {g}) : g \in LowestCost(hops, eligible)}
  <2>1. PICK g \in eligible : r \in onOutgoingInterest(k, e, {g})
    BY <1>2, <1>3, Zenon
  <2>2. {g} \in SUBSET Face /\ \A x \in {g} : \E h \in DOMAIN e.in : h # x
    BY <1>1, <2>1
  <2>3. QED
    BY <2>1, <2>2, OutgoingInterestGood
<1>4. CASE r = Result(onInterestReject(noRoute.entry), noRoute.sent)
  BY <1>4, OutgoingNackGood, RejectResultGood
<1>5. CASE r = Result(e, {})
  BY <1>5, NothingGood
<1>6. CASE r \in UNION {onOutgoingInterest(k, longer, {g}) : g \in retry}
  <2>1. PICK g \in eligible : r \in onOutgoingInterest(k, longer, {g})
    BY <1>2, <1>6, Zenon
  <2>2. /\ IsEntry(longer) /\ longer.in = e.in
        /\ longer.unsatisfy = e.unsatisfy /\ longer.straggler = e.straggler
    BY SuppressLongerGood
  <2> HIDE DEF longer
  <2>3. {g} \in SUBSET Face /\ \A x \in {g} : \E h \in DOMAIN longer.in : h # x
    BY <1>1, <2>1, <2>2
  <2>4. GoodResult(k, longer, r)
    BY <2>1, <2>2, <2>3, OutgoingInterestGood
  <2>5. QED
    BY <2>2, <2>4, SameInGood
<1>7. CASE r = Result(longer, {})
  <2>1. /\ IsEntry(longer) /\ longer.in = e.in
        /\ longer.unsatisfy = e.unsatisfy /\ longer.straggler = e.straggler
    BY SuppressLongerGood
  <2> HIDE DEF longer
  <2>2. QED
    BY <1>7, <2>1, NothingGood, SameInGood
<1>8. QED
  <2> HIDE DEF eligible, retry, noRoute, longer
  <2>1. r \in CASE decide(e) = "NEW" /\ eligible # {} ->
                     UNION {onOutgoingInterest(k, e, {g}) : g \in LowestCost(hops, eligible)}
                [] decide(e) = "NEW" /\ eligible = {} ->
                     {Result(onInterestReject(noRoute.entry), noRoute.sent)}
                [] decide(e) = "SUPPRESS" -> {Result(e, {})}
                [] decide(e) = "FORWARD" /\ eligible # {} ->
                     UNION {onOutgoingInterest(k, longer, {g}) : g \in retry}
                [] OTHER -> {Result(longer, {})}
    BY Zenon DEF bestRouteAfterReceiveInterest, eligible, retry, noRoute, longer
  <2>2. QED
    BY <1>3, <1>4, <1>5, <1>6, <1>7, <2>1, Zenon

\* MulticastStrategy::afterReceiveInterest.
LEMMA MulticastInterestGood ==
  ASSUME NEW k, NEW e, IsEntry(e), NEW hops, DOMAIN hops \subseteq Face, now \in Nat,
         NEW r \in multicastAfterReceiveInterest(k, e, hops)
  PROVE  GoodResult(k, e, r)
<1> DEFINE G == {g \in DOMAIN hops : canForwardTo(k.name, e, g, now)}
<1>1. G \in SUBSET Face /\ \A g \in G : \E h \in DOMAIN e.in : h # g
  BY DEF canForwardTo
<1>2. PICK q \in onOutgoingInterest(k, e, G) :
        r = IF hasUnexpiredOutRecords(q.entry, now)
            THEN q ELSE Result(onInterestReject(q.entry), q.sent)
  BY DEF multicastAfterReceiveInterest
<1>3. GoodResult(k, e, q)
  <2> HIDE DEF G
  <2>1. QED
    BY <1>1, <1>2, OutgoingInterestGood, Zenon
<1>4. QED
  BY <1>2, <1>3, RejectResultGood

\* Every afterReceiveInterest trigger leaves a good result.
LEMMA AfterReceiveInterestGood ==
  ASSUME NEW k, NEW e, IsEntry(e), NEW f \in DOMAIN e.in,
         NEW hops, DOMAIN hops \subseteq Face, now \in Nat,
         NEW r \in afterReceiveInterest(k, e, f, hops)
  PROVE  GoodResult(k, e, r)
BY BestRouteInterestGood, MulticastInterestGood DEF afterReceiveInterest

\* Every afterReceiveNack trigger leaves a good result.
LEMMA AfterReceiveNackGood ==
  ASSUME NEW k, NEW e, IsEntry(e)
  PROVE  GoodResult(k, e, afterReceiveNack(k, e))
<1>1. \A D, reason : GoodResult(k, e, onOutgoingNack(k, e, D, reason))
  BY OutgoingNackGood
<1>2. GoodResult(k, e, Result(e, {}))
  BY NothingGood
<1>3. GoodResult(k, e, bestRouteAfterReceiveNack(k, e))
  BY <1>1, <1>2 DEF bestRouteAfterReceiveNack
<1>4. QED
  BY <1>2, <1>3 DEF afterReceiveNack


----------------------------------------------------------------------------
(* The forwarder.                                                          *)

\* What holds of the PIT entry e with key k.
EntryInv(k, e) ==
  /\ IsEntry(e)
  /\ \A f \in DOMAIN e.in : KeyOf(e.in[f].interest) = k /\ ~violatesLocalhost(f, k.name)
  /\ e.unsatisfy = NoTimer \/ e.straggler.at = NoTimer
  /\ e.unsatisfy # NoTimer => \A f \in DOMAIN e.in : e.in[f].expiry <= e.unsatisfy
  /\ DOMAIN e.in # {} \/ DOMAIN e.out # {} => HasTimer(e)
  /\ \A f, g \in DOMAIN e.in :
       e.in[f].interest.nonce = e.in[g].interest.nonce => f = g

PitOK == DOMAIN pit \subseteq Key /\ \A k \in DOMAIN pit : EntryInv(k, pit[k])

CsOK == \A c \in cs : c.data \in DataPacket /\ c.stale \in Nat \cup {NeverStale}

DeadPair == {<<k.name, n>> : k \in Key, n \in Nonce}

DnlOK == dnl \subseteq DeadPair

FacesOK ==
  /\ faces \subseteq Face /\ gone \subseteq Face /\ faces \cap gone = {}
  /\ DOMAIN fib = FibName
  /\ \A p \in FibName : RecordsOver(fib[p], Cost) /\ DOMAIN fib[p] \subseteq faces

Tables == now \in Nat /\ inputs \in Nat /\ FacesOK /\ CsOK /\ DnlOK

\* What holds of a packet that was sent, in the state after the step.
PacketOK(p) ==
  /\ p.type = "Data" => ~violatesLocalhost(p.face, p.data.name)
  /\ p.type = "Interest" =>
       /\ ~violatesScope(p.key.name, pit[p.key], p.face)
       /\ \E f \in DOMAIN pit[p.key].in : f # p.face
       /\ p.face \in DOMAIN pit[p.key].in =>
            pit[p.key].in[p.face].interest.nonce # p.nonce

SentOK == \A p \in sent : PacketOK(p)

Inv == Tables /\ PitOK /\ InRecordsAreOwed /\ SentOK

\* The inductive invariant contains every invariant the runs check.
LEMMA InvImplies ==
  ASSUME Inv
  PROVE  /\ TypeOK /\ TimersCoverRecords /\ NexthopsAreLive
         /\ DownstreamNoncesDiffer /\ ScopeRespected /\ NoEcho /\ InRecordsAreOwed
<1>1. TypeOK
  BY DEF Inv, Tables, FacesOK, CsOK, DnlOK, DeadPair, PitOK, EntryInv, TypeOK
<1>2. TimersCoverRecords
  BY DEF Inv, PitOK, EntryInv, TimersCoverRecords
<1>3. NexthopsAreLive
  BY DEF Inv, Tables, FacesOK, NexthopsAreLive
<1>4. DownstreamNoncesDiffer
  BY DEF Inv, PitOK, EntryInv, DownstreamNoncesDiffer
<1>5. ScopeRespected
  BY DEF Inv, PitOK, EntryInv, SentOK, PacketOK, ScopeRespected, violatesLocalhost,
         violatesScope, hasLocalInRecord
<1>6. NoEcho
  BY DEF Inv, SentOK, PacketOK, NoEcho
<1>7. QED
  BY <1>1, <1>2, <1>3, <1>4, <1>5, <1>6 DEF Inv

\* The empty tables satisfy the invariant.
LEMMA InitInv ==
  ASSUME Init
  PROVE  Inv
<1>1. Tables
  BY ForwarderAssumption DEF Init, Tables, FacesOK, CsOK, DnlOK
<1>2. PitOK /\ InRecordsAreOwed /\ SentOK
  BY DEF Init, PitOK, InRecordsAreOwed, SentOK
<1>3. QED
  BY <1>1, <1>2 DEF Inv

----------------------------------------------------------------------------
(* Entries.                                                                *)

\* A new entry, as Pit::insert creates it, is in order.
LEMMA NewEntryInv ==
  ASSUME NEW k
  PROVE  EntryInv(k, NewEntry)
<1>1. NoStraggler \in [at : Nat \cup {NoTimer}, satisfied : BOOLEAN, freshness : Int]
  BY DEF NoStraggler, NoTimer
<1>2. SuppressInitial \in SuppressInitial .. SuppressMax
  BY PitEntryAssumption, StrategyAssumption
<1>3. \A S : RecordsOver(NoRecords, S)
  BY DEF RecordsOver, NoRecords
<1>4. DOMAIN NoRecords = {}
  BY DEF NoRecords
<1>5. IsEntry(NewEntry)
  BY <1>1, <1>2, <1>3 DEF NewEntry, IsEntry
<1>6. /\ NewEntry.in = NoRecords /\ NewEntry.out = NoRecords
      /\ NewEntry.unsatisfy = NoTimer
  BY DEF NewEntry
<1>7. QED
  BY <1>4, <1>5, <1>6 DEF EntryInv

\* The entry Pit::insert returns is in order.
LEMMA PitInsertInv ==
  ASSUME PitOK, NEW k
  PROVE  EntryInv(k, PitInsert(k))
BY NewEntryInv DEF PitInsert, PitOK

\* A strategy that leaves a good result leaves an entry in order.
LEMMA GoodEntry ==
  ASSUME NEW k, NEW e, EntryInv(k, e), HasTimer(e), NEW r, GoodResult(k, e, r)
  PROVE  EntryInv(k, r.entry)
<1>1. /\ IsEntry(r.entry) /\ DOMAIN r.entry.in \subseteq DOMAIN e.in
      /\ \A g \in DOMAIN r.entry.in : g \in DOMAIN e.in /\ r.entry.in[g] = e.in[g]
  BY Zenon DEF GoodResult, KeptIn
<1>2. \A g \in DOMAIN r.entry.in :
        KeyOf(r.entry.in[g].interest) = k /\ ~violatesLocalhost(g, k.name)
  BY <1>1, Zenon DEF EntryInv
<1>3. \A g, h \in DOMAIN r.entry.in :
        r.entry.in[g].interest.nonce = r.entry.in[h].interest.nonce => g = h
  BY <1>1, Zenon DEF EntryInv
<1>4. CASE r.entry.unsatisfy = e.unsatisfy /\ r.entry.straggler = e.straggler
  <2>1. r.entry.unsatisfy # NoTimer =>
          \A g \in DOMAIN r.entry.in : r.entry.in[g].expiry <= r.entry.unsatisfy
    BY <1>1, <1>4, Zenon DEF EntryInv
  <2>2. HasTimer(r.entry) /\ (r.entry.unsatisfy = NoTimer \/ r.entry.straggler.at = NoTimer)
    BY <1>4, Zenon DEF EntryInv, HasTimer
  <2> QED
    BY <1>1, <1>2, <1>3, <2>1, <2>2, Zenon DEF EntryInv
<1>5. CASE r.entry.unsatisfy = NoTimer /\ r.entry.straggler.at # NoTimer
  BY <1>1, <1>2, <1>3, <1>5, Zenon DEF EntryInv, HasTimer
<1> QED
  BY <1>4, <1>5, Zenon DEF GoodResult, TimersKept

\* Storing an entry in order keeps the PIT in order.
LEMMA PitPutOK ==
  ASSUME PitOK, NEW k \in Key, NEW e, EntryInv(k, e), pit' = PitPut(k, e)
  PROVE  PitOK'
<1>1. DOMAIN pit' = DOMAIN pit \cup {k}
  BY DEF PitPut
<1>2. \A x \in DOMAIN pit' : pit'[x] = IF x = k THEN e ELSE pit[x]
  BY DEF PitPut
<1>3. ASSUME NEW x \in DOMAIN pit'
      PROVE  EntryInv(x, pit'[x])
  BY <1>1, <1>2, <1>3 DEF PitOK
<1>4. QED
  BY <1>1, <1>3 DEF PitOK, EntryInv, HasTimer, IsEntry, violatesLocalhost

----------------------------------------------------------------------------
(* Incoming Interest.                                                      *)

\* A FIB lookup yields nexthops that are live faces.
LEMMA LookupFaces ==
  ASSUME FacesOK, NEW n
  PROVE  DOMAIN findLongestPrefixMatch(fib, n).hops \subseteq faces
<1> DEFINE matches == {p \in DOMAIN fib : hasNextHops(fib[p]) /\ IsPrefixOf(p, n)}
           IsLongest(p) == \A q \in matches : Len(q) <= Len(p)
           v == [p \in matches |-> Len(p)]
<1>1. CASE matches = {}
  BY <1>1 DEF findLongestPrefixMatch, NoHops
<1>2. CASE matches # {}
  <2>1. matches \subseteq FibName /\ IsFiniteSet(matches)
    BY ForwarderAssumption, FS_Subset DEF FacesOK
  <2>2. \A p \in matches : v[p] \in Int /\ v[p] = Len(p)
    BY <2>1, ForwarderAssumption DEF Name
  <2>3. \E p \in matches : \A q \in matches : v[q] <= v[p]
    <3> HIDE DEF v, matches
    <3>1. QED
      BY <1>2, <2>1, <2>2, MaximumExists
  <2>4. \E p \in matches : IsLongest(p)
    BY <2>2, <2>3
  <2>5. (CHOOSE p \in matches : IsLongest(p)) \in matches
    BY <2>4
  <2>6. findLongestPrefixMatch(fib, n).hops = fib[CHOOSE p \in matches : IsLongest(p)]
    BY <1>2 DEF findLongestPrefixMatch
  <2>7. QED
    BY <2>1, <2>5, <2>6, Zenon DEF FacesOK
<1>3. QED
  BY <1>1, <1>2

\* Whichever way onContentStoreMiss looks the Interest up, it ends with live
\* nexthops and an Interest that carries a delegation of its own Link at most.
LEMMA FibLookupGood ==
  ASSUME FacesOK, NEW i \in InterestPacket
  PROVE  /\ DOMAIN fibLookup(i).hops \subseteq faces
         /\ [i EXCEPT !.sel = fibLookup(i).sel] \in StoredInterest
<1> DEFINE lpm(n)    == findLongestPrefixMatch(fib, n)
           first     == lpm(i.link[1])
           links     == {i.link[j] : j \in DOMAIN i.link}
           routable  == {j \in DOMAIN i.link : hasNextHops(lpm(i.link[j]).hops)}
           IsFirst(j) == \A l \in routable : j <= l
           delegated == CHOOSE j \in routable : IsFirst(j)
<1>1. \A n : DOMAIN lpm(n).hops \subseteq faces
  BY LookupFaces
<1>2. i.link \in Seq(Name)
  BY ForwarderAssumption
<1>3. routable # {} => delegated \in routable
  <2> SUFFICES ASSUME routable # {} PROVE delegated \in routable
    OBVIOUS
  <2> DEFINE v == [j \in routable |-> -j]
  <2>1. routable \subseteq 1 .. Len(i.link) /\ Len(i.link) \in Nat
    BY <1>2
  <2>2. IsFiniteSet(routable)
    <3>1. IsFiniteSet(1 .. Len(i.link))
      BY <2>1, FS_Interval
    <3>2. QED
      BY <2>1, <3>1, FS_Subset
  <2>3. \A j \in routable : v[j] \in Int /\ v[j] = -j /\ j \in Int
    BY <2>1
  <2>4. \E j \in routable : \A l \in routable : v[l] <= v[j]
    <3> HIDE DEF v, routable
    <3>1. QED
      BY <2>2, <2>3, MaximumExists
  <2>5. \E j \in routable : IsFirst(j)
    <3> HIDE DEF v, routable
    <3>1. QED
      BY <2>3, <2>4
  <2>6. QED
    BY <2>5
<1>4. DOMAIN NoHops \subseteq faces
  BY Zenon DEF NoHops
<1>5. DOMAIN fibLookup(i).hops \subseteq faces /\ fibLookup(i).sel \subseteq i.sel \cup links
  <2> DEFINE byDelegation ==
               IF first.prefix = <<>> /\ hasNextHops(first.hops)
               THEN [hops |-> first.hops, sel |-> {}]
               ELSE IF routable = {} THEN [hops |-> NoHops, sel |-> {}]
               ELSE [hops |-> lpm(i.link[delegated]).hops, sel |-> {i.link[delegated]}]
             byName == [hops |-> lpm(i.name).hops, sel |-> i.sel]
             bySelected == [hops |-> lpm(CHOOSE d \in i.sel : TRUE).hops, sel |-> i.sel]
  <2>1. fibLookup(i) \in {byDelegation, byName, bySelected}
    BY Zenon DEF fibLookup
  <2>2. routable # {} => i.link[delegated] \in links
    BY <1>3, Zenon
  <2> HIDE DEF routable, delegated, lpm
  <2>3. DOMAIN byDelegation.hops \subseteq faces /\ byDelegation.sel \subseteq i.sel \cup links
    BY <1>1, <1>4, <2>2
  <2>4. DOMAIN byName.hops \subseteq faces /\ byName.sel \subseteq i.sel \cup links
    BY <1>1
  <2>5. DOMAIN bySelected.hops \subseteq faces /\ bySelected.sel \subseteq i.sel \cup links
    BY <1>1
  <2>6. QED
    BY <2>1, <2>3, <2>4, <2>5, Zenon
<1>6. ASSUME NEW s, s \subseteq i.sel \cup links
      PROVE  [i EXCEPT !.sel = s] \in StoredInterest
  <2> DEFINE variants(j) ==
        {[j EXCEPT !.sel = t] : t \in SUBSET (j.sel \cup {j.link[l] : l \in DOMAIN j.link})}
  <2>1. [i EXCEPT !.sel = s] \in variants(i)
    BY <1>6
  <2>2. StoredInterest = UNION {variants(j) : j \in InterestPacket}
    BY DEF StoredInterest
  <2> HIDE DEF variants
  <2>3. QED
    BY <2>1, <2>2
<1>7. QED
  BY <1>5, <1>6

\* The entry handed to the strategy: the new in-record is in it, the others are
\* as before, and the unsatisfy timer covers all of them.
LEMMA PendingEntryInv ==
  ASSUME PitOK, now \in Nat, NEW f \in Face, NEW i \in InterestPacket, NEW s,
         [i EXCEPT !.sel = s] \in StoredInterest,
         ~violatesLocalhost(f, i.name), ~hasDuplicateNonce(i),
         NEW e,
         e = setUnsatisfyTimer(insertOrUpdateInRecord(
               cancelUnsatisfyAndStragglerTimer(PitInsert(KeyOf(i))),
               f, [i EXCEPT !.sel = s], now))
  PROVE  /\ EntryInv(KeyOf(i), e) /\ HasTimer(e)
         /\ DOMAIN e.in = DOMAIN PitInsert(KeyOf(i)).in \cup {f}
         /\ e.in[f].expiry = now + Lifetime(i)
         /\ \A g \in DOMAIN e.in \ {f} : e.in[g] = PitInsert(KeyOf(i)).in[g]
<1> DEFINE k == KeyOf(i)
           e0 == PitInsert(k)
           c  == cancelUnsatisfyAndStragglerTimer(e0)
           si == [i EXCEPT !.sel = s]
           in == [g \in DOMAIN c.in \cup {f} |-> IF g = f THEN InRecordOf(si, now) ELSE c.in[g]]
           d  == insertOrUpdateInRecord(c, f, si, now)
<1>1. EntryInv(k, e0)
  BY PitInsertInv
<1>2. /\ IsEntry(c) /\ c.in = e0.in /\ c.out = e0.out
      /\ c.unsatisfy = NoTimer /\ c.straggler = NoStraggler
  BY <1>1, CancelGood DEF EntryInv
<1>3. /\ i \in [name : Name, fresh : BOOLEAN, nonce : Nonce, lifetime : Int,
                link : Seq(Name), sel : SUBSET Name]
  BY ForwarderAssumption
<1>4. /\ si.name = i.name /\ si.fresh = i.fresh /\ si.nonce = i.nonce
      /\ si.lifetime = i.lifetime
  BY <1>3
<1>5. KeyOf(si) = k /\ Lifetime(si) = Lifetime(i) /\ Lifetime(i) \in Nat
  BY <1>4, StoredInterestType, Zenon DEF KeyOf, Lifetime
<1>6. InRecordOf(si, now) \in InRecordType
  BY <1>5 DEF InRecordOf, InRecordType
<1> HIDE DEF c, si
<1>7. RecordsOver(in, InRecordType)
  BY <1>2, <1>6 DEF IsEntry, RecordsOver
<1>8. d = [c EXCEPT !.in = in]
  BY DEF insertOrUpdateInRecord
<1>9. /\ IsEntry(d) /\ d.in = in
      /\ d.unsatisfy = NoTimer /\ d.straggler = NoStraggler
  <2> HIDE DEF in, d
  <2>1. QED
    BY <1>2, <1>7, <1>8 DEF IsEntry
<1>10. /\ DOMAIN in = DOMAIN e0.in \cup {f}
       /\ in[f] = InRecordOf(si, now)
       /\ \A g \in DOMAIN in \ {f} : in[g] = e0.in[g]
  BY <1>2
<1> HIDE DEF in, d
<1>11. /\ LastExpiry(d) \in Nat
       /\ \A g \in DOMAIN d.in : d.in[g].expiry <= LastExpiry(d)
  <2>1. DOMAIN d.in # {}
    BY <1>9, <1>10
  <2>2. QED
    BY <1>9, <2>1, LastExpiryCovers
<1>12. e = [d EXCEPT !.unsatisfy = LastExpiry(d)]
  BY DEF setUnsatisfyTimer, d, c, si
<1>13. /\ IsEntry(e) /\ e.in = in
       /\ e.unsatisfy = LastExpiry(d) /\ e.straggler = NoStraggler
  BY <1>9, <1>11, <1>12 DEF IsEntry
<1>14. e.unsatisfy # NoTimer /\ e.straggler.at = NoTimer /\ HasTimer(e)
  BY <1>11, <1>13 DEF NoTimer, NoStraggler, HasTimer
<1>15. in[f].interest = si /\ in[f].expiry = now + Lifetime(i)
  BY <1>5, <1>10 DEF InRecordOf
<1>16. \A g \in DOMAIN in : KeyOf(in[g].interest) = k /\ ~violatesLocalhost(g, k.name)
  <2>1. k.name = i.name
    BY DEF KeyOf
  <2>2. QED
    BY <1>1, <1>5, <1>10, <1>15, <2>1 DEF EntryInv
<1>17. \A g \in DOMAIN e0.in : e0.in[g].interest.nonce # i.nonce
  BY DEF hasDuplicateNonce, findNonce
<1>18. \A g, h \in DOMAIN in : in[g].interest.nonce = in[h].interest.nonce => g = h
  BY <1>1, <1>4, <1>10, <1>15, <1>17 DEF EntryInv
<1>19. EntryInv(k, e)
  BY <1>9, <1>11, <1>13, <1>14, <1>16, <1>18 DEF EntryInv
<1>20. QED
  BY <1>10, <1>13, <1>14, <1>15, <1>19

\* Which debts the packets of a good result settle: those of the in-records it
\* erased, no other.
LEMMA SettleGood ==
  ASSUME NEW k, NEW e, NEW r, GoodResult(k, e, r), NEW debts,
         NEW o \in debts, o.key = k => o.face \in DOMAIN e.in
  PROVE  o \in Settle(debts, r.sent) <=> (o.key = k => o.face \in DOMAIN r.entry.in)
<1>1. ASSUME NEW p \in r.sent
      PROVE  Answers(p, o.face, o.key) =>
               o.key = k /\ o.face \notin DOMAIN r.entry.in
  <2>1. CASE ForwardedOK(k, e, r.entry, p)
    BY <2>1 DEF ForwardedOK, Answers
  <2>2. CASE NackedOK(k, e, r.entry, p)
    BY <2>2 DEF NackedOK, Answers
  <2>3. QED
    BY <1>1, <2>1, <2>2 DEF GoodResult
<1>2. ASSUME o.key = k, o.face \notin DOMAIN r.entry.in
      PROVE  \E p \in r.sent : Answers(p, o.face, o.key)
  <2>1. o.face \in DOMAIN e.in \ DOMAIN r.entry.in
    BY <1>2
  <2>2. QED
    BY <1>2, <2>1 DEF GoodResult, Answers
<1>3. QED
  BY <1>1, <1>2 DEF Settle

\* The packets of a good result are in order once the entry is stored.
LEMMA SentGood ==
  ASSUME NEW k, NEW e, EntryInv(k, e), NEW r, GoodResult(k, e, r),
         pit' = PitPut(k, r.entry), sent' = r.sent
  PROVE  SentOK'
<1>1. pit'[k] = r.entry
  BY DEF PitPut
<1>2. ASSUME NEW p \in r.sent
      PROVE  PacketOK(p)'
  <2>1. CASE ForwardedOK(k, e, r.entry, p)
    <3>1. /\ p.type = "Interest" /\ p.key = k /\ pit'[p.key].in = e.in
          /\ ~violatesScope(k.name, e, p.face)
      BY <1>1, <2>1 DEF ForwardedOK
    <3>2. ~violatesScope(p.key.name, pit'[p.key], p.face)
      BY <3>1 DEF violatesScope, hasLocalInRecord
    <3>3. PICK h \in DOMAIN e.in \ {p.face} : p.nonce = e.in[h].interest.nonce
      BY <2>1 DEF ForwardedOK
    <3>4. p.face \in DOMAIN e.in => e.in[p.face].interest.nonce # p.nonce
      BY <3>3 DEF EntryInv
    <3>5. QED
      BY <3>1, <3>2, <3>3, <3>4 DEF PacketOK
  <2>2. CASE NackedOK(k, e, r.entry, p)
    BY <2>2, Zenon DEF NackedOK, PacketOK
  <2>3. QED
    BY <1>2, <2>1, <2>2, Zenon DEF GoodResult
<1>3. QED
  BY <1>2 DEF SentOK

\* The fields of a debt.
LEMMA DebtFields ==
  \A a, b, c : LET o == [face |-> a, key |-> b, until |-> c]
              IN  o.face = a /\ o.key = b /\ o.until = c
BY SMT

\* Steps that leave the PIT and the debts alone and send nothing.
LEMMA QuietStep ==
  ASSUME PitOK, InRecordsAreOwed, sent' = {}, UNCHANGED <<pit, owed>>
  PROVE  PitOK' /\ InRecordsAreOwed' /\ SentOK'
<1>1. PitOK'
  <2>1. DOMAIN pit' \subseteq Key /\ \A k \in DOMAIN pit' : EntryInv(k, pit'[k])
    BY Zenon DEF PitOK
  <2> QED
    BY <2>1, Zenon DEF PitOK, EntryInv, IsEntry, HasTimer, violatesLocalhost
<1>2. InRecordsAreOwed'
  BY Zenon DEF InRecordsAreOwed
<1>3. SentOK'
  BY Zenon DEF SentOK
<1> QED
  BY <1>1, <1>2, <1>3

\* Packets and commands leave the counter in order.
LEMMA InputOK ==
  ASSUME inputs \in Nat, NEW p, Input(p)
  PROVE  inputs' \in Nat
BY DEF Input

\* An Interest whose nonce was seen may leave an empty entry behind, no more.
LEMMA InterestLoopInv ==
  ASSUME Inv, NEW f \in Face, NEW i \in InterestPacket, InterestLoop(f, i)
  PROVE  Inv'
<1> DEFINE k == KeyOf(i)
<1>1. k \in Key
  BY DEF Key
<1>2. PitOK'
  BY <1>1, PitInsertInv, PitPutOK DEF Inv, InterestLoop
<1>3. Tables'
  BY InputOK DEF Inv, Tables, FacesOK, CsOK, DnlOK, InterestLoop
<1>4. DOMAIN pit' = DOMAIN pit \cup {k} /\ \A x \in DOMAIN pit : pit'[x] = pit[x]
  BY DEF InterestLoop, PitPut, PitInsert
<1>5. k \notin DOMAIN pit => DOMAIN pit'[k].in = {}
  BY Zenon DEF InterestLoop, PitPut, PitInsert, NewEntry, NoRecords
<1>6. InRecordsAreOwed'
  <2>1. InRecordsAreOwed /\ owed' = owed
    BY Zenon DEF Inv, InterestLoop
  <2>2. ASSUME NEW x \in DOMAIN pit', NEW g \in DOMAIN pit'[x].in
        PROVE  [face |-> g, key |-> x, until |-> pit'[x].in[g].expiry] \in owed'
    <3>1. x \in DOMAIN pit /\ pit'[x] = pit[x]
      BY <1>4, <1>5, <2>2, Zenon
    <3> QED
      BY <2>1, <2>2, <3>1, Zenon DEF InRecordsAreOwed
  <2>3. ASSUME NEW o \in owed'
        PROVE  /\ o.key \in DOMAIN pit' /\ o.face \in DOMAIN pit'[o.key].in
               /\ o.until = pit'[o.key].in[o.face].expiry
    <3>1. /\ o.key \in DOMAIN pit /\ o.face \in DOMAIN pit[o.key].in
          /\ o.until = pit[o.key].in[o.face].expiry
      BY <2>1, <2>3, Zenon DEF InRecordsAreOwed
    <3> QED
      BY <1>4, <3>1, Zenon
  <2> QED
    BY <2>2, <2>3, Zenon DEF InRecordsAreOwed
<1>7. SentOK'
  BY DEF InterestLoop, SentOK
<1>8. QED
  BY <1>2, <1>3, <1>6, <1>7 DEF Inv

\* What onOutgoingData sends is in scope.
LEMMA DataSentOK ==
  ASSUME NEW d, NEW D, sent' = onOutgoingData(d, D)
  PROVE  SentOK'
<1>1. ASSUME NEW p \in sent'
      PROVE  p.type = "Data" /\ p.type # "Interest" /\ ~violatesLocalhost(p.face, p.data.name)
  <2>1. PICK g : p = DataTo(g, d) /\ ~violatesLocalhost(g, d.name)
    BY <1>1, Zenon DEF onOutgoingData
  <2>2. p.type = "Data" /\ p.face = g /\ p.data = d
    BY <2>1, SMT DEF DataTo
  <2>3. QED
    BY <2>1, <2>2, SMT
<1>2. QED
  BY <1>1, Zenon DEF SentOK, PacketOK, violatesLocalhost

\* The Interest is answered from the ContentStore; the entry has no in-record.
LEMMA ContentStoreHitInv ==
  ASSUME Inv, NEW f \in Face, NEW i \in InterestPacket, ContentStoreHit(f, i)
  PROVE  Inv'
<1> DEFINE k == KeyOf(i)
           c == cancelUnsatisfyAndStragglerTimer(PitInsert(k))
           e(d) == setStragglerTimer(c, TRUE, d.freshness)
<1>1. k \in Key /\ now \in Nat
  BY DEF Key, Inv, Tables
<1>2. PICK d \in DataPacket :
        pit' = PitPut(k, e(d)) /\ sent' = onOutgoingData(d, {f})
  BY Zenon DEF ContentStoreHit, onContentStoreHit, CsMatches, Inv, Tables, CsOK
<1>3. IsEntry(c) /\ c.in = PitInsert(k).in /\ c.unsatisfy = NoTimer
  BY PitInsertInv, CancelGood DEF Inv, EntryInv
<1>4. DOMAIN PitInsert(k).in = {}
  BY DEF ContentStoreHit, isPending
<1>5. /\ IsEntry(e(d)) /\ DOMAIN e(d).in = {}
      /\ e(d).unsatisfy = NoTimer /\ e(d).straggler.at # NoTimer
  <2>1. d.freshness \in Int /\ TRUE \in BOOLEAN
    BY ForwarderAssumption
  <2> HIDE DEF c
  <2>2. QED
    BY <1>1, <1>3, <1>4, <2>1, StragglerGood, Zenon
<1> HIDE DEF c, e
<1>6. EntryInv(k, e(d))
  BY <1>5 DEF EntryInv, HasTimer
<1>7. PitOK'
  BY <1>1, <1>2, <1>6, PitPutOK DEF Inv
<1>8. Tables'
  BY InputOK, Zenon DEF Inv, Tables, FacesOK, CsOK, DnlOK, ContentStoreHit
<1>9. InRecordsAreOwed'
  <2>1. /\ DOMAIN pit' = DOMAIN pit \cup {k} /\ pit'[k] = e(d)
        /\ \A x \in DOMAIN pit \ {k} : pit'[x] = pit[x]
    BY <1>2 DEF PitPut
  <2>2. k \in DOMAIN pit => DOMAIN pit[k].in = {}
    BY <1>4 DEF PitInsert
  <2>3. owed' = owed
    BY DEF ContentStoreHit
  <2>4. QED
    BY <1>5, <2>1, <2>2, <2>3, Zenon DEF Inv, InRecordsAreOwed
<1>10. SentOK'
  BY <1>2, DataSentOK, Zenon
<1>11. QED
  BY <1>7, <1>8, <1>9, <1>10 DEF Inv

\* The entry onContentStoreMiss hands to the strategy.
PendingEntry(f, i) ==
  setUnsatisfyTimer(insertOrUpdateInRecord(
    cancelUnsatisfyAndStragglerTimer(PitInsert(KeyOf(i))),
    f, [i EXCEPT !.sel = fibLookup(i).sel], now))

\* The strategy's result, and what holds of the entry it was given.
LEMMA MissStep ==
  ASSUME Inv, NEW f \in Face, NEW i \in InterestPacket, ContentStoreMiss(f, i)
  PROVE  LET k  == KeyOf(i)
             e0 == PitInsert(k)
             e  == PendingEntry(f, i)
         IN  /\ EntryInv(k, e) /\ HasTimer(e)
             /\ DOMAIN e.in = DOMAIN e0.in \cup {f}
             /\ e.in[f].expiry = now + Lifetime(i)
             /\ \A g \in DOMAIN e.in \ {f} : e.in[g] = e0.in[g]
             /\ \E r \in afterReceiveInterest(k, e, f, fibLookup(i).hops) :
                  /\ pit' = PitPut(k, r.entry)
                  /\ sent' = r.sent
                  /\ owed' = Settle(Accept(f, i), r.sent)
                  /\ GoodResult(k, e, r)
<1> DEFINE k  == KeyOf(i)
           e0 == PitInsert(k)
           s  == fibLookup(i).sel
           e  == PendingEntry(f, i)
<1>1. now \in Nat /\ FacesOK /\ PitOK
  BY DEF Inv, Tables
<1>2. PICK r \in afterReceiveInterest(k, e, f, fibLookup(i).hops) :
        /\ pit' = PitPut(k, r.entry)
        /\ sent' = r.sent
        /\ owed' = Settle(Accept(f, i), r.sent)
  BY DEF ContentStoreMiss, onContentStoreMiss, PendingEntry
<1>3. /\ DOMAIN fibLookup(i).hops \subseteq Face
      /\ [i EXCEPT !.sel = s] \in StoredInterest
  BY <1>1, FibLookupGood DEF FacesOK
<1>4. /\ EntryInv(k, e) /\ HasTimer(e)
      /\ DOMAIN e.in = DOMAIN e0.in \cup {f}
      /\ e.in[f].expiry = now + Lifetime(i)
      /\ \A g \in DOMAIN e.in \ {f} : e.in[g] = e0.in[g]
  <2>1. ~violatesLocalhost(f, i.name) /\ ~hasDuplicateNonce(i)
    BY DEF ContentStoreMiss
  <2>2. e = setUnsatisfyTimer(insertOrUpdateInRecord(
              cancelUnsatisfyAndStragglerTimer(e0), f, [i EXCEPT !.sel = s], now))
    BY DEF PendingEntry
  <2> HIDE DEF s, e
  <2>3. QED
    BY <1>1, <1>3, <2>1, <2>2, PendingEntryInv
<1> HIDE DEF e, s
<1>5. GoodResult(k, e, r)
  <2>1. IsEntry(e) /\ f \in DOMAIN e.in
    BY <1>4, Zenon DEF EntryInv
  <2>2. QED
    BY <1>1, <1>2, <1>3, <2>1, AfterReceiveInterestGood
<1>6. QED
  BY <1>2, <1>4, <1>5, Zenon DEF e

\* The Interest becomes an in-record and the strategy decides what to send.
LEMMA ContentStoreMissInv ==
  ASSUME Inv, NEW f \in Face, NEW i \in InterestPacket, ContentStoreMiss(f, i)
  PROVE  Inv'
<1> DEFINE k  == KeyOf(i)
           e0 == PitInsert(k)
           e  == PendingEntry(f, i)
<1>1. k \in Key /\ PitOK
  BY Zenon DEF Key, Inv, Tables
<1>2. PICK r \in afterReceiveInterest(k, e, f, fibLookup(i).hops) :
        /\ pit' = PitPut(k, r.entry)
        /\ sent' = r.sent
        /\ owed' = Settle(Accept(f, i), r.sent)
        /\ GoodResult(k, e, r)
  BY MissStep, Zenon
<1>4. /\ EntryInv(k, e) /\ HasTimer(e)
      /\ DOMAIN e.in = DOMAIN e0.in \cup {f}
      /\ e.in[f].expiry = now + Lifetime(i)
      /\ \A g \in DOMAIN e.in \ {f} : e.in[g] = e0.in[g]
  BY MissStep, Zenon
<1> HIDE DEF e
<1>5. GoodResult(k, e, r)
  BY <1>2, Zenon
<1>6. PitOK'
  BY <1>1, <1>2, <1>4, <1>5, GoodEntry, PitPutOK, Zenon
<1>7. Tables'
  BY InputOK DEF Inv, Tables, FacesOK, CsOK, DnlOK, ContentStoreMiss
<1>8. SentOK'
  BY <1>2, <1>4, <1>5, SentGood, Zenon
<1>9. InRecordsAreOwed'
  <2>1. /\ DOMAIN pit' = DOMAIN pit \cup {k} /\ pit'[k] = r.entry
        /\ \A x \in DOMAIN pit \ {k} : pit'[x] = pit[x]
    BY <1>2, Zenon DEF PitPut
  <2>2. \A g \in DOMAIN e0.in : k \in DOMAIN pit /\ e0 = pit[k]
    BY DEF PitInsert, NewEntry, NoRecords
  <2> DEFINE New == [face |-> f, key |-> k, until |-> now + Lifetime(i)]
  <2>3. Accept(f, i) = {o \in owed : o.face # f \/ o.key # k} \cup {New}
    BY DEF Accept
  <2>4. \A o \in Accept(f, i) : o.key = k =>
          o.face \in DOMAIN e.in /\ o.until = e.in[o.face].expiry
    <3>1. ASSUME NEW o \in owed, o.key = k, o.face # f
          PROVE  o.face \in DOMAIN e.in /\ o.until = e.in[o.face].expiry
      <4>1. /\ k \in DOMAIN pit /\ o.face \in DOMAIN pit[k].in
            /\ o.until = pit[k].in[o.face].expiry
        BY <3>1, Zenon DEF Inv, InRecordsAreOwed
      <4>2. e0 = pit[k]
        BY <4>1, Zenon DEF PitInsert
      <4>3. QED
        BY <1>4, <3>1, <4>1, <4>2, Zenon
    <3>2. New.face = f /\ New.until = now + Lifetime(i)
      BY DebtFields, Zenon
    <3> HIDE DEF New
    <3>3. QED
      BY <1>4, <2>3, <3>1, <3>2, Zenon
  <2>5. \A g \in DOMAIN e.in :
          [face |-> g, key |-> k, until |-> e.in[g].expiry] \in Accept(f, i)
    BY <1>4, <2>2, <2>3, Zenon DEF Inv, InRecordsAreOwed
  <2>6. \A o : o \in owed' <=> o \in Accept(f, i) /\ (o.key = k => o.face \in DOMAIN r.entry.in)
    <3>1. \A o \in Accept(f, i) :
            o \in owed' <=> (o.key = k => o.face \in DOMAIN r.entry.in)
      BY <1>2, <1>5, <2>4, SettleGood, Zenon
    <3>2. owed' \subseteq Accept(f, i)
      BY <1>2, Zenon DEF Settle
    <3>3. QED
      BY <3>1, <3>2
  <2>7. \A g \in DOMAIN r.entry.in : g \in DOMAIN e.in /\ r.entry.in[g] = e.in[g]
    BY <1>5, Zenon DEF GoodResult, KeptIn
  <2>8. ASSUME NEW x \in DOMAIN pit', NEW g \in DOMAIN pit'[x].in
        PROVE  [face |-> g, key |-> x, until |-> pit'[x].in[g].expiry] \in owed'
    <3>1. CASE x = k
      BY <2>1, <2>5, <2>6, <2>7, <2>8, <3>1, Zenon
    <3>2. CASE x # k
      <4>1. x \in DOMAIN pit /\ pit'[x] = pit[x]
        BY <2>1, <2>8, <3>2, Zenon
      <4>2. [face |-> g, key |-> x, until |-> pit[x].in[g].expiry] \in owed
        BY <2>8, <4>1, Zenon DEF Inv, InRecordsAreOwed
      <4>3. QED
        BY <2>3, <2>6, <3>2, <4>1, <4>2, Zenon
    <3>3. QED
      BY <3>1, <3>2, Zenon
  <2>9. ASSUME NEW o \in owed'
        PROVE  /\ o.key \in DOMAIN pit' /\ o.face \in DOMAIN pit'[o.key].in
               /\ o.until = pit'[o.key].in[o.face].expiry
    <3>1. CASE o.key = k
      <4>1. o \in Accept(f, i) /\ o.face \in DOMAIN r.entry.in
        BY <2>6, <2>9, <3>1, Zenon
      <4>2. o.until = e.in[o.face].expiry
        BY <2>4, <3>1, <4>1, Zenon
      <4>3. r.entry.in[o.face] = e.in[o.face]
        BY <2>7, <4>1, Zenon
      <4>4. k \in DOMAIN pit' /\ pit'[k] = r.entry
        BY <2>1, Zenon
      <4>5. QED
        BY <3>1, <4>1, <4>2, <4>3, <4>4, Zenon
    <3>2. CASE o.key # k
      <4>1. o \in owed
        <5>1. o \in {x \in owed : x.face # f \/ x.key # k} \cup {New}
          BY <2>3, <2>6, <2>9, Zenon
        <5>2. New.key = k
          BY DebtFields, Zenon
        <5> HIDE DEF New
        <5>3. QED
          BY <3>2, <5>1, <5>2, Zenon
      <4>2. /\ o.key \in DOMAIN pit /\ o.face \in DOMAIN pit[o.key].in
            /\ o.until = pit[o.key].in[o.face].expiry
        BY <4>1, Zenon DEF Inv, InRecordsAreOwed
      <4>3. o.key \in DOMAIN pit' /\ pit'[o.key] = pit[o.key]
        BY <2>1, <3>2, <4>2, Zenon
      <4>4. QED
        BY <4>2, <4>3, Zenon
    <3>3. QED
      BY <3>1, <3>2, Zenon
  <2>10. QED
    BY <2>8, <2>9, Zenon DEF InRecordsAreOwed
<1>10. QED
  BY <1>6, <1>7, <1>8, <1>9, Zenon DEF Inv

----------------------------------------------------------------------------
(* Incoming Data.                                                          *)

\* Cs::insert keeps what the ContentStore holds typed.
LEMMA CsInsertOK ==
  ASSUME CsOK, now \in Nat, NEW d \in DataPacket, cs' \in CsInsert(cs, d, CsLimit, now)
  PROVE  CsOK'
<1> DEFINE new == {c \in cs : c.data # d} \cup {[data |-> d, stale |-> StaleTime(d, now)]}
<1>1. d.freshness \in Int
  BY ForwarderAssumption
<1>2. StaleTime(d, now) \in Nat \cup {NeverStale}
  BY <1>1 DEF StaleTime
<1>3. \A c \in new : c.data \in DataPacket /\ c.stale \in Nat \cup {NeverStale}
  BY <1>2 DEF CsOK
<1>4. cs' \subseteq cs \/ cs' \subseteq new
  BY DEF CsInsert
<1>5. QED
  BY <1>3, <1>4 DEF CsOK

\* insertDeadNonceList adds pairs of a name and a nonce of the entry.
LEMMA DeadNoncesOK ==
  ASSUME PitOK, NEW k \in DOMAIN pit, NEW satisfied, NEW freshness, NEW up
  PROVE  insertDeadNonceList(k, pit[k], satisfied, freshness, up) \subseteq DeadPair
<1>1. \A g \in DOMAIN pit[k].out : pit[k].out[g].nonce \in Nonce
  BY DEF PitOK, EntryInv, IsEntry, RecordsOver, OutRecordType
<1>2. k \in Key
  BY DEF PitOK
<1>3. QED
  BY <1>1, <1>2 DEF insertDeadNonceList, DeadPair

\* The loop body of onIncomingData: no in-record left, the straggler timer set.
LEMMA SatisfyGood ==
  ASSUME NEW k, NEW e, EntryInv(k, e), now \in Nat, NEW f, NEW d \in DataPacket
  PROVE  EntryInv(k, satisfy(e, f, d)) /\ DOMAIN satisfy(e, f, d).in = {}
<1> DEFINE c  == cancelUnsatisfyAndStragglerTimer(e)
           c1 == deleteInRecords(c)
           out == [g \in DOMAIN c1.out \ {f} |-> c1.out[g]]
           c2 == deleteOutRecord(c1, f)
           c3 == setStragglerTimer(c2, TRUE, d.freshness)
<1>1. IsEntry(c) /\ c.unsatisfy = NoTimer
  BY CancelGood DEF EntryInv
<1> HIDE DEF c
<1>2. IsEntry(c1) /\ c1.in = NoRecords /\ c1.unsatisfy = NoTimer
  <2>1. \A S : RecordsOver(NoRecords, S)
    BY DEF RecordsOver, NoRecords
  <2>2. QED
    BY <1>1, <2>1 DEF IsEntry, deleteInRecords
<1> HIDE DEF c1
<1>3. IsEntry(c2) /\ c2.in = NoRecords /\ c2.unsatisfy = NoTimer
  <2>1. RecordsOver(out, OutRecordType)
    BY <1>2 DEF IsEntry, RecordsOver
  <2>2. c2 = [c1 EXCEPT !.out = out]
    BY DEF deleteOutRecord
  <2> HIDE DEF out, c2
  <2>3. QED
    BY <1>2, <2>1, <2>2 DEF IsEntry
<1> HIDE DEF c2
<1>4. /\ IsEntry(c3) /\ c3.in = NoRecords
      /\ c3.unsatisfy = NoTimer /\ c3.straggler.at # NoTimer
  <2>1. d.freshness \in Int /\ TRUE \in BOOLEAN
    BY ForwarderAssumption
  <2>2. QED
    BY <1>3, <2>1, StragglerGood, Zenon
<1>5. satisfy(e, f, d) = c3
  BY DEF satisfy, c2, c1, c
<1> HIDE DEF c3
<1>6. DOMAIN c3.in = {}
  BY <1>4 DEF NoRecords
<1>7. QED
  BY <1>4, <1>5, <1>6, Zenon DEF EntryInv, HasTimer

\* Data that satisfies PIT entries clears their in-records and their debts.
LEMMA IncomingDataInv ==
  ASSUME Inv, NEW f \in Face, NEW d \in DataPacket, onIncomingData(f, d)
  PROVE  Inv'
<1> DEFINE matches == findAllDataMatches(d)
           dead == UNION {insertDeadNonceList(k, pit[k], TRUE, d.freshness, {f}) : k \in matches}
<1>1. now \in Nat /\ PitOK /\ matches \subseteq DOMAIN pit
  BY DEF Inv, Tables, findAllDataMatches
<1>2. /\ DOMAIN pit' = DOMAIN pit
      /\ \A k \in DOMAIN pit :
           pit'[k] = IF k \in matches THEN satisfy(pit[k], f, d) ELSE pit[k]
  BY Zenon DEF onIncomingData
<1>3. \A k \in matches : EntryInv(k, pit'[k]) /\ DOMAIN pit'[k].in = {}
  <2> SUFFICES ASSUME NEW k \in matches
               PROVE  EntryInv(k, pit'[k]) /\ DOMAIN pit'[k].in = {}
    OBVIOUS
  <2>1. k \in DOMAIN pit /\ pit'[k] = satisfy(pit[k], f, d) /\ EntryInv(k, pit[k])
    BY <1>1, <1>2, Zenon DEF PitOK
  <2> QED
    BY <1>1, <2>1, SatisfyGood, Zenon
<1>4. \A k \in DOMAIN pit : EntryInv(k, pit'[k])
  BY <1>1, <1>2, <1>3 DEF PitOK
<1>5. PitOK'
  BY <1>1, <1>2, <1>4, Zenon DEF PitOK, EntryInv, HasTimer, IsEntry, violatesLocalhost
<1>6. Tables'
  <2>1. CsOK'
    BY <1>1, CsInsertOK DEF Inv, Tables, onIncomingData
  <2>2. DnlOK'
    <3>1. \A k \in matches :
            insertDeadNonceList(k, pit[k], TRUE, d.freshness, {f}) \subseteq DeadPair
      BY <1>1, DeadNoncesOK, Zenon
    <3>2. dead \subseteq DeadPair
      BY <3>1, Zenon
    <3>3. dnl' \subseteq dnl \cup dead
      BY Zenon, Zenon DEF onIncomingData, DnlAdd
    <3> HIDE DEF dead
    <3>4. QED
      BY <3>2, <3>3 DEF Inv, Tables, DnlOK, DeadPair
  <2>3. QED
    BY <2>1, <2>2, InputOK, Zenon DEF Inv, Tables, FacesOK, onIncomingData
<1>7. InRecordsAreOwed'
  <2>1. owed' = {o \in owed : o.key \notin matches}
    BY Zenon DEF onIncomingData
  <2> HIDE DEF matches
  <2>2. QED
    BY <1>2, <1>3, <2>1, Zenon DEF Inv, InRecordsAreOwed
<1>8. SentOK'
  <2>1. sent' = onOutgoingData(d, pendingDownstreams(d) \ {f})
    BY Zenon DEF onIncomingData
  <2>2. QED
    BY <2>1, DataSentOK, Zenon
<1>9. QED
  BY <1>5, <1>6, <1>7, <1>8 DEF Inv

----------------------------------------------------------------------------
(* Incoming Nack and timers.                                               *)

\* OutRecord::setIncomingNack changes nothing but the Nack.
LEMMA NackedEntry ==
  ASSUME NEW old, IsEntry(old), NEW f \in DOMAIN old.out, NEW reason \in NackReason
  PROVE  LET e == [old EXCEPT !.out[f].nack = reason]
         IN  /\ IsEntry(e) /\ e.in = old.in /\ DOMAIN e.out = DOMAIN old.out
             /\ e.unsatisfy = old.unsatisfy /\ e.straggler = old.straggler
<1> DEFINE e == [old EXCEPT !.out[f].nack = reason]
           out == [old.out EXCEPT ![f].nack = reason]
<1>1. RecordsOver(out, OutRecordType) /\ DOMAIN out = DOMAIN old.out
  BY DEF IsEntry, RecordsOver, OutRecordType
<1>2. e = [old EXCEPT !.out = out]
  BY DEF IsEntry
<1> HIDE DEF out, e
<1>3. /\ IsEntry(e) /\ e.in = old.in /\ e.out = out
      /\ e.unsatisfy = old.unsatisfy /\ e.straggler = old.straggler
  BY <1>1, <1>2 DEF IsEntry
<1>4. QED
  BY <1>1, <1>3 DEF e

\* A Nack is recorded on the out-record and the strategy may pass it on.
LEMMA IncomingNackInv ==
  ASSUME Inv, NEW f \in Face, NEW k \in Key, NEW n, NEW reason \in NackReason,
         onIncomingNack(f, k, n, reason)
  PROVE  Inv'
<1> DEFINE e == [pit[k] EXCEPT !.out[f].nack = reason]
           r == afterReceiveNack(k, e)
<1>1. k \in DOMAIN pit /\ f \in DOMAIN pit[k].out
  BY DEF onIncomingNack, NackMatchesOutRecord
<1>2. EntryInv(k, pit[k]) /\ HasTimer(pit[k])
  BY <1>1, Zenon DEF Inv, PitOK, EntryInv
<1>3. /\ pit' = PitPut(k, r.entry) /\ sent' = r.sent /\ owed' = Settle(owed, r.sent)
  BY DEF onIncomingNack
<1>6. /\ IsEntry(e) /\ e.in = pit[k].in /\ DOMAIN e.out = DOMAIN pit[k].out
      /\ e.unsatisfy = pit[k].unsatisfy /\ e.straggler = pit[k].straggler
  BY <1>1, <1>2, NackedEntry DEF EntryInv
<1> HIDE DEF e
<1>7. EntryInv(k, e) /\ HasTimer(e)
  BY <1>2, <1>6, Zenon DEF EntryInv, HasTimer
<1>8. GoodResult(k, e, r)
  BY <1>6, AfterReceiveNackGood, Zenon
<1> HIDE DEF r
<1>9. PitOK'
  BY <1>3, <1>7, <1>8, GoodEntry, PitPutOK DEF Inv
<1>10. Tables'
  BY InputOK DEF Inv, Tables, FacesOK, CsOK, DnlOK, onIncomingNack
<1>11. SentOK'
  BY <1>3, <1>7, <1>8, SentGood
<1>12. InRecordsAreOwed'
  <2>1. /\ DOMAIN pit' = DOMAIN pit /\ pit'[k] = r.entry
        /\ \A x \in DOMAIN pit \ {k} : pit'[x] = pit[x]
    BY <1>1, <1>3, Zenon DEF PitPut
  <2>2. \A o \in owed : o.key = k => o.face \in DOMAIN e.in
    BY <1>6 DEF Inv, InRecordsAreOwed
  <2>3. \A o \in owed : o \in owed' <=> (o.key = k => o.face \in DOMAIN r.entry.in)
    BY <1>3, <1>8, <2>2, SettleGood, Zenon
  <2>4. owed' \subseteq owed
    BY <1>3 DEF Settle
  <2>5. \A g \in DOMAIN r.entry.in : g \in DOMAIN pit[k].in /\ r.entry.in[g] = pit[k].in[g]
    BY <1>6, <1>8, Zenon, Zenon DEF GoodResult, KeptIn
  <2>6. ASSUME NEW x \in DOMAIN pit', NEW g \in DOMAIN pit'[x].in
        PROVE  [face |-> g, key |-> x, until |-> pit'[x].in[g].expiry] \in owed'
    <3>1. g \in DOMAIN pit[x].in /\ pit'[x].in[g] = pit[x].in[g]
      BY <1>1, <2>1, <2>5, <2>6, Zenon
    <3> DEFINE o == [face |-> g, key |-> x, until |-> pit[x].in[g].expiry]
    <3>2. o \in owed
      BY <2>1, <2>6, <3>1, Zenon DEF Inv, InRecordsAreOwed
    <3>3. o.key = x /\ o.face = g
      BY DebtFields, Zenon
    <3>4. o = [face |-> g, key |-> x, until |-> pit'[x].in[g].expiry]
      BY <3>1, Zenon
    <3> HIDE DEF o
    <3>5. QED
      BY <2>1, <2>3, <2>6, <3>2, <3>3, <3>4, Zenon
  <2>7. ASSUME NEW o \in owed'
        PROVE  /\ o.key \in DOMAIN pit' /\ o.face \in DOMAIN pit'[o.key].in
               /\ o.until = pit'[o.key].in[o.face].expiry
    <3>1. o \in owed /\ o \in owed'
      BY <2>4, <2>7, Zenon
    <3>2. /\ o.key \in DOMAIN pit /\ o.face \in DOMAIN pit[o.key].in
          /\ o.until = pit[o.key].in[o.face].expiry
      BY <3>1, Zenon DEF Inv, InRecordsAreOwed
    <3>3. CASE o.key = k
      <4>1. o.face \in DOMAIN pit'[k].in
        <5>1. (o.key = k => o.face \in DOMAIN r.entry.in)
          BY <2>3, <3>1, Zenon
        <5>2. QED
          BY <2>1, <3>3, <5>1, Zenon
      <4>2. pit'[k].in[o.face] = pit[k].in[o.face]
        <5>1. o.face \in DOMAIN r.entry.in
          BY <2>1, <4>1, Zenon
        <5>2. r.entry.in[o.face] = pit[k].in[o.face]
          BY <2>5, <5>1, Zenon
        <5>3. QED
          BY <2>1, <5>2, Zenon
      <4>3. QED
        BY <2>1, <3>2, <3>3, <4>1, <4>2, Zenon
    <3>4. CASE o.key # k
      BY <2>1, <3>2, <3>4, Zenon
    <3>5. QED
      BY <3>3, <3>4, Zenon
  <2>8. QED
    BY <2>6, <2>7, Zenon DEF InRecordsAreOwed
<1>13. QED
  BY <1>9, <1>10, <1>11, <1>12 DEF Inv

\* Finalizing an entry removes it with its debts.
LEMMA FinalizeInv ==
  ASSUME Inv, NEW k \in DOMAIN pit, NEW satisfied, NEW freshness,
         onInterestFinalize(k, satisfied, freshness)
  PROVE  Inv'
<1>1. /\ DOMAIN pit' = DOMAIN pit \ {k}
      /\ \A x \in DOMAIN pit' : pit'[x] = pit[x]
      /\ owed' = {o \in owed : o.key # k}
  BY Zenon DEF onInterestFinalize
<1>2. PitOK'
  <2>1. DOMAIN pit' \subseteq Key /\ \A x \in DOMAIN pit' : EntryInv(x, pit'[x])
    BY <1>1, Zenon DEF Inv, PitOK
  <2>2. QED
    BY <2>1, Zenon DEF PitOK, EntryInv, HasTimer, IsEntry, violatesLocalhost
<1>3. InRecordsAreOwed'
  BY <1>1, Zenon DEF Inv, InRecordsAreOwed
<1>4. DnlOK'
  <2>1. dnl' \subseteq dnl \cup insertDeadNonceList(k, pit[k], satisfied, freshness, Face)
    BY DEF onInterestFinalize, DnlAdd
  <2>2. QED
    BY <2>1, DeadNoncesOK DEF Inv, Tables, DnlOK
<1>5. Tables'
  BY <1>4 DEF Inv, Tables, FacesOK, CsOK, onInterestFinalize
<1>6. SentOK'
  BY DEF onInterestFinalize, SentOK
<1>7. QED
  BY <1>2, <1>3, <1>5, <1>6 DEF Inv

----------------------------------------------------------------------------
(* The invariant.                                                          *)

\* Every step of the forwarder preserves the invariant.
LEMMA NextInv ==
  ASSUME Inv, [Next]_vars
  PROVE  Inv'
<1>1. ASSUME NEW f \in Face, NEW i \in InterestPacket, InterestViolatesLocalhost(f, i)
      PROVE  Inv'
  BY <1>1, QuietStep, InputOK
     DEF InterestViolatesLocalhost, Inv, Tables, FacesOK, CsOK, DnlOK
<1>2. ASSUME NEW f \in Face, NEW d \in DataPacket, DataViolatesLocalhost(f, d)
      PROVE  Inv'
  BY <1>2, QuietStep, InputOK
     DEF DataViolatesLocalhost, Inv, Tables, FacesOK, CsOK, DnlOK
<1>3. ASSUME NEW f \in Face, NEW d \in DataPacket, onDataUnsolicited(f, d)
      PROVE  Inv'
  <2>1. CsOK'
    BY <1>3, CsInsertOK DEF onDataUnsolicited, Inv, Tables, CsOK
  <2>2. QED
    BY <1>3, <2>1, QuietStep, InputOK DEF onDataUnsolicited, Inv, Tables, FacesOK, DnlOK
<1>4. ASSUME NEW f, NEW k, NEW n, NEW reason, NackDropped(f, k, n, reason)
      PROVE  Inv'
  BY <1>4, QuietStep, InputOK DEF NackDropped, Inv, Tables, FacesOK, CsOK, DnlOK
<1>5. ASSUME dnlAdjustCapacity
      PROVE  Inv'
  BY <1>5, QuietStep DEF dnlAdjustCapacity, DnlEvict, Inv, Tables, FacesOK, CsOK, DnlOK
<1>6. ASSUME Tick
      PROVE  Inv'
  BY <1>6, QuietStep DEF Tick, Inv, Tables, FacesOK, CsOK, DnlOK
<1>7. ASSUME NEW f \in MgmtFace, addFace(f) \/ removeFace(f)
      PROVE  Inv'
  <2>1. FacesOK'
    <3>1. CASE addFace(f)
      BY <3>1, ForwarderAssumption, Zenon DEF addFace, Inv, Tables, FacesOK
    <3>2. CASE removeFace(f)
      BY <3>2, ForwarderAssumption
         DEF removeFace, removeNextHopFromAllEntries, removeNextHop,
             Inv, Tables, FacesOK, RecordsOver
    <3>3. QED
      BY <1>7, <3>1, <3>2
  <2>2. QED
    BY <1>7, <2>1, QuietStep, InputOK DEF addFace, removeFace, Inv, Tables, CsOK, DnlOK
<1>8. ASSUME NEW p \in FibName, NEW f \in MgmtFace, NEW cost \in Cost,
             addNextHopCommand(p, f, cost)
      PROVE  Inv'
  <2>1. FacesOK'
    BY <1>8, ForwarderAssumption
       DEF addNextHopCommand, addNextHop, Inv, Tables, FacesOK, RecordsOver
  <2>2. QED
    BY <1>8, <2>1, QuietStep, InputOK DEF addNextHopCommand, Inv, Tables, CsOK, DnlOK
<1>9. ASSUME NEW p \in FibName, NEW f \in MgmtFace, removeNextHopCommand(p, f)
      PROVE  Inv'
  <2>1. FacesOK'
    BY <1>9 DEF removeNextHopCommand, removeNextHop, Inv, Tables, FacesOK, RecordsOver
  <2>2. QED
    BY <1>9, <2>1, QuietStep, InputOK DEF removeNextHopCommand, Inv, Tables, CsOK, DnlOK
<1>10. ASSUME NEW k \in Key, onInterestUnsatisfied(k) \/ stragglerTimer(k)
       PROVE  Inv'
  BY <1>10, FinalizeInv, Zenon DEF onInterestUnsatisfied, stragglerTimer
<1>11. ASSUME UNCHANGED vars
       PROVE  Inv'
  <2>1. Tables'
    BY <1>11 DEF vars, Inv, Tables, FacesOK, CsOK, DnlOK
  <2>2. PitOK' /\ InRecordsAreOwed'
    <3>1. pit' = pit /\ owed' = owed
      BY <1>11, Zenon DEF vars
    <3>2. DOMAIN pit' \subseteq Key /\ \A x \in DOMAIN pit' : EntryInv(x, pit'[x])
      BY <3>1, Zenon DEF Inv, PitOK
    <3>3. PitOK'
      BY <3>2, Zenon DEF PitOK, EntryInv, HasTimer, IsEntry, violatesLocalhost
    <3>4. InRecordsAreOwed'
      BY <3>1, Zenon DEF Inv, InRecordsAreOwed
    <3>5. QED
      BY <3>3, <3>4, Zenon
  <2>3. SentOK'
    BY <1>11, Zenon DEF vars, Inv, SentOK, PacketOK, violatesLocalhost, violatesScope,
                 hasLocalInRecord
  <2>4. QED
    BY <2>1, <2>2, <2>3 DEF Inv
<1>12. QED
  BY <1>1, <1>2, <1>3, <1>4, <1>5, <1>6, <1>7, <1>8, <1>9, <1>10, <1>11,
     InterestLoopInv, ContentStoreHitInv, ContentStoreMissInv, IncomingDataInv, IncomingNackInv
     DEF Next, Interest, Data, Nack, Timer, Management

\* The inductive invariant holds in every reachable state.
THEOREM Invariance == Spec => []Inv
<1>1. Init => Inv
  BY InitInv
<1>2. Inv /\ [Next]_vars => Inv'
  BY NextInv
<1>3. QED
  BY <1>1, <1>2, PTL DEF Spec

\* The tables always hold what their types allow, for any set of faces, names
\* and packets.
THEOREM TypeCorrect == Spec => []TypeOK
BY Invariance, InvImplies, PTL

\* setUnsatisfyTimer, setStragglerTimer and their cancels: no entry ever has both
\* timers, one that fires early, or records and no timer.
THEOREM TimersCoverRecordsAlways == Spec => []TimersCoverRecords
BY Invariance, InvImplies, PTL

\* FaceTable::remove and FibManager keep removed faces out of every nexthop list.
THEOREM NexthopsAreLiveAlways == Spec => []NexthopsAreLive
BY Invariance, InvImplies, PTL

\* The scope checks of the pipelines keep /localhost on the node and /localhop
\* within one hop, whichever strategy runs.
THEOREM ScopeRespectedAlways == Spec => []ScopeRespected
BY Invariance, InvImplies, PTL

\* No two downstreams of an entry hold the same nonce.
THEOREM DownstreamNoncesDifferAlways == Spec => []DownstreamNoncesDiffer
BY Invariance, InvImplies, PTL

\* No Interest goes back to the only face that asked, or to a face with its own
\* nonce.
THEOREM NoEchoAlways == Spec => []NoEcho
BY Invariance, InvImplies, PTL

\* The in-records are the accepted Interests that are neither answered nor given
\* up, with the expiry of the one accepted last.
THEOREM InRecordsAreOwedAlways == Spec => []InRecordsAreOwed
BY Invariance, InvImplies, PTL

=============================================================================
