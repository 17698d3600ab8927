----------------------------- MODULE Forwarder ------------------------------
(***************************************************************************)
(* The NFD forwarding plane: the incoming pipelines of nfd::Forwarder over *)
(* the FaceTable, FIB, PIT, ContentStore and Dead Nonce List, with the     *)
(* PIT timers and the management operations that change FIB and FaceTable. *)
(*                                                                         *)
(* NFD is single threaded: every pipeline and every timer callback runs to *)
(* completion on one io_service, so each is one action.  What is           *)
(* concurrent is the environment: packets, face failures, management       *)
(* commands and timers arrive in any order, and a timer fires at any time  *)
(* at or after its deadline.                                               *)
(***************************************************************************)
EXTENDS Strategies, CsContract, DnlContract

CONSTANTS
  FibName,          \* prefixes that may have a FIB entry
  Cost,             \* nexthop costs
  InterestPacket,   \* Interests that may arrive: records [name, fresh, nonce,
                    \*   lifetime, link, sel]; fresh is MustBeFresh, link the
                    \*   delegations (<<>> if none), sel the SelectedDelegation
                    \*   as a set with at most one name
  DataPacket,       \* Data that may arrive: records [name, freshness, noCache]
  NackReason,       \* reasons an incoming Nack may carry
  NetworkRegion,    \* the NetworkRegionTable
  DnlLifetime,      \* DeadNonceList::getLifetime
  CsLimit,          \* ContentStore limit (cs_max_packets)
  InitFaces,        \* faces present at start-up
  InitFib,          \* FIB at start-up
  MgmtFace,         \* bound: faces that come, go or get routes at run time
  MaxTime,          \* bound: the clock stops here
  LastArrival,      \* bound: no packet or command arrives later
  MaxInputs         \* bound: number of packets and commands

VARIABLES
  gone,             \* faces that were removed from the FaceTable
  fib,              \* prefix -> nexthops
  pit,              \* key -> PIT entry, for the keys that have one
  dnl,              \* (name, nonce) pairs on the Dead Nonce List
  cs,               \* the ContentStore, as CsContract describes it
  inputs,           \* packets and commands that may still arrive
  rcv,              \* history: the Interest or Data the last step accepted, if any
  sent,             \* history: the packets the last step handed to faces
  owed              \* history: accepted Interests not yet answered

RecordsOver(r, S) == DOMAIN r \subseteq Face /\ r \in [DOMAIN r -> S]

ASSUME ForwarderAssumption ==
  /\ IsFiniteSet(Face)
  /\ InterestPacket \subseteq [name : Name, fresh : BOOLEAN, nonce : Nonce, lifetime : Int,
                               link : Seq(Name), sel : SUBSET Name]
  /\ DataPacket \subseteq [name : Name, freshness : Int, noCache : BOOLEAN]
  /\ NackReason \subseteq Nat
  /\ InitFaces \subseteq Face /\ MgmtFace \subseteq Face
  /\ IsFiniteSet(FibName) /\ FibName \subseteq Name
  /\ DOMAIN InitFib = FibName
  /\ \A p \in FibName : RecordsOver(InitFib[p], Cost) /\ DOMAIN InitFib[p] \subseteq InitFaces
  /\ MaxTime \in Nat /\ LastArrival \in Nat /\ MaxInputs \in Nat

vars == <<now, faces, gone, fib, pit, dnl, cs, inputs, rcv, sent, owed>>

KeyOf(i) == [name |-> i.name, fresh |-> i.fresh]
Key == {KeyOf(i) : i \in InterestPacket}

NoPacket == [type |-> "None"]

----------------------------------------------------------------------------
(* Helpers of the pipelines.                                               *)

violatesLocalhost(f, name) == f \notin LocalFace /\ IsPrefixOf(LOCALHOST_NAME, name)

needDnl(k, satisfied, freshness) ==
  satisfied => /\ k.fresh
               /\ freshness >= 0 /\ freshness < DnlLifetime

\* insertDeadNonceList for the out-records of the faces in upstreams.
insertDeadNonceList(k, e, satisfied, freshness, upstreams) ==
  IF needDnl(k, satisfied, freshness)
  THEN {<<k.name, e.out[g].nonce>> : g \in DOMAIN e.out \cap upstreams}
  ELSE {}

isInProducerRegion(link) ==
  \E r \in NetworkRegion : \E j \in DOMAIN link : IsPrefixOf(link[j], r)

\* fibLookup that marks the first delegation as selected whichever it used.
fibLookup_firstSelected(i) ==
  LET routable == {j \in DOMAIN i.link : hasNextHops(findLongestPrefixMatch(fib, i.link[j]).hops)}
      used == CHOOSE j \in routable : \A l \in routable : j <= l
  IN  IF routable = {} THEN [hops |-> findLongestPrefixMatch(fib, i.name).hops, sel |-> i.sel]
      ELSE [hops |-> findLongestPrefixMatch(fib, i.link[used]).hops, sel |-> {i.link[1]}]

\* The FIB entry onContentStoreMiss hands to the strategy, and the
\* SelectedDelegation it leaves on the Interest.
fibLookup(i) ==
  LET lpm(n)    == findLongestPrefixMatch(fib, n)
      first     == lpm(i.link[1])
      routable  == {j \in DOMAIN i.link : hasNextHops(lpm(i.link[j]).hops)}
      delegated == CHOOSE j \in routable : \A l \in routable : j <= l
  IN  CASE i.link = <<>> \/ isInProducerRegion(i.link) ->
             [hops |-> lpm(i.name).hops, sel |-> i.sel]
        [] i.link # <<>> /\ ~isInProducerRegion(i.link) /\ i.sel # {} ->
             [hops |-> lpm(CHOOSE d \in i.sel : TRUE).hops, sel |-> i.sel]
        [] OTHER ->
             IF first.prefix = <<>> /\ hasNextHops(first.hops)
             THEN [hops |-> first.hops, sel |-> {}]
             ELSE IF routable = {} THEN [hops |-> NoHops, sel |-> {}]
             ELSE [hops |-> lpm(i.link[delegated]).hops, sel |-> {i.link[delegated]}]

\* onOutgoingData without the /localhost check.
onOutgoingData_unscoped(d, D) == {DataTo(f, d) : f \in D \cap faces}

\* onOutgoingData once for every face of D.
onOutgoingData(d, D) ==
  {DataTo(f, d) : f \in {g \in D \cap faces : ~violatesLocalhost(g, d.name)}}

----------------------------------------------------------------------------
(* History: which Interests are owed an answer.                            *)

Answers(p, f, k) ==
  /\ p.face = f
  /\ \/ p.type = "Nack" /\ p.key = k
     \/ p.type = "Data" /\ IsPrefixOf(k.name, p.data.name)

Settle(debts, pkts) ==
  {o \in debts : ~ \E p \in pkts : Answers(p, o.face, o.key)}

Accept(f, i) ==
  {o \in owed : o.face # f \/ o.key # KeyOf(i)}
    \cup {[face |-> f, key |-> KeyOf(i), until |-> now + Lifetime(i)]}

\* Every packet and command arrives through here.
Input(p) ==
  /\ inputs > 0
  /\ now <= LastArrival
  /\ inputs' = inputs - 1
  /\ rcv' = p

----------------------------------------------------------------------------
(* Incoming Interest.                                                      *)

InterestFrom(f, i) == [type |-> "Interest", face |-> f, key |-> KeyOf(i)]

PitInsert(k) == IF k \in DOMAIN pit THEN pit[k] ELSE NewEntry

PitPut(k, e) == [x \in DOMAIN pit \cup {k} |-> IF x = k THEN e ELSE pit[x]]

hasDuplicateNonce(i) ==
  \/ findNonce(PitInsert(KeyOf(i)), i.nonce)
  \/ <<i.name, i.nonce>> \in dnl

isPending(i) == DOMAIN PitInsert(KeyOf(i)).in # {}

InterestViolatesLocalhost(f, i) ==
  /\ f \in faces
  /\ violatesLocalhost(f, i.name)
  /\ Input(NoPacket)
  /\ sent' = {}
  /\ UNCHANGED <<now, faces, gone, fib, pit, dnl, cs, owed>>

\* The entry is inserted before the nonce is looked at and stays; the call of
\* onInterestLoop is commented out in the code, so nothing is sent.
InterestLoop(f, i) ==
  /\ f \in faces
  /\ ~violatesLocalhost(f, i.name)
  /\ hasDuplicateNonce(i)
  /\ Input(NoPacket)
  /\ pit' = PitPut(KeyOf(i), PitInsert(KeyOf(i)))
  /\ sent' = {}
  /\ UNCHANGED <<now, faces, gone, fib, dnl, cs, owed>>

onContentStoreHit(f, i, d) ==
  LET e == cancelUnsatisfyAndStragglerTimer(PitInsert(KeyOf(i)))
  IN  /\ pit' = PitPut(KeyOf(i), setStragglerTimer(e, TRUE, d.freshness))
      /\ sent' = onOutgoingData(d, {f})

ContentStoreHit(f, i) ==
  /\ f \in faces
  /\ ~violatesLocalhost(f, i.name)
  /\ ~hasDuplicateNonce(i)
  /\ ~isPending(i)
  /\ Input(InterestFrom(f, i))
  /\ \E c \in CsMatches(cs, KeyOf(i), now) : onContentStoreHit(f, i, c.data)
  /\ UNCHANGED <<now, faces, gone, fib, dnl, cs, owed>>

\* The results of onContentStoreMiss.  The SelectedDelegation is written to the
\* Interest the in-record already holds.
onContentStoreMiss(f, i) ==
  LET k      == KeyOf(i)
      lookup == fibLookup(i)
      e      == cancelUnsatisfyAndStragglerTimer(PitInsert(k))
      in     == insertOrUpdateInRecord(e, f, [i EXCEPT !.sel = lookup.sel], now)
  IN  afterReceiveInterest(k, setUnsatisfyTimer(in), f, lookup.hops)

ContentStoreMiss(f, i) ==
  /\ f \in faces
  /\ ~violatesLocalhost(f, i.name)
  /\ ~hasDuplicateNonce(i)
  /\ isPending(i) \/ CsMatches(cs, KeyOf(i), now) = {}
  /\ Input(InterestFrom(f, i))
  /\ \E r \in onContentStoreMiss(f, i) :
       /\ pit' = PitPut(KeyOf(i), r.entry)
       /\ sent' = r.sent
       /\ owed' = Settle(Accept(f, i), r.sent)
  /\ UNCHANGED <<now, faces, gone, fib, dnl, cs>>

----------------------------------------------------------------------------
(* Incoming Data.                                                          *)

DataFrom(f, d) == [type |-> "Data", face |-> f, data |-> d]

\* findAllDataMatches by exact name.
findAllDataMatches_exact(d) == {k \in DOMAIN pit : k.name = d.name}

findAllDataMatches(d) == {k \in DOMAIN pit : IsPrefixOf(k.name, d.name)}

DataViolatesLocalhost(f, d) ==
  /\ f \in faces
  /\ violatesLocalhost(f, d.name)
  /\ Input(NoPacket)
  /\ sent' = {}
  /\ UNCHANGED <<now, faces, gone, fib, pit, dnl, cs, owed>>

onDataUnsolicited(f, d) ==
  /\ f \in faces
  /\ ~violatesLocalhost(f, d.name)
  /\ findAllDataMatches(d) = {}
  /\ Input(DataFrom(f, d))
  /\ IF f \in LocalFace THEN cs' \in CsInsert(cs, d, CsLimit, now) ELSE UNCHANGED cs
  /\ sent' = {}
  /\ UNCHANGED <<now, faces, gone, fib, pit, dnl, owed>>

\* pendingDownstreams with the expired in-records.
pendingDownstreams_expiredToo(d) == UNION {DOMAIN pit[k].in : k \in findAllDataMatches(d)}

pendingDownstreams(d) ==
  UNION {{g \in DOMAIN pit[k].in : pit[k].in[g].expiry > now} : k \in findAllDataMatches(d)}

\* satisfy without the straggler timer.
satisfy_noStraggler(e, f, d) ==
  deleteOutRecord(deleteInRecords(cancelUnsatisfyAndStragglerTimer(e)), f)

\* What the loop over the matching entries does to one of them.
satisfy(e, f, d) ==
  setStragglerTimer(
    deleteOutRecord(deleteInRecords(cancelUnsatisfyAndStragglerTimer(e)), f),
    TRUE, d.freshness)

onIncomingData(f, d) ==
  LET matches == findAllDataMatches(d)
      dead    == UNION {insertDeadNonceList(k, pit[k], TRUE, d.freshness, {f}) : k \in matches}
  IN  /\ f \in faces
      /\ ~violatesLocalhost(f, d.name)
      /\ matches # {}
      /\ Input(DataFrom(f, d))
      /\ cs' \in CsInsert(cs, d, CsLimit, now)
      /\ dnl' \in DnlAdd(dnl, dead)
      /\ pit' = [k \in DOMAIN pit |->
                   IF k \in matches THEN satisfy(pit[k], f, d) ELSE pit[k]]
      /\ sent' = onOutgoingData(d, pendingDownstreams(d) \ {f})
      /\ owed' = {o \in owed : o.key \notin matches}
      /\ UNCHANGED <<now, faces, gone, fib>>

----------------------------------------------------------------------------
(* Incoming Nack.                                                          *)

\* The Nack answers the Interest that was last sent to f.
NackMatchesOutRecord(f, k, n) ==
  /\ f \notin MultiAccessFace
  /\ k \in DOMAIN pit
  /\ f \in DOMAIN pit[k].out
  /\ n = pit[k].out[f].nonce

NackDropped(f, k, n, reason) ==
  /\ f \in faces
  /\ ~NackMatchesOutRecord(f, k, n)
  /\ Input(NoPacket)
  /\ sent' = {}
  /\ UNCHANGED <<now, faces, gone, fib, pit, dnl, cs, owed>>

onIncomingNack(f, k, n, reason) ==
  /\ f \in faces
  /\ NackMatchesOutRecord(f, k, n)
  /\ Input(NoPacket)
  /\ LET r == afterReceiveNack(k, [pit[k] EXCEPT !.out[f].nack = reason])
     IN  /\ pit' = PitPut(k, r.entry)
         /\ sent' = r.sent
         /\ owed' = Settle(owed, r.sent)
  /\ UNCHANGED <<now, faces, gone, fib, dnl, cs>>

----------------------------------------------------------------------------
(* Timers.                                                                 *)

\* onInterestFinalize: the entry goes, its nonces may go to the Dead Nonce List.
onInterestFinalize(k, satisfied, freshness) ==
  /\ dnl' \in DnlAdd(dnl, insertDeadNonceList(k, pit[k], satisfied, freshness, Face))
  /\ pit' = [x \in DOMAIN pit \ {k} |-> pit[x]]
  /\ owed' = {o \in owed : o.key # k}
  /\ sent' = {}
  /\ rcv' = NoPacket
  /\ UNCHANGED <<now, faces, gone, fib, cs, inputs>>

\* The m_unsatisfyTimer callback; neither strategy overrides
\* beforeExpirePendingInterest.
onInterestUnsatisfied(k) ==
  /\ k \in DOMAIN pit
  /\ pit[k].unsatisfy # NoTimer /\ pit[k].unsatisfy <= now
  /\ onInterestFinalize(k, FALSE, -1)

\* The m_stragglerTimer callback.
stragglerTimer(k) ==
  /\ k \in DOMAIN pit
  /\ pit[k].straggler.at # NoTimer /\ pit[k].straggler.at <= now
  /\ onInterestFinalize(k, pit[k].straggler.satisfied, pit[k].straggler.freshness)

\* The m_adjustCapacityEvent callback of the Dead Nonce List.
dnlAdjustCapacity ==
  /\ dnl' \in DnlEvict(dnl) \ {dnl}
  /\ sent' = {}
  /\ rcv' = NoPacket
  /\ UNCHANGED <<now, faces, gone, fib, pit, cs, inputs, owed>>

Tick ==
  /\ now < MaxTime
  /\ now' = now + 1
  /\ sent' = {}
  /\ rcv' = NoPacket
  /\ UNCHANGED <<faces, gone, fib, pit, dnl, cs, inputs, owed>>

----------------------------------------------------------------------------
(* FaceTable and FibManager.                                               *)

addFace(f) ==
  /\ f \notin faces \cup gone
  /\ Input(NoPacket)
  /\ faces' = faces \cup {f}
  /\ sent' = {}
  /\ UNCHANGED <<now, gone, fib, pit, dnl, cs, owed>>

\* FaceTable::remove.  PIT records of the face stay; they hold a face whose id
\* is INVALID_FACEID from here on.
removeFace(f) ==
  /\ f \in faces
  /\ Input(NoPacket)
  /\ faces' = faces \ {f}
  /\ gone' = gone \cup {f}
  /\ fib' = removeNextHopFromAllEntries(fib, f)
  /\ sent' = {}
  /\ UNCHANGED <<now, pit, dnl, cs, owed>>

addNextHopCommand(p, f, cost) ==
  /\ f \in faces
  /\ Input(NoPacket)
  /\ fib' = [fib EXCEPT ![p] = addNextHop(@, f, cost)]
  /\ sent' = {}
  /\ UNCHANGED <<now, faces, gone, pit, dnl, cs, owed>>

removeNextHopCommand(p, f) ==
  /\ f \in faces
  /\ Input(NoPacket)
  /\ fib' = [fib EXCEPT ![p] = removeNextHop(@, f)]
  /\ sent' = {}
  /\ UNCHANGED <<now, faces, gone, pit, dnl, cs, owed>>

----------------------------------------------------------------------------

Init ==
  /\ now = 0
  /\ faces = InitFaces
  /\ gone = {}
  /\ fib = InitFib
  /\ pit = [k \in {} |-> NewEntry]
  /\ dnl = {}
  /\ cs = {}
  /\ inputs = MaxInputs
  /\ rcv = NoPacket
  /\ sent = {}
  /\ owed = {}

Interest ==
  \E f \in Face, i \in InterestPacket :
    \/ InterestViolatesLocalhost(f, i)
    \/ InterestLoop(f, i)
    \/ ContentStoreHit(f, i)
    \/ ContentStoreMiss(f, i)

Data ==
  \E f \in Face, d \in DataPacket :
    \/ DataViolatesLocalhost(f, d)
    \/ onDataUnsolicited(f, d)
    \/ onIncomingData(f, d)

Nack ==
  \E f \in Face, k \in Key, n \in Nonce, reason \in NackReason :
    \/ NackDropped(f, k, n, reason)
    \/ onIncomingNack(f, k, n, reason)

Timer ==
  \/ \E k \in Key : onInterestUnsatisfied(k) \/ stragglerTimer(k)
  \/ dnlAdjustCapacity

Management ==
  \/ \E f \in MgmtFace : addFace(f) \/ removeFace(f)
  \/ \E p \in FibName, f \in MgmtFace :
       \/ \E cost \in Cost : addNextHopCommand(p, f, cost)
       \/ removeNextHopCommand(p, f)

Next == Interest \/ Data \/ Nack \/ Timer \/ Management \/ Tick

Spec == Init /\ [][Next]_vars

\* The scheduler runs every callback whose time has come, and time goes on.
Fairness ==
  /\ WF_vars(Tick)
  /\ \A k \in Key : WF_vars(onInterestUnsatisfied(k)) /\ WF_vars(stragglerTimer(k))

FairSpec == Spec /\ Fairness

----------------------------------------------------------------------------
(* Types.                                                                  *)

\* An Interest that arrived, possibly with a SelectedDelegation added.
StoredInterest ==
  UNION {{[i EXCEPT !.sel = s] : s \in SUBSET (i.sel \cup {i.link[j] : j \in DOMAIN i.link})} :
           i \in InterestPacket}

InRecordType == [interest : StoredInterest, renewed : Nat, expiry : Nat]

OutRecordType ==
  [nonce : Nonce, renewed : Nat, expiry : Nat, nack : NackReason \cup {NoNack}]

IsEntry(e) ==
  /\ e \in [in        : {e.in},
            out       : {e.out},
            unsatisfy : Nat \cup {NoTimer},
            straggler : [at : Nat \cup {NoTimer}, satisfied : BOOLEAN, freshness : Int],
            suppress  : SuppressInitial .. SuppressMax]
  /\ RecordsOver(e.in, InRecordType)
  /\ RecordsOver(e.out, OutRecordType)

\* The tables hold what their C++ types allow, every PIT entry sits under its
\* own key, and a removed face never comes back.
TypeOK ==
  /\ now \in Nat
  /\ faces \subseteq Face /\ gone \subseteq Face /\ faces \cap gone = {}
  /\ DOMAIN fib = FibName /\ \A p \in FibName : RecordsOver(fib[p], Cost)
  /\ DOMAIN pit \subseteq Key
  /\ \A k \in DOMAIN pit : IsEntry(pit[k])
  /\ \A k \in DOMAIN pit : \A f \in DOMAIN pit[k].in : KeyOf(pit[k].in[f].interest) = k
  /\ dnl \subseteq {<<k.name, n>> : k \in Key, n \in Nonce}
  /\ \A c \in cs : c.data \in DataPacket /\ c.stale \in Nat \cup {NeverStale}
  /\ inputs \in Nat

----------------------------------------------------------------------------
(* Safety.                                                                 *)

HasTimer(e) == e.unsatisfy # NoTimer \/ e.straggler.at # NoTimer

\* setUnsatisfyTimer, setStragglerTimer and the cancels around them: a PIT entry
\* never has both timers, the unsatisfy timer never fires before the lifetime of
\* every in-record is over, and an entry with any record has a timer that will
\* remove it.
TimersCoverRecords ==
  \A k \in DOMAIN pit :
    LET e == pit[k]
    IN  /\ e.unsatisfy = NoTimer \/ e.straggler.at = NoTimer
        /\ e.unsatisfy # NoTimer =>
             \A f \in DOMAIN e.in : e.in[f].expiry <= e.unsatisfy
        /\ DOMAIN e.in # {} \/ DOMAIN e.out # {} => HasTimer(e)

\* FaceTable::remove takes the face out of the FIB: no nexthop is a removed
\* face, so that no lookup, however stale the route, yields one.
NexthopsAreLive == \A p \in FibName : DOMAIN fib[p] \subseteq faces

\* /localhost packets never cross to a non-local face, in either direction, and
\* a /localhop Interest leaves the node only if an application asked for it.
ScopeRespected ==
  LET Crosses(f, name) == f \notin LocalFace /\ IsPrefixOf(LOCALHOST_NAME, name)
  IN  /\ \A k \in DOMAIN pit : \A f \in DOMAIN pit[k].in : ~Crosses(f, k.name)
      /\ \A p \in sent : p.type = "Data" => ~Crosses(p.face, p.data.name)
      /\ \A p \in sent : p.type = "Interest" =>
           /\ ~Crosses(p.face, p.key.name)
           /\ p.face \notin LocalFace /\ IsPrefixOf(LOCALHOP_NAME, p.key.name) =>
                DOMAIN pit[p.key].in \cap LocalFace # {}

\* findNonce runs before the in-record is written: no two downstreams of an
\* entry ever hold the same nonce, whatever was retransmitted in between.
DownstreamNoncesDiffer ==
  \A k \in DOMAIN pit : \A f, g \in DOMAIN pit[k].in :
    pit[k].in[f].interest.nonce = pit[k].in[g].interest.nonce => f = g

\* compare_pickInterest and the strategies: an Interest is sent only on the
\* authority of a downstream other than the face it goes to, and never with the
\* nonce that face itself used, which it would take for a loop.
NoEcho ==
  \A p \in sent : p.type = "Interest" =>
    /\ \E f \in DOMAIN pit[p.key].in : f # p.face
    /\ p.face \in DOMAIN pit[p.key].in =>
         pit[p.key].in[p.face].interest.nonce # p.nonce

\* The in-records are the Interests that were accepted, not answered since and
\* not given up: no path of the pipelines forgets one or invents one, and the
\* expiry of the record is that of the Interest accepted last.
InRecordsAreOwed ==
  /\ \A k \in DOMAIN pit : \A f \in DOMAIN pit[k].in :
       [face |-> f, key |-> k, until |-> pit[k].in[f].expiry] \in owed
  /\ \A o \in owed :
       /\ o.key \in DOMAIN pit /\ o.face \in DOMAIN pit[o.key].in
       /\ o.until = pit[o.key].in[o.face].expiry

\* The Interests the in-records of an entry hold, and the one that was sent as p: nonces
\* tell them apart.
PendingInterests(k) == {pit[k].in[f].interest : f \in DOMAIN pit[k].in}
Picked(p) == CHOOSE i \in PendingInterests(p.key) : i.nonce = p.nonce

\* onContentStoreMiss looks the FIB up by the delegation it selects or finds selected, and
\* the Interest sent is one an in-record holds.  It leaves along the route of some pending
\* downstream's Interest; and along that of the delegation it carries itself, outside the
\* producer region, when the downstreams of the entry agree on the Link and on the
\* delegation.  When they do not, it may carry the first downstream's choice along the
\* route of another's.
DelegationFollowed ==
  \A p \in sent : p.type = "Interest" =>
    LET agreed == \A i, j \in PendingInterests(p.key) : i.link = j.link /\ i.sel = j.sel
    IN  /\ \E i \in PendingInterests(p.key) : p.face \in DOMAIN fibLookup(i).hops
        /\ agreed /\ ~isInProducerRegion(Picked(p).link) =>
             \A d \in p.sel : p.face \in DOMAIN findLongestPrefixMatch(fib, d).hops

----------------------------------------------------------------------------
(* Action properties.                                                      *)

Asked(p, o) == Answers(p, o.face, o.key) /\ (p.type = "Data" => o.until > now)

\* Flow balance, the contract of the in-records: whatever is answered was asked.
\* A Data or Nack leaves on a face only against an accepted Interest of that
\* face, the one at hand included, that was not answered since, did not time out
\* and, for Data, whose lifetime is not over.
FlowBalance ==
  [][\A p \in sent' : p.type # "Interest" =>
       \/ \E o \in owed : Asked(p, o)
       \/ rcv'.type = "Interest" /\ Answers(p, rcv'.face, rcv'.key)]_vars

\* The converse, for onIncomingData: Data that satisfies PIT entries reaches
\* every downstream whose Interest is still alive, except the one it came from,
\* removed faces and faces out of scope.
NoAnswerLost ==
  [][rcv'.type = "Data" =>
       \A o \in owed :
         /\ IsPrefixOf(o.key.name, rcv'.data.name) /\ o.until > now
         /\ o.face \in faces \ {rcv'.face}
         /\ ~violatesLocalhost(o.face, rcv'.data.name)
         => DataTo(o.face, rcv'.data) \in sent']_vars

\* strategy.hpp says of beforeExpirePendingInterest that the entry expires when
\* the lifetime of all in-records has elapsed: an entry that was neither
\* satisfied nor rejected is not removed earlier.
ExpiresOnlyAfterLifetime ==
  [][\A k \in DOMAIN pit \ DOMAIN pit' :
       pit[k].straggler.at = NoTimer =>
         \A o \in owed : o.key = k => o.until <= now]_vars

\* RetxSuppressionExponential: while a best-route Interest is outstanding
\* upstream, the next one for the same entry leaves no sooner than the
\* suppression interval after the last one on any face, and doubles it.
RetxPaced ==
  [][\A p \in sent' :
       /\ p.type = "Interest" /\ p.key \in DOMAIN pit
       /\ StrategyOf[p.key.name] = "best-route"
       /\ hasUnexpiredOutRecords(pit[p.key], now)
       => LET before == pit[p.key]
              after  == pit'[p.key]
          IN  /\ \A g \in DOMAIN before.out : now - before.out[g].renewed >= before.suppress
              /\ after.suppress > before.suppress \/ after.suppress = SuppressMax]_vars

----------------------------------------------------------------------------
(* Liveness.                                                               *)

\* Every pending Interest is over some day: the timers the pipelines set, cancel
\* and set again always end with the entry erased.
PendingEventuallyErased ==
  \A k \in Key : (k \in DOMAIN pit /\ DOMAIN pit[k].in # {}) ~> (k \notin DOMAIN pit)

----------------------------------------------------------------------------
(* What comments and tests say of the program, and the program does not do. *)

\* pit-out-record.hpp, getIncomingNack: "A non-null return value means the last
\* outgoing Interest has been NACKed."  One that leaves now has not.
NackIsForLastInterest ==
  \A p \in sent : p.type = "Interest" => pit[p.key].out[p.face].nack = NoNack

\* dead-nonce-list.hpp: "When a Nonce is erased (dead) from PIT entry, the Nonce
\* and the Interest Name is added to Dead Nonce List."
ErasedNonceIsDead ==
  [][\A k \in DOMAIN pit : \A f \in DOMAIN pit[k].out :
       LET n == pit[k].out[f].nonce
       IN  \/ k \in DOMAIN pit' /\ findNonce(pit'[k], n)
           \/ <<k.name, n>> \in dnl']_vars

\* forwarder.t.cpp, once an Interest has been answered: "PIT entry should not be
\* left behind."
NoEntryLeftBehind == \A k \in Key : (k \in DOMAIN pit) ~> (k \notin DOMAIN pit)

=============================================================================
