# TLA+ specifications of the NDN OCR application's network node

The application is an Android app that carries a full NDN node: NFD (the forwarder, with its
tables and strategies) and the RIB daemon run in a native thread of the app's service, and a
Java layer finds peers over Bluetooth LE and opens Wi-Fi Direct groups for NFD to talk over.
These modules specify the forwarding plane of that node, its ContentStore and Dead Nonce List, the
link service below it, the RIB daemon beside it with automatic prefix propagation, the way the
service starts and stops NFD, and the search for peers. TLC checks them on small instances; TLAPS
proves safety properties of most of them for every instance.

Paths below are relative to `src/app/src/main/jni/`, and NFD's to `NFD/daemon/` where the
directory (`fw/`, `table/`, `face/`, `mgmt/`) makes that clear.

## The system

| Part | State | Operations | Talks to |
|---|---|---|---|
| Forwarder (`fw/forwarder.cpp`) | none of its own | incoming/outgoing Interest, Data, Nack; CS hit and miss; reject, unsatisfied, finalize | all tables, strategies, faces |
| PIT (`table/pit*.cpp`) | entries with in-records, out-records, two timers, strategy info | insert, find by Data, record updates, erase | Forwarder, strategies |
| FIB (`table/fib*.cpp`, `mgmt/fib-manager.cpp`) | prefix to nexthops with cost | lookup, add and remove nexthop, remove a face | Forwarder, FaceTable, RIB |
| FaceTable (`fw/face-table.cpp`) | live faces | add, remove | Forwarder, FIB |
| Strategies (`fw/best-route-strategy2.cpp`, `fw/multicast-strategy.cpp`, `fw/retx-suppression*.cpp`) | suppression interval on the PIT entry | after Interest, after Nack | Forwarder |
| ContentStore (`table/cs*.cpp`) | ordered table, policy queues, stale timers | insert, find, setLimit, setPolicy, evict, move to stale | Forwarder |
| Dead Nonce List (`table/dead-nonce-list.cpp`) | queue of hashes and MARKs, capacity | add, has, mark, adjustCapacity | Forwarder |
| Runner (`nfd-wrapper.cpp`) | `g_runner`, its thread, `io_service` | startNfd, stopNfd | the Android service |
| Link service (`face/generic-link-service.cpp`, `lp-fragmenter.cpp`, `lp-reassembler.cpp`) | last sequence number, partial packets, their drop timers | send with fragmentation, receive with reassembly, drop | Forwarder, transports |
| RIB (`NFD/rib/rib*.cpp`, `fib-updater.cpp`) | tree of entries with routes and inherited routes; queue of updates; commands under way | register, unregister, expire, face destroyed, answers of the forwarder | FIB |
| Prefix propagation (`NFD/rib/auto-prefix-propagator.cpp`) | propagated entries, one timer each | RIB entry inserted or erased, hub connected or gone, answers of the hub, timers | RIB, a remote hub |
| BLE discovery (`BLEServiceDiscovery.java`), GATT server (`GattServerCallback.java`) | scan, connection, Runnables posted | start, stop, scan, connect, ask, answer | the Android service, peers |

What makes it hard: packets, face failures, route changes and timers arrive in any order; one
Data may satisfy several PIT entries; the timers of an entry are cancelled and set again by
every pipeline; queues in the ContentStore hold iterators that only the code keeps in step with
the table; the Dead Nonce List measures time by its own capacity; fragments are lost, doubled and
reordered; a RIB update is computed as a difference to a FIB that answers asynchronously; answers of
a hub come for entries that were erased and made again; start/stop is a race between the service
thread and NFD's thread over one unlocked global; and the peer search sleeps on its main thread while
callbacks of a connection change its state.

## Modules

| Module | Models |
|---|---|
| `NdnNames` | name prefixes, /localhost, /localhop |
| `PitEntry` | one PIT entry: records, nonces, scope, lifetimes |
| `Fib` | nexthops, longest prefix match, removal of a face |
| `CsContract`, `DnlContract` | what ContentStore and Dead Nonce List promise the forwarder |
| `OutgoingPipelines` | timers, outgoing Interest and Nack, reject; what a strategy can do |
| `Strategies` | best-route with exponential suppression, multicast, dispatch |
| `Forwarder` | composition of the above: every incoming pipeline, timer and table command is an action |
| `CsAbstract` | the contract of the ContentStore as a state machine |
| `ContentStore` | table, priority FIFO and LRU policies, stale timers, lookup |
| `DeadNonceList`, `DnlSteadyLoad` | the list under any load, and under a constant load |
| `NfdWrapper` | startNfd, stopNfd and the NFD threads |
| `LpFragmenter`, `GenericLinkService` | sizes and places of fragments; senders and a receiver on one link |
| `Rib`, `FibUpdater`, `RibManager` | the tree of entries; the FIB updates for one RIB update; the queue, the commands, expiration and faces |
| `AutoPrefixPropagator` | propagated entries against the RIB, the KeyChain and a hub |
| `BleDiscovery` | a phone that looks for peers, and the peers' answers |
| `Extremum`, `ForwarderProofs`, `ForwarderActionProofs` | theorems about `PitEntry`, `OutgoingPipelines` and `Forwarder` |
| `DnlProofs`, `NfdWrapperProofs`, `LinkServiceProofs`, `PropagatorProofs`, `RibProofs` | theorems about `DeadNonceList`, `NfdWrapper`, `GenericLinkService`, `AutoPrefixPropagator`, `Rib` |
| `MC*` | instances for TLC; the configs of `DeadNonceList` and `DnlSteadyLoad` need no module of their own |

Atomicity. NFD is single threaded: a pipeline or timer callback runs to completion on one
`io_service`, so each is one action of `Forwarder`. A timer may fire at any moment from its
deadline on. Where two reads of the clock within one callback matter (the stale time of a cached
packet) the action has a parameter for it (`isLate`). In `NfdWrapper`, where two threads race, the
steps are those between two accesses of shared state. The RIB daemon runs in NFD's thread too and
talks to the forwarder by commands: `RibManager` and `AutoPrefixPropagator` take one callback as one
step, and a command and its answer as two. In `BleDiscovery` a Runnable of the main thread is several
steps: up to its test of `started`, the connectGatt that relies on the test, the lines after it, and
what follows its sleep. The disconnection callback, which tries the next peer, is split in the same
way; the other callbacks of a connection, on threads of their own, and the calls of start() and
stop(), on any thread, are one step each and come in between.

State. A record collection is a function on faces; a PIT entry is a record of in-records,
out-records, the two timer deadlines and the suppression interval; the PIT is a function on
(name, MustBeFresh), the part of the selectors that the pipelines look at. Names are sequences of
components. A face that was removed never returns (face ids are not reused) but PIT records of it
remain, as in the code. `rcv`, `sent` and `owed` are history variables: the packet at hand, the
packets sent by the last step, and the Interests that were accepted and not yet answered. A frame of
the link says which octets of which packet it carries. In `RibManager` the state of Rib and FibUpdater
is one record, `nrd`, because one callback may apply several queued updates in a row; `wanted` is the
history of requests. `entries`, `commands` and `hubTable` of `AutoPrefixPropagator` are the map of
propagated entries, the bag of commands under way and what the hub holds. In `BleDiscovery`,
`requests` holds what the Bluetooth stack was asked and has not answered, `trying` which threads are
inside tryConnection, and the history `overtaken` records that a stop or another attempt came
between a thread's test and its connectGatt. The histories of `NfdWrapper` are `alone`, the starts
made while no NFD thread was alive, and `undefined`, who used something null or deleted.

Nondeterminism that stands for order the model does not keep: equal costs (std::sort is not
stable), equal times in `std::max_element`, the eviction choice in `CsContract`, how much the Dead
Nonce List has evicted, and the order of a HashSet of peers.

## Runs

| Run | Shows |
|---|---|
| `best` | `TypeOK`; an entry has the right one of its two timers (`TimersCoverRecords`); no nonce has two downstreams; no Interest returns to the face it came from; no early expiry; retransmissions keep the suppression interval |
| `flow` | in-records are exactly the unanswered Interests; flow balance both ways (`FlowBalance`, `NoAnswerLost`) over nested names and both strategies; /localhost and /localhop are respected, through the ContentStore too; an Interest with a Link leaves along the route of a pending downstream's delegation, its own when the downstreams agree |
| `faces` | routes never lead to removed faces; every entry with an in-record is erased in the end, whatever happens to its faces |
| `cs` | under both policies: queues and stale timers match the table, eviction order, leftmost and rightmost lookup against a direct definition, refinement of `CsAbstract`, which keeps the limit |
| `dnl` | newest pairs kept, memory bounded, adjustments always have a count |
| `dnl_steady` | with the code's constants, pairs live for the lifetime in the end |
| `wrapper` | calls at any moment, exceptions anywhere: no NFD thread uses anything null or deleted, and stopNfd never fails on a running NFD, as long as no two threads were alive at once (`NothingDangles`); a start made with no thread alive gets NFD into its loop whatever came before (`StartRuns`); a stop that finds a Runner ends its thread and frees it (`StopReleases`) |
| `lp` | what is passed up is a packet that was sent, whole, with its headers and as its kind; fragments keep the MTU |
| `rib` | without faults: the FIB has exactly the next hops that a direct definition of inheritance and capture gives (`Closure`), the RIB has the routes last asked for, an expiration event is scheduled exactly for the routes that expire (`EventsAreOfRoutes`); with faults too: parents are nearest, the queue drains, a destroyed face is found although its notification is lost |
| `prop` | every propagated entry has something that moves it on; the entries are those the RIB needs; the hub's table agrees with them in the end, whatever callbacks overtook each other |
| `ble` | one connection at a time and none after a stop, and the restart that sendMessage schedules never comes due, both unless a test was overtaken; a network that there is is found, overtaken or not |

One run looks for a behaviour that an assertion of the code rules out, and finds it. `late`: rib.cpp:457
asserts that the entry of an inherited route is in the RIB. FibUpdater sorts an answer by the face of the update in progress now, not of the update its command
was sent for. When the face of an update goes, the first rejection fails the update and the next one
starts. The second rejection is then taken for the last answer outside the batch's face: the failed
registration is recorded after all, and a third update starts beside the second. The answer to the
second records the inherited routes of the third, for an entry it has just erased.

More disagreements between the code and what its comments or tests say, or a reader would expect, can
be reproduced with a config of their own (`tlc -config X.cfg M`), which checks one statement and finds
it violated:

| Config | Statement | What happens |
|---|---|---|
| `MCForwarder_nack` | pit-out-record.hpp:45, a Nack means the last Interest was Nacked | a reused out-record keeps its old Nack |
| `MCForwarder_dead` | dead-nonce-list.hpp:40, a nonce erased from the PIT enters the list | a retransmission overwrites it |
| `MCForwarder_leak` | forwarder.t.cpp:124, no PIT entry is left behind | a looping Interest leaves an entry without a timer |
| `MCForwarder_delegation` | an Interest leaves along the route of the delegation it carries (`OwnDelegationFollowed`) | the lookup uses the Interest that came last, the Interest sent is the one that came first |
| `MCNfdWrapper_restart` | nfd-wrapper.cpp:40, NFD can be restarted | a start while the last thread is ending is ignored, and not made up for |
| `MCNfdWrapper_stop` | stopNfd is safe at any time (`StopIsSafe`) | the Runner goes, or does not know its `io_service` yet, between the test of `g_runner` and its use |
| `MCBleDiscovery_race` | one connection at a time (`AlwaysOneConnection`) | a stop, or an attempt of another thread, comes between the test of `started` and connectGatt |
| `MCAutoPrefixPropagator_revoke` | auto-prefix-propagator.hpp:65, an erased entry is revoked | the late failure of an older command hides that the hub has the prefix |
| `MCRibManager_deadface` | rib-manager.cpp:561, routes of a face the FIB rejects are cleaned up | a route enters the RIB after its face's removal was handled, and stays |
| `MCRibManager_flags` | the FIB has what inheritance and capture give (`FibFollowsRib`) | flags changed in place leave the count of captures wrong (rib.cpp:114), a capture that is erased does not give children their ancestors' routes back (fib-updater.cpp:574, 601), and a child's own route that is not passed on goes with its parent's (fib-updater.cpp:667) |

Two more disagreements need no run. The comparison given to `std::max_element` (forwarder.cpp:257)
makes the in-record renewed first the greatest, so `pickInterest` takes the first incoming Interest,
where forwarder.cpp:261 says the last. The call of `onInterestLoop` is commented out
(forwarder.cpp:129), so a duplicate nonce gets no Nack, where forwarder.t.cpp:614 expects one. The
model follows the code in both.

`rib` registers routes whose flags do not change and erases no capture, so that `FibFollowsRib` states
what the code does get right; the ways it fails beyond that are in the last line of the table. A
command that times out is sent again as add-nexthop, a removal too (fib-updater.cpp:293), so the
three properties about the RIB's and FIB's contents are stated for histories without faults. A
registration for a face that the forwarder does not have counts as a fault too: nothing checks the
face (rib-manager.cpp:265), the forwarder rejects the command, and the expiration event scheduled with
it stays. A removal cancels the event of its route when it is computed, on a copy of the entry
(fib-updater.cpp:168, rib-entry.cpp:123), so a removal that then fails leaves a route that never
expires.

The ContentStore runs with limits 0, 1 and 3 and four operations, enough for an insertion, a use and
an eviction that depends on both; `setPolicy` is taken on an empty table only, as cs.hpp:109 demands.
`CsAbstract` counts insertions, so that an insertion that forgets to renew the stale time cannot
pass for a step that does nothing.

Bounds. Three faces (one local, two remote) are the least with two upstreams, two downstreams and
a scope; time is counted in straggler intervals, and `MaxTime` exceeds `LastArrival` so that what
arrives last can still expire. Four or five packets reach every pair of pipelines on one entry with
a retransmission in between. Lifetimes 1 and 2 make two in-records expire apart. The scaled-down
Dead Nonce List starts from capacity 5, the least from which 1.2 grows after truncation.
`lp` has packets and MTUs on both sides of the boundary: one that fits, one cut in two or three, one
that would need more fragments than are allowed; sequence numbers start two below their modulus, so
that they wrap inside a packet; one frame is lost or doubled. `rib` has three nested names, two faces
and a third that is created, three requests and one fault: an update in progress, one waiting, and
one that depends on both; `late` needs four. `prop` has two RIB names under two identities, such that
taking one away moves a name to another prefix, six changes and one loss: enough to insert, erase
and insert again with commands of each under way, with the waits in the order of the
application's configuration (nfd-wrapper.cpp:150).
`wrapper` has four starts and any number of stops. In `flow` two Interests for one PIT entry carry one
Link, one with a delegation selected and one without, and a third is in the producer region.
`ble` has two peers that may be asked and one that may not, three operations (calls of the service,
events at the peers) and two mishaps: links that drop, scans that fail, units of time lost to slow
answers or held-up threads; two are enough for a stop and an attempt of another thread to overtake a
test, and for a restart to cut off an exchange that hangs. A peer that was tried is not heard again
within the same unit of time, or attempts and drops could follow each other for ever while the clock
stands still. `CHECK_DEADLOCK FALSE` is set where the clock or the
number of packets or requests is bounded; the Dead Nonce List and the propagator run for ever and are
checked for deadlock.

Fairness. `FairSpec` asks that time goes on and that the scheduler runs callbacks that are due; it
asks nothing of packets. `NfdWrapper` asks that threads are scheduled and that the loop serves its
queue; exceptions and packets need not come. `DnlSteadyLoad` asks that the load and the timers go on.
`RibManager` asks that the forwarder answers, that the face check goes on and that its scheduled events
run (weak fairness of each, written out with the enabling condition). `AutoPrefixPropagator` asks that
the event loop runs what is due, that the hub answers what reaches it and that time passes.
`BleDiscovery` asks that the main thread and the Bluetooth stack go on and, strongly, that a peer that
advertises is heard again and again while scans go on: a radio that never hears a peer finds nothing.
The clock moves while a request is unanswered only as one of the mishaps: GATT operations take
milliseconds and the clock counts scan periods of seconds, but some are slow. A peer that is too slow
every time is cut off every time, and not found.

## Proofs

`ForwarderProofs` proves `Spec => []Inv` with
`Inv == Tables /\ PitOK /\ InRecordsAreOwed /\ SentOK`, from `PitEntryAssumption`,
`OutgoingAssumption`, `StrategyAssumption` and `ForwarderAssumption` (types of the constants; faces
and FIB prefixes are finite). The properties are not inductive one by one: that in-records never
expire after the unsatisfy timer needs the types of all times; that no Interest is echoed needs that
downstreams' nonces differ; that Data does not leave its scope needs that in-records were accepted
in scope; that every debt has an in-record needs that an entry with a record has a timer, since an
entry is erased only by one. `Inv` states these of each entry (`EntryInv`) and of each packet sent
(`PacketOK`), so that the proof treats one entry and one packet at a time. Its first part
has the lemmas on records and outgoing pipelines, `Extremum` the existence of maxima in finite sets, on
which the CHOOSE of `LastExpiry` and of the lookups rest.

`ForwarderActionProofs` proves the four action properties from `Inv`: `FlowBalance`,
`NoAnswerLost`, `ExpiresOnlyAfterLifetime`, `RetxPaced`.

`DnlProofs` proves `MemoryBounded`, `RecentKept`, `CountsBeforeAdjust` and `NeverBelowCapacity`
from `DnlAssumption`. Its invariant says that the queue ends with the pairs added since the last
event (`EndsWithRecent`), how the two timers stand to each other (`Timers`), and that the excess
over the capacity grows by at most one for each interval elapsed (`ExcessBounded`).

`LinkServiceProofs` proves, from `FragmenterAssumption` and `LinkAssumption`, that the fragments of a
packet tile it (`FragmentsTile`), and `FragmentationKeepsMtu` and `SingleFrameIsWhole` (a packet in one
frame is not marked as a fragment) for all packets, MTUs and senders. The induction is easy (`LInv`); the work is arithmetic: the overhead the fragmenter
keeps free covers, to the octet, every length a TLV of the frame can have (nine octets for a length,
eight for a number), and what it keeps free for a fragment is
more than what it keeps free for a whole packet, so the slow path never gives one fragment.

`PropagatorProofs` proves from `PropagatorAssumption` the types, `NeverStuck` and `EntriesCoverRib`.
`NeverStuck` is not inductive with the code's data alone: a PROPAGATING entry is moved on by a command
in the bag, so the invariant `PInv` relates each entry to the bag and the hub (`AllMove`), and a
lemma for each callback shows that the command it consumes was not the only thing an entry waited for.
`EntriesCoverRib` then follows for histories without changes of identities; the loops over entries and
over the RIB (`redoPropagation`) are treated as folds that touch one prefix at a time.

`NfdWrapperProofs` proves `NothingDangles` for any number of starts, any order of calls and any
exceptions. Its invariant `WInv` says that either two threads were alive at once or `OneThread` and the
property hold. `OneThread` is what the property alone does not give: at most one thread is active,
`g_runner` points to its Runner from the moment it is published until it is taken back, that Runner
knows its `io_service` while the loop runs, and its Nfd is there until the handler of stop has run,
which only happens inside the loop. It is inductive because startNfd spawns a thread only when
`g_runner` is null, and the one case where an unpublished thread is alive then is `TwoThreads`.

`RibProofs` proves of `Rib::insert` and `Rib::erase` that they keep the parent of every entry its longest
proper prefix in the RIB, for every RIB and name. `ParentIsNearest` of the `rib` run is this statement
of the daemon's RIB; lifting it to the specification is not possible with the prover, because one
callback may apply several queued updates (`Advance`, a recursive function, whose defining equation the
prover cannot use).

Proved and not in a run, since the proof covers every instance: `NeverBelowCapacity`,
`SingleFrameIsWhole`, the types of `AutoPrefixPropagator`.

Only model-checked: liveness (`PendingEventuallyErased`, `EventuallyKeptForLifetime`, `StartRuns`,
`StopReleases`, `EventuallyPropagated`, `EventuallyRevoked`, `QueueDrains`, `DownFaceFound`,
`NetworkIsFound`), which is beyond the prover; `DelegationFollowed`; the ContentStore, whose module uses
recursive operators of the sequence library; `ReceivedAsSent`; the other properties of the RIB run,
for the reason above; and those of peer discovery.

## What is left out of the modelled parts

Selectors other than MustBeFresh (they split PIT entries and filter cached Data further), counters,
logging, `wantNewNonce` (no modelled strategy asks for one), malformed Link objects (dropped on
entry), hash collisions in the Dead Nonce List, and object lifetimes inside NFD. `NdnOcrService`, which calls startNfd and stopNfd, is not in the
repository; `NfdWrapper` lets one thread call them at any time, and does not go on after a use of
something null or deleted. Assertions are compiled out in
this build (`nfd-android/config.hpp`), so none of them is a guard.

In the link service: transports without an MTU (they send packets whole), and senders that restart
within the reassembly timeout: the same sequence numbers come again, and nothing in the code keeps
fragments of two packets apart. The frames received are those of link services, so the receiver's
drops of IDLE packets, of fragments without Sequence and of frames that do not parse are left out; they
change nothing. In the RIB: several origins for one face (an entry would then have
several routes of a face; rib-entry.cpp:218 returns a pointer into a local vector on that path), the
validation of commands, and the exception after ten timeouts. In propagation: loading of the
configuration, enable and disable. In peer discovery: errors of GATT operations other than a dropped
link, Bluetooth switched off, and races inside start(), stop() and those callbacks that are one step
(results is a HashSet used by several threads without a lock, and a callback may find mBluetoothGatt
closed half way).

## Not modelled

- Transports, channels and sockets: I/O. That faces fail at any time is in `Forwarder` and `RibManager`.
- StrategyChoice, NameTree, Measurements: the effective strategy is a constant of `Forwarder`, the
  NameTree an index, and Measurements is used only by strategies the configuration does not select;
  those strategies (NCC, access, client control) are left out with it.
- The Wi-Fi Direct hotspot: its callers and the service that acts on its results are not in the
  repository, so the order of its calls is unknown.
- netguard is not part of the build.
- Packet encoding and cryptography (`ndn-cxx`, `cryptopp`), `websocketpp`, the command line tools,
  logging, status datasets, the UI. They are by far the greater part of the source tree, third-party
  code without state machines of this application.
