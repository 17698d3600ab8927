---------------------------- MODULE BleDiscovery -----------------------------
(***************************************************************************)
(* A phone looks over Bluetooth LE for peers that run a hotspot: it scans, *)
(* connects to one of the peers it heard, asks it for its network, and     *)
(* hands the answer to the service.  BLEServiceDiscovery is the phone that *)
(* looks, GattServerCallback a peer that answers.                          *)
(*                                                                         *)
(* ble is the state of BLEServiceDiscovery and of the Bluetooth stack      *)
(* below it, a record because start() runs stop() and scanLeDevice() in    *)
(* one go.  The main thread runs the Runnables of the handlers and may     *)
(* sleep; the callbacks of a connection come on threads of their own       *)
(* meanwhile, and the service may call start() and stop() on any thread.   *)
(* ble.trying says which threads are inside tryConnection, and how far;    *)
(* ble.overtaken, a history, that a stop or another attempt came between   *)
(* the test of a thread and its connectGatt, and may still show.           *)
(* ble.requests holds what the stack was asked to do for a peer and has    *)
(* not answered: the answer comes at once, or after a delay, or the link   *)
(* drops.                                                                  *)
(***************************************************************************)
EXTENDS Integers, Sequences, SequencesExt

CONSTANTS
  Device,       \* the peers
  Smaller,      \* those whose address has the smaller hash code
  NoGatt, None, \* no connection, no timer
  SCAN_PERIOD, RETRY,
  MaxOps,       \* bound: calls of the service and events at the peers
  MaxMishaps    \* bound: links that drop, scans that fail, units of time lost to slow
                \* answers and to threads held up

ASSUME BleAssumption ==
  /\ Smaller \subseteq Device
  /\ SCAN_PERIOD \in Nat \ {0} /\ RETRY \in Nat /\ SCAN_PERIOD < RETRY
  /\ MaxOps \in Nat /\ MaxMishaps \in Nat

VARIABLES ble, network, discovered, ops, mishaps

vars == <<ble, network, discovered, ops, mishaps>>

\* The main thread, and the thread that brings the callbacks of a connection.
MainThread == "main"
Thread == {MainThread} \cup Device

Awake == [left |-> 0, then |-> "awake"]

\* Thread.sleep on the main thread, and what it does after that.
Sleep(s, n, then) == [s EXCEPT !.main = [left |-> n, then |-> then]]

----------------------------------------------------------------------------
(* BLEServiceDiscovery.                                                    *)

Ask(s, op, d) == [s EXCEPT !.requests = @ \cup {<<op, d>>}]

Forget(s, d) ==
  [s EXCEPT !.linked = @ \ {d}, !.services = @ \ {d}, !.requests = {x \in @ : x[2] # d}]

close(s) ==
  IF s.mBluetoothGatt = NoGatt THEN s
  ELSE [Forget(s, s.mBluetoothGatt) EXCEPT !.mBluetoothGatt = NoGatt]

\* Threads between their test of started and the connectGatt that relies on it.
Checked(s) == {t \in Thread : s.trying[t] = "checked"}

\* Mutant: the connection is not closed.
stop_open(s) ==
  IF ~s.started THEN s
  ELSE [s EXCEPT !.started = FALSE, !.scanOn = FALSE, !.mHandler = <<>>, !.sHandler = None,
                 !.overtaken = @ \/ Checked(s) # {}]

\* Mutant: the restart is not cancelled.
stop_restarts(s) ==
  IF ~s.started THEN s
  ELSE close([s EXCEPT !.started = FALSE, !.scanOn = FALSE, !.mHandler = <<>>,
                       !.overtaken = @ \/ Checked(s) # {}])

\* mScanning and mInitialized stay as they are.
stop(s) ==
  IF ~s.started THEN s
  ELSE close([s EXCEPT !.started = FALSE, !.scanOn = FALSE, !.mHandler = <<>>,
                       !.sHandler = None, !.overtaken = @ \/ Checked(s) # {}])

scanLeDevice(s) ==
  IF ~s.started THEN s
  ELSE [s EXCEPT !.mConnectionState = "DISCONNECTED",
                 !.mHandler = Append(@, SCAN_PERIOD),
                 !.scanOn = @ \/ ~s.mScanning,
                 !.mScanning = TRUE]

start(s) ==
  scanLeDevice([stop(s) EXCEPT !.results = {}, !.mConnectionState = "DISCONNECTED",
                               !.started = TRUE])

\* Thread t is through with tryConnection; the main thread goes to sleep then.
tryConnectionReturns(s, t) ==
  LET u == [s EXCEPT !.trying[t] = "no"]
  IN  IF t = MainThread THEN Sleep(u, RETRY, "start") ELSE u

disconnect(s) ==
  IF s.mBluetoothGatt = NoGatt THEN s
  ELSE [Ask(s, "disconnect", s.mBluetoothGatt) EXCEPT !.mInitialized = FALSE]

\* Without a connection it throws, which ends the callback; on one whose services are not
\* known it finds no characteristic.  Otherwise it runs start() in three retry periods,
\* unless something cancels it.
sendMessage(s) ==
  IF s.mConnectionState # "CONNECTED" \/ ~s.mInitialized \/ s.mBluetoothGatt = NoGatt THEN s
  ELSE IF s.mBluetoothGatt \notin s.services THEN disconnect(s)
  ELSE Ask([s EXCEPT !.mInitialized = FALSE,
                     !.sHandler = IF @ = None THEN RETRY * 3 ELSE @], "write", s.mBluetoothGatt)

----------------------------------------------------------------------------
(* The service, on whatever thread.                                        *)

Op == ops > 0 /\ ops' = ops - 1
Mishap == mishaps > 0 /\ mishaps' = mishaps - 1

Start ==
  /\ Op
  /\ ble' = start(ble)
  /\ UNCHANGED <<network, discovered, mishaps>>

Stop ==
  /\ Op
  /\ ble.started
  /\ ble' = stop(ble)
  /\ UNCHANGED <<network, discovered, mishaps>>

----------------------------------------------------------------------------
(* tryConnection, once a thread has tested that it should.                 *)

\* connectGatt on the peer the order of a HashSet puts first, if there is one to try.
\* The connection there was is not closed.
connectGatt(t) ==
  /\ ble.trying[t] = "checked"
  /\ \/ /\ ble.results \cap Smaller = {}
        /\ ble' = tryConnectionReturns(ble, t)
     \/ \E d \in ble.results \cap Smaller :
          ble' = Ask([ble EXCEPT !.mBluetoothGatt = d, !.trying[t] = d,
                                 !.overtaken = @ \/ Checked(ble) # {t}], "connect", d)
  /\ UNCHANGED <<network, discovered, ops, mishaps>>

\* The lines after connectGatt.
connect(t) ==
  /\ ble.trying[t] \in Device
  /\ LET s == [ble EXCEPT !.mConnectionState = "CONNECTING",
                          !.results = @ \ {ble.trying[t]}, !.tried = @ \cup {ble.trying[t]}]
     IN  ble' = tryConnectionReturns(s, t)
  /\ UNCHANGED <<network, discovered, ops, mishaps>>

----------------------------------------------------------------------------
(* The main thread.                                                        *)

Main == ble.main = Awake /\ ble.trying[MainThread] = "no"

\* The Runnable of scanLeDevice, up to its test.
endScan(i) ==
  /\ Main
  /\ ble.mHandler[i] = 0
  /\ LET s == [ble EXCEPT !.mHandler = RemoveAt(@, i), !.mScanning = FALSE, !.scanOn = FALSE]
     IN  ble' = IF s.started /\ s.mConnectionState = "DISCONNECTED"
                THEN [s EXCEPT !.trying[MainThread] = "checked"]
                ELSE Sleep(s, RETRY, "start")
  /\ UNCHANGED <<network, discovered, ops, mishaps>>

Wake ==
  /\ ble.main # Awake /\ ble.main.left = 0
  /\ LET s == [ble EXCEPT !.main = Awake]
     IN  ble' = CASE ble.main.then = "start" -> IF s.started THEN start(s) ELSE s
                  [] ble.main.then = "scanLeDevice" -> scanLeDevice(s)
  /\ UNCHANGED <<network, discovered, ops, mishaps>>

\* The Runnable of sendMessage.
retry ==
  /\ Main
  /\ ble.sHandler = 0
  /\ ble' = start([ble EXCEPT !.sHandler = None])
  /\ UNCHANGED <<network, discovered, ops, mishaps>>

\* A peer that was tried is not heard again within the same unit of time.
onScanResult(d) ==
  /\ Main /\ ble.scanOn
  /\ d \notin ble.results \cup ble.tried
  /\ ble' = [ble EXCEPT !.results = @ \cup {d}]
  /\ UNCHANGED <<network, discovered, ops, mishaps>>

\* The scan is over, mScanning does not say so.
onScanFailed ==
  /\ Main /\ ble.scanOn
  /\ Mishap
  /\ ble' = Sleep([ble EXCEPT !.scanOn = FALSE], SCAN_PERIOD, "scanLeDevice")
  /\ UNCHANGED <<network, discovered, ops>>

\* Another phone has connected to this one: the receiver stops the scan.
onReceive ==
  /\ Main /\ Op
  /\ ble.started /\ ble.scanOn
  /\ ble' = [ble EXCEPT !.scanOn = FALSE]
  /\ UNCHANGED <<network, discovered, mishaps>>

----------------------------------------------------------------------------
(* The callbacks of a connection, each the answer to a request.            *)

Answered(op, d) == [ble EXCEPT !.requests = @ \ {<<op, d>>}]

\* Services are discovered on mBluetoothGatt, whichever connection that is now.  A thread
\* that is still in connect was held up.
onConnected(d) ==
  /\ <<"connect", d>> \in ble.requests
  /\ LET s == [Answered("connect", d) EXCEPT !.linked = @ \cup {d}]
     IN  ble' = IF s.mConnectionState = "CONNECTED" THEN s
                ELSE LET c == [s EXCEPT !.mConnectionState = "CONNECTED"]
                     IN  IF c.mBluetoothGatt \in c.linked
                         THEN Ask(c, "discover", c.mBluetoothGatt) ELSE c
  /\ IF \E t \in Thread : ble.trying[t] = d
     THEN Mishap ELSE UNCHANGED mishaps
  /\ UNCHANGED <<network, discovered, ops>>

\* Mutant: no other peer is tried.
onDisconnected_waits(d) ==
  /\ ble' = [Forget(ble, d) EXCEPT !.mConnectionState = "DISCONNECTED"]
  /\ UNCHANGED <<network, discovered, ops>>

\* Up to the test of started.
onDisconnected(d) ==
  LET s == [Forget(ble, d) EXCEPT !.mConnectionState = "DISCONNECTED"]
  IN  /\ ble.trying[d] = "no"
      /\ ble' = IF s.started THEN [s EXCEPT !.trying[d] = "checked"] ELSE s
      /\ UNCHANGED <<network, discovered, ops>>

Disconnected(d) ==
  /\ <<"disconnect", d>> \in ble.requests
  /\ onDisconnected(d)
  /\ UNCHANGED mishaps

\* The peer cannot be reached, or the link drops.
LinkDrops(d) ==
  /\ Mishap
  /\ d \in ble.linked \/ <<"connect", d>> \in ble.requests
  /\ onDisconnected(d)

onServicesDiscovered(d) ==
  /\ <<"discover", d>> \in ble.requests
  /\ ble' = Ask([Answered("discover", d) EXCEPT !.mInitialized = TRUE,
                                                !.services = @ \cup {d}], "mtu", d)
  /\ UNCHANGED <<network, discovered, ops, mishaps>>

onMtuChanged(d) ==
  /\ <<"mtu", d>> \in ble.requests
  /\ ble' = IF ble.mInitialized THEN sendMessage(Answered("mtu", d)) ELSE Answered("mtu", d)
  /\ UNCHANGED <<network, discovered, ops, mishaps>>

\* At the peer: it answers with its network, or that it has none.
onCharacteristicWriteRequest(d) ==
  /\ <<"write", d>> \in ble.requests
  /\ ble' = IF network[d] THEN Ask(Answered("write", d), "network", d)
            ELSE Ask(Answered("write", d), "nothing", d)
  /\ UNCHANGED <<network, discovered, ops, mishaps>>

onCharacteristicChanged(d) ==
  /\ \/ /\ <<"network", d>> \in ble.requests
        /\ ble' = [Answered("network", d) EXCEPT !.sHandler = None]
        /\ discovered' = TRUE
     \/ /\ <<"nothing", d>> \in ble.requests
        /\ ble' = disconnect([Answered("nothing", d) EXCEPT !.sHandler = None])
        /\ UNCHANGED discovered
  /\ UNCHANGED <<network, ops, mishaps>>

setNetwork(d) ==
  /\ d \in Smaller /\ Op
  /\ ~network[d]
  /\ network' = [network EXCEPT ![d] = TRUE]
  /\ UNCHANGED <<ble, discovered, mishaps>>

----------------------------------------------------------------------------
Less(n) == IF n = 0 THEN 0 ELSE n - 1

Busy == ble.requests # {} \/ \E t \in Thread : ble.trying[t] # "no"

Open == ble.linked \cup {d \in Device : <<"connect", d>> \in ble.requests}

\* Time goes on when nothing is due: a Runnable that is due waits for the main thread.
\* A request that takes time, or a thread that is held up, is a delay.  overtaken is
\* forgotten once nothing that could stem from it is left.
Tick ==
  /\ IF Busy THEN Mishap ELSE UNCHANGED mishaps
  /\ Main => /\ ble.started \/ ble.sHandler # None
             /\ ble.sHandler # 0
             /\ \A i \in DOMAIN ble.mHandler : ble.mHandler[i] > 0
  /\ ble.main # Awake => ble.main.left > 0
  /\ ble' = [ble EXCEPT !.mHandler = [i \in DOMAIN @ |-> Less(@[i])],
                        !.main.left = Less(@), !.tried = {},
                        !.sHandler = IF @ = None THEN None ELSE Less(@),
                        !.overtaken = @ /\ (Busy \/ Open # {} \/ ble.sHandler # None)]
  /\ UNCHANGED <<network, discovered, ops>>

Init ==
  /\ ble = [started |-> FALSE, mScanning |-> FALSE, scanOn |-> FALSE, results |-> {},
            mConnectionState |-> "DISCONNECTED", mBluetoothGatt |-> NoGatt,
            mInitialized |-> FALSE, mHandler |-> <<>>, sHandler |-> None, main |-> Awake,
            tried |-> {}, linked |-> {}, services |-> {}, requests |-> {},
            trying |-> [t \in Thread |-> "no"], overtaken |-> FALSE]
  /\ network \in [Smaller -> BOOLEAN]
  /\ discovered = FALSE
  /\ ops = MaxOps /\ mishaps = MaxMishaps

Callback(d) ==
  \/ onConnected(d) \/ Disconnected(d) \/ onServicesDiscovered(d) \/ onMtuChanged(d)
  \/ onCharacteristicWriteRequest(d) \/ onCharacteristicChanged(d)

System ==
  \/ Wake \/ retry \/ Tick
  \/ \E t \in Thread : connectGatt(t) \/ connect(t)
  \/ \E i \in DOMAIN ble.mHandler : endScan(i)
  \/ \E d \in Device : Callback(d)

Environment ==
  \/ Start \/ Stop \/ onReceive \/ onScanFailed
  \/ \E d \in Device : onScanResult(d) \/ LinkDrops(d) \/ setNetwork(d)

Next == System \/ Environment

\* A peer that advertises is heard in some scan, again and again.
Spec ==
  /\ Init /\ [][Next]_vars
  /\ WF_vars(System)
  /\ \A d \in Device : SF_vars(onScanResult(d))

----------------------------------------------------------------------------
(* Properties.                                                             *)

\* The phone keeps one connection at a time, and none once discovery is stopped: restarts
\* that cut off a slow exchange, drops of links, attempts on both threads and calls of the
\* service at any time leave no other connection open, unless a stop or another attempt
\* came between a thread's test (lines 178 and 303) and its connectGatt.
OneConnection ==
  ~ble.overtaken =>
    /\ \A d, e \in Open : d = e
    /\ ~ble.started => Open = {} /\ ble.requests = {} /\ ble.mHandler = <<>>

\* The restart that sendMessage schedules never comes due, however slow the peer is: the
\* Runnable of the scan restarts discovery sooner, and that cancels it.  With the same
\* exception: a connection opened after stop() schedules it, and nothing cancels it.
RestartNeverDue == ble.sHandler = 0 => ble.overtaken

\* If discovery stays started and a peer of smaller address has a network, then some
\* peer's network is handed to the service in the end.  Peers without one, links that drop,
\* scans that fail, answers that come late and connections that were lost track of do not
\* keep it from that.
NetworkIsFound ==
  (<>[](ble.started /\ \E d \in Smaller : network[d])) => <>discovered

=============================================================================
