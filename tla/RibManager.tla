------------------------------ MODULE RibManager -----------------------------
(***************************************************************************)
(* The RIB daemon beside the forwarder.  RIB updates wait in a queue and   *)
(* are applied one at a time: the FIB updates for one are sent to the      *)
(* forwarder as commands, first those for the face of the update, then the *)
(* others, and the RIB changes when the last one is answered.              *)
(*                                                                         *)
(* nrd is the state of Rib and FibUpdater, a record because one callback   *)
(* may apply several updates in a row: those with no FIB updates.  The     *)
(* callbacks of a command carry the update it was sent for.  The forwarder *)
(* (its FIB, its faces, the notifications and the face dataset) is         *)
(* modelled from how the daemon uses it.  wanted records the requests.     *)
(***************************************************************************)
EXTENDS FibUpdater, FiniteSets, SequencesExt

CONSTANTS Registrations, Unregistrations, InitFaces, NoDataset, MaxOps, MaxFaults

ASSUME RibAssumption ==
  /\ InitFaces \subseteq Face
  /\ MaxOps \in Nat /\ MaxFaults \in Nat

VARIABLES nrd, m_registeredFaces, fib, faces, destroyed, dataset, wanted, ops, faults

vars == <<nrd, m_registeredFaces, fib, faces, destroyed, dataset, wanted, ops, faults>>

NoEvent == 0

----------------------------------------------------------------------------
(* Applying one update.                                                    *)

\* Mutant: the event of a route that goes is not cancelled.
EventOf_erased(r, n, f) == {}

\* The expiration event of a route that is updated or erased; it is cancelled.
EventOf(r, n, f) == IF n \in DOMAIN r /\ hasFaceId(r[n], f) THEN {r[n].routes[f].event} ELSE {}

Missing(r, inh) ==
  \E x \in DOMAIN inh : x[1] \notin DOMAIN r \/ r[x[1]].inherited[x[2]] + inh[x] < 0

modifyInheritedRoutes(r, inh) ==
  [n \in DOMAIN r |->
     [r[n] EXCEPT !.inherited = [f \in Face |-> @[f] + At(inh, <<n, f>>)]]]

onFibUpdateSuccess(s, b) ==
  LET r == IF b.action = "REGISTER" THEN insert(s.rib, b.name, b.face, b.route)
           ELSE erase(s.rib, b.name, b.face)
  IN  [s EXCEPT !.rib = modifyInheritedRoutes(r, s.inherited),
                !.undefined = @ \/ Missing(r, s.inherited),
                !.events = {e \in @ : e.id \notin EventOf(s.rib, b.name, b.face)},
                !.isUpdateInProgress = FALSE]

\* Mutant: an update that fails stays in progress.
onFibUpdateFailure_busy(s) == s

onFibUpdateFailure(s) == [s EXCEPT !.isUpdateInProgress = FALSE]

sendUpdates(s, updates, b) ==
  [s EXCEPT !.commands = @ \o SetToSeq({[update |-> u, batch |-> b, sent |-> u.action] : u \in updates})]

sendUpdatesForNonBatchFaceId(s, b) ==
  IF s.updatesForNonBatch # {} THEN sendUpdates(s, s.updatesForNonBatch, b)
  ELSE onFibUpdateSuccess(s, b)

sendUpdatesForBatchFaceId(s, b) ==
  IF s.updatesForBatch # {} THEN sendUpdates(s, s.updatesForBatch, b)
  ELSE sendUpdatesForNonBatchFaceId(s, b)

FibUpdates(u) ==
  {[name |-> x[1], face |-> x[2], action |-> u.fib[x].action, cost |-> u.fib[x].cost] :
     x \in DOMAIN u.fib}

\* A removal is computed on a copy of the entry.  Erasing the route from the copy cancels the
\* event, which the route in the RIB shares: it is gone even if the update then fails.
computeAndSendFibUpdates(s, b) ==
  LET u == computeUpdates(s.rib, b)
      erased == IF b.action = "REGISTER" THEN {} ELSE EventOf(s.rib, b.name, b.face)
  IN  sendUpdatesForBatchFaceId(
        [s EXCEPT !.batchFaceId = b.face,
                  !.events = {e \in @ : e.id \notin erased},
                  !.inherited = u.inh,
                  !.updatesForBatch = {x \in FibUpdates(u) : x.face = b.face},
                  !.updatesForNonBatch = {x \in FibUpdates(u) : x.face # b.face}], b)

\* Mutant: the next update does not wait for the one in progress.
sendBatchFromQueue_eager(s) ==
  IF s.updateBatches = <<>> THEN s
  ELSE computeAndSendFibUpdates(
         [s EXCEPT !.updateBatches = Tail(@), !.isUpdateInProgress = TRUE],
         Head(s.updateBatches))

sendBatchFromQueue(s) ==
  IF s.updateBatches = <<>> \/ s.isUpdateInProgress THEN s
  ELSE computeAndSendFibUpdates(
         [s EXCEPT !.updateBatches = Tail(@), !.isUpdateInProgress = TRUE],
         Head(s.updateBatches))

\* An update that needs no command is applied at once, and the next one started.
Advance(s) ==
  LET after[k \in 0..Len(s.updateBatches)] ==
        IF k = 0 THEN s ELSE sendBatchFromQueue(after[k - 1])
  IN  after[Len(s.updateBatches)]

Enqueue(s, batches) == Advance([s EXCEPT !.updateBatches = @ \o batches])

----------------------------------------------------------------------------
(* The answers to commands.                                                *)

\* remove, then what follows when no update of that kind is left.
NonBatchDone(s, update, b) ==
  LET t == [s EXCEPT !.updatesForNonBatch = @ \ {update}]
  IN  IF t.updatesForNonBatch = {} THEN onFibUpdateSuccess(t, b) ELSE t

onUpdateSuccess(s, update, b) ==
  IF update.face = s.batchFaceId
  THEN LET t == [s EXCEPT !.updatesForBatch = @ \ {update}]
       IN  IF t.updatesForBatch = {} THEN sendUpdatesForNonBatchFaceId(t, b) ELSE t
  ELSE NonBatchDone(s, update, b)

\* The forwarder does not know the face.
onUpdateError(s, update, b) ==
  IF update.face = s.batchFaceId THEN onFibUpdateFailure(s) ELSE NonBatchDone(s, update, b)

\* A timeout: whatever the command was, an add-nexthop is sent next.
onUpdateTimeout(s, command) ==
  [s EXCEPT !.commands = Append(@, [command EXCEPT !.sent = "ADD"])]
----------------------------------------------------------------------------
(* The operations.  A registration and an unregistration are answered      *)
(* before they are applied.                                                *)

Op == ops > 0 /\ ops' = ops - 1

Batch(action, n, f, route) == [action |-> action, name |-> n, face |-> f, route |-> route]

NoRoute == [cost |-> 0, inherit |-> FALSE, capture |-> FALSE, event |-> NoEvent]

Fault == faults > 0 /\ faults' = faults - 1

\* The event is scheduled with the command; its id is new.  Nothing checks that the forwarder
\* has the face; a request for one it does not have will fail, and counts as a fault.
registerEntry(reg) ==
  /\ Op
  /\ IF faces[reg.face] = "up" THEN UNCHANGED faults ELSE Fault
  /\ LET event == IF reg.expires THEN ops ELSE NoEvent
         route == [cost |-> reg.cost, inherit |-> reg.inherit, capture |-> reg.capture,
                   event |-> event]
         s == [nrd EXCEPT !.events = @ \cup {[id |-> e, name |-> reg.name, face |-> reg.face] :
                                               e \in {event} \ {NoEvent}}]
     IN  nrd' = Enqueue(s, <<Batch("REGISTER", reg.name, reg.face, route)>>)
  /\ m_registeredFaces' = m_registeredFaces \cup {reg.face}
  /\ wanted' = (<<reg.name, reg.face>> :> reg.cost) @@ wanted
  /\ UNCHANGED <<fib, faces, destroyed, dataset>>

unregisterEntry(n, f) ==
  /\ Op
  /\ nrd' = Enqueue(nrd, <<Batch("UNREGISTER", n, f, NoRoute)>>)
  /\ wanted' = [x \in DOMAIN wanted \ {<<n, f>>} |-> wanted[x]]
  /\ UNCHANGED <<m_registeredFaces, fib, faces, destroyed, dataset, faults>>

onRouteExpiration(e) ==
  /\ nrd' = Enqueue([nrd EXCEPT !.events = @ \ {e}],
                    <<Batch("UNREGISTER", e.name, e.face, NoRoute)>>)
  /\ wanted' = [x \in DOMAIN wanted \ {<<e.name, e.face>>} |-> wanted[x]]
  /\ UNCHANGED <<m_registeredFaces, fib, faces, destroyed, dataset, ops, faults>>

findRoutesWithFaceId(r, f) == {n \in DOMAIN r : hasFaceId(r[n], f)}

beginRemoveFace(s, f) ==
  Enqueue(s, SetToSeq({Batch("REMOVE_FACE", n, f, NoRoute) :
                         n \in findRoutesWithFaceId(s.rib, f)}))

onFaceDestroyedEvent(f) ==
  /\ f \in destroyed
  /\ destroyed' = destroyed \ {f}
  /\ nrd' = beginRemoveFace(nrd, f)
  /\ m_registeredFaces' = m_registeredFaces \ {f}
  /\ UNCHANGED <<fib, faces, dataset, wanted, ops, faults>>

\* The dataset is the forwarder's list of faces when it answered.
fetchActiveFaces ==
  /\ dataset = NoDataset
  /\ dataset' = {f \in Face : faces[f] = "up"}
  /\ UNCHANGED <<nrd, m_registeredFaces, fib, faces, destroyed, wanted, ops, faults>>

\* Mutant: the dataset is not compared with the registered faces.
removeInvalidFaces_keeps ==
  /\ dataset # NoDataset
  /\ dataset' = NoDataset
  /\ UNCHANGED <<nrd, m_registeredFaces, fib, faces, destroyed, wanted, ops, faults>>

removeInvalidFaces ==
  /\ dataset # NoDataset
  /\ destroyed' = destroyed \cup (m_registeredFaces \ dataset)
  /\ dataset' = NoDataset
  /\ UNCHANGED <<nrd, m_registeredFaces, fib, faces, wanted, ops, faults>>

----------------------------------------------------------------------------
(* The forwarder.                                                          *)

FibAfter(c) ==
  LET hop == <<c.update.name, c.update.face>>
  IN  CASE c.sent = "REMOVE" -> [x \in DOMAIN fib \ {hop} |-> fib[x]]
        [] c.sent = "ADD" /\ faces[c.update.face] = "up" -> (hop :> c.update.cost) @@ fib
        [] OTHER -> fib

\* Commands are answered in the order they were sent.
addNextHop(c, u) ==
  /\ c.sent = "ADD"
  /\ IF faces[u.face] = "up"
     THEN /\ fib' = FibAfter(c)
          /\ nrd' = Advance(onUpdateSuccess([nrd EXCEPT !.commands = Tail(@)], u, c.batch))
     ELSE /\ nrd' = Advance(onUpdateError([nrd EXCEPT !.commands = Tail(@)], u, c.batch))
          /\ UNCHANGED fib

removeNextHop(c, u) ==
  /\ c.sent = "REMOVE"
  /\ fib' = FibAfter(c)
  /\ nrd' = Advance(onUpdateSuccess([nrd EXCEPT !.commands = Tail(@)], u, c.batch))

Answer ==
  /\ nrd.commands # <<>>
  /\ LET c == Head(nrd.commands) IN addNextHop(c, c.update) \/ removeNextHop(c, c.update)
  /\ UNCHANGED <<m_registeredFaces, faces, destroyed, dataset, wanted, ops, faults>>

\* The answer does not come; the forwarder may have executed the command.
Timeout ==
  /\ Fault
  /\ nrd.commands # <<>>
  /\ LET c == Head(nrd.commands)
     IN  /\ nrd' = onUpdateTimeout([nrd EXCEPT !.commands = Tail(@)], c)
         /\ \/ fib' = fib
            \/ fib' = FibAfter(c)
  /\ UNCHANGED <<m_registeredFaces, faces, destroyed, dataset, wanted, ops>>

CreateFace(f) ==
  /\ Fault
  /\ faces[f] = "new"
  /\ faces' = [faces EXCEPT ![f] = "up"]
  /\ UNCHANGED <<nrd, m_registeredFaces, fib, destroyed, dataset, wanted, ops>>

\* The notification comes as an event, or is lost.
DestroyFace(f) ==
  /\ Fault
  /\ faces[f] = "up"
  /\ faces' = [faces EXCEPT ![f] = "down"]
  /\ fib' = [x \in {y \in DOMAIN fib : y[2] # f} |-> fib[x]]
  /\ \/ destroyed' = destroyed \cup {f}
     \/ destroyed' = destroyed
  /\ UNCHANGED <<nrd, m_registeredFaces, dataset, wanted, ops>>

Init ==
  /\ nrd = [rib |-> <<>>, updateBatches |-> <<>>, isUpdateInProgress |-> FALSE,
            batchFaceId |-> NoEntry, updatesForBatch |-> {}, updatesForNonBatch |-> {},
            inherited |-> <<>>, commands |-> <<>>, events |-> {}, undefined |-> FALSE]
  /\ m_registeredFaces = {}
  /\ fib = <<>>
  /\ faces = [f \in Face |-> IF f \in InitFaces THEN "up" ELSE "new"]
  /\ destroyed = {}
  /\ dataset = NoDataset
  /\ wanted = <<>>
  /\ ops = MaxOps
  /\ faults = MaxFaults

Requests ==
  \/ \E reg \in Registrations : registerEntry(reg)
  \/ \E x \in Unregistrations : unregisterEntry(x[1], x[2])
  \/ \E e \in nrd.events : onRouteExpiration(e)

System ==
  \/ \E f \in Face : onFaceDestroyedEvent(f)
  \/ fetchActiveFaces
  \/ removeInvalidFaces
  \/ Answer

Next ==
  /\ ~nrd.undefined
  /\ \/ Requests
     \/ System
     \/ Timeout
     \/ \E f \in Face : CreateFace(f) \/ DestroyFace(f)

\* Weak fairness of each action of System, written out with the condition that enables it:
\* a command that is waiting, an event that is scheduled.
Fairness ==
  /\ []<>(nrd.commands = <<>> \/ nrd.undefined) \/ []<><<Answer>>_vars
  /\ WF_vars(~nrd.undefined /\ (fetchActiveFaces \/ removeInvalidFaces))
  /\ \A f \in Face : []<>(f \notin destroyed \/ nrd.undefined) \/ []<><<onFaceDestroyedEvent(f)>>_vars

Spec == Init /\ [][Next]_vars /\ Fairness

----------------------------------------------------------------------------
Idle == ~nrd.isUpdateInProgress /\ nrd.updateBatches = <<>> /\ nrd.commands = <<>>

\* What the FIB should hold: the routes of an entry, and those it inherits.
Closure(r) ==
  LET Captures(n) == \E f \in DOMAIN r[n].routes : r[n].routes[f].capture
      Gives(p, n, f) ==
        /\ p # n /\ IsPrefixOf(p, n) /\ hasChildInheritOnFaceId(r[p], f)
        /\ ~Captures(n)
        /\ \A q \in DOMAIN r : q # p /\ IsPrefixOf(p, q) /\ IsPrefixOf(q, n) => ~Captures(q)
      givers(n, f) == {p \in DOMAIN r : Gives(p, n, f)}
      inherits(n) ==
        [f \in {h \in Face : givers(n, h) # {}} |->
           r[CHOOSE p \in givers(n, f) : \A q \in givers(n, f) : Len(q) <= Len(p)].routes[f].cost]
      cost(n, f) == IF hasFaceId(r[n], f) THEN r[n].routes[f].cost ELSE inherits(n)[f]
      hops == UNION {{n} \X (DOMAIN r[n].routes \cup DOMAIN inherits(n)) : n \in DOMAIN r}
  IN  [x \in hops |-> cost(x[1], x[2])]

Routes(r) == UNION {{n} \X DOMAIN r[n].routes : n \in DOMAIN r}

Undisturbed == faults = MaxFaults

\* The FIB follows the RIB: with no update in progress the forwarder's FIB has exactly the
\* next hops that the routes, their inheritance and capture flags give, each with the cost
\* of the nearest route.  The code reaches it by increments, computed for one update from
\* the RIB before it and sent in two groups of commands.
FibFollowsRib == Idle /\ Undisturbed => fib = Closure(nrd.rib)

\* Requests take effect in their order: with no update in progress the RIB has exactly the
\* routes last registered and not unregistered or expired since, with the last cost.
LastRequestWins ==
  Idle /\ Undisturbed =>
    [x \in Routes(nrd.rib) |-> nrd.rib[x[1]].routes[x[2]].cost] = wanted

\* The tree of entries: the parent of an entry is the longest proper prefix in the RIB,
\* whatever the order in which names are inserted and erased, faces destroyed included.
ParentIsNearest == \A n \in DOMAIN nrd.rib : nrd.rib[n].parent = findParent(nrd.rib, n)

Batches == Range(nrd.updateBatches) \cup {c.batch : c \in Range(nrd.commands)}

\* Events and routes agree.  An expiration event that is scheduled is the event of a route in
\* the RIB or of one that waits to be inserted: renewing, expiring and erasing routes leave
\* no other event behind to unregister a later route of the same face.  And a route that
\* expires has its event scheduled, unless its removal is waiting or in progress.
EventsAreOfRoutes ==
  Undisturbed =>
    /\ \A e \in nrd.events :
         \/ e.id \in EventOf(nrd.rib, e.name, e.face)
         \/ \E b \in Batches : b.route.event = e.id
    /\ \A x \in Routes(nrd.rib) :
         \A i \in EventOf(nrd.rib, x[1], x[2]) \ {NoEvent} :
           \/ \E e \in nrd.events : e.id = i
           \/ \E b \in Batches : b.action # "REGISTER" /\ <<b.name, b.face>> = x

\* The queue drains: whatever the forwarder answers, rejects or leaves unanswered once,
\* the daemon gets back to having no update in progress and none waiting.
QueueDrains == []<>(Idle \/ nrd.undefined)

\* A destroyed face that has registrations is found, its notification lost or not, by the
\* check of the registered faces against the forwarder's list.
DownFaceFound ==
  \A f \in Face : (faces[f] = "down" /\ f \in m_registeredFaces) ~>
                     (f \notin m_registeredFaces \/ nrd.undefined)

\* The routes of a destroyed face leave the RIB for good ("clean up invalid routes").
DeadFaceLeaves ==
  \A f \in Face : (faces[f] = "down") ~> [](findRoutesWithFaceId(nrd.rib, f) = {})

\* When the inherited routes of an update are recorded each entry they are for is there
\* (BOOST_ASSERT(ribIt != m_rib.end())), and a route that is removed is there too.
InheritedEntriesExist == ~nrd.undefined

=============================================================================
