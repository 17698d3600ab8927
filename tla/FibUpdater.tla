------------------------------ MODULE FibUpdater -----------------------------
(***************************************************************************)
(* What FibUpdater computes for one RIB update, before the RIB changes:    *)
(* fib maps <<name, face>> to the FIB update for it, a later one replacing *)
(* an earlier one, and inh maps <<name, face>> to how many inherited       *)
(* routes the entry gets or loses.  Routes to pass on to children are a    *)
(* function from faces to costs, routes to take away a set of faces.       *)
(***************************************************************************)
EXTENDS Rib

Nothing == [fib |-> <<>>, inh |-> <<>>]

At(inh, x) == IF x \in DOMAIN inh THEN inh[x] ELSE 0

Then(u, v) ==
  [fib |-> v.fib @@ u.fib,
   inh |-> [x \in DOMAIN u.inh \cup DOMAIN v.inh |-> At(u.inh, x) + At(v.inh, x)]]

AddNextHop(n, f, cost) ==
  [fib |-> <<n, f>> :> [action |-> "ADD", cost |-> cost], inh |-> <<>>]

RemoveNextHop(n, f) ==
  [fib |-> <<n, f>> :> [action |-> "REMOVE", cost |-> 0], inh |-> <<>>]

\* addInheritedRoute and removeInheritedRoute, each with its FIB update.
Inherit(S, routes) ==
  [fib |-> [x \in S |-> [action |-> "ADD", cost |-> routes[x[2]]]], inh |-> [x \in S |-> 1]]

Disinherit(S) ==
  [fib |-> [x \in S |-> [action |-> "REMOVE", cost |-> 0]], inh |-> [x \in S |-> -1]]

addInheritedRoutes(n, e, routes) ==
  Inherit({n} \X {f \in DOMAIN routes : ~hasFaceId(e, f)}, routes)

removeInheritedRoutes(n, e, faces) == Disinherit({n} \X {f \in faces : hasInheritedRoute(e, f)})

\* traverseSubTree from each of the entries in children.  It does not enter an entry
\* with capture, and drops the faces for which an entry passes on a route of its own:
\* open[d] are the faces that are left at entry d.
modifyChildrensInheritedRoutes(r, children, toAdd, toRemove) ==
  LET open[d \in DOMAIN r \cup {NoEntry}] ==
        IF d = NoEntry \/ hasCapture(r[d]) THEN {}
        ELSE {f \in (IF d \in children THEN Face ELSE open[r[d].parent]) :
                ~hasChildInheritOnFaceId(r[d], f)}
      left == {x \in (DOMAIN r) \X Face : x[2] \in open[x[1]]}
  IN  Then(Disinherit({x \in left : x[2] \in toRemove /\ hasInheritedRoute(r[x[1]], x[2])}),
           Inherit({x \in left : x[2] \in DOMAIN toAdd /\ ~hasFaceId(r[x[1]], x[2])}, toAdd))

createFibUpdatesForNewRibEntry(r, n, f, route) ==
  LET ancestors == getAncestorRoutes(r, findParent(r, n))
      toSelf == Inherit({n} \X (DOMAIN ancestors \ {f}), ancestors)
      Modify(toAdd, toRemove) ==
        modifyChildrensInheritedRoutes(r, newChildren(r, n), toAdd, toRemove)
  IN  Then(AddNextHop(n, f, route.cost),
           CASE ~route.inherit /\ ~route.capture -> toSelf
             [] route.inherit /\ route.capture -> Modify(f :> route.cost, DOMAIN ancestors)
             [] route.inherit /\ ~route.capture ->
                  Then(toSelf, Modify((f :> route.cost) @@ ancestors, {}))
             [] ~route.inherit /\ route.capture -> Modify(<<>>, DOMAIN ancestors))

createFibUpdatesForNewRoute(r, n, f, route) ==
  LET captureWasTurnedOn == ~hasCapture(r[n]) /\ route.capture
      toAdd == IF route.inherit THEN f :> route.cost ELSE <<>>
      toRemove == IF captureWasTurnedOn THEN DOMAIN getAncestorRoutes(r, r[n].parent) ELSE {}
  IN  Then(Then(removeInheritedRoutes(n, r[n], toRemove),
                modifyChildrensInheritedRoutes(r, getChildren(r, n), toAdd, toRemove)),
           AddNextHop(n, f, route.cost))

createFibUpdatesForUpdatedRoute(r, n, f, route) ==
  LET old == r[n].routes[f]
      ancestors == getAncestorRoutes(r, r[n].parent)
      costDidChange == route.cost # old.cost
      sameFlags == route.inherit = old.inherit /\ route.capture = old.capture
      Modify(toAdd, toRemove) ==
        modifyChildrensInheritedRoutes(r, getChildren(r, n), toAdd, toRemove)
      self == IF costDidChange THEN AddNextHop(n, f, route.cost) ELSE Nothing
      inherit ==
        CASE ~old.inherit /\ route.inherit -> Modify(f :> route.cost, {})
          [] old.inherit /\ ~route.inherit ->
               Modify([g \in {f} \cap DOMAIN ancestors |-> ancestors[g]], {f})
          [] OTHER -> Nothing
      capture ==
        CASE ~old.capture /\ route.capture ->
               Then(removeInheritedRoutes(n, r[n], DOMAIN ancestors), Modify(<<>>, DOMAIN ancestors))
          [] old.capture /\ ~route.capture ->
               Then(addInheritedRoutes(n, r[n], ancestors), Modify(ancestors, {}))
          [] OTHER -> Nothing
  IN  IF sameFlags /\ costDidChange /\ route.inherit
      THEN Then(self, Modify(f :> route.cost, {}))
      ELSE Then(self, Then(inherit, capture))

\* For the route of face f of entry n, which is not yet erased.
createFibUpdatesForErasedRoute(r, n, f) ==
  LET route == r[n].routes[f]
      rest  == eraseRoute(r[n], f)
      stays == DOMAIN rest.routes # {}
      ancestors == getAncestorRoutes(r, r[n].parent)
      reopened == IF hasCapture(r[n]) /\ ~hasCapture(rest) /\ stays THEN ancestors ELSE <<>>
      Modify(toAdd, toRemove) ==
        modifyChildrensInheritedRoutes(r, getChildren(r, n), toAdd, toRemove)
      flags ==
        CASE route.inherit /\ route.capture ->
               Then(addInheritedRoutes(n, rest, reopened), Modify(reopened, {f}))
          [] route.inherit /\ ~route.capture ->
               Modify(IF hasCapture(rest) THEN <<>> ELSE ancestors, {f})
          [] ~route.inherit /\ route.capture ->
               Then(addInheritedRoutes(n, rest, reopened), Modify(reopened, {}))
          [] OTHER -> Nothing
      unblocked == IF ~hasCapture(rest) /\ stays /\ f \in DOMAIN ancestors
                   THEN Inherit({<<n, f>>}, ancestors) ELSE Nothing
  IN  Then(RemoveNextHop(n, f), Then(flags, unblocked))

createFibUpdatesForErasedRibEntry(r, n) ==
  [fib |-> [x \in {n} \X {f \in Face : hasInheritedRoute(r[n], f)} |->
              [action |-> "REMOVE", cost |-> 0]],
   inh |-> <<>>]

computeUpdatesForRegistration(r, n, f, route) ==
  IF n \notin DOMAIN r THEN createFibUpdatesForNewRibEntry(r, n, f, route)
  ELSE IF ~hasFaceId(r[n], f) THEN createFibUpdatesForNewRoute(r, n, f, route)
  ELSE createFibUpdatesForUpdatedRoute(r, n, f, route)

computeUpdatesForUnregistration(r, n, f) ==
  IF n \notin DOMAIN r \/ ~hasFaceId(r[n], f) THEN Nothing
  ELSE Then(createFibUpdatesForErasedRoute(r, n, f),
            IF DOMAIN r[n].routes = {f} THEN createFibUpdatesForErasedRibEntry(r, n) ELSE Nothing)

\* The updates for a batch, which is one RIB update.  Those for a destroyed face are not
\* sent, the FIB would reject them.
computeUpdates(r, b) ==
  CASE b.action = "REGISTER" -> computeUpdatesForRegistration(r, b.name, b.face, b.route)
    [] b.action = "UNREGISTER" -> computeUpdatesForUnregistration(r, b.name, b.face)
    [] b.action = "REMOVE_FACE" ->
         LET u == computeUpdatesForUnregistration(r, b.name, b.face)
         IN  [u EXCEPT !.fib = [x \in {y \in DOMAIN @ : y[2] # b.face} |-> @[x]]]

=============================================================================
