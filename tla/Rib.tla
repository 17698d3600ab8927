--------------------------------- MODULE Rib ---------------------------------
(***************************************************************************)
(* The routing information base: a table of entries, each with the routes  *)
(* that were registered for its name, the number of routes it inherited    *)
(* for each face, the counter m_nRoutesWithCaptureSet and its parent in    *)
(* the tree of names.  A table r maps names to entries.                    *)
(*                                                                         *)
(* An entry has at most one route for a face: all routes have one origin.  *)
(***************************************************************************)
EXTENDS NdnNames, Integers, TLC

CONSTANTS Face, NoEntry

\* The counter is unsigned: it is not positive only at zero.
hasCapture(e) == e.nCapture # 0

hasFaceId(e, f) == f \in DOMAIN e.routes

hasChildInheritOnFaceId(e, f) == hasFaceId(e, f) /\ e.routes[f].inherit

hasInheritedRoute(e, f) == e.inherited[f] > 0

Count(capture) == IF capture THEN 1 ELSE 0

insertRoute(e, f, route) ==
  [e EXCEPT !.routes = (f :> route) @@ @, !.nCapture = @ + Count(route.capture)]

eraseRoute(e, f) ==
  [e EXCEPT !.routes = [g \in DOMAIN e.routes \ {f} |-> e.routes[g]],
            !.nCapture = @ - Count(e.routes[f].capture)]

\* Mutant: the cost of a route that is registered again stays.
updateRoute_keeps(e, f, route) ==
  [e EXCEPT !.routes = (f :> [route EXCEPT !.cost = e.routes[f].cost]) @@ @]

\* Only the fields of the route: the counter is left as it is.
updateRoute(e, f, route) == [e EXCEPT !.routes = (f :> route) @@ @]

findParent(r, n) ==
  LET P == {p \in DOMAIN r : IsPrefixOf(p, n) /\ p # n}
  IN  IF P = {} THEN NoEntry ELSE CHOOSE p \in P : \A q \in P : Len(q) <= Len(p)

getChildren(r, n) == {d \in DOMAIN r : r[d].parent = n}

\* The entries that become children of n when n is inserted.
newChildren(r, n) == {d \in DOMAIN r : IsPrefixOf(n, d) /\ r[d].parent = findParent(r, n)}

NewEntry(r, n) ==
  [routes |-> <<>>, inherited |-> [f \in Face |-> 0], nCapture |-> 0, parent |-> findParent(r, n)]

insert(r, n, f, route) ==
  IF n \in DOMAIN r
  THEN [r EXCEPT ![n] = IF hasFaceId(@, f) THEN updateRoute(@, f, route)
                        ELSE insertRoute(@, f, route)]
  ELSE [m \in DOMAIN r \cup {n} |->
          CASE m = n -> insertRoute(NewEntry(r, n), f, route)
            [] m \in newChildren(r, n) -> [r[m] EXCEPT !.parent = n]
            [] OTHER -> r[m]]

\* Mutant: the children of an entry that goes are left without a parent.
eraseEntry_orphans(r, n) ==
  [m \in DOMAIN r \ {n} |->
     IF r[m].parent = n THEN [r[m] EXCEPT !.parent = NoEntry] ELSE r[m]]

\* The children of an entry that goes become its parent's.
eraseEntry(r, n) ==
  [m \in DOMAIN r \ {n} |->
     IF r[m].parent = n THEN [r[m] EXCEPT !.parent = r[n].parent] ELSE r[m]]

erase(r, n, f) ==
  IF n \notin DOMAIN r \/ ~hasFaceId(r[n], f) THEN r
  ELSE IF DOMAIN r[n].routes = {f} THEN eraseEntry(r, n)
  ELSE [r EXCEPT ![n] = eraseRoute(@, f)]

\* The routes the children of e inherit from it.  Maps faces to costs.
PassedOn(e) == [f \in {g \in DOMAIN e.routes : e.routes[g].inherit} |-> e.routes[f].cost]

\* The routes a child of the entry start inherits: of each face the nearest ancestor's,
\* ancestors above one with capture left out.
getAncestorRoutes(r, start) ==
  LET from[p \in DOMAIN r \cup {NoEntry}] ==
        IF p = NoEntry THEN <<>>
        ELSE PassedOn(r[p]) @@ (IF hasCapture(r[p]) THEN <<>> ELSE from[r[p].parent])
  IN  from[start]

=============================================================================
