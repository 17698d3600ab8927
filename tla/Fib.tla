-------------------------------- MODULE Fib ---------------------------------
(***************************************************************************)
(* The Forwarding Information Base.  A table maps a prefix to its nexthops *)
(* (a function from faces to costs).  Entries without nexthops are erased  *)
(* by every operation that could create one, so a prefix without an entry  *)
(* and a prefix without nexthops are the same thing.                       *)
(***************************************************************************)
EXTENDS NdnNames, Integers

NoHops == [f \in {} |-> 0]

hasNextHops(hops) == DOMAIN hops # {}

addNextHop(hops, f, cost) ==
  [g \in DOMAIN hops \cup {f} |-> IF g = f THEN cost ELSE hops[g]]

removeNextHop(hops, f) == [g \in DOMAIN hops \ {f} |-> hops[g]]

\* removeNextHopFromAllEntries that skips the entry it could erase.
removeNextHopFromAllEntries_keepsLast(table, f) ==
  [p \in DOMAIN table |-> IF DOMAIN table[p] = {f} THEN table[p] ELSE removeNextHop(table[p], f)]

removeNextHopFromAllEntries(table, f) ==
  [p \in DOMAIN table |-> removeNextHop(table[p], f)]

\* Fib::findLongestPrefixMatch, s_emptyEntry when nothing matches.
findLongestPrefixMatch(table, name) ==
  LET matches == {p \in DOMAIN table : hasNextHops(table[p]) /\ IsPrefixOf(p, name)}
      longest == CHOOSE p \in matches : \A q \in matches : Len(q) <= Len(p)
  IN  IF matches = {} THEN [prefix |-> <<>>, hops |-> NoHops]
                      ELSE [prefix |-> longest, hops |-> table[longest]]

\* The faces std::find_if may stop at in a list sorted by cost (std::sort is
\* not stable, so equal costs come in either order).
LowestCost(hops, S) == {f \in S : \A g \in S : hops[f] <= hops[g]}

=============================================================================
