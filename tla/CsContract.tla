----------------------------- MODULE CsContract -----------------------------
(***************************************************************************)
(* What the ContentStore promises the forwarder, whatever the replacement  *)
(* policy: a set of cached Data, each with the time at which it turns      *)
(* stale, from which an insertion may drop any packets once the limit is   *)
(* exceeded.  The forwarder is specified against these operators and the   *)
(* detailed ContentStore is shown to keep them.                            *)
(***************************************************************************)
EXTENDS NdnNames, Integers, FiniteSets

NeverStale == -1

\* cs::Entry::updateStaleTime; a Data without FreshnessPeriod has freshness -1.
StaleTime(d, t) == IF d.freshness >= 0 THEN t + d.freshness ELSE NeverStale

isStale(c, t) == c.stale # NeverStale /\ c.stale < t

\* cs::Entry::canSatisfy for an Interest with name and MustBeFresh as in key.
canSatisfy(c, key, t) ==
  /\ IsPrefixOf(key.name, c.data.name)
  /\ ~ (key.fresh /\ isStale(c, t))

CsMatches(store, key, t) == {c \in store : canSatisfy(c, key, t)}

\* Cs::insert followed by whatever the policy evicts.
CsInsert(store, d, limit, t) ==
  LET others == {c \in store : c.data # d}
      new    == others \cup {[data |-> d, stale |-> StaleTime(d, t)]}
  IN  IF d.noCache THEN {store}
      ELSE IF Cardinality(new) <= limit THEN {new}
      ELSE {S \in SUBSET new : Cardinality(S) = limit}

=============================================================================
