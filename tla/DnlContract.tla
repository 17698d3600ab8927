---------------------------- MODULE DnlContract -----------------------------
(***************************************************************************)
(* What the Dead Nonce List promises the forwarder: a set of dead          *)
(* (name, nonce) pairs from which anything may have been evicted, except   *)
(* the pairs the last call added, as long as they are no more than         *)
(* DnlMinCapacity.  The forwarder is specified against these operators;    *)
(* RecentKept of module DeadNonceList is the fact they rest on.            *)
(***************************************************************************)
EXTENDS Naturals, FiniteSets

CONSTANT DnlMinCapacity   \* DeadNonceList::MIN_CAPACITY

\* What DeadNonceList::add, called for every pair in S, may leave of list.
DnlAdd(list, S) ==
  IF Cardinality(S) <= DnlMinCapacity
  THEN {T \cup S : T \in SUBSET list}
  ELSE SUBSET (list \cup S)

\* What DeadNonceList::adjustCapacity may leave of list.
DnlEvict(list) == SUBSET list

=============================================================================
