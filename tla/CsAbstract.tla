----------------------------- MODULE CsAbstract -----------------------------
(***************************************************************************)
(* The ContentStore as the forwarder sees it: insertions and changes of    *)
(* the limit, and evictions of whatever the policy likes, no more than the *)
(* limit asks for.                                                         *)
(***************************************************************************)
EXTENDS CsContract

CONSTANTS DataPacket, Limit

VARIABLES
  store, limit, now,
  inserts           \* insertions so far: an insertion is never a stuttering step

Insert ==
  /\ \E d \in DataPacket : ~d.noCache /\ store' \in CsInsert(store, d, limit, now)
  /\ inserts' = inserts + 1
  /\ UNCHANGED <<limit, now>>

SetLimit ==
  /\ limit' \in Limit
  /\ IF Cardinality(store) <= limit'
     THEN store' = store
     ELSE store' \in {S \in SUBSET store : Cardinality(S) = limit'}
  /\ UNCHANGED <<now, inserts>>

Tick == now' = now + 1 /\ UNCHANGED <<store, limit, inserts>>

Init == store = {} /\ limit \in Limit /\ now = 0 /\ inserts = 0

Next == Insert \/ SetLimit \/ Tick

Spec == Init /\ [][Next]_<<store, limit, now, inserts>>

=============================================================================
