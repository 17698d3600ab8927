-------------------------- MODULE OutgoingPipelines --------------------------
(***************************************************************************)
(* The outgoing half of nfd::Forwarder: what a strategy may do to a PIT    *)
(* entry.  Every pipeline takes the entry (the key k and the record e) and *)
(* yields the entry it leaves behind together with the packets it hands to *)
(* the faces.                                                              *)
(***************************************************************************)
EXTENDS PitEntry

CONSTANTS
  MultiAccessFace,  \* faces with LINK_TYPE_MULTI_ACCESS
  StragglerTime     \* the 100 ms of Forwarder::setStragglerTimer

VARIABLES
  now,              \* time::steady_clock::now()
  faces             \* the FaceTable; any other face has INVALID_FACEID

ASSUME OutgoingAssumption ==
  /\ MultiAccessFace \subseteq Face
  /\ StragglerTime \in Nat

Result(e, pkts) == [entry |-> e, sent |-> pkts]

InterestTo(g, k, i) ==
  [type |-> "Interest", face |-> g, key |-> k, nonce |-> i.nonce, sel |-> i.sel]
NackTo(f, k, i, reason) ==
  [type |-> "Nack", face |-> f, key |-> k, nonce |-> i.nonce, reason |-> reason]
DataTo(f, d) == [type |-> "Data", face |-> f, data |-> d]

----------------------------------------------------------------------------
(* Timers.                                                                 *)

\* std::max_element over compare_InRecord_expiry.
LastExpiry(e) ==
  LET last == CHOOSE f \in DOMAIN e.in :
                \A g \in DOMAIN e.in : e.in[g].expiry <= e.in[f].expiry
  IN  e.in[last].expiry

\* setUnsatisfyTimer with min_element in place of max_element.
setUnsatisfyTimer_earliest(e) ==
  LET first == CHOOSE f \in DOMAIN e.in :
                 \A g \in DOMAIN e.in : e.in[f].expiry <= e.in[g].expiry
  IN  [e EXCEPT !.unsatisfy = e.in[first].expiry]

setUnsatisfyTimer(e) == [e EXCEPT !.unsatisfy = LastExpiry(e)]

setStragglerTimer(e, satisfied, freshness) ==
  [e EXCEPT !.straggler = [at        |-> now + StragglerTime,
                           satisfied |-> satisfied,
                           freshness |-> freshness]]

\* cancelUnsatisfyAndStragglerTimer that forgets the straggler timer.
cancelTimers_unsatisfyOnly(e) == [e EXCEPT !.unsatisfy = NoTimer]

cancelUnsatisfyAndStragglerTimer(e) ==
  [e EXCEPT !.unsatisfy = NoTimer, !.straggler = NoStraggler]

----------------------------------------------------------------------------
(* Pipelines.                                                              *)

\* pickInterest without the preference for in-records of other faces.
pickInterest_anyFace(e, g) ==
  {f \in DOMAIN e.in : \A h \in DOMAIN e.in : e.in[f].renewed <= e.in[h].renewed}

\* std::max_element over compare_pickInterest: among the in-records that do
\* not come from g (all of them if there are no others) the one the comparison
\* prefers to every other.  Ties are open.
pickInterest(e, g) ==
  LET others == DOMAIN e.in \ {g}
      S      == IF others # {} THEN others ELSE DOMAIN e.in
  IN  {f \in S : \A h \in S : e.in[f].renewed <= e.in[h].renewed}

\* onOutgoingInterest once for every face of G.  The out-record of one face is
\* of no consequence to the others, so the order of the calls is not either.
onOutgoingInterest(k, e, G) ==
  LET to    == {g \in G \cap faces : ~violatesScope(k.name, e, g)}
      picks == {p \in [to -> DOMAIN e.in] : \A g \in to : p[g] \in pickInterest(e, g)}
  IN  {Result([e EXCEPT !.out =
                 [g \in DOMAIN e.out \cup to |->
                    IF g \in to
                    THEN insertOrUpdateOutRecord(e, g, e.in[p[g]].interest, now).out[g]
                    ELSE e.out[g]]],
              {InterestTo(g, k, e.in[p[g]].interest) : g \in to}) : p \in picks}

\* onOutgoingNack that keeps the in-record.
onOutgoingNack_keepsRecord(k, e, D, reason) ==
  Result(e, {NackTo(f, k, e.in[f].interest, reason) :
               f \in (D \cap faces \cap DOMAIN e.in) \ MultiAccessFace})

\* onOutgoingNack once for every face of D.
onOutgoingNack(k, e, D, reason) ==
  LET to == (D \cap faces \cap DOMAIN e.in) \ MultiAccessFace
  IN  Result([e EXCEPT !.in = [f \in DOMAIN e.in \ to |-> e.in[f]]],
             {NackTo(f, k, e.in[f].interest, reason) : f \in to})

onInterestReject(e) ==
  IF hasUnexpiredOutRecords(e, now)
  THEN e
  ELSE setStragglerTimer(cancelUnsatisfyAndStragglerTimer(e), FALSE, -1)

=============================================================================
