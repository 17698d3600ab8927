------------------------------ MODULE PitEntry ------------------------------
(***************************************************************************)
(* One entry of the Pending Interest Table: its in-records, out-records,   *)
(* the two timers the forwarder keeps on it and the retransmission         *)
(* suppression interval the best-route strategy stores on it.              *)
(*                                                                         *)
(* A record collection (std::list searched by face) is a function whose    *)
(* domain is the set of faces that have a record.  Times are absolute.     *)
(***************************************************************************)
EXTENDS NdnNames, Integers, FiniteSets

CONSTANTS
  Face,             \* faces that may ever exist; a face is never reused
  LocalFace,        \* faces with FACE_SCOPE_LOCAL
  Nonce,            \* Interest nonces
  DefaultLifetime,  \* ndn::DEFAULT_INTEREST_LIFETIME
  SuppressInitial   \* BestRouteStrategy2::RETX_SUPPRESSION_INITIAL

ASSUME PitEntryAssumption ==
  /\ LocalFace \subseteq Face
  /\ DefaultLifetime \in Nat
  /\ SuppressInitial \in Nat \ {0}

NoTimer == -1
NoNack == -1

NoRecords == [f \in {} |-> 0]
NoStraggler == [at |-> NoTimer, satisfied |-> FALSE, freshness |-> -1]

\* pit::Entry::Entry
NewEntry == [in         |-> NoRecords,
             out        |-> NoRecords,
             unsatisfy  |-> NoTimer,
             straggler  |-> NoStraggler,
             suppress   |-> SuppressInitial]

----------------------------------------------------------------------------
(* FaceRecord, InRecord and OutRecord.                                     *)

\* The lifetime FaceRecord::update reads; -1 when the Interest carries none.
Lifetime(i) == IF i.lifetime < 0 THEN DefaultLifetime ELSE i.lifetime

InRecordOf(i, t) == [interest |-> i, renewed |-> t, expiry |-> t + Lifetime(i)]

insertOrUpdateInRecord(e, f, i, t) ==
  [e EXCEPT !.in = [g \in DOMAIN e.in \cup {f} |->
                      IF g = f THEN InRecordOf(i, t) ELSE e.in[g]]]

deleteInRecord(e, f) ==
  [e EXCEPT !.in = [g \in DOMAIN e.in \ {f} |-> e.in[g]]]

deleteInRecords(e) == [e EXCEPT !.in = NoRecords]

\* A record that exists keeps the Nack it holds: only FaceRecord::update runs.
insertOrUpdateOutRecord(e, f, i, t) ==
  LET kept == IF f \in DOMAIN e.out THEN e.out[f].nack ELSE NoNack
  IN  [e EXCEPT !.out = [g \in DOMAIN e.out \cup {f} |->
                           IF g = f
                           THEN [nonce   |-> i.nonce,
                                 renewed |-> t,
                                 expiry  |-> t + Lifetime(i),
                                 nack    |-> kept]
                           ELSE e.out[g]]]

deleteOutRecord(e, f) ==
  [e EXCEPT !.out = [g \in DOMAIN e.out \ {f} |-> e.out[g]]]

----------------------------------------------------------------------------
(* Queries.                                                                *)

hasLocalInRecord(e) == DOMAIN e.in \cap LocalFace # {}

violatesScope(name, e, f) ==
  /\ f \notin LocalFace
  /\ \/ IsPrefixOf(LOCALHOST_NAME, name)
     \/ IsPrefixOf(LOCALHOP_NAME, name) /\ ~hasLocalInRecord(e)

canForwardTo(name, e, f, t) ==
  /\ ~ (f \in DOMAIN e.out /\ e.out[f].expiry >= t)
  /\ \E g \in DOMAIN e.in \ {f} : e.in[g].expiry >= t
  /\ ~ violatesScope(name, e, f)

\* findNonce blind to the in-records.
findNonce_outOnly(e, n) == \E f \in DOMAIN e.out : e.out[f].nonce = n

findNonce(e, n) ==
  \/ \E f \in DOMAIN e.in : e.in[f].interest.nonce = n
  \/ \E f \in DOMAIN e.out : e.out[f].nonce = n

hasUnexpiredOutRecords(e, t) == \E f \in DOMAIN e.out : e.out[f].expiry >= t

=============================================================================
