---------------------------- MODULE MCForwarder -----------------------------
(***************************************************************************)
(* Instances of Forwarder for TLC.  Time is counted in units of the        *)
(* straggler time and the initial suppression interval.                    *)
(***************************************************************************)
EXTENDS Forwarder, TLC

CONSTANTS
  app, a, b,        \* a local face and two remote ones
  n1, n2, n3        \* nonces

I(name, fresh, n, lifetime) ==
  [name |-> name, fresh |-> fresh, nonce |-> n, lifetime |-> lifetime,
   link |-> <<>>, sel |-> {}]

D(name, freshness) == [name |-> name, freshness |-> freshness, noCache |-> FALSE]

NameOcr == <<"ocr">>
NameReply == <<"ocr", "reply">>
NameMgmt == <<"localhost", "nfd">>
NameHop == <<"localhop", "nfd">>

NoRegion == {}
Root == {<<>>}
RootToBoth == [p \in Root |-> [f \in {a, b} |-> 1]]

\* Remote faces and nonces are interchangeable: they are only compared.
Symmetric == Permutations({a, b}) \cup Permutations(Nonce)

----------------------------------------------------------------------------
\* One name, best-route, two upstreams of equal cost.
BestStrategy == [n \in {NameOcr} |-> "best-route"]
BestInterests == {I(NameOcr, TRUE, n, l) : n \in Nonce, l \in {1, 2}}
BestData == {D(NameOcr, 0)}

----------------------------------------------------------------------------
\* Faces and routes that come and go, one of them a multi-access face.
FacesFib == [p \in Root |-> [f \in {a} |-> 2]]
FacesInterests == {I(NameOcr, TRUE, n, 2) : n \in Nonce}

----------------------------------------------------------------------------
\* Names with a scope, the empty name that is a prefix of all of them, so that
\* one Data satisfies several entries, both strategies, and a cache.
FlowNames == {<<>>, NameMgmt, NameHop}
FlowStrategy == [n \in FlowNames |-> IF n = NameHop THEN "best-route" ELSE "multicast"]
FlowInterests ==
  UNION {{I(<<>>, FALSE, n, -1), I(NameMgmt, TRUE, n, 1), I(NameHop, FALSE, n, 2)} : n \in Nonce}
FlowData == {D(NameMgmt, 0), D(NameHop, -1)}

----------------------------------------------------------------------------
\* Interests with a Link to two delegations beside the flow of scoped names: under one
\* name some leave the choice to the forwarder and some have made another one; under the
\* other the Link reaches the producer region.  No default route: the forwarder is in
\* the default-free zone.
NonceSymmetric == Permutations(Nonce)
LinkTelia == <<"telia">>
LinkAtt == <<"att">>
LinkRegions == {<<"ucl", "lab">>}
LinkPrefixes == {<<>>, LinkTelia, LinkAtt, NameOcr, NameMgmt, NameHop}
LinkInterests ==
  UNION {{[I(NameOcr, FALSE, n, 1) EXCEPT !.link = <<<<"nowhere">>, LinkTelia, LinkAtt>>, !.sel = s] :
             s \in {{}, {LinkAtt}}}
           \cup {[I(NameReply, FALSE, n, 1) EXCEPT !.link = <<LinkAtt, <<"ucl">>>>, !.sel = {LinkAtt}]} :
           n \in Nonce}
LinkStrategy ==
  FlowStrategy @@ [n \in {NameOcr, NameReply} |-> "best-route"]
LinkFib ==
  (<<>> :> NoHops) @@ (LinkTelia :> (a :> 1)) @@ (LinkAtt :> (b :> 1)) @@ (NameOcr :> (app :> 1))
    @@ [p \in {NameMgmt, NameHop} |-> [f \in {app, a, b} |-> 1]]
FlowLinkInterests == FlowInterests \cup LinkInterests

\* An Interest goes where the delegation it carries leads, whatever other downstreams ask
\* for.  Not so: onContentStoreMiss looks up the delegation of the Interest that came in,
\* and pickInterest sends the one that came first.
OwnDelegationFollowed ==
  \A p \in sent : p.type = "Interest" /\ ~isInProducerRegion(Picked(p).link) =>
    \A d \in p.sel : p.face \in DOMAIN findLongestPrefixMatch(fib, d).hops
=============================================================================
