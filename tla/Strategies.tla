----------------------------- MODULE Strategies ------------------------------
(***************************************************************************)
(* The two strategies the application's configuration selects: best-route  *)
(* (version 4) and multicast.  A trigger yields the set of its possible    *)
(* results; more than one only where the code's choice depends on an order *)
(* the model does not keep (equal costs, equal times).                     *)
(***************************************************************************)
EXTENDS OutgoingPipelines, Fib

CONSTANTS
  SuppressMax,      \* BestRouteStrategy2::RETX_SUPPRESSION_MAX
  StrategyOf        \* StrategyChoice: name -> "best-route" or "multicast"

ASSUME StrategyAssumption ==
  /\ SuppressMax \in Nat
  /\ SuppressInitial <= SuppressMax

\* lp::NackReason
NONE == 0
NO_ROUTE == 150

----------------------------------------------------------------------------
(* RetxSuppressionExponential.                                             *)

\* decide that compares with the first upstream instead of the last.
decide_firstOutgoing(e) ==
  IF ~hasUnexpiredOutRecords(e, now) THEN "NEW"
  ELSE IF \A g \in DOMAIN e.out : now - e.out[g].renewed < e.suppress
       THEN "SUPPRESS" ELSE "FORWARD"

decide(e) ==
  IF ~hasUnexpiredOutRecords(e, now) THEN "NEW"
  ELSE IF \E g \in DOMAIN e.out : now - e.out[g].renewed < e.suppress
       THEN "SUPPRESS" ELSE "FORWARD"

\* suppressLonger without the maximum.
suppressLonger_unbounded(e) == [e EXCEPT !.suppress = 2 * @]

\* The multiplier is 2.
suppressLonger(e) ==
  [e EXCEPT !.suppress = IF 2 * @ < SuppressMax THEN 2 * @ ELSE SuppressMax]

----------------------------------------------------------------------------
(* BestRouteStrategy2.                                                     *)

predicate_NextHop_eligible(k, e, f, g) == g # f /\ ~violatesScope(k.name, e, g)

unusedNextHop(e, g) == ~ (g \in DOMAIN e.out /\ e.out[g].expiry > now)

findEligibleNextHopWithEarliestOutRecord(e, S) ==
  {g \in S : \A h \in S : e.out[g].renewed <= e.out[h].renewed}

bestRouteAfterReceiveInterest(k, e, f, hops) ==
  LET eligible == {g \in DOMAIN hops : predicate_NextHop_eligible(k, e, f, g)}
      unused   == {g \in eligible : unusedNextHop(e, g)}
      retry    == IF unused # {} THEN LowestCost(hops, unused)
                  ELSE findEligibleNextHopWithEarliestOutRecord(e, eligible)
      noRoute  == onOutgoingNack(k, e, {f}, NO_ROUTE)
      longer   == suppressLonger(e)
  IN  CASE decide(e) = "NEW" /\ eligible # {} ->
             UNION {onOutgoingInterest(k, e, {g}) : g \in LowestCost(hops, eligible)}
        [] decide(e) = "NEW" /\ eligible = {} ->
             {Result(onInterestReject(noRoute.entry), noRoute.sent)}
        [] decide(e) = "SUPPRESS" -> {Result(e, {})}
        [] decide(e) = "FORWARD" /\ eligible # {} ->
             UNION {onOutgoingInterest(k, longer, {g}) : g \in retry}
        [] OTHER -> {Result(longer, {})}

\* compareLessSevere folded over the Nacks; NONE is the most severe.
leastSevereReason(reasons) ==
  LET named == reasons \ {NONE}
  IN  IF named = {} THEN NONE ELSE CHOOSE r \in named : \A s \in named : r <= s

bestRouteAfterReceiveNack(k, e) ==
  LET notNacked == {g \in DOMAIN e.out : e.out[g].nack = NoNack}
      reason == leastSevereReason({e.out[g].nack : g \in DOMAIN e.out \ notNacked})
  IN  CASE \E g \in DOMAIN e.in : notNacked = {g} ->
             onOutgoingNack(k, e, notNacked, reason)
        [] notNacked = {} -> onOutgoingNack(k, e, DOMAIN e.in, reason)
        [] OTHER -> Result(e, {})

----------------------------------------------------------------------------
(* MulticastStrategy.                                                      *)

multicastAfterReceiveInterest(k, e, hops) ==
  {IF hasUnexpiredOutRecords(r.entry, now)
   THEN r ELSE Result(onInterestReject(r.entry), r.sent) :
     r \in onOutgoingInterest(k, e, {g \in DOMAIN hops : canForwardTo(k.name, e, g, now)})}

----------------------------------------------------------------------------
(* Forwarder::dispatchToStrategy.                                          *)

afterReceiveInterest(k, e, f, hops) ==
  IF StrategyOf[k.name] = "best-route"
  THEN bestRouteAfterReceiveInterest(k, e, f, hops)
  ELSE multicastAfterReceiveInterest(k, e, hops)

afterReceiveNack(k, e) ==
  IF StrategyOf[k.name] = "best-route"
  THEN bestRouteAfterReceiveNack(k, e)
  ELSE Result(e, {})

=============================================================================
