----------------------- MODULE AutoPrefixPropagator -------------------------
(***************************************************************************)
(* The AutoPrefixPropagator of the RIB daemon registers the prefixes of    *)
(* the local RIB on a gateway, the hub, refreshes and retries these        *)
(* registrations by timer, and revokes them.  A hub is connected while the *)
(* RIB has an entry /localhop/nfd.                                         *)
(*                                                                         *)
(* The RIB, the KeyChain and the hub are the environment.  Commands to the *)
(* hub overtake each other, and they or their answers may be lost; the     *)
(* hub forgets what it was told when the connection to it ends.  Time      *)
(* passes in ticks, and not before what is due has happened.               *)
(***************************************************************************)
EXTENDS NdnNames, Bags

CONSTANTS
  RibPrefix,           \* prefixes applications may register in the local RIB
  KeyChainOrder,       \* every identity, in the order getAllIdentities lists them
  InitIdentities,      \* the identities the KeyChain holds at start-up
  m_refreshInterval, m_baseRetryWait, m_maxRetryWait,
  CommandTimeout,      \* timeout of a command
  MaxOps,              \* bound: changes of the RIB, the KeyChain and the connection
  MaxFaults            \* bound: commands or answers that are rejected or lost

VARIABLES
  rib,                 \* prefixes of the local RIB without /localhop/nfd
  identities,          \* identities in the KeyChain
  m_hasConnectedHub,
  entries,             \* m_propagatedEntries: prefix -> [status, timer]
  commands,            \* bag of the commands that have not called back yet
  hubTable,            \* prefixes the hub has a route for
  ops, faults          \* what is left of MaxOps and MaxFaults

vars == <<rib, identities, m_hasConnectedHub, entries, commands, hubTable, ops, faults>>

Identity == {KeyChainOrder[j] : j \in DOMAIN KeyChainOrder}

LINK_LOCAL_NFD_PREFIX == <<"localhop", "nfd">>

\* The identity without its last component if that is "nrd".
PrefixOfIdentity(i) ==
  IF i # <<>> /\ i[Len(i)] = "nrd" THEN SubSeq(i, 1, Len(i) - 1) ELSE i

ASSUME PropagatorAssumption ==
  /\ RibPrefix \subseteq Name /\ KeyChainOrder \in Seq(Name) /\ InitIdentities \subseteq Identity
  /\ LINK_LOCAL_NFD_PREFIX \notin RibPrefix
  /\ \A i \in Identity : ~IsPrefixOf(PrefixOfIdentity(i), LINK_LOCAL_NFD_PREFIX)
  /\ m_baseRetryWait \in Nat \ {0} /\ m_maxRetryWait \in Nat \ {0} /\ m_refreshInterval \in Nat \ {0}
  /\ CommandTimeout \in Nat \ {0} /\ MaxOps \in Nat /\ MaxFaults \in Nat

NoEvent == [left |-> 0, wait |-> 0]

RefreshEvent == [left |-> m_refreshInterval, wait |-> m_baseRetryWait]

RetryEvent(wait) ==
  [left |-> wait, wait |-> IF 2 * wait < m_maxRetryWait THEN 2 * wait ELSE m_maxRetryWait]

----------------------------------------------------------------------------
(* Which prefix is propagated for a RIB prefix.                            *)

Covering(n) ==
  {j \in DOMAIN KeyChainOrder :
     KeyChainOrder[j] \in identities /\ IsPrefixOf(PrefixOfIdentity(KeyChainOrder[j]), n)}

isValid(n) == ~IsPrefixOf(LOCALHOST_NAME, n) /\ Covering(n) # {}

\* The shortest identity that covers n, the first of them if there are several.
signingIdentity(n) ==
  KeyChainOrder[CHOOSE j \in Covering(n) : \A l \in Covering(n) :
    \/ Len(KeyChainOrder[j]) < Len(KeyChainOrder[l])
    \/ (Len(KeyChainOrder[j]) = Len(KeyChainOrder[l]) /\ j <= l)]

propagatedPrefix(n) == PrefixOfIdentity(signingIdentity(n))

Propagated(S) == {propagatedPrefix(n) : n \in {m \in S : isValid(m)}}

doesCurrentPropagatedPrefixWork(p) ==
  Covering(p) # {} /\ Len(propagatedPrefix(p)) = Len(p)

----------------------------------------------------------------------------
(* Commands to the hub.  One that is sent while no hub is connected has no *)
(* route and is lost.                                                      *)

Command(op, p, wait, hub) ==
  [op |-> op, prefix |-> p, wait |-> wait, left |-> CommandTimeout,
   stage |-> IF hub THEN "sent" ELSE "lost"]

startPropagation(P, wait, hub) == SetToBag({Command("register", p, wait, hub) : p \in P})

startRevocation(P, hub) == SetToBag({Command("unregister", p, m_baseRetryWait, hub) : p \in P})

SetStatus(p, status, timer) == [entries EXCEPT ![p] = [status |-> status, timer |-> timer]]

\* afterRibInsert for the prefixes of P, which have no entry; hub tells whether
\* a hub is connected by then.
afterRibInsert(es, P, hub) ==
  [p \in DOMAIN es \cup P |->
     IF p \in P THEN [status |-> IF hub THEN "PROPAGATING" ELSE "NEW", timer |-> NoEvent]
     ELSE es[p]]

\* redoPropagation for the entries es of the prefixes R.  An entry whose prefix does
\* not work any more goes, and the RIB entries under it are handled as if they were
\* just inserted.  A timer that is armed stays armed.
redoPropagation(es, R, wait, hub) ==
  LET works == {p \in R : doesCurrentPropagatedPrefixWork(p)}
      kept  == [p \in DOMAIN es \ (R \ works) |->
                  IF p \in works THEN [es[p] EXCEPT !.status = "PROPAGATING"] ELSE es[p]]
      fresh == Propagated({n \in rib : \E p \in R \ works : IsPrefixOf(p, n)}) \ DOMAIN kept
  IN  /\ entries' = afterRibInsert(kept, fresh, hub)
      /\ commands' = commands (+) startPropagation(works, wait, hub)
                              (+) startPropagation(IF hub THEN fresh ELSE {}, m_baseRetryWait, hub)

----------------------------------------------------------------------------
(* Changes of the RIB and of the KeyChain.                                 *)

Op == ops > 0 /\ ops' = ops - 1

\* Rib::afterInsertEntry for a prefix other than the hub's.
afterInsertRibEntry(n) ==
  LET P == Propagated({n}) \ DOMAIN entries
  IN  /\ n \notin rib
      /\ Op
      /\ rib' = rib \cup {n}
      /\ entries' = afterRibInsert(entries, P, m_hasConnectedHub)
      /\ commands' = IF m_hasConnectedHub
                     THEN commands (+) startPropagation(P, m_baseRetryWait, TRUE)
                     ELSE commands
      /\ UNCHANGED <<identities, m_hasConnectedHub, hubTable, faults>>

\* Mutant: other RIB entries are not looked for.
keptForAnother_none(n, p) == FALSE

\* The entry is kept for another RIB entry that the same identity signs.
keptForAnother(n, p) ==
  \E m \in rib \ {n} :
    IsPrefixOf(p, m) /\ signingIdentity(m) = signingIdentity(n)

\* The entries of P go; what the hub was told of them is revoked.
afterRibErase(P) ==
  LET revoked == {p \in P : entries[p].status = "PROPAGATED"}
  IN  /\ entries' = [p \in DOMAIN entries \ P |-> entries[p]]
      /\ commands' = IF m_hasConnectedHub THEN commands (+) startRevocation(revoked, TRUE)
                     ELSE commands

\* Rib::afterEraseEntry for a prefix other than the hub's.
afterEraseRibEntry(n) ==
  /\ n \in rib
  /\ Op
  /\ rib' = rib \ {n}
  /\ afterRibErase({p \in Propagated({n}) \cap DOMAIN entries : ~keptForAnother(n, p)})
  /\ UNCHANGED <<identities, m_hasConnectedHub, hubTable, faults>>

afterHubConnect ==
  /\ ~m_hasConnectedHub
  /\ Op
  /\ m_hasConnectedHub' = TRUE
  /\ redoPropagation(entries, DOMAIN entries, m_baseRetryWait, TRUE)
  /\ UNCHANGED <<rib, identities, hubTable, faults>>

\* What was on its way to the hub does not arrive; answers already on their way
\* back still may.
afterHubDisconnect ==
  LET Lost(c) == IF c.stage = "sent" THEN [c EXCEPT !.stage = "lost"] ELSE c
      Copies(c) == IF BagIn(c, commands) THEN commands[c] ELSE 0
  IN  /\ m_hasConnectedHub
      /\ Op
      /\ m_hasConnectedHub' = FALSE
      /\ entries' = [p \in DOMAIN entries |-> [status |-> "NEW", timer |-> NoEvent]]
      /\ commands' = [c \in {Lost(d) : d \in DOMAIN commands} |->
                        Copies(c) + IF c.stage = "lost" THEN Copies([c EXCEPT !.stage = "sent"]) ELSE 0]
      /\ hubTable' = {}
      /\ UNCHANGED <<rib, identities, faults>>

KeyChainChange(i) ==
  /\ Op
  /\ identities' = IF i \in identities THEN identities \ {i} ELSE identities \cup {i}
  /\ UNCHANGED <<rib, m_hasConnectedHub, entries, commands, hubTable, faults>>

----------------------------------------------------------------------------
(* The hub and the network.                                                *)

Advance(c, stage) == (commands (-) SetToBag({c})) (+) SetToBag({[c EXCEPT !.stage = stage]})

HubHandles(c) ==
  /\ c.stage = "sent"
  /\ commands' = Advance(c, "done")
  /\ hubTable' = IF c.op = "register" THEN hubTable \cup {c.prefix} ELSE hubTable \ {c.prefix}
  /\ UNCHANGED <<rib, identities, m_hasConnectedHub, entries, ops, faults>>

\* The hub, or a forwarder on the way, rejects the command.
HubRejects(c) ==
  /\ c.stage = "sent" /\ faults > 0
  /\ faults' = faults - 1
  /\ commands' = Advance(c, "rejected")
  /\ UNCHANGED <<rib, identities, m_hasConnectedHub, entries, hubTable, ops>>

\* The command or its answer is lost; an answer may go with the connection.
Lose(c) ==
  /\ c.stage \in {"sent", "done"}
  /\ IF m_hasConnectedHub THEN faults > 0 /\ faults' = faults - 1 ELSE UNCHANGED faults
  /\ commands' = Advance(c, "lost")
  /\ UNCHANGED <<rib, identities, m_hasConnectedHub, entries, hubTable, ops>>

----------------------------------------------------------------------------
(* Callbacks of commands.                                                  *)

Answered(c, op) ==
  /\ c.op = op /\ c.stage = "done"
  /\ UNCHANGED <<rib, identities, m_hasConnectedHub, hubTable, ops, faults>>

Failed(c, op) ==
  /\ c.op = op
  /\ c.stage = "rejected" \/ (c.stage = "lost" /\ c.left = 0)
  /\ UNCHANGED <<rib, identities, m_hasConnectedHub, hubTable, ops, faults>>

Without(c) == commands (-) SetToBag({c})

\* Mutant: the entry that was erased meanwhile is ignored.
afterPropagateSucceed_ignored(c) ==
  /\ Answered(c, "register")
  /\ entries' = IF c.prefix \in DOMAIN entries
                THEN SetStatus(c.prefix, "PROPAGATED", RefreshEvent) ELSE entries
  /\ commands' = Without(c)

afterPropagateSucceed(c) ==
  /\ Answered(c, "register")
  /\ IF c.prefix \in DOMAIN entries
     THEN /\ entries' = SetStatus(c.prefix, "PROPAGATED", RefreshEvent)
          /\ commands' = Without(c)
     ELSE /\ commands' = Without(c) (+) startRevocation({c.prefix}, m_hasConnectedHub)
          /\ UNCHANGED entries

\* Mutant: no retry once the wait has reached its maximum.
afterPropagateFail_givesUp(c) ==
  /\ Failed(c, "register")
  /\ entries' = IF c.prefix \in DOMAIN entries
                THEN SetStatus(c.prefix, "PROPAGATE_FAIL",
                               IF c.wait < m_maxRetryWait THEN RetryEvent(c.wait) ELSE NoEvent)
                ELSE entries
  /\ commands' = Without(c)

afterPropagateFail(c) ==
  /\ Failed(c, "register")
  /\ entries' = IF c.prefix \in DOMAIN entries
                THEN SetStatus(c.prefix, "PROPAGATE_FAIL", RetryEvent(c.wait))
                ELSE entries
  /\ commands' = Without(c)

afterRevokeSucceed(c) ==
  /\ Answered(c, "unregister")
  /\ IF c.prefix \in DOMAIN entries /\ entries[c.prefix].status # "PROPAGATE_FAIL"
     THEN /\ entries' = [entries EXCEPT ![c.prefix].status = "PROPAGATING"]
          /\ commands' = Without(c) (+) startPropagation({c.prefix}, c.wait, m_hasConnectedHub)
     ELSE /\ commands' = Without(c)
          /\ UNCHANGED entries

afterRevokeFail(c) ==
  /\ Failed(c, "unregister")
  /\ commands' = Without(c)
  /\ UNCHANGED entries

----------------------------------------------------------------------------
(* Timers.                                                                 *)

Armed(p) == entries[p].timer # NoEvent

\* Mutant: a refresh only renews the timer.
onTimer_noRefresh(p) ==
  /\ p \in DOMAIN entries /\ Armed(p) /\ entries[p].timer.left = 0
  /\ IF entries[p].status = "PROPAGATED"
     THEN entries' = SetStatus(p, "PROPAGATED", RefreshEvent) /\ UNCHANGED commands
     ELSE redoPropagation([entries EXCEPT ![p].timer = NoEvent], {p}, entries[p].timer.wait,
                          m_hasConnectedHub)
  /\ UNCHANGED <<rib, identities, m_hasConnectedHub, hubTable, ops, faults>>

\* onRefreshTimer or onRetryTimer, whichever the entry's event is.  The event is
\* over once it has run.
onTimer(p) ==
  /\ p \in DOMAIN entries /\ Armed(p) /\ entries[p].timer.left = 0
  /\ redoPropagation([entries EXCEPT ![p].timer = NoEvent], {p}, entries[p].timer.wait,
                     m_hasConnectedHub)
  /\ UNCHANGED <<rib, identities, m_hasConnectedHub, hubTable, ops, faults>>

Tick ==
  /\ \A c \in DOMAIN commands : c.left > 0
  /\ \A p \in DOMAIN entries : Armed(p) => entries[p].timer.left > 0
  /\ commands' = [c \in {[d EXCEPT !.left = @ - 1] : d \in DOMAIN commands} |->
                    commands[[c EXCEPT !.left = @ + 1]]]
  /\ entries' = [p \in DOMAIN entries |->
                   IF Armed(p) THEN [entries[p] EXCEPT !.timer.left = @ - 1] ELSE entries[p]]
  /\ UNCHANGED <<rib, identities, m_hasConnectedHub, hubTable, ops, faults>>

----------------------------------------------------------------------------
Init ==
  /\ rib = {} /\ identities = InitIdentities
  /\ m_hasConnectedHub = FALSE
  /\ entries = <<>>
  /\ commands = EmptyBag
  /\ hubTable = {}
  /\ ops = MaxOps /\ faults = MaxFaults

Environment ==
  \/ \E n \in RibPrefix : afterInsertRibEntry(n) \/ afterEraseRibEntry(n)
  \/ afterHubConnect \/ afterHubDisconnect
  \/ \E i \in Identity : KeyChainChange(i)
  \/ \E c \in DOMAIN commands : HubRejects(c) \/ Lose(c)

Callback(c) ==
  \/ afterPropagateSucceed(c) \/ afterPropagateFail(c)
  \/ afterRevokeSucceed(c) \/ afterRevokeFail(c)

System ==
  \/ \E c \in DOMAIN commands : HubHandles(c) \/ Callback(c)
  \/ \E p \in DOMAIN entries : onTimer(p)
  \/ Tick

Next == Environment \/ System

\* The daemon's event loop runs what is due, the hub answers, and time passes.
Spec == Init /\ [][Next]_vars /\ WF_vars(System)

----------------------------------------------------------------------------
(* Properties.                                                             *)

Status == {"NEW", "PROPAGATING", "PROPAGATED", "PROPAGATE_FAIL"}

TypeOK ==
  /\ rib \subseteq RibPrefix /\ identities \subseteq Identity
  /\ m_hasConnectedHub \in BOOLEAN
  /\ \A p \in DOMAIN entries :
       /\ p \in Name /\ entries[p].status \in Status
       /\ entries[p].timer \in [left : Nat, wait : Nat]
  /\ IsABag(commands)
  /\ \A c \in DOMAIN commands :
       /\ c.op \in {"register", "unregister"} /\ c.prefix \in Name
       /\ c.wait \in Nat \ {0} /\ c.left \in 0..CommandTimeout
       /\ c.stage \in {"sent", "done", "rejected", "lost"}
  /\ hubTable \subseteq Name
  /\ ops \in 0..MaxOps /\ faults \in 0..MaxFaults

Registering(p) == \E c \in DOMAIN commands : c.op = "register" /\ c.prefix = p

\* NeverStuck: whatever order callbacks, timers, hub changes and RIB changes come in,
\* every entry has something that will move it on: a NEW one the hub's connection, a
\* PROPAGATING one a register command that has not called back or a timer, one that
\* succeeded or failed its timer (the state diagram of AutoPrefixPropagator).
NeverStuck ==
  \A p \in DOMAIN entries :
    CASE entries[p].status = "NEW" -> ~m_hasConnectedHub
      [] entries[p].status = "PROPAGATING" -> Registering(p) \/ Armed(p)
      [] OTHER -> Armed(p)

\* EntriesCoverRib: while the identities do not change, there is an entry exactly for
\* the prefixes that the RIB's entries are propagated under: an erased RIB entry keeps
\* one that others need, and leaves none behind that nobody needs (afterEraseRibEntry).
EntriesCoverRib ==
  [](identities = InitIdentities) => [](DOMAIN entries = Propagated(rib))

\* EventuallyPropagated: when the hub stays connected, every entry is in the hub's table
\* in the end, for good, whatever was lost or rejected and however revocations and
\* registrations of a prefix overtook each other (afterRevokeSucceed, onRetryTimer,
\* onRefreshTimer).
EventuallyPropagated ==
  <>[]m_hasConnectedHub => <>[](DOMAIN entries \subseteq hubTable)

\* EventuallyRevoked: when nothing is lost or rejected, the identities stay, and the hub
\* once connected stays so, no prefix stays in the hub's table that has no entry, even
\* one that was erased while its registration was under way (afterRibErase,
\* afterPropagateSucceed).
EventuallyRevoked ==
  /\ [](faults = MaxFaults /\ identities = InitIdentities)
  /\ []<>m_hasConnectedHub /\ [](m_hasConnectedHub => []m_hasConnectedHub)
  => <>[](hubTable \subseteq DOMAIN entries)

\* ErasedIsRevoked: "When a RIB entry is erased, the corresponding propagated entry would
\* be revoked" (auto-prefix-propagator.hpp:65): an entry that goes with a RIB entry while
\* the hub has its prefix has a revocation under way, or a registration whose success
\* will start one.
ErasedIsRevoked ==
  [][\A p \in (DOMAIN entries \ DOMAIN entries') \cap hubTable :
       rib' # rib /\ m_hasConnectedHub => \E c \in DOMAIN commands' : c.prefix = p]_vars

=============================================================================
