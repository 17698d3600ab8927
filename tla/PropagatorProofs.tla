-------------------------- MODULE PropagatorProofs --------------------------
(***************************************************************************)
(* Prefix propagation, for every set of RIB prefixes, every KeyChain and   *)
(* every choice of the intervals: no entry is ever stuck, and the entries  *)
(* are those the RIB needs.                                                *)
(***************************************************************************)
EXTENDS AutoPrefixPropagator, Extremum, TLAPS

----------------------------------------------------------------------------
(* Names.                                                                  *)

\* A prefix of a prefix is a prefix.
LEMMA PrefixTransitive ==
  ASSUME NEW a \in Name, NEW b \in Name, NEW c \in Name, IsPrefixOf(a, b), IsPrefixOf(b, c)
  PROVE  IsPrefixOf(a, c)
<1>1. Len(a) \in Nat /\ Len(b) \in Nat /\ Len(c) \in Nat /\ Len(a) <= Len(b) /\ Len(b) <= Len(c)
  BY DEF IsPrefixOf, Name
<1>2. \A i \in 1 .. Len(a) : a[i] = c[i]
  <2> SUFFICES ASSUME NEW i \in 1 .. Len(a) PROVE a[i] = c[i]
    OBVIOUS
  <2>1. a[i] = b[i]
    BY <1>1 DEF IsPrefixOf, Name
  <2>2. b[i] = c[i]
    BY <1>1 DEF IsPrefixOf, Name
  <2> QED
    BY <2>1, <2>2
<1>3. SubSeq(c, 1, Len(a)) = a
  BY <1>1, <1>2 DEF Name
<1> QED
  BY <1>1, <1>3 DEF IsPrefixOf

\* Every name is a prefix of itself.
LEMMA PrefixReflexive ==
  ASSUME NEW a \in Name
  PROVE  IsPrefixOf(a, a)
BY DEF IsPrefixOf, Name

\* The identity without "nrd" is a name.
LEMMA PrefixOfIdentityType ==
  ASSUME NEW i \in Name
  PROVE  PrefixOfIdentity(i) \in Name
<1>1. CASE i # <<>> /\ i[Len(i)] = "nrd"
  <2>1. PrefixOfIdentity(i) = SubSeq(i, 1, Len(i) - 1)
    BY <1>1 DEF PrefixOfIdentity
  <2>2. SubSeq(i, 1, Len(i) - 1) \in Seq(STRING)
    BY <1>1 DEF Name
  <2> QED
    BY <2>1, <2>2 DEF Name
<1>2. CASE ~(i # <<>> /\ i[Len(i)] = "nrd")
  BY <1>2 DEF PrefixOfIdentity
<1> QED
  BY <1>1, <1>2

\* A name that covers n and does not lie above /localhop/nfd, and so is not empty,
\* covers a /localhost name only if n is one.
LEMMA LocalhostSeparate ==
  ASSUME NEW p \in Name, NEW n \in Name, NEW m \in Name,
         ~IsPrefixOf(p, LINK_LOCAL_NFD_PREFIX), IsPrefixOf(p, n), IsPrefixOf(p, m),
         IsPrefixOf(LOCALHOST_NAME, m)
  PROVE  IsPrefixOf(LOCALHOST_NAME, n)
<1>1. Len(p) \in Nat /\ Len(p) # 0
  <2>1. SUFFICES ASSUME Len(p) = 0 PROVE FALSE
    BY DEF Name
  <2>2. p = <<>>
    BY <2>1 DEF Name
  <2>3. IsPrefixOf(<<>>, LINK_LOCAL_NFD_PREFIX)
    BY DEF IsPrefixOf, LINK_LOCAL_NFD_PREFIX
  <2> QED
    BY <2>2, <2>3
<1>2. Len(n) \in Nat /\ Len(m) \in Nat /\ Len(p) <= Len(n) /\ Len(p) <= Len(m)
  BY DEF IsPrefixOf, Name
<1>3. p[1] = n[1] /\ p[1] = m[1]
  BY <1>1, <1>2 DEF IsPrefixOf, Name
<1>4. LOCALHOST_NAME \in Seq({"localhost"}) /\ Len(LOCALHOST_NAME) = 1
  BY DEF LOCALHOST_NAME
<1>5. LOCALHOST_NAME[1] = "localhost"
  BY DEF LOCALHOST_NAME
<1>6. m[1] = LOCALHOST_NAME[1]
  BY <1>1, <1>2, <1>4 DEF IsPrefixOf, Name
<1>7. Len(SubSeq(n, 1, 1)) = 1 /\ SubSeq(n, 1, 1)[1] = n[1] /\ SubSeq(n, 1, 1) \in Seq(STRING)
  BY <1>1, <1>2 DEF Name
<1>8. SubSeq(n, 1, 1) = LOCALHOST_NAME
  BY <1>3, <1>4, <1>6, <1>7
<1> QED
  BY <1>1, <1>2, <1>4, <1>8 DEF IsPrefixOf

----------------------------------------------------------------------------
(* Which identity signs.                                                   *)

Better(j, l) ==
  \/ Len(KeyChainOrder[j]) < Len(KeyChainOrder[l])
  \/ (Len(KeyChainOrder[j]) = Len(KeyChainOrder[l]) /\ j <= l)

\* The identities are names, and their numbers a finite range.
LEMMA Identities ==
  /\ DOMAIN KeyChainOrder = 1 .. Len(KeyChainOrder) /\ Len(KeyChainOrder) \in Nat
  /\ \A j \in DOMAIN KeyChainOrder :
       /\ KeyChainOrder[j] \in Name /\ Len(KeyChainOrder[j]) \in Nat
       /\ PrefixOfIdentity(KeyChainOrder[j]) \in Name
       /\ ~IsPrefixOf(PrefixOfIdentity(KeyChainOrder[j]), LINK_LOCAL_NFD_PREFIX)
<1>1. KeyChainOrder \in Seq(Name)
  BY PropagatorAssumption
<1>2. DOMAIN KeyChainOrder = 1 .. Len(KeyChainOrder) /\ Len(KeyChainOrder) \in Nat
  BY <1>1
<1>3. ASSUME NEW j \in DOMAIN KeyChainOrder
      PROVE  KeyChainOrder[j] \in Name /\ Len(KeyChainOrder[j]) \in Nat
  <2>1. KeyChainOrder[j] \in Name
    BY <1>1
  <2> QED
    BY <2>1 DEF Name
<1>4. ASSUME NEW j \in DOMAIN KeyChainOrder
      PROVE  ~IsPrefixOf(PrefixOfIdentity(KeyChainOrder[j]), LINK_LOCAL_NFD_PREFIX)
  BY PropagatorAssumption DEF Identity
<1> QED
  BY <1>2, <1>3, <1>4, PrefixOfIdentityType

\* The loop of getPrefixPropagationParameters finds the best of the identities that cover n.
LEMMA SigningIndex ==
  ASSUME NEW n, Covering(n) # {}
  PROVE  \E j \in Covering(n) :
           signingIdentity(n) = KeyChainOrder[j] /\ \A l \in Covering(n) : Better(j, l)
<1> DEFINE S == Covering(n)
<1>1. S \subseteq 1 .. Len(KeyChainOrder) /\ Len(KeyChainOrder) \in Nat
      /\ \A j \in S : Len(KeyChainOrder[j]) \in Nat /\ j \in Nat
  BY Identities DEF Covering
<1>2. IsFiniteSet(1 .. Len(KeyChainOrder))
  BY <1>1, FS_Interval
<1>3. IsFiniteSet(S)
  BY <1>1, <1>2, FS_Subset
<1> DEFINE v == [j \in S |-> 0 - Len(KeyChainOrder[j])]
           w == [j \in S |-> 0 - j]
<1>4. PICK x \in S : \A y \in S : v[y] <= v[x]
  <2>1. \A y \in S : v[y] \in Int
    BY <1>1
  <2> HIDE DEF v, S
  <2> QED
    BY <1>3, <2>1, MaximumExists DEF S
<1> DEFINE T == {y \in S : Len(KeyChainOrder[y]) = Len(KeyChainOrder[x])}
<1>5. IsFiniteSet(T) /\ x \in T
  BY <1>3, <1>4, FS_Subset
<1>6. PICK z \in T : \A y \in T : w[y] <= w[z]
  <2>1. \A y \in T : w[y] \in Int
    BY <1>1
  <2> HIDE DEF w, T
  <2> QED
    BY <1>5, <2>1, MaximumExists
<1>7. z \in S /\ \A l \in S : Better(z, l)
  <2> SUFFICES ASSUME NEW l \in S PROVE Better(z, l)
    BY <1>6
  <2>1. Len(KeyChainOrder[z]) = Len(KeyChainOrder[x]) /\ z \in S
    BY <1>6
  <2>2. Len(KeyChainOrder[x]) <= Len(KeyChainOrder[l])
    BY <1>1, <1>4
  <2>3. Len(KeyChainOrder[l]) = Len(KeyChainOrder[x]) => z <= l
    BY <1>1, <1>6, <2>1
  <2> QED
    BY <1>1, <2>1, <2>2, <2>3 DEF Better
<1> DEFINE Is(j) == \A l \in Covering(n) :
                      \/ Len(KeyChainOrder[j]) < Len(KeyChainOrder[l])
                      \/ (Len(KeyChainOrder[j]) = Len(KeyChainOrder[l]) /\ j <= l)
           c == CHOOSE j \in Covering(n) : Is(j)
<1>8. \A j : Is(j) <=> \A l \in Covering(n) : Better(j, l)
  BY DEF Better
<1>9. c \in Covering(n) /\ Is(c)
  <2>1. z \in Covering(n) /\ Is(z)
    BY <1>7, <1>8
  <2> HIDE DEF Is
  <2> QED
    BY <2>1
<1>10. signingIdentity(n) = KeyChainOrder[c]
  BY DEF signingIdentity
<1> QED
  BY <1>8, <1>9, <1>10

\* The prefix a covered name is propagated under is a name above it, works as long as
\* the identities are the same, and is that of an identity.
LEMMA PropagatedPrefix ==
  ASSUME NEW n \in Name, Covering(n) # {}, NEW p, p = propagatedPrefix(n)
  PROVE  /\ p \in Name /\ IsPrefixOf(p, n) /\ ~IsPrefixOf(p, LINK_LOCAL_NFD_PREFIX)
         /\ doesCurrentPropagatedPrefixWork(p)
<1>1. PICK j \in Covering(n) :
        signingIdentity(n) = KeyChainOrder[j] /\ \A l \in Covering(n) : Better(j, l)
  BY SigningIndex
<1>2. j \in DOMAIN KeyChainOrder /\ KeyChainOrder[j] \in identities
      /\ IsPrefixOf(PrefixOfIdentity(KeyChainOrder[j]), n)
  BY DEF Covering
<1>3. p = PrefixOfIdentity(KeyChainOrder[j])
  BY <1>1 DEF propagatedPrefix
<1>4. p \in Name /\ IsPrefixOf(p, n) /\ ~IsPrefixOf(p, LINK_LOCAL_NFD_PREFIX)
  BY <1>2, <1>3, Identities
<1>5. j \in Covering(p)
  BY <1>2, <1>3, <1>4, PrefixReflexive DEF Covering
<1>6. PICK l \in Covering(p) :
        signingIdentity(p) = KeyChainOrder[l] /\ \A k \in Covering(p) : Better(l, k)
  BY <1>5, SigningIndex
<1>7. l \in Covering(n)
  <2>1. l \in DOMAIN KeyChainOrder /\ KeyChainOrder[l] \in identities
        /\ IsPrefixOf(PrefixOfIdentity(KeyChainOrder[l]), p)
    BY <1>6 DEF Covering
  <2>2. IsPrefixOf(PrefixOfIdentity(KeyChainOrder[l]), n)
    BY <2>1, <1>4, Identities, PrefixTransitive
  <2> QED
    BY <2>1, <2>2 DEF Covering
<1>8. Better(j, l) /\ Better(l, j)
  BY <1>1, <1>5, <1>6, <1>7
<1>9. j = l
  <2>1. j \in Nat /\ l \in Nat /\ Len(KeyChainOrder[j]) \in Nat /\ Len(KeyChainOrder[l]) \in Nat
    BY <1>7, Identities DEF Covering
  <2> QED
    BY <1>8, <2>1 DEF Better
<1>10. propagatedPrefix(p) = p
  BY <1>3, <1>6, <1>9 DEF propagatedPrefix
<1> QED
  BY <1>4, <1>5, <1>10 DEF doesCurrentPropagatedPrefixWork

\* Two names propagated under one prefix are signed by one identity, even when two
\* identities differ only in the component "nrd".
LEMMA OneSigner ==
  ASSUME NEW n, NEW m, Covering(n) # {}, Covering(m) # {},
         propagatedPrefix(n) = propagatedPrefix(m)
  PROVE  signingIdentity(n) = signingIdentity(m)
<1>1. PICK j \in Covering(n) :
        signingIdentity(n) = KeyChainOrder[j] /\ \A l \in Covering(n) : Better(j, l)
  BY SigningIndex
<1>2. PICK k \in Covering(m) :
        signingIdentity(m) = KeyChainOrder[k] /\ \A l \in Covering(m) : Better(k, l)
  BY SigningIndex
<1>3. PrefixOfIdentity(KeyChainOrder[j]) = PrefixOfIdentity(KeyChainOrder[k])
  BY <1>1, <1>2 DEF propagatedPrefix
<1>4. k \in Covering(n) /\ j \in Covering(m)
  BY <1>3 DEF Covering
<1>5. Better(j, k) /\ Better(k, j)
  BY <1>1, <1>2, <1>4
<1>6. j \in Nat /\ k \in Nat /\ Len(KeyChainOrder[j]) \in Nat /\ Len(KeyChainOrder[k]) \in Nat
  BY Identities DEF Covering
<1>7. j = k
  BY <1>5, <1>6 DEF Better
<1> QED
  BY <1>1, <1>2, <1>7

\* What is propagated for names is names, and works.
LEMMA PropagatedWork ==
  ASSUME NEW S \in SUBSET Name, NEW p \in Propagated(S)
  PROVE  p \in Name /\ doesCurrentPropagatedPrefixWork(p)
<1>1. PICK n \in S : isValid(n) /\ p = propagatedPrefix(n)
  BY Zenon DEF Propagated
<1>2. n \in Name /\ Covering(n) # {}
  BY <1>1 DEF isValid
<1> QED
  BY <1>1, <1>2, PropagatedPrefix

\* afterEraseRibEntry finds another RIB entry for the prefix of the erased one exactly
\* when some other RIB entry is propagated under it.
LEMMA KeptForAnotherIsNeeded ==
  ASSUME rib \subseteq Name, NEW n \in rib, isValid(n), NEW p, p = propagatedPrefix(n)
  PROVE  keptForAnother(n, p) <=> p \in Propagated(rib \ {n})
<1>0. n \in Name /\ Covering(n) # {} /\ ~IsPrefixOf(LOCALHOST_NAME, n)
  BY DEF isValid
<1>p. p \in Name /\ IsPrefixOf(p, n) /\ ~IsPrefixOf(p, LINK_LOCAL_NFD_PREFIX)
  BY <1>0, PropagatedPrefix
<1>1. ASSUME keptForAnother(n, p) PROVE p \in Propagated(rib \ {n})
  <2>1. PICK m \in rib \ {n} : IsPrefixOf(p, m) /\ signingIdentity(m) = signingIdentity(n)
    BY <1>1 DEF keptForAnother
  <2>2. PICK j \in Covering(n) :
          signingIdentity(n) = KeyChainOrder[j] /\ \A l \in Covering(n) : Better(j, l)
    BY <1>0, SigningIndex
  <2>3. p = PrefixOfIdentity(KeyChainOrder[j])
    BY <2>2 DEF propagatedPrefix
  <2>4. j \in Covering(m)
    BY <2>1, <2>2, <2>3 DEF Covering
  <2>5. ~IsPrefixOf(LOCALHOST_NAME, m)
    BY <1>0, <1>p, <2>1, LocalhostSeparate
  <2>6. isValid(m) /\ propagatedPrefix(m) = p
    BY <2>1, <2>4, <2>5 DEF isValid, propagatedPrefix
  <2> QED
    BY <2>1, <2>6 DEF Propagated
<1>2. ASSUME p \in Propagated(rib \ {n}) PROVE keptForAnother(n, p)
  <2>1. PICK m \in rib \ {n} : isValid(m) /\ p = propagatedPrefix(m)
    BY <1>2, Zenon DEF Propagated
  <2>2. m \in Name /\ Covering(m) # {}
    BY <2>1 DEF isValid
  <2>3. IsPrefixOf(p, m)
    BY <2>1, <2>2, PropagatedPrefix
  <2>4. signingIdentity(m) = signingIdentity(n)
    BY <1>0, <2>1, <2>2, OneSigner
  <2> QED
    BY <2>1, <2>3, <2>4 DEF keptForAnother
<1> QED
  BY <1>1, <1>2

----------------------------------------------------------------------------
(* Bags of commands.                                                       *)

Stage == {"sent", "done", "rejected", "lost"}

CommandSet ==
  [op : {"register", "unregister"}, prefix : Name, wait : Nat \ {0},
   left : 0 .. CommandTimeout, stage : Stage]

Entry == [status : Status, timer : [left : Nat, wait : Nat]]

CommandsOK(B) == IsABag(B) /\ DOMAIN B \subseteq CommandSet

\* Sending adds to the commands that are out.
LEMMA BagSum ==
  ASSUME NEW A, NEW B, CommandsOK(A), CommandsOK(B)
  PROVE  CommandsOK(A (+) B) /\ DOMAIN (A (+) B) = DOMAIN A \cup DOMAIN B
<1>1. DOMAIN (A (+) B) = DOMAIN A \cup DOMAIN B
  BY DEF (+)
<1>2. ASSUME NEW e \in DOMAIN A \cup DOMAIN B
      PROVE  (A (+) B)[e] \in {n \in Nat : n > 0}
  <2>1. (A (+) B)[e] = (IF e \in DOMAIN A THEN A[e] ELSE 0) + (IF e \in DOMAIN B THEN B[e] ELSE 0)
    BY DEF (+)
  <2>2. /\ e \in DOMAIN A => A[e] \in Nat /\ A[e] > 0
        /\ e \in DOMAIN B => B[e] \in Nat /\ B[e] > 0
    BY DEF CommandsOK, IsABag
  <2> QED
    BY <2>1, <2>2
<1>3. A (+) B = [e \in DOMAIN (A (+) B) |-> (A (+) B)[e]]
  BY DEF (+)
<1> QED
  BY <1>1, <1>2, <1>3 DEF CommandsOK, IsABag

\* What a set of commands makes.
LEMMA BagOfSet ==
  ASSUME NEW S \in SUBSET CommandSet
  PROVE  CommandsOK(SetToBag(S)) /\ DOMAIN SetToBag(S) = S
BY DEF CommandsOK, IsABag, SetToBag

\* A callback takes one command away and leaves all others.
LEMMA BagMinusOne ==
  ASSUME NEW A, CommandsOK(A), NEW c \in DOMAIN A
  PROVE  /\ CommandsOK(A (-) SetToBag({c}))
         /\ DOMAIN A \ {c} \subseteq DOMAIN (A (-) SetToBag({c}))
         /\ DOMAIN (A (-) SetToBag({c})) \subseteq DOMAIN A
<1> DEFINE B == [e \in DOMAIN A |-> IF e \in DOMAIN SetToBag({c}) THEN A[e] - SetToBag({c})[e] ELSE A[e]]
           D == {d \in DOMAIN B : B[d] > 0}
<1>1. A (-) SetToBag({c}) = [e \in D |-> B[e]]
  BY DEF (-)
<1>2. DOMAIN SetToBag({c}) = {c} /\ SetToBag({c})[c] = 1
  BY DEF SetToBag
<1>3. \A e \in DOMAIN A : A[e] \in Nat /\ A[e] > 0
  BY DEF CommandsOK, IsABag
<1>4. \A e \in DOMAIN A : B[e] = IF e = c THEN A[e] - 1 ELSE A[e]
  BY <1>2
<1>5. DOMAIN B = DOMAIN A
  OBVIOUS
<1> HIDE DEF B
<1>6. \A e \in D : e \in DOMAIN A /\ B[e] \in {n \in Nat : n > 0}
  BY <1>3, <1>4, <1>5
<1>7. DOMAIN A \ {c} \subseteq D
  BY <1>3, <1>4, <1>5
<1>8. [e \in D |-> B[e]] \in [D -> {n \in Nat : n > 0}] /\ DOMAIN [e \in D |-> B[e]] = D
  BY <1>6
<1>9. D \subseteq CommandSet
  BY <1>6 DEF CommandsOK
<1> HIDE DEF D
<1> QED
  BY <1>1, <1>6, <1>7, <1>8, <1>9 DEF CommandsOK, IsABag

\* The commands startPropagation and startRevocation send.
LEMMA Starts ==
  ASSUME NEW P \in SUBSET Name, NEW wait \in Nat \ {0}, NEW hub \in BOOLEAN
  PROVE  /\ CommandsOK(startPropagation(P, wait, hub)) /\ CommandsOK(startRevocation(P, hub))
         /\ \A p \in P : \E c \in DOMAIN startPropagation(P, wait, hub) :
              c.op = "register" /\ c.prefix = p
<1>1. \A p \in P : Command("register", p, wait, hub) \in CommandSet
  BY PropagatorAssumption DEF Command, CommandSet, Stage
<1>2. \A p \in P : Command("unregister", p, m_baseRetryWait, hub) \in CommandSet
  BY PropagatorAssumption DEF Command, CommandSet, Stage
<1>3. \A p \in P : Command("register", p, wait, hub).op = "register"
                  /\ Command("register", p, wait, hub).prefix = p
  BY DEF Command
<1> DEFINE R == {Command("register", p, wait, hub) : p \in P}
           U == {Command("unregister", p, m_baseRetryWait, hub) : p \in P}
<1>4. R \in SUBSET CommandSet /\ U \in SUBSET CommandSet
  BY <1>1, <1>2
<1>5. startPropagation(P, wait, hub) = SetToBag(R) /\ startRevocation(P, hub) = SetToBag(U)
  BY DEF startPropagation, startRevocation
<1>6. \A p \in P : \E c \in R : c.op = "register" /\ c.prefix = p
  BY <1>3
<1> HIDE DEF R, U
<1> QED
  BY <1>4, <1>5, <1>6, BagOfSet

----------------------------------------------------------------------------
(* The inductive invariant: types, a timer that is armed has a wait to     *)
(* retry with, so that counting it down does not make it NoEvent, and      *)
(* NeverStuck.                                                             *)

Timed(es) == \A p \in DOMAIN es : es[p].timer # NoEvent => es[p].timer.wait # 0

EntriesOK(es) == DOMAIN es \subseteq Name /\ es \in [DOMAIN es -> Entry] /\ Timed(es)

Types ==
  /\ rib \subseteq RibPrefix /\ identities \subseteq Identity
  /\ m_hasConnectedHub \in BOOLEAN
  /\ EntriesOK(entries)
  /\ CommandsOK(commands)
  /\ hubTable \subseteq Name
  /\ ops \in 0 .. MaxOps /\ faults \in 0 .. MaxFaults

\* NeverStuck for one entry e of prefix p, with the commands B.
Moves(e, p, B, hub) ==
  /\ e.status = "NEW" => ~hub
  /\ e.status = "PROPAGATING" =>
       (\E c \in DOMAIN B : c.op = "register" /\ c.prefix = p) \/ e.timer # NoEvent
  /\ e.status \notin {"NEW", "PROPAGATING"} => e.timer # NoEvent

AllMove(es, B, hub) == \A p \in DOMAIN es : Moves(es[p], p, B, hub)

PInv == Types /\ AllMove(entries, commands, m_hasConnectedHub)

\* The two forms of NeverStuck.
LEMMA AllMoveIsNeverStuck == AllMove(entries, commands, m_hasConnectedHub) => NeverStuck
<1> SUFFICES ASSUME NEW p \in DOMAIN entries, Moves(entries[p], p, commands, m_hasConnectedHub)
             PROVE  CASE entries[p].status = "NEW" -> ~m_hasConnectedHub
                      [] entries[p].status = "PROPAGATING" -> Registering(p) \/ Armed(p)
                      [] OTHER -> Armed(p)
  BY DEF AllMove, NeverStuck
<1>1. /\ entries[p].status = "NEW" => ~m_hasConnectedHub
      /\ entries[p].status = "PROPAGATING" => Registering(p) \/ Armed(p)
      /\ entries[p].status \notin {"NEW", "PROPAGATING"} => Armed(p)
  BY DEF Moves, Registering, Armed
<1> QED
  BY <1>1

\* More register commands do no harm.
LEMMA MovesMonotone ==
  ASSUME NEW e, NEW p, NEW A, NEW B, NEW hub, Moves(e, p, A, hub),
         \A c \in DOMAIN A : c.op = "register" /\ c.prefix = p =>
           \E d \in DOMAIN B : d.op = "register" /\ d.prefix = p
  PROVE  Moves(e, p, B, hub)
BY DEF Moves

\* Events of a timer.
LEMMA Events ==
  /\ NoEvent \in [left : Nat, wait : Nat]
  /\ RefreshEvent \in [left : Nat, wait : Nat] /\ RefreshEvent # NoEvent /\ RefreshEvent.wait # 0
  /\ \A w \in Nat \ {0} : /\ RetryEvent(w) \in [left : Nat, wait : Nat]
                           /\ RetryEvent(w) # NoEvent /\ RetryEvent(w).wait # 0
<1>1. NoEvent \in [left : Nat, wait : Nat] /\ NoEvent.left = 0
  BY DEF NoEvent
<1>2. RefreshEvent \in [left : Nat, wait : Nat] /\ RefreshEvent.left # 0 /\ RefreshEvent.wait # 0
  BY PropagatorAssumption DEF RefreshEvent
<1>3. ASSUME NEW w \in Nat \ {0}
      PROVE  RetryEvent(w) \in [left : Nat, wait : Nat] /\ RetryEvent(w).left # 0 /\ RetryEvent(w).wait # 0
  <2> DEFINE x == IF 2 * w < m_maxRetryWait THEN 2 * w ELSE m_maxRetryWait
  <2>1. x \in Nat /\ x # 0
    BY PropagatorAssumption
  <2>2. RetryEvent(w) = [left |-> w, wait |-> x]
    BY DEF RetryEvent
  <2> HIDE DEF x
  <2> QED
    BY <2>1, <2>2
<1> QED
  BY <1>1, <1>2, <1>3

\* r has the entries es and, for the prefixes P, new ones.
Extended(r, es, P, hub) ==
  /\ DOMAIN r = DOMAIN es \cup P /\ EntriesOK(r)
  /\ \A p \in DOMAIN es : r[p] = es[p]
  /\ \A p \in P : /\ hub => r[p].status = "PROPAGATING"
                  /\ ~hub => r[p].status = "NEW"

\* afterRibInsert for prefixes that have no entry.
LEMMA InsertFresh ==
  ASSUME NEW es, EntriesOK(es), NEW P, P \subseteq Name, P \cap DOMAIN es = {}, NEW hub
  PROVE  Extended(afterRibInsert(es, P, hub), es, P, hub)
<1> DEFINE r == afterRibInsert(es, P, hub)
<1> USE DEF EntriesOK
<1> DEFINE new == [status |-> IF hub THEN "PROPAGATING" ELSE "NEW", timer |-> NoEvent]
<1>1. r = [p \in DOMAIN es \cup P |-> IF p \in P THEN new ELSE es[p]]
  BY DEF afterRibInsert
<1>2. /\ new \in Entry /\ new.timer = NoEvent
      /\ hub => new.status = "PROPAGATING"
      /\ ~hub => new.status = "NEW"
  BY Events DEF Entry, Status
<1> HIDE DEF new
<1>3. DOMAIN r = DOMAIN es \cup P /\ r \in [DOMAIN r -> Entry]
  BY <1>1, <1>2
<1>4. \A p \in DOMAIN es : r[p] = es[p]
  BY <1>1
<1>5. \A p \in P : r[p] = new
  BY <1>1
<1>6. Timed(r)
  BY <1>2, <1>3, <1>4, <1>5 DEF Timed
<1> HIDE DEF r
<1>7. Extended(r, es, P, hub)
  BY <1>2, <1>3, <1>4, <1>5, <1>6 DEF Extended
<1> QED
  BY <1>7 DEF r

\* redoPropagation keeps the invariant for the other entries and makes it true for
\* those it handles.
LEMMA RedoKeeps ==
  ASSUME NEW es, EntriesOK(es),
         NEW R \in SUBSET DOMAIN es, NEW wait \in Nat \ {0}, NEW hub \in BOOLEAN,
         CommandsOK(commands), rib \subseteq Name,
         \A p \in DOMAIN es \ R : Moves(es[p], p, commands, hub),
         redoPropagation(es, R, wait, hub)
  PROVE  /\ EntriesOK(entries') /\ CommandsOK(commands')
         /\ AllMove(entries', commands', hub)
<1> DEFINE works == {p \in R : doesCurrentPropagatedPrefixWork(p)}
           kept == [p \in DOMAIN es \ (R \ works) |->
                      IF p \in works THEN [es[p] EXCEPT !.status = "PROPAGATING"] ELSE es[p]]
           fresh == Propagated({n \in rib : \E p \in R \ works : IsPrefixOf(p, n)}) \ DOMAIN kept
           A == startPropagation(works, wait, hub)
           B == startPropagation(IF hub THEN fresh ELSE {}, m_baseRetryWait, hub)
<1>0. DOMAIN es \subseteq Name /\ es \in [DOMAIN es -> Entry] /\ Timed(es)
  BY DEF EntriesOK
<1>1. entries' = afterRibInsert(kept, fresh, hub) /\ commands' = (commands (+) A) (+) B
  BY DEF redoPropagation
<1>2. fresh \in SUBSET Name /\ fresh \cap DOMAIN kept = {}
  BY PropagatedWork
<1>3. works \in SUBSET R
  OBVIOUS
<1>4. \A p \in DOMAIN es : /\ [es[p] EXCEPT !.status = "PROPAGATING"] \in Entry
                           /\ [es[p] EXCEPT !.status = "PROPAGATING"].status = "PROPAGATING"
                           /\ [es[p] EXCEPT !.status = "PROPAGATING"].timer = es[p].timer
  <2> SUFFICES ASSUME NEW p \in DOMAIN es
               PROVE  /\ [es[p] EXCEPT !.status = "PROPAGATING"] \in Entry
                      /\ [es[p] EXCEPT !.status = "PROPAGATING"].status = "PROPAGATING"
                      /\ [es[p] EXCEPT !.status = "PROPAGATING"].timer = es[p].timer
    OBVIOUS
  <2>1. es[p] \in Entry
    BY <1>0
  <2> QED
    BY <2>1 DEF Entry, Status
<1> HIDE DEF works
<1>5. /\ DOMAIN kept = DOMAIN es \ (R \ works) /\ DOMAIN kept \subseteq Name
      /\ kept \in [DOMAIN kept -> Entry]
  BY <1>0, <1>3, <1>4
<1>6. \A p \in DOMAIN kept : /\ p \in DOMAIN es /\ kept[p].timer = es[p].timer
                             /\ p \in works => kept[p].status = "PROPAGATING"
                             /\ p \notin works => kept[p] = es[p] /\ p \notin R
  BY <1>3, <1>4
<1> HIDE DEF kept, fresh
<1>7. Timed(kept)
  BY <1>0, <1>6 DEF Timed
<1>8. Extended(entries', kept, fresh, hub)
  <2>1. EntriesOK(kept)
    BY <1>5, <1>7 DEF EntriesOK
  <2>2. Extended(afterRibInsert(kept, fresh, hub), kept, fresh, hub)
    BY <2>1, <1>2, InsertFresh
  <2> QED
    BY <1>1, <2>2
<1>8a. /\ DOMAIN entries' = DOMAIN kept \cup fresh /\ EntriesOK(entries')
       /\ \A p \in DOMAIN kept : entries'[p] = kept[p]
       /\ \A p \in fresh : /\ hub => entries'[p].status = "PROPAGATING"
                           /\ ~hub => entries'[p].status = "NEW"
  BY <1>8 DEF Extended
<1>9. CommandsOK(A) /\ \A p \in works : \E c \in DOMAIN A : c.op = "register" /\ c.prefix = p
  <2>1. works \in SUBSET Name
    BY <1>0, <1>3
  <2> QED
    BY <2>1, Starts
<1>10. CommandsOK(B) /\ (hub => \A p \in fresh : \E c \in DOMAIN B : c.op = "register" /\ c.prefix = p)
  <2>1. (IF hub THEN fresh ELSE {}) \in SUBSET Name /\ m_baseRetryWait \in Nat \ {0}
    BY <1>2, PropagatorAssumption
  <2>2. /\ CommandsOK(B)
        /\ \A p \in (IF hub THEN fresh ELSE {}) : \E c \in DOMAIN B : c.op = "register" /\ c.prefix = p
    BY <2>1, Starts
  <2> HIDE DEF B
  <2> QED
    BY <2>2
<1> HIDE DEF A, B
<1>11. CommandsOK(commands') /\ DOMAIN commands' = DOMAIN commands \cup DOMAIN A \cup DOMAIN B
  <2>1. CommandsOK(commands (+) A) /\ DOMAIN (commands (+) A) = DOMAIN commands \cup DOMAIN A
    BY <1>9, BagSum
  <2>2. CommandsOK((commands (+) A) (+) B)
        /\ DOMAIN ((commands (+) A) (+) B) = DOMAIN (commands (+) A) \cup DOMAIN B
    BY <1>10, <2>1, BagSum
  <2> QED
    BY <1>1, <2>1, <2>2
<1>12. ASSUME NEW p \in DOMAIN entries' PROVE Moves(entries'[p], p, commands', hub)
  <2>1. CASE p \in works
    <3>1. p \in DOMAIN kept /\ entries'[p].status = "PROPAGATING"
      BY <1>3, <1>5, <1>6, <1>8a, <2>1
    <3>2. \E c \in DOMAIN commands' : c.op = "register" /\ c.prefix = p
      BY <1>9, <1>11, <2>1
    <3> QED
      BY <3>1, <3>2 DEF Moves
  <2>2. CASE p \in DOMAIN kept /\ p \notin works
    <3>1. entries'[p] = es[p] /\ p \in DOMAIN es \ R
      BY <1>6, <1>8a, <2>2
    <3>2. Moves(es[p], p, commands, hub)
      BY <3>1
    <3> QED
      BY <3>1, <3>2, <1>11, MovesMonotone
  <2>3. CASE p \in fresh
    <3>1. CASE hub
      <4>1. entries'[p].status = "PROPAGATING"
        BY <1>8a, <2>3, <3>1
      <4>2. \E c \in DOMAIN commands' : c.op = "register" /\ c.prefix = p
        BY <1>10, <1>11, <2>3, <3>1
      <4> QED
        BY <4>1, <4>2 DEF Moves
    <3>2. CASE ~hub
      <4>1. entries'[p].status = "NEW"
        BY <1>8a, <2>3, <3>2
      <4> QED
        BY <4>1, <3>2 DEF Moves
    <3> QED
      BY <3>1, <3>2
  <2> QED
    BY <1>8a, <2>1, <2>2, <2>3
<1> QED
  BY <1>2, <1>5, <1>8a, <1>11, <1>12 DEF AllMove

\* A callback's change of one entry.
LEMMA SetStatusKeeps ==
  ASSUME EntriesOK(entries), NEW p \in DOMAIN entries, NEW st \in Status,
         NEW tm \in [left : Nat, wait : Nat], tm.wait # 0
  PROVE  /\ EntriesOK(SetStatus(p, st, tm)) /\ DOMAIN SetStatus(p, st, tm) = DOMAIN entries
         /\ SetStatus(p, st, tm)[p].status = st /\ SetStatus(p, st, tm)[p].timer = tm
         /\ \A q \in DOMAIN entries \ {p} : SetStatus(p, st, tm)[q] = entries[q]
<1> DEFINE e == [status |-> st, timer |-> tm]
           r == [entries EXCEPT ![p] = e]
<1>1. e \in Entry /\ e.status = st /\ e.timer = tm
  BY DEF Entry
<1> HIDE DEF e
<1>2. DOMAIN entries \subseteq Name /\ entries \in [DOMAIN entries -> Entry] /\ Timed(entries)
  BY DEF EntriesOK
<1>3. DOMAIN r = DOMAIN entries /\ r \in [DOMAIN entries -> Entry]
      /\ r[p] = e /\ \A q \in DOMAIN entries \ {p} : r[q] = entries[q]
  BY <1>1, <1>2
<1>4. SetStatus(p, st, tm) = r
  BY DEF SetStatus, e
<1> HIDE DEF r
<1>5. Timed(r)
  <2> SUFFICES ASSUME NEW q \in DOMAIN entries, r[q].timer # NoEvent PROVE r[q].timer.wait # 0
    BY <1>3 DEF Timed
  <2>1. CASE q = p
    BY <2>1, <1>1, <1>3
  <2>2. CASE q # p
    BY <2>2, <1>2, <1>3 DEF Timed
  <2> QED
    BY <2>1, <2>2
<1> QED
  BY <1>1, <1>2, <1>3, <1>4, <1>5 DEF EntriesOK

\* The command that calls back is not the one an entry of another prefix waits for.
LEMMA OthersKept ==
  ASSUME NEW e, NEW q, NEW hub, NEW B, NEW c, Moves(e, q, commands, hub),
         DOMAIN commands \ {c} \subseteq DOMAIN B, c.op # "register" \/ c.prefix # q
  PROVE  Moves(e, q, B, hub)
<1>1. \A d \in DOMAIN commands : d.op = "register" /\ d.prefix = q =>
        \E f \in DOMAIN B : f.op = "register" /\ f.prefix = q
  OBVIOUS
<1> QED
  BY <1>1, MovesMonotone

\* A command that goes on to another stage.
LEMMA AdvanceKeeps ==
  ASSUME CommandsOK(commands), NEW c \in DOMAIN commands, NEW stage \in Stage,
         AllMove(entries, commands, m_hasConnectedHub)
  PROVE  CommandsOK(Advance(c, stage)) /\ AllMove(entries, Advance(c, stage), m_hasConnectedHub)
<1> DEFINE d == [c EXCEPT !.stage = stage]
           A == commands (-) SetToBag({c})
           B == A (+) SetToBag({d})
<1>1. d \in CommandSet /\ d.op = c.op /\ d.prefix = c.prefix
  <2>1. c \in CommandSet
    BY DEF CommandsOK
  <2> QED
    BY <2>1 DEF CommandSet, Stage
<1>2. Advance(c, stage) = B
  BY DEF Advance
<1> HIDE DEF d
<1>3. CommandsOK(A) /\ DOMAIN commands \ {c} \subseteq DOMAIN A
  BY BagMinusOne
<1>4. CommandsOK(SetToBag({d})) /\ DOMAIN SetToBag({d}) = {d}
  BY <1>1, BagOfSet
<1> HIDE DEF A
<1>5. CommandsOK(B) /\ DOMAIN B = DOMAIN A \cup {d}
  BY <1>3, <1>4, BagSum
<1> HIDE DEF B
<1>6. ASSUME NEW p \in DOMAIN entries PROVE Moves(entries[p], p, B, m_hasConnectedHub)
  <2>1. \A e \in DOMAIN commands : e.op = "register" /\ e.prefix = p =>
          \E f \in DOMAIN B : f.op = "register" /\ f.prefix = p
    BY <1>1, <1>3, <1>5
  <2>2. Moves(entries[p], p, commands, m_hasConnectedHub)
    BY DEF AllMove
  <2> QED
    BY <2>1, <2>2, MovesMonotone
<1> QED
  BY <1>2, <1>5, <1>6 DEF AllMove

\* Changes of the RIB.
LEMMA RibStep ==
  ASSUME PInv, NEW n \in RibPrefix, afterInsertRibEntry(n) \/ afterEraseRibEntry(n)
  PROVE  PInv'
<1>1. Types /\ AllMove(entries, commands, m_hasConnectedHub)
  BY DEF PInv
<1>2. EntriesOK(entries) /\ CommandsOK(commands) /\ m_hasConnectedHub \in BOOLEAN
  BY <1>1 DEF Types
<1>3. rib' \subseteq RibPrefix /\ ops' \in 0 .. MaxOps
      /\ UNCHANGED <<identities, m_hasConnectedHub, hubTable, faults>>
  <2>1. rib' \in {rib \cup {n}, rib \ {n}} /\ Op
        /\ UNCHANGED <<identities, m_hasConnectedHub, hubTable, faults>>
    BY Zenon DEF afterInsertRibEntry, afterEraseRibEntry
  <2>2. ops' \in 0 .. MaxOps
    BY <1>1, <2>1, PropagatorAssumption DEF Types, Op
  <2> QED
    BY <1>1, <2>1, <2>2 DEF Types
<1>4. SUFFICES EntriesOK(entries') /\ CommandsOK(commands')
               /\ AllMove(entries', commands', m_hasConnectedHub)
  BY <1>1, <1>3 DEF PInv, Types
<1>5. CASE afterInsertRibEntry(n)
  <2> DEFINE P == Propagated({n}) \ DOMAIN entries
             B == startPropagation(P, m_baseRetryWait, TRUE)
  <2>1. P \subseteq Name /\ P \cap DOMAIN entries = {}
    <3>1. {n} \in SUBSET Name
      BY PropagatorAssumption
    <3> QED
      BY <3>1, PropagatedWork
  <2>2. /\ entries' = afterRibInsert(entries, P, m_hasConnectedHub)
        /\ commands' = IF m_hasConnectedHub THEN commands (+) B ELSE commands
    BY <1>5 DEF afterInsertRibEntry
  <2>3. CommandsOK(B) /\ \A p \in P : \E c \in DOMAIN B : c.op = "register" /\ c.prefix = p
    BY <2>1, Starts, PropagatorAssumption
  <2> HIDE DEF P, B
  <2>4. Extended(entries', entries, P, m_hasConnectedHub)
    BY <1>2, <2>1, <2>2, InsertFresh
  <2>5. CommandsOK(commands') /\ DOMAIN commands \subseteq DOMAIN commands'
        /\ (m_hasConnectedHub => DOMAIN B \subseteq DOMAIN commands')
    BY <1>2, <2>2, <2>3, BagSum
  <2>6. ASSUME NEW p \in DOMAIN entries' PROVE Moves(entries'[p], p, commands', m_hasConnectedHub)
    <3>1. CASE p \in DOMAIN entries
      <4>1. entries'[p] = entries[p] /\ Moves(entries[p], p, commands, m_hasConnectedHub)
        BY <1>1, <2>4, <3>1 DEF Extended, AllMove
      <4> QED
        BY <4>1, <2>5, MovesMonotone
    <3>2. CASE p \in P
      <4>1. /\ m_hasConnectedHub => entries'[p].status = "PROPAGATING"
            /\ ~m_hasConnectedHub => entries'[p].status = "NEW"
        BY <2>4, <3>2 DEF Extended
      <4>2. m_hasConnectedHub => \E c \in DOMAIN commands' : c.op = "register" /\ c.prefix = p
        BY <2>3, <2>5, <3>2
      <4> QED
        BY <4>1, <4>2 DEF Moves
    <3> QED
      BY <2>4, <3>1, <3>2 DEF Extended
  <2> QED
    BY <2>4, <2>5, <2>6 DEF Extended, AllMove
<1>6. CASE afterEraseRibEntry(n)
  <2> DEFINE P == {p \in Propagated({n}) \cap DOMAIN entries : ~keptForAnother(n, p)}
             revoked == {p \in P : entries[p].status = "PROPAGATED"}
             B == startRevocation(revoked, TRUE)
  <2>1. /\ entries' = [p \in DOMAIN entries \ P |-> entries[p]]
        /\ commands' = IF m_hasConnectedHub THEN commands (+) B ELSE commands
    BY <1>6 DEF afterEraseRibEntry, afterRibErase
  <2>2. CommandsOK(B)
    <3>1. revoked \in SUBSET Name
      BY <1>2 DEF EntriesOK
    <3>2. TRUE \in BOOLEAN /\ m_baseRetryWait \in Nat \ {0}
      BY PropagatorAssumption
    <3> HIDE DEF revoked
    <3> QED
      BY <3>1, <3>2, Starts
  <2> HIDE DEF P, B
  <2>3. CommandsOK(commands') /\ DOMAIN commands \subseteq DOMAIN commands'
    BY <1>2, <2>1, <2>2, BagSum
  <2>4. DOMAIN entries' \subseteq DOMAIN entries /\ \A p \in DOMAIN entries' : entries'[p] = entries[p]
    BY <2>1
  <2>5. EntriesOK(entries')
    <3>1. entries' \in [DOMAIN entries' -> Entry]
      BY <1>2, <2>1 DEF EntriesOK
    <3> QED
      BY <1>2, <2>4, <3>1 DEF EntriesOK, Timed
  <2>6. ASSUME NEW p \in DOMAIN entries' PROVE Moves(entries'[p], p, commands', m_hasConnectedHub)
    <3>1. entries'[p] = entries[p] /\ Moves(entries[p], p, commands, m_hasConnectedHub)
      BY <1>1, <2>4 DEF AllMove
    <3> QED
      BY <3>1, <2>3, MovesMonotone
  <2> QED
    BY <2>3, <2>5, <2>6 DEF AllMove
<1> QED
  BY <1>5, <1>6

\* The hub comes and goes.
LEMMA HubStep ==
  ASSUME PInv, afterHubConnect \/ afterHubDisconnect
  PROVE  PInv'
<1>1. Types /\ AllMove(entries, commands, m_hasConnectedHub)
  BY DEF PInv
<1>2. EntriesOK(entries) /\ CommandsOK(commands) /\ rib \subseteq Name
  BY <1>1, PropagatorAssumption DEF Types
<1>3. m_hasConnectedHub' \in BOOLEAN /\ hubTable' \subseteq Name /\ ops' \in 0 .. MaxOps
      /\ UNCHANGED <<rib, identities, faults>>
  <2>1. m_hasConnectedHub' \in {TRUE, FALSE} /\ hubTable' \in {{}, hubTable} /\ Op
        /\ UNCHANGED <<rib, identities, faults>>
    BY Zenon DEF afterHubConnect, afterHubDisconnect
  <2>2. ops' \in 0 .. MaxOps
    BY <1>1, <2>1, PropagatorAssumption DEF Types, Op
  <2> QED
    BY <1>1, <2>1, <2>2 DEF Types
<1>4. SUFFICES EntriesOK(entries') /\ CommandsOK(commands')
               /\ AllMove(entries', commands', m_hasConnectedHub')
  BY <1>1, <1>3 DEF PInv, Types
<1>5. CASE afterHubConnect
  <2>1. m_hasConnectedHub' = TRUE /\ redoPropagation(entries, DOMAIN entries, m_baseRetryWait, TRUE)
    BY <1>5 DEF afterHubConnect
  <2>2. DOMAIN entries \in SUBSET DOMAIN entries /\ m_baseRetryWait \in Nat \ {0} /\ TRUE \in BOOLEAN
        /\ \A p \in DOMAIN entries \ DOMAIN entries : Moves(entries[p], p, commands, TRUE)
    BY PropagatorAssumption
  <2>3. EntriesOK(entries') /\ CommandsOK(commands') /\ AllMove(entries', commands', TRUE)
    BY <1>2, <2>1, <2>2, RedoKeeps
  <2> QED
    BY <2>1, <2>3
<1>6. CASE afterHubDisconnect
  <2> DEFINE Lost(c) == IF c.stage = "sent" THEN [c EXCEPT !.stage = "lost"] ELSE c
             Copies(c) == IF BagIn(c, commands) THEN commands[c] ELSE 0
             Many(c) == Copies(c) + IF c.stage = "lost" THEN Copies([c EXCEPT !.stage = "sent"]) ELSE 0
             D == {Lost(d) : d \in DOMAIN commands}
             new == [status |-> "NEW", timer |-> NoEvent]
  <2>1. /\ m_hasConnectedHub' = FALSE
        /\ entries' = [p \in DOMAIN entries |-> new]
        /\ commands' = [c \in D |-> Many(c)]
    BY <1>6 DEF afterHubDisconnect
  <2>2. new \in Entry /\ new.timer = NoEvent /\ new.status = "NEW"
    BY Events DEF Entry, Status
  <2> HIDE DEF new
  <2>3. EntriesOK(entries')
    BY <1>2, <2>1, <2>2 DEF EntriesOK, Timed
  <2>4. AllMove(entries', commands', FALSE)
    BY <2>1, <2>2 DEF AllMove, Moves
  <2>5. DOMAIN commands \subseteq CommandSet /\ \A c \in DOMAIN commands : commands[c] \in Nat /\ commands[c] > 0
    BY <1>2 DEF CommandsOK, IsABag
  <2>6. \A c : Copies(c) \in Nat /\ (c \in DOMAIN commands => Copies(c) > 0)
    BY <2>5 DEF BagIn, BagToSet
  <2> HIDE DEF Copies
  <2>7. ASSUME NEW d \in DOMAIN commands
        PROVE  Lost(d) \in CommandSet /\ Many(Lost(d)) \in Nat /\ Many(Lost(d)) > 0
    <3>1. d \in CommandSet
      BY <2>5
    <3>2. CASE d.stage = "sent"
      <4> DEFINE e == [d EXCEPT !.stage = "lost"]
      <4>1. e \in CommandSet /\ e.stage = "lost" /\ [e EXCEPT !.stage = "sent"] = d
        BY <3>1, <3>2 DEF CommandSet, Stage
      <4>2. Lost(d) = e
        BY <3>2
      <4> HIDE DEF e
      <4>3. Many(e) = Copies(e) + Copies(d)
        BY <4>1
      <4> QED
        BY <2>6, <4>1, <4>2, <4>3
    <3>3. CASE d.stage # "sent"
      <4>1. Lost(d) = d
        BY <3>3
      <4>2. Copies(d) \in Nat /\ Copies(d) > 0 /\ Copies([d EXCEPT !.stage = "sent"]) \in Nat
        BY <2>6
      <4>3. Many(d) \in Nat /\ Many(d) > 0
        BY <4>2
      <4> QED
        BY <3>1, <4>1, <4>3
    <3> QED
      BY <3>2, <3>3
  <2>8. D \subseteq CommandSet /\ \A c \in D : Many(c) \in {k \in Nat : k > 0}
    BY <2>7
  <2> HIDE DEF D, Many
  <2>9. CommandsOK(commands')
    BY <2>1, <2>8 DEF CommandsOK, IsABag
  <2> QED
    BY <2>1, <2>3, <2>4, <2>9
<1> QED
  BY <1>5, <1>6

\* The hub or the network deals with a command.
LEMMA CommandStep ==
  ASSUME PInv, NEW c \in DOMAIN commands, HubHandles(c) \/ HubRejects(c) \/ Lose(c)
  PROVE  PInv'
<1>1. Types /\ AllMove(entries, commands, m_hasConnectedHub)
  BY DEF PInv
<1>2. CommandsOK(commands) /\ c \in CommandSet
  BY <1>1 DEF Types, CommandsOK
<1>3. \E stage \in Stage : commands' = Advance(c, stage)
  BY Zenon DEF HubHandles, HubRejects, Lose, Stage
<1>4. CommandsOK(commands') /\ AllMove(entries, commands', m_hasConnectedHub)
  BY <1>1, <1>2, <1>3, AdvanceKeeps
<1>5. UNCHANGED <<rib, identities, m_hasConnectedHub, entries, ops>>
  BY Zenon DEF HubHandles, HubRejects, Lose
<1>6. hubTable' \in {hubTable, hubTable \cup {c.prefix}, hubTable \ {c.prefix}}
  BY Zenon DEF HubHandles, HubRejects, Lose
<1>7. hubTable' \subseteq Name
  <2>1. c.prefix \in Name
    BY <1>2 DEF CommandSet
  <2> QED
    BY <1>1, <1>6, <2>1 DEF Types
<1>8. faults' \in 0 .. MaxFaults
  <2>1. faults' = faults \/ (faults > 0 /\ faults' = faults - 1)
    BY DEF HubHandles, HubRejects, Lose
  <2> QED
    BY <1>1, <2>1, PropagatorAssumption DEF Types
<1> QED
  BY <1>1, <1>4, <1>5, <1>7, <1>8 DEF PInv, Types

\* A command calls back.
LEMMA CallbackStep ==
  ASSUME PInv, NEW c \in DOMAIN commands, Callback(c)
  PROVE  PInv'
<1>1. Types /\ AllMove(entries, commands, m_hasConnectedHub)
  BY DEF PInv
<1>2. EntriesOK(entries) /\ CommandsOK(commands) /\ m_hasConnectedHub \in BOOLEAN
  BY <1>1 DEF Types
<1>3. c.prefix \in Name /\ c.wait \in Nat \ {0}
  BY <1>2 DEF CommandsOK, CommandSet
<1>4. UNCHANGED <<rib, identities, m_hasConnectedHub, hubTable, ops, faults>>
  BY Zenon DEF Callback, afterPropagateSucceed, afterPropagateFail, afterRevokeSucceed,
               afterRevokeFail, Answered, Failed
<1>5. SUFFICES EntriesOK(entries') /\ CommandsOK(commands')
               /\ AllMove(entries', commands', m_hasConnectedHub)
  BY <1>1, <1>4 DEF PInv, Types
<1> DEFINE W == commands (-) SetToBag({c})
<1>6. CommandsOK(W) /\ DOMAIN commands \ {c} \subseteq DOMAIN W
  BY <1>2, BagMinusOne
<1>7. Without(c) = W
  BY DEF Without
<1> HIDE DEF W
<1>8. ASSUME NEW st \in Status \ {"NEW", "PROPAGATING"}, NEW tm \in [left : Nat, wait : Nat],
             tm # NoEvent, tm.wait # 0, c.prefix \in DOMAIN entries,
             entries' = SetStatus(c.prefix, st, tm), commands' = W
      PROVE  EntriesOK(entries') /\ CommandsOK(commands')
             /\ AllMove(entries', commands', m_hasConnectedHub)
  <2>1. /\ EntriesOK(entries') /\ DOMAIN entries' = DOMAIN entries
        /\ entries'[c.prefix].status = st /\ entries'[c.prefix].timer = tm
        /\ \A q \in DOMAIN entries \ {c.prefix} : entries'[q] = entries[q]
    BY <1>2, <1>8, SetStatusKeeps
  <2>2. ASSUME NEW q \in DOMAIN entries PROVE Moves(entries'[q], q, W, m_hasConnectedHub)
    <3>1. CASE q = c.prefix
      BY <1>8, <2>1, <3>1 DEF Moves
    <3>2. CASE q # c.prefix
      <4>1. entries'[q] = entries[q] /\ Moves(entries[q], q, commands, m_hasConnectedHub)
        BY <1>1, <2>1, <3>2 DEF AllMove
      <4> QED
        BY <1>6, <3>2, <4>1, OthersKept
    <3> QED
      BY <3>1, <3>2
  <2> QED
    BY <1>6, <1>8, <2>1, <2>2 DEF AllMove
<1>9. ASSUME UNCHANGED entries, CommandsOK(commands'), DOMAIN commands \ {c} \subseteq DOMAIN commands',
             c.op # "register" \/ c.prefix \notin DOMAIN entries
      PROVE  EntriesOK(entries') /\ CommandsOK(commands')
             /\ AllMove(entries', commands', m_hasConnectedHub)
  <2>1. ASSUME NEW q \in DOMAIN entries PROVE Moves(entries[q], q, commands', m_hasConnectedHub)
    <3>1. Moves(entries[q], q, commands, m_hasConnectedHub)
      BY <1>1 DEF AllMove
    <3>2. c.op # "register" \/ c.prefix # q
      BY <1>9
    <3> QED
      BY <1>9, <3>1, <3>2, OthersKept
  <2> QED
    BY <1>2, <1>9, <2>1 DEF AllMove
<1>10. CASE afterPropagateSucceed(c)
  <2>1. CASE c.prefix \in DOMAIN entries
    <3>1. entries' = SetStatus(c.prefix, "PROPAGATED", RefreshEvent) /\ commands' = W
      BY <1>7, <1>10, <2>1 DEF afterPropagateSucceed
    <3>2. "PROPAGATED" \in Status \ {"NEW", "PROPAGATING"}
      BY DEF Status
    <3> QED
      BY <1>8, <2>1, <3>1, <3>2, Events
  <2>2. CASE c.prefix \notin DOMAIN entries
    <3> DEFINE B == startRevocation({c.prefix}, m_hasConnectedHub)
    <3>1. commands' = W (+) B /\ UNCHANGED entries
      BY <1>7, <1>10, <2>2 DEF afterPropagateSucceed
    <3>2. CommandsOK(B)
      <4>1. {c.prefix} \in SUBSET Name
        BY <1>3
      <4> QED
        BY <1>2, <1>3, <4>1, Starts
    <3> HIDE DEF B
    <3>3. CommandsOK(commands') /\ DOMAIN commands \ {c} \subseteq DOMAIN commands'
      BY <1>6, <3>1, <3>2, BagSum
    <3> QED
      BY <1>9, <2>2, <3>1, <3>3
  <2> QED
    BY <2>1, <2>2
<1>11. CASE afterPropagateFail(c)
  <2>0. commands' = W
    BY <1>7, <1>11 DEF afterPropagateFail
  <2>1. CASE c.prefix \in DOMAIN entries
    <3>1. entries' = SetStatus(c.prefix, "PROPAGATE_FAIL", RetryEvent(c.wait))
      BY <1>11, <2>1 DEF afterPropagateFail
    <3>2. "PROPAGATE_FAIL" \in Status \ {"NEW", "PROPAGATING"}
      BY DEF Status
    <3> QED
      BY <1>3, <1>8, <2>0, <2>1, <3>1, <3>2, Events
  <2>2. CASE c.prefix \notin DOMAIN entries
    <3>1. UNCHANGED entries
      BY <1>11, <2>2 DEF afterPropagateFail
    <3> QED
      BY <1>6, <1>9, <2>0, <2>2, <3>1
  <2> QED
    BY <2>1, <2>2
<1>12. CASE afterRevokeSucceed(c)
  <2>0. c.op # "register"
    BY <1>12 DEF afterRevokeSucceed, Answered
  <2>1. CASE c.prefix \in DOMAIN entries /\ entries[c.prefix].status # "PROPAGATE_FAIL"
    <3> DEFINE B == startPropagation({c.prefix}, c.wait, m_hasConnectedHub)
               e == [entries[c.prefix] EXCEPT !.status = "PROPAGATING"]
    <3>1. entries' = [entries EXCEPT ![c.prefix] = e] /\ commands' = W (+) B
      BY <1>7, <1>12, <2>1 DEF afterRevokeSucceed
    <3>2. CommandsOK(B) /\ \E d \in DOMAIN B : d.op = "register" /\ d.prefix = c.prefix
      <4>1. {c.prefix} \in SUBSET Name
        BY <1>3
      <4>2. CommandsOK(B) /\ \A p \in {c.prefix} : \E d \in DOMAIN B : d.op = "register" /\ d.prefix = p
        BY <1>2, <1>3, <4>1, Starts
      <4> QED
        BY <4>2
    <3>3. e \in Entry /\ e.status = "PROPAGATING" /\ e.timer = entries[c.prefix].timer
      <4>1. entries[c.prefix] \in Entry
        BY <1>2, <2>1 DEF EntriesOK
      <4> QED
        BY <4>1 DEF Entry, Status
    <3> HIDE DEF B, e
    <3>4. /\ CommandsOK(commands') /\ DOMAIN commands \ {c} \subseteq DOMAIN commands'
          /\ DOMAIN B \subseteq DOMAIN commands'
      BY <1>6, <3>1, <3>2, BagSum
    <3>5. DOMAIN entries' = DOMAIN entries /\ entries' \in [DOMAIN entries -> Entry]
          /\ entries'[c.prefix] = e /\ \A q \in DOMAIN entries \ {c.prefix} : entries'[q] = entries[q]
      BY <1>2, <2>1, <3>1, <3>3 DEF EntriesOK
    <3>6. EntriesOK(entries')
      <4>1. ASSUME NEW q \in DOMAIN entries PROVE entries'[q].timer = entries[q].timer
        BY <3>3, <3>5
      <4> QED
        BY <1>2, <3>5, <4>1 DEF EntriesOK, Timed
    <3>7. ASSUME NEW q \in DOMAIN entries PROVE Moves(entries'[q], q, commands', m_hasConnectedHub)
      <4>1. CASE q = c.prefix
        <5>1. \E d \in DOMAIN commands' : d.op = "register" /\ d.prefix = q
          BY <3>2, <3>4, <4>1
        <5> QED
          BY <3>3, <3>5, <4>1, <5>1 DEF Moves
      <4>2. CASE q # c.prefix
        <5>1. entries'[q] = entries[q] /\ Moves(entries[q], q, commands, m_hasConnectedHub)
          BY <1>1, <3>5, <4>2 DEF AllMove
        <5> QED
          BY <3>4, <4>2, <5>1, OthersKept
      <4> QED
        BY <4>1, <4>2
    <3> QED
      BY <3>4, <3>5, <3>6, <3>7 DEF AllMove
  <2>2. CASE ~(c.prefix \in DOMAIN entries /\ entries[c.prefix].status # "PROPAGATE_FAIL")
    <3>1. UNCHANGED entries /\ commands' = W
      BY <1>7, <1>12, <2>2 DEF afterRevokeSucceed
    <3> QED
      BY <1>6, <1>9, <2>0, <3>1
  <2> QED
    BY <2>1, <2>2
<1>13. CASE afterRevokeFail(c)
  <2>1. c.op # "register" /\ UNCHANGED entries /\ commands' = W
    BY <1>7, <1>13 DEF afterRevokeFail, Failed
  <2> QED
    BY <1>6, <1>9, <2>1
<1> QED
  BY <1>10, <1>11, <1>12, <1>13 DEF Callback

\* A timer fires.
LEMMA TimerStep ==
  ASSUME PInv, NEW p \in DOMAIN entries, onTimer(p)
  PROVE  PInv'
<1>1. Types /\ AllMove(entries, commands, m_hasConnectedHub)
  BY DEF PInv
<1>2. EntriesOK(entries) /\ CommandsOK(commands) /\ m_hasConnectedHub \in BOOLEAN /\ rib \subseteq Name
  BY <1>1, PropagatorAssumption DEF Types
<1> DEFINE e == [entries[p] EXCEPT !.timer = NoEvent]
           es == [entries EXCEPT ![p] = e]
           w == entries[p].timer.wait
<1>3. /\ entries[p].timer # NoEvent /\ redoPropagation(es, {p}, w, m_hasConnectedHub)
      /\ UNCHANGED <<rib, identities, m_hasConnectedHub, hubTable, ops, faults>>
  BY DEF onTimer, Armed
<1>4. e \in Entry /\ e.timer = NoEvent /\ w \in Nat \ {0}
  <2>1. entries[p] \in Entry /\ w # 0
    BY <1>2, <1>3 DEF EntriesOK, Timed
  <2> QED
    BY <2>1, Events DEF Entry
<1> HIDE DEF e, w
<1>5. /\ DOMAIN es = DOMAIN entries /\ es \in [DOMAIN es -> Entry] /\ es[p] = e
      /\ \A q \in DOMAIN entries \ {p} : es[q] = entries[q]
  BY <1>2, <1>4 DEF EntriesOK
<1> HIDE DEF es
<1>6. EntriesOK(es)
  <2>1. ASSUME NEW q \in DOMAIN es, es[q].timer # NoEvent PROVE es[q].timer.wait # 0
    <3>1. q # p
      BY <2>1, <1>4, <1>5
    <3> QED
      BY <2>1, <3>1, <1>2, <1>5 DEF EntriesOK, Timed
  <2> QED
    BY <2>1, <1>2, <1>5 DEF EntriesOK, Timed
<1>7. \A q \in DOMAIN es \ {p} : Moves(es[q], q, commands, m_hasConnectedHub)
  BY <1>1, <1>5 DEF AllMove
<1>8. {p} \in SUBSET DOMAIN es
  BY <1>5
<1>9. EntriesOK(entries') /\ CommandsOK(commands') /\ AllMove(entries', commands', m_hasConnectedHub)
  BY <1>2, <1>3, <1>4, <1>6, <1>7, <1>8, RedoKeeps
<1> QED
  BY <1>1, <1>3, <1>9 DEF PInv, Types

\* Time passes.
LEMMA TickStep ==
  ASSUME PInv, Tick
  PROVE  PInv'
<1>1. Types /\ AllMove(entries, commands, m_hasConnectedHub)
  BY DEF PInv
<1>2. EntriesOK(entries) /\ CommandsOK(commands)
  BY <1>1 DEF Types
<1> DEFINE Less(d) == [d EXCEPT !.left = @ - 1]
           D == {Less(d) : d \in DOMAIN commands}
           Of(c) == commands[[c EXCEPT !.left = @ + 1]]
           New(q) == IF Armed(q) THEN [entries[q] EXCEPT !.timer.left = @ - 1] ELSE entries[q]
<1>3. /\ \A c \in DOMAIN commands : c.left > 0
      /\ \A q \in DOMAIN entries : Armed(q) => entries[q].timer.left > 0
      /\ commands' = [c \in D |-> Of(c)]
      /\ entries' = [q \in DOMAIN entries |-> New(q)]
      /\ UNCHANGED <<rib, identities, m_hasConnectedHub, hubTable, ops, faults>>
  BY DEF Tick
<1>4. ASSUME NEW d \in DOMAIN commands
      PROVE  /\ Less(d) \in CommandSet /\ Less(d).op = d.op /\ Less(d).prefix = d.prefix
             /\ Of(Less(d)) \in {k \in Nat : k > 0}
  <2>1. d \in CommandSet /\ d.left > 0 /\ commands[d] \in {k \in Nat : k > 0}
    BY <1>2, <1>3 DEF CommandsOK, IsABag
  <2>2. Less(d) \in CommandSet /\ Less(d).op = d.op /\ Less(d).prefix = d.prefix
        /\ [Less(d) EXCEPT !.left = @ + 1] = d
    <3>1. d.left \in 0 .. CommandTimeout /\ CommandTimeout \in Nat
      BY <2>1, PropagatorAssumption DEF CommandSet
    <3>2. d.left - 1 \in 0 .. CommandTimeout /\ (d.left - 1) + 1 = d.left
      BY <2>1, <3>1
    <3>3. Less(d) \in CommandSet /\ Less(d).op = d.op /\ Less(d).prefix = d.prefix
          /\ Less(d).left = d.left - 1
      BY <2>1, <3>2 DEF CommandSet
    <3>4. [Less(d) EXCEPT !.left = @ + 1] = [d EXCEPT !.left = (d.left - 1) + 1]
      BY <2>1 DEF CommandSet
    <3>5. [d EXCEPT !.left = (d.left - 1) + 1] = d
      BY <2>1, <3>2 DEF CommandSet
    <3> QED
      BY <3>3, <3>4, <3>5
  <2> HIDE DEF Less
  <2> QED
    BY <2>1, <2>2
<1>5. D \subseteq CommandSet /\ \A c \in D : Of(c) \in {k \in Nat : k > 0}
  BY <1>4
<1> HIDE DEF Of
<1>6. DOMAIN commands' = D /\ CommandsOK(commands')
  <2> HIDE DEF D
  <2> QED
    BY <1>3, <1>5 DEF CommandsOK, IsABag
<1>7. ASSUME NEW q \in DOMAIN entries
      PROVE  /\ New(q) \in Entry /\ New(q).status = entries[q].status
             /\ New(q).timer.wait = entries[q].timer.wait
             /\ entries[q].timer # NoEvent => New(q).timer # NoEvent
             /\ entries[q].timer = NoEvent => New(q).timer = NoEvent
  <2>1. entries[q] \in Entry /\ (entries[q].timer # NoEvent => entries[q].timer.wait # 0)
    BY <1>2 DEF EntriesOK, Timed
  <2>2. CASE Armed(q)
    <3> DEFINE n == [entries[q] EXCEPT !.timer.left = @ - 1]
    <3>1. entries[q].timer.left > 0 /\ entries[q].timer # NoEvent
      BY <1>3, <2>2 DEF Armed
    <3>2. n \in Entry /\ n.status = entries[q].status /\ n.timer.wait = entries[q].timer.wait
      BY <2>1, <3>1 DEF Entry
    <3>3. New(q) = n
      BY <2>2
    <3> HIDE DEF n
    <3>4. n.timer # NoEvent
      BY <2>1, <3>1, <3>2 DEF NoEvent
    <3> QED
      BY <3>1, <3>2, <3>3, <3>4
  <2>3. CASE ~Armed(q)
    <3>1. New(q) = entries[q]
      BY <2>3
    <3> QED
      BY <2>1, <3>1
  <2> QED
    BY <2>2, <2>3
<1>8. DOMAIN entries' = DOMAIN entries /\ \A q \in DOMAIN entries : entries'[q] = New(q)
  BY <1>3
<1> HIDE DEF New
<1>9. EntriesOK(entries')
  <2>1. entries' \in [DOMAIN entries' -> Entry]
    BY <1>3, <1>7
  <2>2. Timed(entries')
    BY <1>2, <1>7, <1>8 DEF Timed, EntriesOK
  <2> QED
    BY <1>2, <1>8, <2>1, <2>2 DEF EntriesOK
<1>10. ASSUME NEW q \in DOMAIN entries PROVE Moves(entries'[q], q, commands', m_hasConnectedHub)
  <2>1. Moves(entries[q], q, commands, m_hasConnectedHub)
    BY <1>1 DEF AllMove
  <2>2. \A c \in DOMAIN commands : c.op = "register" /\ c.prefix = q =>
          \E d \in DOMAIN commands' : d.op = "register" /\ d.prefix = q
    BY <1>4, <1>6
  <2>3. Moves(entries[q], q, commands', m_hasConnectedHub)
    BY <2>1, <2>2, MovesMonotone
  <2>4. entries'[q].status = entries[q].status /\ (entries[q].timer # NoEvent => entries'[q].timer # NoEvent)
    BY <1>7, <1>8
  <2> QED
    BY <2>3, <2>4 DEF Moves
<1> QED
  BY <1>1, <1>3, <1>6, <1>8, <1>9, <1>10 DEF PInv, Types, AllMove

\* The initial states.
LEMMA PInvInit == Init => PInv
<1> SUFFICES ASSUME Init PROVE PInv
  OBVIOUS
<1>1. DOMAIN entries = {} /\ entries \in [DOMAIN entries -> Entry]
  BY DEF Init
<1>2. EntriesOK(entries) /\ AllMove(entries, commands, m_hasConnectedHub)
  BY <1>1 DEF EntriesOK, Timed, AllMove
<1>3. CommandsOK(commands)
  <2>1. {} \in SUBSET CommandSet
    OBVIOUS
  <2> QED
    BY <2>1, BagOfSet DEF Init, EmptyBag
<1>4. MaxOps \in 0 .. MaxOps /\ MaxFaults \in 0 .. MaxFaults
  BY PropagatorAssumption
<1>5. /\ rib = {} /\ identities = InitIdentities /\ m_hasConnectedHub = FALSE /\ hubTable = {}
      /\ ops = MaxOps /\ faults = MaxFaults
  BY DEF Init
<1>6. rib \subseteq RibPrefix /\ identities \subseteq Identity /\ hubTable \subseteq Name
  BY <1>5, PropagatorAssumption
<1> QED
  BY <1>2, <1>3, <1>4, <1>5, <1>6 DEF PInv, Types

\* Every step keeps the invariant.
LEMMA PInvStep == PInv /\ [Next]_vars => PInv'
<1> SUFFICES ASSUME PInv, [Next]_vars PROVE PInv'
  OBVIOUS
<1>1. ASSUME NEW i \in Identity, KeyChainChange(i) PROVE PInv'
  <2>1. Types /\ AllMove(entries, commands, m_hasConnectedHub)
    BY DEF PInv
  <2>2. identities' \in {identities \ {i}, identities \cup {i}} /\ Op
        /\ UNCHANGED <<rib, m_hasConnectedHub, entries, commands, hubTable, faults>>
    BY <1>1, Zenon DEF KeyChainChange
  <2>3. identities' \subseteq Identity
    BY <2>1, <2>2 DEF Types
  <2>4. ops' \in 0 .. MaxOps
    BY <2>1, <2>2, PropagatorAssumption DEF Types, Op
  <2> QED
    BY <2>1, <2>2, <2>3, <2>4 DEF PInv, Types
<1>2. CASE UNCHANGED vars
  BY <1>2 DEF vars, PInv, Types
<1>3. CASE Environment
  BY <1>1, <1>3, RibStep, HubStep, CommandStep DEF Environment
<1>4. CASE System
  BY <1>4, CommandStep, CallbackStep, TimerStep, TickStep DEF System
<1> QED
  BY <1>2, <1>3, <1>4 DEF Next

\* Types, including that a command or an entry always has a name of the KeyChain's making,
\* and that a command waits a positive time (AutoPrefixPropagator).
THEOREM PropagatorTypeCorrect == Spec => []TypeOK
<1>1. PInv => TypeOK
  <2> SUFFICES ASSUME PInv PROVE TypeOK
    OBVIOUS
  <2>1. Types
    BY DEF PInv
  <2>2. \A p \in DOMAIN entries : p \in Name /\ entries[p].status \in Status
                                /\ entries[p].timer \in [left : Nat, wait : Nat]
    <3>1. \A p \in DOMAIN entries : p \in Name /\ entries[p] \in Entry
      BY <2>1 DEF Types, EntriesOK
    <3> QED
      BY <3>1 DEF Entry
  <2>3. IsABag(commands) /\ \A c \in DOMAIN commands : c \in CommandSet
    BY <2>1 DEF Types, CommandsOK
  <2>4. \A c \in DOMAIN commands : /\ c.op \in {"register", "unregister"} /\ c.prefix \in Name
                                  /\ c.wait \in Nat \ {0} /\ c.left \in 0 .. CommandTimeout
                                  /\ c.stage \in {"sent", "done", "rejected", "lost"}
    BY <2>3 DEF CommandSet, Stage
  <2> QED
    BY <2>1, <2>2, <2>3, <2>4 DEF Types, TypeOK
<1> QED
  BY <1>1, PInvInit, PInvStep, PTL DEF Spec

\* Whatever order callbacks, timers and changes of the hub, the RIB and the KeyChain come in,
\* every entry has something that will move it on (AutoPrefixPropagator's callbacks).
THEOREM NoEntryIsStuck == Spec => []NeverStuck
<1>1. PInv => NeverStuck
  BY AllMoveIsNeverStuck DEF PInv
<1> QED
  BY <1>1, PInvInit, PInvStep, PTL DEF Spec

----------------------------------------------------------------------------
(* The entries are those the RIB needs.                                    *)

Covered == DOMAIN entries = Propagated(rib)

\* Propagated, with the identities as a parameter.
CoveringOf(ids, n) ==
  {j \in DOMAIN KeyChainOrder :
     KeyChainOrder[j] \in ids /\ IsPrefixOf(PrefixOfIdentity(KeyChainOrder[j]), n)}

PropagatedOf(ids, S) ==
  {PrefixOfIdentity(
     KeyChainOrder[CHOOSE j \in CoveringOf(ids, n) : \A l \in CoveringOf(ids, n) :
       \/ Len(KeyChainOrder[j]) < Len(KeyChainOrder[l])
       \/ (Len(KeyChainOrder[j]) = Len(KeyChainOrder[l]) /\ j <= l)]) :
   n \in {m \in S : ~IsPrefixOf(LOCALHOST_NAME, m) /\ CoveringOf(ids, m) # {}}}

\* What is propagated depends on the RIB and on the identities only.
LEMMA PropagatedDepends ==
  ASSUME identities' = identities
  PROVE  Propagated(rib)' = Propagated(rib')
<1>1. Propagated(rib)' = PropagatedOf(identities', rib')
  BY Zenon DEF Propagated, PropagatedOf, propagatedPrefix, signingIdentity, isValid, Covering, CoveringOf
<1>2. Propagated(rib') = PropagatedOf(identities, rib')
  BY Zenon DEF Propagated, PropagatedOf, propagatedPrefix, signingIdentity, isValid, Covering, CoveringOf
<1> QED
  BY <1>1, <1>2

\* What is propagated for a RIB with one entry more.
LEMMA PropagatedUnion ==
  ASSUME NEW S, NEW n
  PROVE  /\ Propagated(S \cup {n}) = Propagated(S) \cup Propagated({n})
         /\ Propagated({n}) = IF isValid(n) THEN {propagatedPrefix(n)} ELSE {}
BY DEF Propagated

\* As long as the identities stay, redoPropagation finds every prefix working.
LEMMA RedoCovered ==
  ASSUME NEW es, DOMAIN es = Propagated(rib), rib \subseteq Name, NEW R \in SUBSET DOMAIN es,
         NEW wait, NEW hub, redoPropagation(es, R, wait, hub)
  PROVE  DOMAIN entries' = DOMAIN es
<1> DEFINE works == {p \in R : doesCurrentPropagatedPrefixWork(p)}
           kept == [p \in DOMAIN es \ (R \ works) |->
                      IF p \in works THEN [es[p] EXCEPT !.status = "PROPAGATING"] ELSE es[p]]
           none == {n \in rib : \E p \in R \ works : IsPrefixOf(p, n)}
           fresh == Propagated(none) \ DOMAIN kept
<1>1. entries' = afterRibInsert(kept, fresh, hub)
  BY DEF redoPropagation
<1>2. works = R
  BY PropagatedWork
<1>3. none = {} /\ DOMAIN kept = DOMAIN es
  BY <1>2
<1> HIDE DEF none, kept
<1>4. fresh = {}
  BY <1>3 DEF Propagated
<1> HIDE DEF fresh
<1>5. DOMAIN entries' = DOMAIN kept \cup fresh
  BY <1>1 DEF afterRibInsert
<1> QED
  BY <1>3, <1>4, <1>5

\* While the identities stay, every step keeps the entries those the RIB needs.
LEMMA CoveredStep ==
  ASSUME PInv, Covered, [Next]_vars, identities' = identities
  PROVE  Covered'
<1>0. rib \subseteq Name /\ DOMAIN entries = Propagated(rib)
  BY PropagatorAssumption DEF PInv, Types, Covered
<1>1. SUFFICES DOMAIN entries' = Propagated(rib')
  BY PropagatedDepends DEF Covered
<1>2. ASSUME NEW n \in RibPrefix, afterInsertRibEntry(n) PROVE DOMAIN entries' = Propagated(rib')
  <2>1. rib' = rib \cup {n}
        /\ entries' = afterRibInsert(entries, Propagated({n}) \ DOMAIN entries, m_hasConnectedHub)
    BY <1>2 DEF afterInsertRibEntry
  <2>2. DOMAIN entries' = DOMAIN entries \cup Propagated({n})
    BY <2>1 DEF afterRibInsert
  <2>3. Propagated(rib \cup {n}) = Propagated(rib) \cup Propagated({n})
    BY PropagatedUnion, Zenon
  <2> QED
    BY <1>0, <2>1, <2>2, <2>3, Zenon
<1>3. ASSUME NEW n \in RibPrefix, afterEraseRibEntry(n) PROVE DOMAIN entries' = Propagated(rib')
  <2> DEFINE P == {p \in Propagated({n}) \cap DOMAIN entries : ~keptForAnother(n, p)}
  <2>1. n \in rib /\ rib' = rib \ {n} /\ DOMAIN entries' = DOMAIN entries \ P
    BY <1>3 DEF afterEraseRibEntry, afterRibErase
  <2>2. DOMAIN entries = Propagated(rib \ {n}) \cup Propagated({n})
    <3>1. rib = (rib \ {n}) \cup {n}
      BY <2>1
    <3>2. Propagated((rib \ {n}) \cup {n}) = Propagated(rib \ {n}) \cup Propagated({n})
      BY PropagatedUnion, Zenon
    <3> QED
      BY <1>0, <3>1, <3>2, Zenon
  <2>3. CASE ~isValid(n)
    <3>1. Propagated({n}) = {}
      BY <2>3, PropagatedUnion
    <3> QED
      BY <2>1, <2>2, <3>1
  <2>4. CASE isValid(n)
    <3>1. Propagated({n}) = {propagatedPrefix(n)}
      BY <2>4, PropagatedUnion
    <3>2. keptForAnother(n, propagatedPrefix(n)) <=> propagatedPrefix(n) \in Propagated(rib \ {n})
      BY <1>0, <2>1, <2>4, KeptForAnotherIsNeeded
    <3> QED
      BY <2>1, <2>2, <3>1, <3>2
  <2> QED
    BY <2>3, <2>4
<1>4. ASSUME afterHubConnect PROVE DOMAIN entries' = Propagated(rib')
  <2>1. redoPropagation(entries, DOMAIN entries, m_baseRetryWait, TRUE) /\ rib' = rib
    BY <1>4 DEF afterHubConnect
  <2>2. DOMAIN entries \in SUBSET DOMAIN entries
    OBVIOUS
  <2> QED
    BY <1>0, <2>1, <2>2, RedoCovered
<1>5. ASSUME NEW p \in DOMAIN entries, onTimer(p) PROVE DOMAIN entries' = Propagated(rib')
  <2> DEFINE es == [entries EXCEPT ![p].timer = NoEvent]
  <2>1. redoPropagation(es, {p}, entries[p].timer.wait, m_hasConnectedHub) /\ rib' = rib
    BY <1>5 DEF onTimer
  <2>2. DOMAIN es = DOMAIN entries
    OBVIOUS
  <2> HIDE DEF es
  <2>3. {p} \in SUBSET DOMAIN es
    BY <2>2
  <2> QED
    BY <1>0, <2>1, <2>2, <2>3, RedoCovered
<1>6. ASSUME NEW c, Callback(c) PROVE DOMAIN entries' = Propagated(rib')
  <2>1. rib' = rib
    BY <1>6, Zenon DEF Callback, afterPropagateSucceed, afterPropagateFail, afterRevokeSucceed,
                       afterRevokeFail, Answered, Failed
  <2>2. DOMAIN entries' = DOMAIN entries
    BY <1>6 DEF Callback, afterPropagateSucceed, afterPropagateFail, afterRevokeSucceed,
                afterRevokeFail, SetStatus
  <2> QED
    BY <1>0, <2>1, <2>2
<1>7. ASSUME Tick \/ afterHubDisconnect PROVE DOMAIN entries' = Propagated(rib')
  <2>1. rib' = rib /\ DOMAIN entries' = DOMAIN entries
    BY <1>7, Zenon DEF Tick, afterHubDisconnect
  <2> QED
    BY <1>0, <2>1
<1>8. ASSUME UNCHANGED <<rib, entries>> PROVE DOMAIN entries' = Propagated(rib')
  BY <1>0, <1>8
<1>9. CASE Environment
  <2>1. ASSUME NEW i \in Identity, KeyChainChange(i) PROVE UNCHANGED <<rib, entries>>
    BY <2>1 DEF KeyChainChange
  <2>2. ASSUME NEW c, HubRejects(c) \/ Lose(c) PROVE UNCHANGED <<rib, entries>>
    BY <2>2 DEF HubRejects, Lose
  <2> QED
    BY <1>2, <1>3, <1>4, <1>7, <1>8, <1>9, <2>1, <2>2 DEF Environment
<1>10. CASE System
  <2>1. ASSUME NEW c, HubHandles(c) PROVE UNCHANGED <<rib, entries>>
    BY <2>1 DEF HubHandles
  <2> QED
    BY <1>5, <1>6, <1>7, <1>8, <1>10, <2>1 DEF System
<1>11. CASE UNCHANGED vars
  BY <1>8, <1>11 DEF vars
<1> QED
  BY <1>9, <1>10, <1>11 DEF Next

\* Initially there is nothing to propagate.
LEMMA CoveredInit == Init => Covered
<1> SUFFICES ASSUME Init PROVE Covered
  OBVIOUS
<1>1. DOMAIN entries = {} /\ rib = {}
  BY DEF Init
<1>2. Propagated({}) = {}
  BY DEF Propagated
<1> QED
  BY <1>1, <1>2 DEF Covered

\* While the identities stay, there is an entry exactly for the prefixes the RIB's entries
\* are propagated under (afterInsertRibEntry, afterEraseRibEntry, redoPropagation).
THEOREM EntriesAreThoseNeeded == Spec => EntriesCoverRib
<1> DEFINE Same == identities = InitIdentities
<1>1. PInv /\ Covered /\ Same /\ Same' /\ [Next]_vars => Covered'
  <2>1. Same /\ Same' => identities' = identities
    OBVIOUS
  <2> HIDE DEF Same
  <2> QED
    BY <2>1, CoveredStep
<1>2. EntriesCoverRib <=> ([]Same => []Covered)
  BY DEF EntriesCoverRib, Covered
<1> HIDE DEF Same
<1> QED
  BY <1>1, <1>2, PInvInit, PInvStep, CoveredInit, PTL DEF Spec

=============================================================================
