-------------------------- MODULE LinkServiceProofs -------------------------
(***************************************************************************)
(* Fragmentation, for every MTU, every packet size and every size of the   *)
(* other headers: the fragments of a packet tile it, each keeps the MTU,   *)
(* and a packet is cut only into several.                                  *)
(***************************************************************************)
EXTENDS GenericLinkService, FiniteSetTheorems, TLAPS

\* The conditions under which fragmentPacket cuts a packet up.
Fragments(p, m) == ~fitsWhole(p, m) /\ isOk(p, m)

----------------------------------------------------------------------------
(* Sizes on the wire.                                                      *)

\* A type and a length take at most the ten octets that fragmentPacket keeps free for them.
LEMMA TlvBounds ==
  ASSUME NEW n \in Int
  PROVE  Tlv(n) \in Int /\ n + 2 <= Tlv(n) /\ Tlv(n) <= n + 10
BY DEF Tlv, sizeOfVarNumber

\* A number field takes at most the ten octets fragmentPacket reckons for it.
LEMMA NumberBounds ==
  ASSUME NEW n \in Int
  PROVE  NonNegativeIntegerTlv(n) \in Int /\ 3 <= NonNegativeIntegerTlv(n) /\ NonNegativeIntegerTlv(n) <= 10
<1>1. sizeOfNonNegativeInteger(n) \in {1, 2, 4, 8}
  BY DEF sizeOfNonNegativeInteger
<1>2. \A k \in {1, 2, 4, 8} : Tlv(k) \in {3, 4, 6, 10}
  BY DEF Tlv, sizeOfVarNumber
<1>3. NonNegativeIntegerTlv(n) \in {3, 4, 6, 10}
  BY <1>1, <1>2 DEF NonNegativeIntegerTlv
<1> QED
  BY <1>3

\* A packet on the wire is at most twenty octets more than its headers and its payload.
LEMMA WireBounds ==
  ASSUME NEW h \in Nat, NEW n \in Int
  PROVE  wireEncode(h, n) \in Int /\ wireEncode(h, n) <= h + n + 20
<1>1. Tlv(n) \in Int /\ Tlv(n) <= n + 10
  BY TlvBounds
<1>2. h + Tlv(n) \in Int
  BY <1>1
<1>3. Tlv(h + Tlv(n)) \in Int /\ Tlv(h + Tlv(n)) <= h + Tlv(n) + 10
  BY <1>2, TlvBounds
<1> QED
  BY <1>1, <1>3 DEF wireEncode

----------------------------------------------------------------------------
(* What fragmentPacket returns.                                            *)

\* The sizes it works with.
LEMMA Payloads ==
  ASSUME NEW p, p.size \in Nat \ {0}, p.headerSize \in Nat, NEW m \in Nat, Fragments(p, m)
  PROVE  /\ payloadSize(m) \in Nat \ {0} /\ payloadSize(m) = m - 50
         /\ firstPayloadSize(p, m) \in Nat \ {0} /\ firstPayloadSize(p, m) <= m - p.headerSize - 50
         /\ firstPayloadSize(p, m) < p.size
         /\ m >= 50 + p.headerSize + 1
<1>1. MAX_FRAG_OVERHEAD = 50 /\ MAX_SINGLE_FRAG_OVERHEAD = 30
  BY DEF MAX_FRAG_OVERHEAD, MAX_SINGLE_FRAG_OVERHEAD
<1>2. m >= 50 + p.headerSize + 1
  BY <1>1 DEF Fragments, isOk
<1>3. payloadSize(m) \in Nat \ {0} /\ payloadSize(m) = m - 50
  BY <1>1, <1>2 DEF payloadSize
<1>4. wireEncode(p.headerSize, p.size) \in Int /\ wireEncode(p.headerSize, p.size) <= p.headerSize + p.size + 20
  <2>1. p.size \in Int
    OBVIOUS
  <2> QED
    BY <2>1, WireBounds
<1>5. 30 + wireEncode(p.headerSize, p.size) > m
  BY <1>1, <1>4 DEF Fragments, fitsWhole
<1>6. m - p.headerSize - 50 < p.size
  BY <1>4, <1>5
<1>7. firstPayloadSize(p, m) = m - p.headerSize - 50
  BY <1>1, <1>2, <1>6 DEF firstPayloadSize
<1> QED
  BY <1>2, <1>3, <1>6, <1>7

\* The number of fragments is the least that carries what the first one leaves over.
LEMMA FragCounts ==
  ASSUME NEW rest \in Nat \ {0}, NEW k \in Nat \ {0}, NEW c,
         c = 1 + rest \div k + (IF rest % k # 0 THEN 1 ELSE 0)
  PROVE  c \in Nat /\ c >= 2 /\ (c - 2) * k < rest /\ rest <= (c - 1) * k
<1> DEFINE q == rest \div k
           r == rest % k
<1>1. q \in Nat /\ r \in Nat /\ r < k /\ rest = k * q + r
  BY Z3
<1> HIDE DEF q, r
<1>2. CASE r = 0
  <2>1. c = 1 + q
    BY <1>1, <1>2 DEF q, r
  <2>2. q # 0
    <3>1. q = 0 => k * q = 0
      OBVIOUS
    <3> QED
      BY <1>1, <1>2, <3>1
  <2>3. (c - 1) * k = k * q /\ (c - 2) * k = k * q - k
    <3>1. c - 1 = q /\ c - 2 = q - 1
      BY <1>1, <2>1
    <3>2. q * k = k * q /\ (q - 1) * k = k * q - k
      BY <1>1, Z3
    <3> QED
      BY <3>1, <3>2
  <2> QED
    BY <1>1, <1>2, <2>1, <2>2, <2>3
<1>3. CASE r # 0
  <2>1. c = 2 + q
    BY <1>1, <1>3 DEF q, r
  <2>2. (c - 1) * k = k * q + k /\ (c - 2) * k = k * q
    BY <1>1, <2>1, Z3
  <2> QED
    BY <1>1, <1>3, <2>1, <2>2
<1> QED
  BY <1>2, <1>3

\* Multiplication by the payload size is monotone.
LEMMA TimesMonotone ==
  ASSUME NEW a \in Nat, NEW b \in Nat, NEW k \in Nat, a <= b
  PROVE  a * k \in Nat /\ a * k <= b * k
<1>1. PICK d \in Nat : b = a + d
  <2>1. b - a \in Nat /\ b = a + (b - a)
    OBVIOUS
  <2> QED
    BY <2>1
<1>2. b * k = a * k + d * k /\ a * k \in Nat /\ d * k \in Nat
  BY <1>1, Z3
<1> QED
  BY <1>2

\* The fragments of a packet begin where the one before ends, the first at the packet's
\* first octet and the last ending with its last, and none is empty, for every MTU and
\* every size (LpFragmenter::fragmentPacket's two loops).
THEOREM FragmentsTile ==
  ASSUME NEW p, p.size \in Nat \ {0}, p.headerSize \in Nat, NEW m \in Nat, Fragments(p, m)
  PROVE  /\ fragCount(p, m) \in Nat /\ fragCount(p, m) > 1
         /\ FragBegin(p, m, 0) = 0 /\ FragEnd(p, m, fragCount(p, m) - 1) = p.size
         /\ \A i \in 0 .. (fragCount(p, m) - 1) : FragBegin(p, m, i) < FragEnd(p, m, i)
         /\ \A i \in 0 .. (fragCount(p, m) - 2) : FragEnd(p, m, i) = FragBegin(p, m, i + 1)
<1> DEFINE k == payloadSize(m)
           first == firstPayloadSize(p, m)
           rest == p.size - first
           n == fragCount(p, m)
<1>1. /\ k \in Nat \ {0} /\ first \in Nat \ {0} /\ first < p.size /\ ~fitsWhole(p, m)
  BY Payloads DEF Fragments
<1>2. rest \in Nat \ {0}
  BY <1>1
<1>3. n = 1 + rest \div k + (IF rest % k # 0 THEN 1 ELSE 0)
  BY DEF fragCount
<1>4. n \in Nat /\ n >= 2 /\ (n - 2) * k < rest /\ rest <= (n - 1) * k
  <2> HIDE DEF k, rest, n
  <2> QED
    BY <1>1, <1>2, <1>3, FragCounts
<1>5. FragBegin(p, m, 0) = 0 /\ FragEnd(p, m, 0) = first
  BY <1>1 DEF FragBegin, FragEnd
<1>6. ASSUME NEW i \in 1 .. (n - 1)
      PROVE  /\ FragBegin(p, m, i) = first + (i - 1) * k
             /\ FragEnd(p, m, i) = IF p.size < first + (i - 1) * k + k THEN p.size
                                   ELSE first + (i - 1) * k + k
  <2>1. i # 0
    BY <1>4
  <2> QED
    BY <1>1, <2>1 DEF FragBegin, FragEnd
<1> HIDE DEF k, first, n
<1>7. ASSUME NEW i \in 1 .. (n - 1)
      PROVE  /\ (i - 1) * k \in Nat /\ (i - 1) * k + k = i * k /\ (i - 1) * k < rest
             /\ i <= n - 2 => i * k < rest
  <2>1. i - 1 \in Nat /\ i \in Nat /\ n - 2 \in Nat /\ i - 1 <= n - 2 /\ k \in Nat
    BY <1>1, <1>4
  <2>2. (i - 1) * k \in Nat /\ (i - 1) * k <= (n - 2) * k
    BY <2>1, TimesMonotone
  <2>3. i <= n - 2 => i * k <= (n - 2) * k
    BY <2>1, TimesMonotone
  <2>4. (i - 1) * k + k = i * k
    BY <2>1, Z3
  <2>5. i * k \in Nat /\ (n - 2) * k \in Nat
    BY <2>1, TimesMonotone
  <2> QED
    BY <1>2, <1>4, <2>2, <2>3, <2>4, <2>5
<1>8. \A i \in 0 .. (n - 1) : FragBegin(p, m, i) < FragEnd(p, m, i)
  <2> SUFFICES ASSUME NEW i \in 0 .. (n - 1) PROVE FragBegin(p, m, i) < FragEnd(p, m, i)
    OBVIOUS
  <2>1. CASE i = 0
    BY <1>1, <1>5, <2>1
  <2>2. CASE i \in 1 .. (n - 1)
    <3> DEFINE b == (i - 1) * k
    <3>1. b \in Nat /\ b < rest
      BY <1>7, <2>2
    <3>2. /\ FragBegin(p, m, i) = first + b
          /\ FragEnd(p, m, i) = IF p.size < first + b + k THEN p.size ELSE first + b + k
      BY <1>6, <2>2
    <3> HIDE DEF b
    <3> QED
      BY <1>1, <3>1, <3>2
  <2> QED
    BY <1>4, <2>1, <2>2
<1>9. \A i \in 0 .. (n - 2) : FragEnd(p, m, i) = FragBegin(p, m, i + 1)
  <2> SUFFICES ASSUME NEW i \in 0 .. (n - 2) PROVE FragEnd(p, m, i) = FragBegin(p, m, i + 1)
    OBVIOUS
  <2>0. i + 1 \in 1 .. (n - 1) /\ i \in Nat /\ (i + 1) - 1 = i
    BY <1>4
  <2>1. FragBegin(p, m, i + 1) = first + i * k
    <3>1. FragBegin(p, m, i + 1) = first + ((i + 1) - 1) * k
      BY <1>6, <2>0
    <3> QED
      BY <2>0, <3>1
  <2>2. CASE i = 0
    <3>1. i * k = 0
      BY <1>1, <2>2
    <3> QED
      BY <1>1, <1>5, <2>1, <2>2, <3>1
  <2>3. CASE i # 0
    <3>1. i \in 1 .. (n - 1) /\ i <= n - 2
      BY <1>4, <2>3
    <3>2. (i - 1) * k \in Nat /\ (i - 1) * k + k = i * k /\ i * k < rest
      BY <1>7, <3>1
    <3>3. FragEnd(p, m, i) = IF p.size < first + (i - 1) * k + k THEN p.size
                             ELSE first + (i - 1) * k + k
      BY <1>6, <3>1
    <3> DEFINE b == (i - 1) * k
               e == i * k
    <3>4. b \in Nat /\ b + k = e /\ e < rest
          /\ FragEnd(p, m, i) = IF p.size < first + b + k THEN p.size ELSE first + b + k
      BY <3>2, <3>3
    <3>5. FragBegin(p, m, i + 1) = first + e
      BY <2>1
    <3> HIDE DEF b, e
    <3> QED
      BY <1>1, <3>4, <3>5
  <2> QED
    BY <2>2, <2>3
<1>10. FragEnd(p, m, n - 1) = p.size
  <2> DEFINE b == (n - 2) * k
             e == (n - 1) * k
  <2>1. n - 1 \in 1 .. (n - 1) /\ (n - 1) - 1 = n - 2
    BY <1>4
  <2>2. FragEnd(p, m, n - 1) = IF p.size < first + ((n - 1) - 1) * k + k THEN p.size
                               ELSE first + ((n - 1) - 1) * k + k
    BY <1>6, <2>1
  <2>3. FragEnd(p, m, n - 1) = IF p.size < first + b + k THEN p.size ELSE first + b + k
    BY <2>1, <2>2
  <2>4. ((n - 1) - 1) * k \in Nat /\ ((n - 1) - 1) * k + k = (n - 1) * k
    BY <1>7, <2>1
  <2>5. b \in Nat /\ b + k = e /\ rest <= e
    BY <1>4, <2>1, <2>4
  <2> HIDE DEF b, e
  <2> QED
    BY <1>1, <2>3, <2>5
<1> QED
  BY <1>4, <1>5, <1>8, <1>9, <1>10 DEF n

\* Every fragment keeps the MTU once it has its sequence number, however long the numbers
\* in its headers are.
LEMMA FragmentsKeepMtu ==
  ASSUME NEW p, p.size \in Nat \ {0}, p.headerSize \in Nat, NEW m \in Nat, Fragments(p, m),
         NEW i \in 0 .. (fragCount(p, m) - 1)
  PROVE  FragWireSize(p, m, i) <= m
<1> DEFINE h == IF i = 0 THEN p.headerSize ELSE 0
           H == Tlv(8) + NonNegativeIntegerTlv(i) + NonNegativeIntegerTlv(fragCount(p, m)) + h
           s == FragEnd(p, m, i) - FragBegin(p, m, i)
<1>1. /\ payloadSize(m) \in Nat \ {0} /\ payloadSize(m) = m - 50
      /\ firstPayloadSize(p, m) \in Nat \ {0} /\ firstPayloadSize(p, m) <= m - p.headerSize - 50
      /\ ~fitsWhole(p, m)
  BY Payloads DEF Fragments
<1>2. fragCount(p, m) \in Nat /\ i \in Nat
  BY FragmentsTile
<1>3. s \in Int /\ s + h <= m - 50
  <2>1. CASE i = 0
    <3>1. s = firstPayloadSize(p, m) - 0
      BY <1>1, <2>1 DEF FragBegin, FragEnd
    <3> QED
      BY <1>1, <2>1, <3>1
  <2>2. CASE i # 0
    <3> DEFINE b == firstPayloadSize(p, m) + (i - 1) * payloadSize(m)
    <3>1. b \in Int
      <4>1. i - 1 \in Nat
        BY <1>2, <2>2
      <4>2. (i - 1) * payloadSize(m) \in Nat
        BY <1>1, <4>1, TimesMonotone
      <4> QED
        BY <1>1, <4>2
    <3>2. FragBegin(p, m, i) = b
          /\ FragEnd(p, m, i) = IF p.size < b + payloadSize(m) THEN p.size ELSE b + payloadSize(m)
      BY <1>1, <2>2 DEF FragBegin, FragEnd
    <3> HIDE DEF b
    <3> QED
      BY <1>1, <2>2, <3>1, <3>2
  <2> QED
    BY <2>1, <2>2
<1>4. H \in Nat /\ H <= 30 + h
  <2>1. Tlv(8) = 10
    BY DEF Tlv, sizeOfVarNumber
  <2>2. i \in Int /\ fragCount(p, m) \in Int /\ h \in Nat
    BY <1>2
  <2>3. /\ NonNegativeIntegerTlv(i) \in Int /\ 3 <= NonNegativeIntegerTlv(i)
        /\ NonNegativeIntegerTlv(i) <= 10
    BY <2>2, NumberBounds
  <2>4. /\ NonNegativeIntegerTlv(fragCount(p, m)) \in Int
        /\ 3 <= NonNegativeIntegerTlv(fragCount(p, m))
        /\ NonNegativeIntegerTlv(fragCount(p, m)) <= 10
    BY <2>2, NumberBounds
  <2> HIDE DEF h
  <2> QED
    BY <2>1, <2>2, <2>3, <2>4
<1>5. FragWireSize(p, m, i) = wireEncode(H, s)
  BY DEF FragWireSize
<1>6. h \in Nat
  OBVIOUS
<1> HIDE DEF h, H, s
<1>7. wireEncode(H, s) \in Int /\ wireEncode(H, s) <= H + s + 20
  BY <1>3, <1>4, WireBounds
<1> QED
  BY <1>3, <1>4, <1>5, <1>6, <1>7

\* A packet that is sent with fragmentation on has no frame over the MTU.
LEMMA NoFrameOverMtu ==
  ASSUME mtu \in Nat, allowFragmentation, NEW e, NEW p \in NetPacket, isOk(p, mtu), NEW n,
         NEW i \in 0 .. (nFrags(p, mtu) - 1)
  PROVE  /\ FrameWireSize(p, Frame(e, n, p, i)) <= mtu
         /\ Frame(e, n, p, i).hasFragIndex => Frame(e, n, p, i).fragCount > 1
<1> DEFINE f == Frame(e, n, p, i)
<1>0. p.size \in Nat \ {0} /\ p.headerSize \in Nat
  BY LinkAssumption
<1>1. CASE fitsWhole(p, mtu)
  <2>1. f.hasFragIndex = FALSE
    BY <1>1 DEF Frame
  <2>2. FrameWireSize(p, f) = wireEncode(p.headerSize, p.size)
    BY <2>1 DEF FrameWireSize
  <2>3. wireEncode(p.headerSize, p.size) \in Int
    <3>1. p.size \in Int
      BY <1>0
    <3> QED
      BY <1>0, <3>1, WireBounds
  <2>4. MAX_SINGLE_FRAG_OVERHEAD = 30
    BY DEF MAX_SINGLE_FRAG_OVERHEAD
  <2> QED
    BY <1>1, <2>1, <2>2, <2>3, <2>4 DEF fitsWhole
<1>2. CASE ~fitsWhole(p, mtu)
  <2>1. f.hasFragIndex = TRUE /\ f.fragIndex = i /\ f.fragCount = fragCount(p, mtu)
    BY <1>2 DEF Frame
  <2>2. Fragments(p, mtu) /\ nFrags(p, mtu) = fragCount(p, mtu)
    BY <1>2 DEF Fragments, nFrags
  <2>3. FrameWireSize(p, f) = FragWireSize(p, mtu, i)
    BY <2>1 DEF FrameWireSize
  <2>4. FragWireSize(p, mtu, i) <= mtu
    BY <1>0, <2>2, FragmentsKeepMtu
  <2>5. fragCount(p, mtu) > 1
    BY <1>0, <2>2, FragmentsTile
  <2> QED
    BY <2>1, <2>3, <2>4, <2>5
<1> QED
  BY <1>1, <1>2

----------------------------------------------------------------------------
(* The link service.                                                       *)

LInv ==
  /\ mtu \in Nat /\ allowFragmentation \in BOOLEAN
  /\ FragmentationKeepsMtu /\ SingleFrameIsWhole

\* Every step keeps the MTU, and sends fragments only of packets with several.
LEMMA LInvStep == LInv /\ [Next]_vars => LInv'
<1> SUFFICES ASSUME LInv, [Next]_vars PROVE LInv'
  OBVIOUS
<1>1. mtu \in Nat /\ allowFragmentation \in BOOLEAN /\ FragmentationKeepsMtu /\ SingleFrameIsWhole
  BY DEF LInv
<1>2. ASSUME NEW e, NEW p \in NetPacket, sendNetPacket(e, p) PROVE LInv'
  <2> DEFINE count == IF allowFragmentation THEN nFrags(p, mtu) ELSE 1
             frames == {Frame(e, Len(sent) + 1, p, i) : i \in 0 .. (count - 1)}
             fits == {f \in frames : FrameWireSize(p, f) <= mtu}
  <2>1. UNCHANGED <<mtu, allowFragmentation>>
    BY <1>2 DEF sendNetPacket, options
  <2>2. CASE ~allowFragmentation
    <3>1. \A f \in frames : ~f.hasFragIndex
      <4>1. \A i : ~Frame(e, Len(sent) + 1, p, i).hasFragIndex
        BY <2>2 DEF Frame
      <4> QED
        BY <4>1, Zenon
    <3>2. link' = link \cup fits
      BY <1>2, <2>2, Zenon DEF sendNetPacket
    <3> HIDE DEF frames
    <3>3. SingleFrameIsWhole'
      BY <1>1, <3>1, <3>2 DEF SingleFrameIsWhole
    <3> QED
      BY <1>1, <2>1, <2>2, <3>3 DEF LInv, FragmentationKeepsMtu
  <2>3. CASE allowFragmentation /\ ~isOk(p, mtu)
    <3>1. UNCHANGED <<link, nOutOverMtu>>
      BY <1>2, <2>3 DEF sendNetPacket
    <3> QED
      BY <1>1, <2>1, <3>1 DEF LInv, FragmentationKeepsMtu, SingleFrameIsWhole
  <2>4. CASE allowFragmentation /\ isOk(p, mtu)
    <3>0. count = nFrags(p, mtu)
      BY <2>4
    <3> HIDE DEF count
    <3>1. \A f \in frames : FrameWireSize(p, f) <= mtu /\ (f.hasFragIndex => f.fragCount > 1)
      <4> SUFFICES ASSUME NEW i \in 0 .. (count - 1)
                   PROVE  /\ FrameWireSize(p, Frame(e, Len(sent) + 1, p, i)) <= mtu
                          /\ Frame(e, Len(sent) + 1, p, i).hasFragIndex =>
                               Frame(e, Len(sent) + 1, p, i).fragCount > 1
        OBVIOUS
      <4> QED
        BY <1>1, <2>4, <3>0, NoFrameOverMtu
    <3>2. link' = link \cup fits /\ nOutOverMtu' = nOutOverMtu + Cardinality(frames \ fits)
      BY <1>2, <2>4 DEF sendNetPacket, count
    <3> HIDE DEF frames
    <3>3. frames \ fits = {}
      BY <3>1
    <3>4. nOutOverMtu' = 0
      <4>1. Cardinality({}) = 0
        BY FS_EmptySet
      <4>2. nOutOverMtu = 0
        BY <1>1, <2>4 DEF FragmentationKeepsMtu
      <4> QED
        BY <3>2, <3>3, <4>1, <4>2
    <3>5. SingleFrameIsWhole'
      BY <1>1, <3>1, <3>2 DEF SingleFrameIsWhole
    <3> QED
      BY <1>1, <2>1, <3>4, <3>5 DEF LInv, FragmentationKeepsMtu
  <2> QED
    BY <1>1, <2>2, <2>3, <2>4
<1>3. ASSUME UNCHANGED <<mtu, allowFragmentation, nOutOverMtu>>, link' \subseteq link PROVE LInv'
  BY <1>1, <1>3 DEF LInv, FragmentationKeepsMtu, SingleFrameIsWhole
<1>4. ASSUME NEW e, SenderRestarts(e) PROVE LInv'
  BY <1>3, <1>4 DEF SenderRestarts, options
<1>5. CASE ToggleLocalFields
  BY <1>3, <1>5 DEF ToggleLocalFields, options
<1>6. ASSUME NEW f, Receive(f) \/ Duplicate(f) \/ Lose(f) PROVE LInv'
  <2>1. UNCHANGED <<mtu, allowFragmentation, nOutOverMtu>> /\ link' \in {link, link \ {f}}
    BY <1>6, Zenon DEF Receive, Duplicate, Lose, options
  <2> QED
    BY <1>3, <2>1
<1>7. ASSUME NEW k, timeoutPartialPacket(k) PROVE LInv'
  BY <1>3, <1>7 DEF timeoutPartialPacket, options
<1>8. CASE UNCHANGED vars
  BY <1>3, <1>8 DEF vars
<1> QED
  BY <1>2, <1>4, <1>5, <1>6, <1>7, <1>8 DEF Next

\* The initial states.
LEMMA LInvInit == Init => LInv
<1> SUFFICES ASSUME Init PROVE LInv
  OBVIOUS
<1>1. mtu \in Nat
  BY LinkAssumption DEF Init
<1> QED
  BY <1>1 DEF Init, LInv, FragmentationKeepsMtu, SingleFrameIsWhole

\* With fragmentation on no frame is ever over the MTU, for every MTU and every packet
\* (GenericLinkService::sendNetPacket, LpFragmenter::fragmentPacket).
THEOREM NothingOverMtu == Spec => []FragmentationKeepsMtu
<1>1. LInv => FragmentationKeepsMtu
  BY DEF LInv
<1> QED
  BY <1>1, LInvInit, LInvStep, PTL DEF Spec

\* A packet that goes out as one frame has no FragIndex, for every MTU and every packet:
\* what the fragmenter keeps free for a fragment's headers is more than what it keeps
\* free for a whole packet's (LpFragmenter::fragmentPacket).
THEOREM OneFrameIsWhole == Spec => []SingleFrameIsWhole
<1>1. LInv => SingleFrameIsWhole
  BY DEF LInv
<1> QED
  BY <1>1, LInvInit, LInvStep, PTL DEF Spec

=============================================================================
