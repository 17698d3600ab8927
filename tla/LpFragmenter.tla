----------------------------- MODULE LpFragmenter ----------------------------
(***************************************************************************)
(* How LpFragmenter cuts a network-layer packet into NDNLPv2 packets, and  *)
(* the octets they take on the wire.  A packet p has p.size octets and its *)
(* other NDNLPv2 headers take p.headerSize.  A fragment stands for the     *)
(* octets from FragBegin to FragEnd, its contents are not modelled.        *)
(***************************************************************************)
EXTENDS Naturals

CONSTANT nMaxFragments

ASSUME FragmenterAssumption == nMaxFragments \in Nat

MAX_SINGLE_FRAG_OVERHEAD == 1 + 9 + 1 + 1 + 8 + 1 + 9

MAX_FRAG_OVERHEAD == 1 + 9 + 3 * (1 + 1 + 8) + 1 + 9

sizeOfVarNumber(n) ==
  IF n < 253 THEN 1 ELSE IF n < 2^16 THEN 3 ELSE IF n < 2^32 THEN 5 ELSE 9

sizeOfNonNegativeInteger(n) ==
  IF n < 253 THEN 1 ELSE IF n < 2^16 THEN 2 ELSE IF n < 2^32 THEN 4 ELSE 8

Tlv(length) == 1 + sizeOfVarNumber(length) + length

NonNegativeIntegerTlv(n) == Tlv(sizeOfNonNegativeInteger(n))

\* A packet that has no other header goes bare, one that has is wrapped.
wireEncode(headerSize, size) == IF headerSize = 0 THEN size ELSE Tlv(headerSize + Tlv(size))

\* The packet is sent as it is, with room left for a sequence number.
fitsWhole(p, mtu) == MAX_SINGLE_FRAG_OVERHEAD + wireEncode(p.headerSize, p.size) <= mtu

firstPayloadSize(p, mtu) ==
  LET room == mtu - p.headerSize - MAX_FRAG_OVERHEAD IN IF p.size < room THEN p.size ELSE room

\* Mutant: no overhead on the fragments after the first.
payloadSize_whole(mtu) == mtu

payloadSize(mtu) == mtu - MAX_FRAG_OVERHEAD

fragCount(p, mtu) ==
  LET rest == p.size - firstPayloadSize(p, mtu)
  IN  1 + rest \div payloadSize(mtu) + (IF rest % payloadSize(mtu) # 0 THEN 1 ELSE 0)

\* The result of fragmentPacket is a success.
isOk(p, mtu) ==
  \/ fitsWhole(p, mtu)
  \/ MAX_FRAG_OVERHEAD + p.headerSize + 1 <= mtu /\ fragCount(p, mtu) <= nMaxFragments

nFrags(p, mtu) == IF fitsWhole(p, mtu) THEN 1 ELSE fragCount(p, mtu)

FragBegin(p, mtu, i) ==
  IF i = 0 THEN 0 ELSE firstPayloadSize(p, mtu) + (i - 1) * payloadSize(mtu)

FragEnd(p, mtu, i) ==
  IF fitsWhole(p, mtu) THEN p.size
  ELSE IF i = 0 THEN firstPayloadSize(p, mtu)
  ELSE LET end == FragBegin(p, mtu, i) + payloadSize(mtu) IN IF p.size < end THEN p.size ELSE end

\* What fragment i of several takes on the wire once it has a sequence number of 8
\* octets, the longest.
FragWireSize(p, mtu, i) ==
  wireEncode(Tlv(8) + NonNegativeIntegerTlv(i)
               + NonNegativeIntegerTlv(fragCount(p, mtu)) + (IF i = 0 THEN p.headerSize ELSE 0),
             FragEnd(p, mtu, i) - FragBegin(p, mtu, i))

=============================================================================
