-------------------------- MODULE GenericLinkService -------------------------
(***************************************************************************)
(* The link services of faces on one multi-access link: each endpoint of   *)
(* Endpoint sends network-layer packets, which its link service may cut    *)
(* into fragments, and one more endpoint receives.  The link loses,        *)
(* duplicates and reorders the frames.                                     *)
(***************************************************************************)
EXTENDS LpFragmenter, FiniteSets, Sequences

CONSTANTS
  Endpoint,
  NetPacket,      \* the packets sent: [type, headers, size, headerSize]
  Mtu,            \* the MTUs a transport may have
  SeqMod,         \* sequence numbers are modulo this, 2^64 in the code
  MaxSends,       \* bound: network-layer packets sent
  MaxFaults       \* bound: frames lost or duplicated

Headers == {"Nack", "NextHopFaceId", "CachePolicy", "IncomingFaceId"}

ASSUME LinkAssumption ==
  /\ \A p \in NetPacket :
       /\ p.type \in {"Interest", "Data"} /\ p.headers \subseteq Headers
       /\ p.size \in Nat \ {0} /\ p.headerSize \in Nat /\ (p.headers = {} <=> p.headerSize = 0)
  /\ Mtu \subseteq Nat /\ SeqMod \in Nat \ {0} /\ MaxSends \in Nat /\ MaxFaults \in Nat

VARIABLES
  mtu, allowFragmentation,             \* of the senders
  allowReassembly, allowLocalFields,   \* of the receiver
  m_lastSeqNo,                         \* of each sender
  sent,                                \* what each send was for: sequence of [from, packet]
  link,                                \* frames under way
  m_partialPackets,                    \* <<endpoint, message id>> -> [fragCount, fragments]
  received,                            \* what the receiver passed up
  nOutOverMtu, faults

vars == <<mtu, allowFragmentation, allowReassembly, allowLocalFields, m_lastSeqNo, sent, link,
          m_partialPackets, received, nOutOverMtu, faults>>

options == <<mtu, allowFragmentation, allowReassembly>>

----------------------------------------------------------------------------
(* Sending.  A frame says which octets of which send it carries.           *)

Frame(e, n, p, i) ==
  LET fragmented == allowFragmentation /\ ~fitsWhole(p, mtu)
  IN  [from |-> e, of |-> n, headers |-> IF i = 0 THEN p.headers ELSE {},
       begin |-> IF fragmented THEN FragBegin(p, mtu, i) ELSE 0,
       end |-> IF fragmented THEN FragEnd(p, mtu, i) ELSE p.size,
       fragIndex |-> i, hasFragIndex |-> fragmented,
       fragCount |-> IF fragmented THEN fragCount(p, mtu) ELSE 1,
       seq |-> (m_lastSeqNo[e] + 1 + i) % SeqMod]

FrameWireSize(p, f) ==
  IF f.hasFragIndex THEN FragWireSize(p, mtu, f.fragIndex)
  ELSE wireEncode(p.headerSize, p.size)

\* sendNetPacket.  Sequence numbers are assigned only to several fragments, and a
\* frame over the MTU is skipped.
sendNetPacket(e, p) ==
  LET count == IF allowFragmentation THEN nFrags(p, mtu) ELSE 1
      frames == {Frame(e, Len(sent) + 1, p, i) : i \in 0..(count - 1)}
      fits == {f \in frames : FrameWireSize(p, f) <= mtu}
  IN  /\ Len(sent) < MaxSends
      /\ sent' = Append(sent, [from |-> e, packet |-> p])
      /\ IF allowFragmentation => isOk(p, mtu)
         THEN /\ link' = link \cup fits
              /\ nOutOverMtu' = nOutOverMtu + Cardinality(frames \ fits)
              /\ m_lastSeqNo' = IF count > 1
                                THEN [m_lastSeqNo EXCEPT ![e] = (@ + count) % SeqMod]
                                ELSE m_lastSeqNo
         ELSE UNCHANGED <<link, nOutOverMtu, m_lastSeqNo>>
      /\ UNCHANGED <<options, allowLocalFields, m_partialPackets, received, faults>>

\* A sender's face is created anew.  This takes longer than frames and partial packets
\* live.
SenderRestarts(e) ==
  /\ \A f \in link : f.from # e
  /\ \A k \in DOMAIN m_partialPackets : k[1] # e
  /\ m_lastSeqNo' = [m_lastSeqNo EXCEPT ![e] = SeqMod - 2]
  /\ UNCHANGED <<options, allowLocalFields, sent, link, m_partialPackets, received,
                 nOutOverMtu, faults>>

\* The face management turns local fields on or off on the receiver's face.
ToggleLocalFields ==
  /\ allowLocalFields' = ~allowLocalFields
  /\ UNCHANGED <<options, m_lastSeqNo, sent, link, m_partialPackets, received, nOutOverMtu, faults>>

----------------------------------------------------------------------------
(* Receiving.                                                              *)

\* decodeInterest, decodeNack and decodeData: which signal a packet of this type with
\* these headers on its first frame raises.
decodeNetPacket(type, headers) ==
  CASE type = "Interest" /\ "Nack" \in headers ->
         IF {"NextHopFaceId", "CachePolicy"} \cap headers # {} THEN "drop" ELSE "receiveNack"
    [] type = "Interest" /\ "Nack" \notin headers ->
         IF \/ "NextHopFaceId" \in headers /\ ~allowLocalFields
            \/ "CachePolicy" \in headers
         THEN "drop" ELSE "receiveInterest"
    [] type = "Data" ->
         IF {"Nack", "NextHopFaceId"} \cap headers # {} THEN "drop" ELSE "receiveData"

\* Mutant: the headers are those of the last fragment.
Up_last(frames) ==
  LET last == frames[Len(frames)]
      signal == decodeNetPacket(sent[last.of].packet.type, last.headers)
  IN  received' = IF signal = "drop" THEN received
                  ELSE received \cup {[signal |-> signal, from |-> last.from,
                                       headers |-> last.headers,
                                       octets |-> [j \in DOMAIN frames |->
                                         <<frames[j].of, frames[j].begin, frames[j].end>>]]}

\* The packet made of these frames is passed up.  Its type is in its first octets.
Up(frames) ==
  LET first == Head(frames)
      signal == decodeNetPacket(sent[first.of].packet.type, first.headers)
  IN  received' = IF signal = "drop" THEN received
                  ELSE received \cup {[signal |-> signal, from |-> first.from,
                                       headers |-> first.headers,
                                       octets |-> [j \in DOMAIN frames |->
                                         <<frames[j].of, frames[j].begin, frames[j].end>>]]}

messageIdentifier(f) == <<f.from, (f.seq + SeqMod - f.fragIndex) % SeqMod>>

\* The part of receiveFragment after the checks.
addFragment(f) ==
  LET key == messageIdentifier(f)
      pp  == IF key \in DOMAIN m_partialPackets THEN m_partialPackets[key]
             ELSE [fragCount |-> f.fragCount, fragments |-> <<>>]
      fragments == [i \in DOMAIN pp.fragments \cup {f.fragIndex} |->
                      IF i = f.fragIndex THEN f ELSE pp.fragments[i]]
      Others == [k \in DOMAIN m_partialPackets \ {key} |-> m_partialPackets[k]]
  IN  IF f.fragCount # pp.fragCount \/ f.fragIndex \in DOMAIN pp.fragments
      THEN UNCHANGED <<m_partialPackets, received>>
      ELSE IF Cardinality(DOMAIN fragments) = pp.fragCount
      THEN /\ m_partialPackets' = Others
           /\ Up([j \in 1..pp.fragCount |-> fragments[j - 1]])
      ELSE /\ m_partialPackets' = [k \in DOMAIN Others \cup {key} |->
                IF k = key THEN [pp EXCEPT !.fragments = fragments] ELSE Others[k]]
           /\ UNCHANGED received

\* doReceivePacket with receiveFragment.  The frames are those of link services, which always
\* carry a fragment, and a Sequence when they are several: the code's drops of an IDLE packet,
\* of a fragment without Sequence and of one that does not parse, none of which changes the
\* state below, never happen to them.
doReceivePacket(f) ==
  IF f.hasFragIndex /\ (~allowReassembly \/ f.fragIndex >= f.fragCount
                        \/ f.fragCount > nMaxFragments)
  THEN UNCHANGED <<m_partialPackets, received>>
  ELSE IF f.fragIndex = 0 /\ f.fragCount = 1
  THEN Up(<<f>>) /\ UNCHANGED m_partialPackets
  ELSE addFragment(f)

Receive(f) ==
  /\ doReceivePacket(f)
  /\ link' = link \ {f}
  /\ UNCHANGED <<options, allowLocalFields, m_lastSeqNo, sent, nOutOverMtu, faults>>

\* The frame arrives, and will arrive again.
Duplicate(f) ==
  /\ faults > 0 /\ faults' = faults - 1
  /\ doReceivePacket(f)
  /\ UNCHANGED <<options, allowLocalFields, m_lastSeqNo, sent, link, nOutOverMtu>>

Lose(f) ==
  /\ faults > 0 /\ faults' = faults - 1
  /\ link' = link \ {f}
  /\ UNCHANGED <<options, allowLocalFields, m_lastSeqNo, sent, m_partialPackets, received,
                 nOutOverMtu>>

\* The drop timer, which every fragment that was added starts again.
timeoutPartialPacket(k) ==
  /\ m_partialPackets' = [l \in DOMAIN m_partialPackets \ {k} |-> m_partialPackets[l]]
  /\ UNCHANGED <<options, allowLocalFields, m_lastSeqNo, sent, link, received, nOutOverMtu, faults>>

Init ==
  /\ mtu \in Mtu
  /\ allowFragmentation \in BOOLEAN /\ allowReassembly \in BOOLEAN /\ allowLocalFields = FALSE
  /\ m_lastSeqNo = [e \in Endpoint |-> SeqMod - 2]
  /\ sent = <<>> /\ link = {}
  /\ m_partialPackets = <<>> /\ received = {}
  /\ nOutOverMtu = 0 /\ faults = MaxFaults

Next ==
  \/ \E e \in Endpoint : SenderRestarts(e) \/ \E p \in NetPacket : sendNetPacket(e, p)
  \/ ToggleLocalFields
  \/ \E f \in link : Receive(f) \/ Duplicate(f) \/ Lose(f)
  \/ \E k \in DOMAIN m_partialPackets : timeoutPartialPacket(k)

Spec == Init /\ [][Next]_vars

----------------------------------------------------------------------------
(* Properties.                                                             *)

\* The signal a packet calls for, whatever way it was cut.
SignalOf(p) ==
  IF p.type = "Data" THEN "receiveData"
  ELSE IF "Nack" \in p.headers THEN "receiveNack" ELSE "receiveInterest"

\* ReceivedAsSent: what the link service passes up is one packet that its sender sent,
\* all its octets in their order, with the headers of that packet and as the kind of
\* packet it is.  Frames of several packets and of several senders arrive interleaved,
\* and the header that makes a packet a Nack is on one fragment only (receiveFragment,
\* doReassembly, decodeNetPacket).
ReceivedAsSent ==
  \A r \in received :
    LET n == r.octets[1][1]
        last == Len(r.octets)
    IN  /\ r.from = sent[n].from /\ r.headers = sent[n].packet.headers
        /\ r.signal = SignalOf(sent[n].packet)
        /\ r.octets[1][2] = 0 /\ r.octets[last][3] = sent[n].packet.size
        /\ \A j \in 1..last : r.octets[j][1] = n
        /\ \A j \in 1..(last - 1) : r.octets[j][3] = r.octets[j + 1][2]

\* FragmentationKeepsMtu: "If this counter is non-zero, the operator should enable
\* fragmentation" (nOutOverMtu): with fragmentation on, every frame keeps the MTU once
\* it has its sequence number, so no frame of a packet is skipped while others go out
\* (fragmentPacket, sendNetPacket).
FragmentationKeepsMtu == allowFragmentation => nOutOverMtu = 0

\* SingleFrameIsWhole: "the fragmenter should not fragment the packet if it can fit in
\* MTU" (sendNetPacket): a packet that goes out as one frame has no FragIndex.
SingleFrameIsWhole == \A f \in link : f.hasFragIndex => f.fragCount > 1

=============================================================================
