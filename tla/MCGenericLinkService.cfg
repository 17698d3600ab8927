SPECIFICATION Spec
CONSTANTS
  Endpoint = {e1, e2}
  NetPacket <- MCNetPacket
  Mtu <- MCMtu
  nMaxFragments = 3
  SeqMod = 16
  MaxSends = 2
  MaxFaults = 1
INVARIANTS
  ReceivedAsSent
  FragmentationKeepsMtu
CHECK_DEADLOCK FALSE
