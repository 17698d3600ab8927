\* Nested and scoped names and Interests with a Link, over local and remote faces, a
\* ContentStore of one packet.
SPECIFICATION Spec
CONSTANTS
  app = app
  a = a
  b = b
  n1 = n1
  n2 = n2
  n3 = n3
  Face = {app, a, b}
  LocalFace = {app}
  MultiAccessFace = {}
  Nonce = {n1, n2}
  DefaultLifetime = 2
  SuppressInitial = 1
  SuppressMax = 2
  StragglerTime = 1
  StrategyOf <- LinkStrategy
  FibName <- LinkPrefixes
  Cost = {1}
  InterestPacket <- FlowLinkInterests
  DataPacket <- FlowData
  NackReason = {150}
  NetworkRegion <- LinkRegions
  DnlLifetime = 3
  DnlMinCapacity = 8
  CsLimit = 1
  InitFaces = {app, a, b}
  InitFib <- LinkFib
  MgmtFace = {}
  MaxTime = 3
  LastArrival = 2
  MaxInputs = 3
SYMMETRY NonceSymmetric
INVARIANTS
  ScopeRespected
  InRecordsAreOwed
  DelegationFollowed
PROPERTIES
  FlowBalance
  NoAnswerLost
CHECK_DEADLOCK FALSE
