\* Downstreams of one name that ask for different delegations.
SPECIFICATION Spec
CONSTANTS
  app = app
  a = a
  b = b
  n1 = n1
  n2 = n2
  n3 = n3
  Face = {app, a, b}
  LocalFace = {app}
  MultiAccessFace = {}
  Nonce = {n1, n2}
  DefaultLifetime = 2
  SuppressInitial = 1
  SuppressMax = 2
  StragglerTime = 1
  StrategyOf <- LinkStrategy
  FibName <- LinkPrefixes
  Cost = {1}
  InterestPacket <- LinkInterests
  DataPacket <- FlowData
  NackReason = {150}
  NetworkRegion <- LinkRegions
  DnlLifetime = 3
  DnlMinCapacity = 8
  CsLimit = 1
  InitFaces = {app, a, b}
  InitFib <- LinkFib
  MgmtFace = {}
  MaxTime = 3
  LastArrival = 2
  MaxInputs = 2
SYMMETRY NonceSymmetric
INVARIANT
  OwnDelegationFollowed
CHECK_DEADLOCK FALSE
