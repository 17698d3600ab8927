\* best-route over one name: retransmission, suppression, Nacks, expiry.
SPECIFICATION Spec
CONSTANTS
  app = app
  a = a
  b = b
  n1 = n1
  n2 = n2
  n3 = n3
  Face = {app, a, b}
  LocalFace = {app}
  MultiAccessFace = {}
  Nonce = {n1, n2, n3}
  DefaultLifetime = 2
  SuppressInitial = 1
  SuppressMax = 2
  StragglerTime = 1
  StrategyOf <- BestStrategy
  FibName <- Root
  Cost = {1}
  InterestPacket <- BestInterests
  DataPacket <- BestData
  NackReason = {50, 150}
  NetworkRegion <- NoRegion
  DnlLifetime = 3
  DnlMinCapacity = 8
  CsLimit = 0
  InitFaces = {app, a, b}
  InitFib <- RootToBoth
  MgmtFace = {}
  MaxTime = 3
  LastArrival = 2
  MaxInputs = 5
SYMMETRY Symmetric
INVARIANTS
  TypeOK
  TimersCoverRecords
  DownstreamNoncesDiffer
  NoEcho
PROPERTIES
  ExpiresOnlyAfterLifetime
  RetxPaced
CHECK_DEADLOCK FALSE
