\* Faces and routes come and go while Interests are pending, and all are over some day.
SPECIFICATION FairSpec
CONSTANTS
  app = app
  a = a
  b = b
  n1 = n1
  n2 = n2
  n3 = n3
  Face = {app, a, b}
  LocalFace = {app}
  MultiAccessFace = {b}
  Nonce = {n1, n2}
  DefaultLifetime = 2
  SuppressInitial = 1
  SuppressMax = 2
  StragglerTime = 1
  StrategyOf <- BestStrategy
  FibName <- Root
  Cost = {1, 2}
  InterestPacket <- FacesInterests
  DataPacket <- BestData
  NackReason = {150}
  NetworkRegion <- NoRegion
  DnlLifetime = 3
  DnlMinCapacity = 8
  CsLimit = 0
  InitFaces = {app, a}
  InitFib <- FacesFib
  MgmtFace = {a, b}
  MaxTime = 5
  LastArrival = 2
  MaxInputs = 4
INVARIANTS
  NexthopsAreLive
PROPERTIES
  PendingEventuallyErased
CHECK_DEADLOCK FALSE
