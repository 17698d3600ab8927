\* Requests, answers, a timeout or a face that comes or goes.
\* Deadlock is not checked: undefined behaviour ends a run of the daemon.
CONSTANTS
  f = f
  g = g
  h = h
  NoEntry = NoEntry
  NoDataset = NoDataset
  Face <- MCFace
  InitFaces <- MCInitFaces
  Registrations <- MCRegistrations
  Unregistrations <- MCUnregistrations
  MaxOps = 3
  MaxFaults = 1
SPECIFICATION Spec
INVARIANTS FibFollowsRib LastRequestWins ParentIsNearest EventsAreOfRoutes
PROPERTIES QueueDrains DownFaceFound
CHECK_DEADLOCK FALSE
