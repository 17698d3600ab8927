\* A face is destroyed while a registration for it is in progress.
\* Deadlock is not checked: undefined behaviour ends a run of the daemon.
CONSTANTS
  f = f
  g = g
  h = h
  NoEntry = NoEntry
  NoDataset = NoDataset
  Face <- MCInitFaces
  InitFaces <- MCInitFaces
  Registrations <- LateRegistrations
  Unregistrations <- LateUnregistrations
  MaxOps = 2
  MaxFaults = 1
SPECIFICATION Spec
PROPERTY DeadFaceLeaves
CHECK_DEADLOCK FALSE
