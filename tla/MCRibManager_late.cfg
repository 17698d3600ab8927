\* A registration is rejected while others wait.
\* Deadlock is not checked: undefined behaviour ends a run of the daemon.
CONSTANTS
  f = f
  g = g
  h = h
  NoEntry = NoEntry
  NoDataset = NoDataset
  Face <- MCInitFaces
  InitFaces <- MCInitFaces
  Registrations <- LateRegistrations
  Unregistrations <- LateUnregistrations
  MaxOps = 4
  MaxFaults = 1
SPECIFICATION Spec
INVARIANT InheritedEntriesExist
CHECK_DEADLOCK FALSE
