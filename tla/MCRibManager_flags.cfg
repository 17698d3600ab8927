\* Routes are registered again with other flags.
\* Deadlock is not checked: undefined behaviour ends a run of the daemon.
CONSTANTS
  f = f
  g = g
  h = h
  NoEntry = NoEntry
  NoDataset = NoDataset
  Face <- MCInitFaces
  InitFaces <- MCInitFaces
  Registrations <- FlagRegistrations
  Unregistrations <- FlagUnregistrations
  MaxOps = 3
  MaxFaults = 0
SPECIFICATION Spec
INVARIANT FibFollowsRib
CHECK_DEADLOCK FALSE
