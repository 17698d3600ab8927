\* A service that starts and stops NFD whenever it likes.
SPECIFICATION Spec
CONSTANT MaxStarts = 4
INVARIANT NothingDangles
PROPERTIES
  StartRuns
  StopReleases
CHECK_DEADLOCK FALSE
