\* A scan of one unit of time, then a sleep of two.
\* Deadlock is not checked: the phone does nothing once discovery is stopped.
CONSTANTS
  p = p
  q = q
  r = r
  Device <- MCDevice
  Smaller <- MCSmaller
  NoGatt = NoGatt
  None = None
  SCAN_PERIOD = 1
  RETRY = 2
  MaxOps = 3
  MaxMishaps = 2
SPECIFICATION Spec
INVARIANTS OneConnection RestartNeverDue
PROPERTIES NetworkIsFound
CHECK_DEADLOCK FALSE
