\* Discovery is restarted, or another thread connects, between a test of started and the
\* connectGatt that follows it.
CONSTANTS
  p = p
  q = q
  r = r
  Device <- MCDevice
  Smaller <- MCSmaller
  NoGatt = NoGatt
  None = None
  SCAN_PERIOD = 1
  RETRY = 2
  MaxOps = 3
  MaxMishaps = 2
SPECIFICATION Spec
INVARIANTS AlwaysOneConnection
CHECK_DEADLOCK FALSE
