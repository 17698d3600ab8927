\* Capacities scaled down; 5 is the least capacity from which CAPACITY_UP can grow.
SPECIFICATION Spec
CONSTANTS
  Pair = {p1, p2}
  MARK = MARK
  INITIAL_CAPACITY = 5
  MIN_CAPACITY = 5
  MAX_CAPACITY = 6
  EXPECTED_MARK_COUNT = 2
  EVICT_LIMIT = 3
  MaxLate = 1
INVARIANTS
  RecentKept
  MemoryBounded
  CountsBeforeAdjust
