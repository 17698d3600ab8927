\* The constants of dead-nonce-list.cpp; MAX_CAPACITY is reached by the highest rate.
SPECIFICATION SteadySpec
CONSTANTS
  Pair = {p1}
  MARK = MARK
  INITIAL_CAPACITY = 128
  MIN_CAPACITY = 8
  MAX_CAPACITY = 256
  EXPECTED_MARK_COUNT = 5
  EVICT_LIMIT = 64
  MaxLate = 0
  Rate = {0, 1, 2, 3, 4, 5, 6, 7, 8, 13, 21, 34, 60}
PROPERTIES
  EventuallyKeptForLifetime
