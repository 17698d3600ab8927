\* Both policies, changing limits, lookups over a tree of names.
SPECIFICATION Spec
CONSTANTS
  Policy = {"priority_fifo", "lru"}
  DataPacket <- Packets
  Query <- Queries
  TableOrder <- Order
  Limit = {0, 1, 3}
  MaxTime = 2
  MaxOps = 4
INVARIANTS
  ExactlyOneQueue
  EventsMatchFifo
  FindIsRight
PROPERTIES
  EvictionOrder
  ImplementsContract
CHECK_DEADLOCK FALSE
