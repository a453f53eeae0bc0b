SPECIFICATION Spec
CONSTANTS
  Producers = {p1, p2}
  Consumers = {c1, c2}
  Closers = {k1}
  Items = {i1, i2, i3, i4}
  Capacity = 2
  NoItem = NoItem
INVARIANTS
  NoLostItemWakeup
  NoLostSlotWakeup
  OccupancyBounded
  SingleOwner
PROPERTIES
  CloseReleasesSleepers
  ImplementsFifoQueue
