\* Three producers on up to two slots, two records each, every overflow policy.
CONSTANTS
  p1 = p1
  p2 = p2
  p3 = p3
  Producers = {p1, p2, p3}
  Consumer = Consumer
  Closer = Closer
  NoRecord = NoRecord
  Capacities = {0, 1, 2}
  MaxPush = 2
  Policies = {"Block", "DropNewest", "DropOldest", "Discard"}
SPECIFICATION QueueSpec
CHECK_DEADLOCK FALSE
SYMMETRY ProducerSymmetry
INVARIANTS
  QueueTypeOK
  RingCoherent
  NoLostWakeup
  WakeupsCoverFreeSlots
