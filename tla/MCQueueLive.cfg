\* Two producers on up to two slots, two records each, every overflow policy, under
\* fair scheduling.  No symmetry: it is not sound for liveness.
CONSTANTS
  p1 = p1
  p2 = p2
  Producers = {p1, p2}
  Consumer = Consumer
  Closer = Closer
  NoRecord = NoRecord
  Capacities = {0, 1, 2}
  MaxPush = 2
  Policies = {"Block", "DropNewest", "DropOldest", "Discard"}
SPECIFICATION QueueFairSpec
CHECK_DEADLOCK FALSE
PROPERTIES
  ImplementsChannel
  PushReturns
  ShutdownReleases
