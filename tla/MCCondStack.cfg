CONSTANTS
  Producers = {p1, p2}
  Consumers = {k1, k2}
  Size = 2
  Input = 3
  Free = Free
SPECIFICATION FairSpec
INVARIANTS NoLostWakeup Conservation
PROPERTIES EverythingConsumed ImplementsLifo
CHECK_DEADLOCK FALSE
