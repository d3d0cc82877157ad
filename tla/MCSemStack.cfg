CONSTANTS
  Producers = {p1, p2}
  Consumers = {k1, k2}
  Size = 2
  Input = 3
SPECIFICATION FairSpec
INVARIANTS MutualExclusion SleepersAccounted NoSleeperForgotten
PROPERTIES EverythingConsumed ImplementsLifo
CHECK_DEADLOCK FALSE
