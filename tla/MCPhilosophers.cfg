CONSTANTS
  NB_PROCS = 4
  Mortal = {0}
SPECIFICATION FairSpec
INVARIANTS Neighbours NoStaleFlag
PROPERTY SomebodyEats
CHECK_DEADLOCK FALSE
