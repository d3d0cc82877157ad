CONSTANTS
  Sons = {s1, s2, s3, s4}
  ForkFails = TRUE
SPECIFICATION FairSpec
INVARIANTS DestroyedUnused
PROPERTIES ImplementsBarrier Termination
CHECK_DEADLOCK FALSE
