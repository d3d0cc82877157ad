CONSTANTS
  Workers = {w1, w2, w3}
  Printer = Printer
  Free = Free
  Programs = {"exclusion", "synchro", "daemon"}
SPECIFICATION FairSpec
INVARIANTS SumIsFinal LastOneSignals
PROPERTY EndsUnlessMissed
CHECK_DEADLOCK FALSE
