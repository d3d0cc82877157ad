CONSTANTS
  a = a
  b = b
  c = c
  Alice = Alice
  Bob = Bob
  None = None
  Sessions = {a, b}
  NameOf <- SharedName
  Quitters = {a, b}
  ServerStops = TRUE
  MaxTab = 1
  MaxFd = 9
  MaxLines = 1
SPECIFICATION Spec
INVARIANTS OneToken CountedSlots NullSlots
PROPERTIES RequestStable
CHECK_DEADLOCK FALSE
