CONSTANTS
  a = a
  b = b
  c = c
  Alice = Alice
  Bob = Bob
  None = None
  Sessions = {a, b}
  NameOf <- TwoNames
  Quitters = {}
  ServerStops = FALSE
  MaxTab = 2
  MaxFd = 1
  MaxLines = 1
SPECIFICATION Spec
INVARIANT ServerSurvives
CHECK_DEADLOCK FALSE
