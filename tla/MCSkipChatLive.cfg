CONSTANTS
  a = a
  b = b
  c = c
  Alice = Alice
  Bob = Bob
  None = None
  Sessions = {a, b}
  NameOf <- TwoNames
  Quitters = {b}
  ServerStops = FALSE
  MaxTab = 2
  MaxFd = 9
  MaxLines = 2
SPECIFICATION FairSpec
PROPERTIES EveryLineEchoed OnlyLeaversBlock OnlyLeaversLeave ImplementsRoom
CHECK_DEADLOCK FALSE
