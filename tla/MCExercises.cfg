CONSTANTS
  x = x
  one = one
  two = two
  f = f
  g = g
  nl = nl
  N = 3
  Programs <- AllPrograms
  MaxRound = 3
  MaxInts = 2
  Jobs <- TwoFiles
  FileSize = 2
  Variables = {x}
  Contents = {one, two}
  Clients = {0, 1}
  MaxQueries = 2
  DISPLACEMENT = 2
  Sources <- SomeFiles
  Newline = nl
  MaxPending = 5
SPECIFICATION Spec
INVARIANTS InOrder SumComplete ReadOrUnnotified BarrierHolds ChainHeard AllConverted AnswersAgree Reversed
PROPERTY Ends
CHECK_DEADLOCK FALSE
