CONSTANTS
  f = f
  g = g
  h = h
  Names = {f, g, h}
  Stored <- ServerFiles
  Held <- ClientFiles
  Programs = {"TME08"}
  BUFFER_SIZE = 2
  MaxCmds = 3
SPECIFICATION SessionSpec
INVARIANT RefusedMeansMissing
CHECK_DEADLOCK FALSE
