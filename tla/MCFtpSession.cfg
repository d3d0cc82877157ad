CONSTANTS
  f = f
  g = g
  h = h
  Names = {f, g, h}
  Stored <- ServerFiles
  Held <- ClientFiles
  Programs = {"TME07", "TME08"}
  BUFFER_SIZE = 2
  MaxCmds = 3
SPECIFICATION FairSessionSpec
INVARIANTS DownloadExact UploadExact
PROPERTY Answered
CHECK_DEADLOCK FALSE
