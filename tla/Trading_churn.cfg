SPECIFICATION Spec
CONSTANTS
  s = s
  a = a
  Peers = {s, a}
  Source = s
  CbSize = 3
  Lag = 0
  Multiply = 1
  MaxTid = 1
  InitNbr <- NoNbr
  UnknownSizes = {0, 2}
  Lossy = FALSE
  Duplicating = TRUE
  MaxChunk = 5
  MaxNet = 2
  MaxChurn = 3
INVARIANT TypeOK
INVARIANT SourceNeverAccepts
INVARIANT NoPhantomChunks
PROPERTY AcksCloseAccepted
PROPERTY NeverRerequests
PROPERTY AcceptsStorable
CHECK_DEADLOCK FALSE
