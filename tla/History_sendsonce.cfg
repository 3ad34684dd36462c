SPECIFICATION HSpec
CONSTANTS
  s = s
  a = a
  b = b
  Peers = {s, a, b}
  Source = s
  CbSize = 3
  Lag = 0
  Multiply = 1
  MaxTid = 1
  InitNbr <- TreeNbr
  UnknownSizes = {0, 2}
  Lossy = FALSE
  Duplicating = FALSE
  MaxChunk = 3
  MaxNet = 2
  MaxChurn = 0
PROPERTY SendsOnce
CHECK_DEADLOCK FALSE
