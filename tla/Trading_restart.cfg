SPECIFICATION RSpec
CONSTANTS
  s = s
  a = a
  b = b
  Peers = {s, a, b}
  Source = s
  CbSize = 3
  Lag = 0
  Multiply = 1
  MaxTid = 1
  InitNbr <- LineNbr
  UnknownSizes = {}
  Lossy = FALSE
  Duplicating = FALSE
  MaxChunk = 3
  MaxNet = 2
  MaxChurn = 0
  Outliving = FALSE
  Restarting = {a}
  MaxRestarts = 1
  LastRestart = 4
PROPERTY Diffusion
PROPERTY BeliefsHeal
CHECK_DEADLOCK FALSE
