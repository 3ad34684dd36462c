SPECIFICATION Spec
CONSTANTS
  MaxChunk = 5
  Payload <- Payloads
  HeaderLen = 2
  BufSize = 8
  Tcp = TRUE
INVARIANTS TypeOK DecodesWhatWasFramed
PROPERTY EveryChunkIsRead
CHECK_DEADLOCK FALSE
