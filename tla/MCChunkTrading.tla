--------------------------- MODULE MCChunkTrading ---------------------------
EXTENDS ChunkTrading, TLC

CONSTANTS s, a

\* Nobody knows anybody yet.
NoNbr == [p \in Peers |-> {}]
=============================================================================
