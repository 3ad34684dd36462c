------------------------ MODULE MCChunkTradingHistory ------------------------
EXTENDS ChunkTradingHistory, TLC

CONSTANTS s, a, b

\* The source knows both peers, which know each other but not the source.
TreeNbr == (s :> {a, b}) @@ (a :> {b}) @@ (b :> {a})

\* The source and a may both offer to b, which offers to nobody.
FanInNbr == (s :> {a, b}) @@ (a :> {b}) @@ (b :> {})
=============================================================================
