---------------------- MODULE MCChunkTradingRestart ----------------------
EXTENDS ChunkTradingRestart, TLC

CONSTANTS s, a, b

\* A line of mutual neighbours, as the default mode of the topology makes them.
LineNbr == (s :> {a}) @@ (a :> {s, b}) @@ (b :> {a})
=============================================================================
