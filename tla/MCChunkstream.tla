---------------------------- MODULE MCChunkstream ----------------------------
(* Chunkstream with chunks of different lengths. *)
EXTENDS Chunkstream

Payloads == [c \in 1 .. MaxChunk |-> 1 + (c % 3)]
=============================================================================
