------------------------------ MODULE Chunkstream ------------------------------
(***************************************************************************)
(* The chunkstream output of one streamer connected to the chunkstream     *)
(* input of another: OutputChunkstream and InputChunkstream over one TCP   *)
(* connection.  input_open accepts one connection in its life, so a stream *)
(* that ends also ends its reader, and the next one has a new reader.      *)
(***************************************************************************)
EXTENDS OutputChunkstream, InputChunkstream

vars == <<next, sendbuf, fd, wire, framed, recvbuf, decoded, again>>

Init == OutInit /\ InInit

Write == (ChunkHeld \/ ChunkWritten) /\ UNCHANGED inVars

Fail == ChunkLost /\ recvbuf' = <<>> /\ decoded' = <<>> /\ again' = FALSE

\* The source's loop calls input_get when data arrives, when it was told to,
\* and whenever its timer runs out.
Read == InputGet /\ UNCHANGED outVars

\* The calls that do not need the timer.
Prompted == (wire # <<>> \/ again) /\ Read

Next == Write \/ Fail \/ Read

Spec == Init /\ [][Next]_vars /\ WF_vars(Prompted)

-----------------------------------------------------------------------------
Bytes == {<<c, i>> : c \in 0 .. MaxChunk, i \in 1 .. BufSize}

(* Types; the reader never holds more than its buffer (input_get).           *)
TypeOK ==
  /\ next \in 1 .. MaxChunk + 1
  /\ fd \in {"none", "open", "broken"}
  /\ sendbuf \in Seq(Bytes) /\ wire \in Seq(Bytes) /\ recvbuf \in Seq(Bytes)
  /\ framed \in Seq(Chunks) /\ decoded \in Seq({0} \union Chunks)
  /\ again \in BOOLEAN
  /\ Len(recvbuf) <= BufSize

(* However writes and reads are cut, the reader hands out the chunks that    *)
(* were framed on its connection, each once, in their order, none left out,  *)
(* even when the stream is damaged behind them (chunk_write, input_get).     *)
DecodesWhatWasFramed ==
  /\ Len(decoded) <= Len(framed)
  /\ \A i \in DOMAIN decoded : decoded[i] = framed[i]

\* The last byte of chunk c is on its way to the reader, or with it.
Arrived(c) == \E i \in DOMAIN (recvbuf \o wire) : (recvbuf \o wire)[i] = <<c, FrameLen(c)>>

(* A chunk that was written to its last byte is handed out, though input_get *)
(* hands out one a call and may read several at once, and though nothing may *)
(* arrive behind it; unless the connection ends or its stream is damaged.    *)
EveryChunkIsRead ==
  \A c \in Chunks :
    Arrived(c) ~> \/ ~Arrived(c)
                  \/ Damaged(recvbuf \o wire)
=============================================================================
