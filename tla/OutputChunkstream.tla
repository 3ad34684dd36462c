--------------------------- MODULE OutputChunkstream ---------------------------
(***************************************************************************)
(* chunk_write of output-chunkstream.c: chunks are framed into a buffer,   *)
(* and each call writes as much of it as the connection takes.             *)
(*                                                                         *)
(* encodeChunk is told that BUFSIZE - pos bytes are free although the      *)
(* length takes HeaderLen of them; here the memory behind sendbuf, which a *)
(* frame may then reach, keeps what is written to it.                      *)
(***************************************************************************)
EXTENDS Frames

CONSTANT Tcp  \* mode = TCP_MODE

VARIABLES
  next,     \* the next chunk to be written
  sendbuf,  \* the first pos bytes of sendbuf
  fd,       \* "none" (-1), "open", or "broken": a socket that did not connect
  framed    \* chunks framed since the stream on fd began

outVars == <<next, sendbuf, fd, framed>>

\* What fd is after output_connect; a file that was not opened stays so.
Connects == IF Tcp THEN {"none", "open", "broken"} ELSE {"none", "open"}

\* What fd is when chunk_write is about to write.
Reconnected == IF Tcp /\ fd = "none" THEN Connects ELSE {fd}

\* "Error encoding chunk or no space in output buffer"
NoSpace(c) == Payload[c] > BufSize - Len(sendbuf)

\* Fault: the length is not counted in pos.
EncodedShort(c) ==
  IF NoSpace(c) THEN sendbuf \o Damage
                ELSE sendbuf \o SubSeq(Frame(c), 1, Payload[c])

\* sendbuf with chunk c; size is unsigned, so that the test for the error of
\* encodeChunk, -1, fails and -1 is taken for a length.
Encoded(c) == IF NoSpace(c) THEN sendbuf \o Damage ELSE sendbuf \o Frame(c)

\* What is kept once n bytes of the buffer are written.
Unsent(out, n) == After(out, n)

\* out_stream_init
OutInit ==
  /\ next = 1
  /\ sendbuf = <<>>
  /\ fd \in Connects
  /\ wire = <<>>
  /\ framed = <<>>

\* chunk_write without a connection: the frame waits in the buffer.
ChunkHeld ==
  /\ next \in Chunks
  /\ "none" \in Reconnected
  /\ fd' = "none"
  /\ sendbuf' = Encoded(next)
  /\ framed' = IF NoSpace(next) THEN framed ELSE Append(framed, next)
  /\ next' = next + 1
  /\ UNCHANGED wire

\* chunk_write: n bytes of the buffer are taken (none when the output stalls).
ChunkWritten ==
  /\ next \in Chunks
  /\ "open" \in Reconnected
  /\ fd' = "open"
  /\ \E n \in 0 .. Len(Encoded(next)) :
       /\ wire' = wire \o SubSeq(Encoded(next), 1, n)
       /\ sendbuf' = Unsent(Encoded(next), n)
  /\ framed' = IF NoSpace(next) THEN framed ELSE Append(framed, next)
  /\ next' = next + 1

\* chunk_write: the write fails; the descriptor and the buffer are given up.
ChunkLost ==
  /\ next \in Chunks
  /\ \E f \in Reconnected : f # "none"
  /\ fd' = "none"
  /\ sendbuf' = <<>>
  /\ wire' = <<>>
  /\ framed' = <<>>
  /\ next' = next + 1
=============================================================================
