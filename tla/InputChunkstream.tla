--------------------------- MODULE InputChunkstream ---------------------------
(***************************************************************************)
(* input_get of input-chunkstream.c: each call reads what has arrived, up  *)
(* to the free part of its buffer, and hands out at most one chunk.        *)
(***************************************************************************)
EXTENDS Frames

VARIABLES
  recvbuf,  \* the first pos bytes of recvbuf
  decoded,  \* chunks handed out since the connection began
  again     \* the call returned 0: there is another chunk in the buffer

inVars == <<recvbuf, decoded, again>>

\* Is there a whole frame at the start of s?  A damaged length exceeds any buffer.
Complete(s) ==
  /\ Len(s) >= HeaderLen
  /\ s[1][1] # 0
  /\ Len(s) >= FrameLen(s[1][1])

\* The chunk decoded from the frame at the start of s: 0 if it is not as written.
Decoded(s) ==
  LET c == s[1][1]
  IN  IF SubSeq(s, 1, FrameLen(c)) = Frame(c) THEN c ELSE 0

\* What is left once the frame at the start of s is taken from the buffer.
Rest(s) == After(s, FrameLen(s[1][1]))

\* Fault: the caller is never told to come back at once.
MoreNever(s) == FALSE

\* Is 0 returned, rather than INT_MAX?
More(s) == Complete(s)

InInit ==
  /\ recvbuf = <<>>
  /\ decoded = <<>>
  /\ again = FALSE

\* recv returns up to n bytes; without any it fails with EAGAIN.
UpTo(n) == IF n = 0 THEN {0} ELSE 1 .. n

\* Fault: BUFSIZE is asked for, whatever the buffer holds.
ReceivedFull == UpTo(IF Len(wire) < BufSize THEN Len(wire) ELSE BufSize)

\* How many bytes recv may return.
Received ==
  LET free == BufSize - Len(recvbuf)
  IN  UpTo(IF Len(wire) < free THEN Len(wire) ELSE free)

InputGet ==
  \E n \in Received :
    LET s == recvbuf \o SubSeq(wire, 1, n)
    IN  /\ wire' = After(wire, n)
        /\ decoded' = IF Complete(s) THEN Append(decoded, Decoded(s)) ELSE decoded
        /\ recvbuf' = IF Complete(s) THEN Rest(s) ELSE s
        /\ again' = More(recvbuf')
=============================================================================
