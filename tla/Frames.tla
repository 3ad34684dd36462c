-------------------------------- MODULE Frames --------------------------------
(***************************************************************************)
(* The byte stream that output-chunkstream.c writes and input-chunkstream.c *)
(* reads: every chunk as a length in HeaderLen bytes and its encoding.     *)
(* A byte is the chunk it belongs to and its position in that chunk's      *)
(* frame.                                                                  *)
(***************************************************************************)
EXTENDS Integers, Sequences

CONSTANTS
  MaxChunk,   \* bound: chunks written
  Payload,    \* Payload[c]: bytes encodeChunk makes of chunk c
  HeaderLen,  \* sizeof(size), 4 in the code
  BufSize     \* BUFSIZE of the two files

VARIABLE wire  \* bytes of the connection, written and not read yet

Chunks == 1 .. MaxChunk

\* A chunk that fits BUFSIZE only without its length is left out: the reader could
\* never hold its frame, and would wait for the rest of it for ever.
ASSUME FramesAssumption ==
  /\ MaxChunk \in Nat /\ HeaderLen \in Nat \ {0} /\ BufSize \in Nat
  /\ Payload \in [Chunks -> Nat \ {0}]
  /\ \A c \in Chunks : HeaderLen + Payload[c] <= BufSize

FrameLen(c) == HeaderLen + Payload[c]

Frame(c) == [i \in 1 .. FrameLen(c) |-> <<c, i>>]

\* What is left of the length 2^32 - 1: pos moves by sizeof(size) + size, which
\* is HeaderLen - 1 in an int.
Damage == [i \in 1 .. HeaderLen - 1 |-> <<0, i>>]

Damaged(s) == \E i \in DOMAIN s : s[i][1] = 0

\* memmove(buf, buf + n, ...)
After(s, n) == SubSeq(s, n + 1, Len(s))
=============================================================================
