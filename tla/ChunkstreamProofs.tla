--------------------------- MODULE ChunkstreamProofs ---------------------------
(***************************************************************************)
(* That the chunkstream reader hands out what the writer framed, for any   *)
(* lengths of chunks, header and buffer and any cuts of writes and reads.  *)
(***************************************************************************)
EXTENDS Chunkstream, SequenceTheorems, TLAPS

\* All that was framed and is not handed out: on the reader's side, under way,
\* on the writer's side.
Stream == recvbuf \o (wire \o sendbuf)

\* The frame of c is in s, behind its first b bytes.
FrameAt(s, c, b) ==
  /\ b + FrameLen(c) <= Len(s)
  /\ \A h \in 1 .. FrameLen(c) : s[b + h] = <<c, h>>

\* Behind the first e bytes of s, which end with the frame of c, is damage, the
\* frame of the chunk framed after c, or nothing: c was the last.
Follows(s, f, c, e) ==
  \E n \in DOMAIN f :
    /\ f[n] = c
    /\ \/ e = Len(s) /\ n = Len(f)
       \/ e < Len(s) /\ s[e + 1][1] = 0
       \/ e < Len(s) /\ n < Len(f) /\ s[e + 1] = <<f[n + 1], 1>>

\* A frame that begins in s is there to its last byte.
Framing(s, f) ==
  \A b \in 0 .. Len(s) - 1, c \in Chunks :
    s[b + 1] = <<c, 1>> => FrameAt(s, c, b) /\ Follows(s, f, c, b + FrameLen(c))

\* s begins with damage or with the frame of the chunk that follows the first k.
Front(s, f, k) ==
  \/ Len(s) = 0 /\ k = Len(f)
  \/ Len(s) > 0 /\ s[1][1] = 0
  \/ Len(s) > 0 /\ k < Len(f) /\ s[1] = <<f[k + 1], 1>>

\* r is z without its first m bytes.
Less(r, z, m) ==
  r \in Seq(Bytes) /\ Len(r) = Len(z) - m /\ \A i \in 1 .. Len(r) : r[i] = z[m + i]

\* z begins with a.
Begins(z, a) ==
  Len(a) <= Len(z) /\ \A i \in 1 .. Len(a) : z[i] = a[i]

\* Chunks are framed in their order, each once.
Ordered(f, c) ==
  /\ \A i, j \in DOMAIN f : i < j => f[i] < f[j]
  /\ \A i \in DOMAIN f : f[i] < c

\* The inductive invariant.
StreamInv ==
  /\ TypeOK
  /\ Ordered(framed, next)
  /\ Framing(Stream, framed)
  /\ Front(Stream, framed, Len(decoded))
  /\ DecodesWhatWasFramed

-----------------------------------------------------------------------------
\* A frame fits the buffer, and is more than one byte long.
LEMMA FrameFact ==
  ASSUME NEW c \in Chunks
  PROVE  /\ c \in Nat \ {0} /\ HeaderLen \in Nat \ {0} /\ BufSize \in Nat
         /\ FrameLen(c) \in Nat /\ FrameLen(c) > HeaderLen /\ FrameLen(c) <= BufSize
         /\ FrameLen(c) > 1
         /\ Frame(c) \in Seq(Bytes) /\ Len(Frame(c)) = FrameLen(c)
         /\ \A h \in 1 .. FrameLen(c) : Frame(c)[h] = <<c, h>>
<1>1. /\ c \in Nat \ {0} /\ HeaderLen \in Nat \ {0} /\ BufSize \in Nat /\ MaxChunk \in Nat
      /\ FrameLen(c) \in Nat /\ FrameLen(c) > HeaderLen /\ FrameLen(c) <= BufSize
      /\ FrameLen(c) > 1
  BY FramesAssumption DEF FrameLen, Chunks
<1>2. \A h \in 1 .. FrameLen(c) : <<c, h>> \in Bytes
  BY <1>1 DEF Bytes, Chunks
<1> HIDE DEF Bytes, FrameLen
<1>3. /\ Frame(c) \in Seq(Bytes) /\ Len(Frame(c)) = FrameLen(c)
      /\ \A h \in 1 .. FrameLen(c) : Frame(c)[h] = <<c, h>>
  BY <1>1, <1>2 DEF Frame
<1> QED
  BY <1>1, <1>3

LEMMA DamageFact ==
  ASSUME NEW c \in Chunks
  PROVE  /\ Damage \in Seq(Bytes) /\ Len(Damage) \in Nat
         /\ \A h \in 1 .. Len(Damage) : Damage[h][1] = 0
<1>1. HeaderLen \in Nat \ {0} /\ BufSize \in Nat /\ HeaderLen < BufSize /\ MaxChunk \in Nat
  BY FrameFact, FramesAssumption
<1>2. \A h \in 1 .. HeaderLen - 1 : <<0, h>> \in Bytes
  BY <1>1 DEF Bytes
<1> HIDE DEF Bytes
<1> QED
  BY <1>1, <1>2 DEF Damage

\* chunk_write appends a frame.
LEMMA AppendFrame ==
  ASSUME NEW s \in Seq(Bytes), NEW f \in Seq(Chunks), NEW c \in Chunks, NEW k \in Nat,
         Framing(s, f), Front(s, f, k), k <= Len(f),
         NEW r \in Seq(Bytes), Len(r) = Len(s) + FrameLen(c),
         \A i \in 1 .. Len(s) : r[i] = s[i],
         \A h \in 1 .. FrameLen(c) : r[Len(s) + h] = <<c, h>>,
         NEW g \in Seq(Chunks), Len(g) = Len(f) + 1, g[Len(f) + 1] = c,
         \A n \in 1 .. Len(f) : g[n] = f[n]
  PROVE  Framing(r, g) /\ Front(r, g, k)
<1>1. /\ Len(s) \in Nat /\ Len(f) \in Nat /\ FrameLen(c) \in Nat /\ FrameLen(c) > 1
      /\ DOMAIN f = 1 .. Len(f) /\ DOMAIN g = 1 .. Len(f) + 1
      /\ r[Len(s) + 1] = <<c, 1>>
  BY FrameFact, SMTT(30)
<1>2. ASSUME NEW b \in 0 .. Len(r) - 1, NEW d \in Chunks, r[b + 1] = <<d, 1>>
      PROVE  FrameAt(r, d, b) /\ Follows(r, g, d, b + FrameLen(d))
  <2>1. FrameLen(d) \in Nat /\ FrameLen(d) > 1 /\ b \in Nat
    BY FrameFact
  <2>2. CASE b < Len(s)
    <3>1. s[b + 1] = <<d, 1>> /\ b \in 0 .. Len(s) - 1
      BY <1>1, <1>2, <2>1, <2>2, SMTT(30)
    <3>2. FrameAt(s, d, b) /\ Follows(s, f, d, b + FrameLen(d))
      BY <3>1 DEF Framing
    <3>3. FrameAt(r, d, b)
      <4>1. b + FrameLen(d) <= Len(s) /\ \A h \in 1 .. FrameLen(d) : s[b + h] = <<d, h>>
        BY <3>2 DEF FrameAt
      <4>2. ASSUME NEW h \in 1 .. FrameLen(d) PROVE r[b + h] = <<d, h>>
        <5>1. b + h \in 1 .. Len(s)
          BY <1>1, <2>1, <4>1, SMTT(30)
        <5>2. r[b + h] = s[b + h]
          BY <5>1
        <5> QED
          BY <4>1, <5>2
      <4>3. b + FrameLen(d) <= Len(r)
        BY <1>1, <2>1, <4>1, SMTT(30)
      <4> QED
        BY <4>2, <4>3 DEF FrameAt
    <3>4. Follows(r, g, d, b + FrameLen(d))
      <4> DEFINE e == b + FrameLen(d)
      <4>1. e \in Nat /\ e <= Len(s)
        BY <2>1, <3>2, SMTT(30) DEF FrameAt
      <4> HIDE DEF e
      <4>2. PICK n \in 1 .. Len(f) :
              /\ f[n] = d
              /\ \/ e = Len(s) /\ n = Len(f)
                 \/ e < Len(s) /\ s[e + 1][1] = 0
                 \/ e < Len(s) /\ n < Len(f) /\ s[e + 1] = <<f[n + 1], 1>>
        BY <1>1, <3>2, ZenonT(60) DEF Follows, e
      <4>3. n \in DOMAIN g /\ g[n] = d /\ n < Len(g) /\ n \in Nat
        <5>1. n \in Nat /\ n < Len(f) + 1 /\ n \in 1 .. Len(f) + 1
          BY <1>1
        <5>2. g[n] = f[n]
          OBVIOUS
        <5> QED
          BY <1>1, <4>2, <5>1, <5>2
      <4>4. CASE e = Len(s) /\ n = Len(f)
        <5>1. e < Len(r) /\ r[e + 1] = <<g[n + 1], 1>>
          BY <1>1, <4>1, <4>4, SMTT(30)
        <5> QED
          BY <4>3, <5>1 DEF Follows, e
      <4>5. CASE e < Len(s)
        <5>1. e < Len(r) /\ r[e + 1] = s[e + 1]
          BY <1>1, <4>1, <4>5, SMTT(30)
        <5>2. n < Len(f) => g[n + 1] = f[n + 1]
          BY <1>1, <4>3, SMTT(30)
        <5> QED
          BY <4>2, <4>3, <4>5, <5>1, <5>2, SMTT(30) DEF Follows, e
      <4> QED
        BY <4>2, <4>4, <4>5
    <3> QED
      BY <3>3, <3>4
  <2>3. CASE b >= Len(s)
    <3>1. b + 1 - Len(s) \in 1 .. FrameLen(c) /\ Len(s) + (b + 1 - Len(s)) = b + 1
      BY <1>1, <2>1, <2>3, SMTT(30)
    <3>2. r[b + 1] = <<c, b + 1 - Len(s)>>
      BY <3>1
    <3>3. d = c /\ b = Len(s)
      BY <1>1, <1>2, <2>1, <3>2
    <3>4. FrameAt(r, d, b)
      BY <1>1, <3>3, SMTT(30) DEF FrameAt
    <3>5. Follows(r, g, d, b + FrameLen(d))
      <4>1. /\ Len(f) + 1 \in DOMAIN g /\ g[Len(f) + 1] = d
            /\ b + FrameLen(d) = Len(r) /\ Len(f) + 1 = Len(g)
        BY <1>1, <3>3
      <4> QED
        BY <4>1 DEF Follows
    <3> QED
      BY <3>4, <3>5
  <2> QED
    BY <1>1, <2>1, <2>2, <2>3
<1>3. Front(r, g, k)
  <2>1. Len(r) > 0
    BY <1>1
  <2>2. CASE Len(s) = 0 /\ k = Len(f)
    <3>1. r[1] = <<g[k + 1], 1>> /\ k < Len(g)
      BY <1>1, <2>2
    <3> QED
      BY <2>1, <3>1 DEF Front
  <2>3. CASE Len(s) > 0
    <3>1. r[1] = s[1]
      <4>1. 1 \in 1 .. Len(s)
        BY <1>1, <2>3
      <4> QED
        BY <4>1
    <3>2. k < Len(f) => g[k + 1] = f[k + 1] /\ k < Len(g)
      BY <1>1
    <3> QED
      BY <2>1, <2>3, <3>1, <3>2 DEF Front
  <2> QED
    BY <1>1, <2>2, <2>3 DEF Front
<1> QED
  BY <1>2, <1>3 DEF Framing

\* chunk_write appends a length that is no chunk's.
LEMMA AppendDamage ==
  ASSUME NEW s \in Seq(Bytes), NEW f \in Seq(Chunks), NEW k \in Nat,
         Framing(s, f), Front(s, f, k), k <= Len(f),
         NEW m \in Nat, NEW r \in Seq(Bytes), Len(r) = Len(s) + m,
         \A i \in 1 .. Len(s) : r[i] = s[i],
         \A h \in 1 .. m : r[Len(s) + h][1] = 0
  PROVE  Framing(r, f) /\ Front(r, f, k)
<1>1. Len(s) \in Nat /\ Len(f) \in Nat /\ DOMAIN f = 1 .. Len(f)
  OBVIOUS
<1>2. ASSUME NEW b \in 0 .. Len(r) - 1, NEW d \in Chunks, r[b + 1] = <<d, 1>>
      PROVE  FrameAt(r, d, b) /\ Follows(r, f, d, b + FrameLen(d))
  <2>1. FrameLen(d) \in Nat /\ FrameLen(d) > 1 /\ b \in Nat /\ d # 0
    BY FrameFact
  <2>2. b < Len(s)
    <3> SUFFICES ASSUME b >= Len(s) PROVE FALSE
      BY <1>1, <2>1
    <3>1. b + 1 - Len(s) \in 1 .. m /\ Len(s) + (b + 1 - Len(s)) = b + 1
      BY <1>1, <2>1
    <3>2. r[b + 1][1] = 0
      BY <3>1
    <3> QED
      BY <1>2, <2>1, <3>2
  <2>3. s[b + 1] = <<d, 1>> /\ b \in 0 .. Len(s) - 1
    BY <1>1, <1>2, <2>1, <2>2
  <2>4. FrameAt(s, d, b) /\ Follows(s, f, d, b + FrameLen(d))
    BY <2>3 DEF Framing
  <2>5. FrameAt(r, d, b)
    <3>1. b + FrameLen(d) <= Len(s) /\ \A h \in 1 .. FrameLen(d) : s[b + h] = <<d, h>>
      BY <2>4 DEF FrameAt
    <3>2. ASSUME NEW h \in 1 .. FrameLen(d) PROVE r[b + h] = <<d, h>>
      <4>1. b + h \in 1 .. Len(s)
        BY <1>1, <2>1, <3>1
      <4>2. r[b + h] = s[b + h]
        BY <4>1
      <4> QED
        BY <3>1, <4>2
    <3>3. b + FrameLen(d) <= Len(r)
      BY <1>1, <2>1, <3>1
    <3> QED
      BY <3>2, <3>3 DEF FrameAt
  <2>6. Follows(r, f, d, b + FrameLen(d))
    <3> DEFINE e == b + FrameLen(d)
    <3>1. e \in Nat /\ e <= Len(s)
      BY <2>1, <2>4 DEF FrameAt
    <3> HIDE DEF e
    <3>2. PICK n \in DOMAIN f :
            /\ f[n] = d
            /\ \/ e = Len(s) /\ n = Len(f)
               \/ e < Len(s) /\ s[e + 1][1] = 0
               \/ e < Len(s) /\ n < Len(f) /\ s[e + 1] = <<f[n + 1], 1>>
      BY <2>4 DEF Follows, e
    <3>3. CASE e = Len(s) /\ n = Len(f)
      <4>1. CASE m = 0
        <5>1. e = Len(r)
          BY <1>1, <3>1, <3>3, <4>1
        <5> QED
          BY <3>2, <3>3, <5>1 DEF Follows, e
      <4>2. CASE m # 0
        <5>1. e < Len(r) /\ 1 \in 1 .. m
          BY <1>1, <3>1, <3>3, <4>2
        <5>2. r[e + 1][1] = 0
          BY <3>3, <5>1
        <5> QED
          BY <3>2, <5>1, <5>2 DEF Follows, e
      <4> QED
        BY <4>1, <4>2
    <3>4. CASE e < Len(s)
      <4>1. e < Len(r) /\ e + 1 \in 1 .. Len(s)
        BY <1>1, <3>1, <3>4
      <4>2. r[e + 1] = s[e + 1]
        BY <4>1
      <4> QED
        BY <3>2, <3>4, <4>1, <4>2, SMTT(30) DEF Follows, e
    <3> QED
      BY <3>2, <3>3, <3>4
  <2> QED
    BY <2>5, <2>6
<1>3. Front(r, f, k)
  <2>1. CASE Len(s) = 0
    <3>1. k = Len(f) /\ Len(r) = m
      BY <1>1, <2>1 DEF Front
    <3>2. CASE m = 0
      BY <3>1, <3>2 DEF Front
    <3>3. CASE m > 0
      <4>1. 1 \in 1 .. m /\ 0 + 1 = 1
        BY <3>3
      <4>2. r[1][1] = 0
        BY <2>1, <4>1
      <4> QED
        BY <3>1, <3>3, <4>2 DEF Front
    <3> QED
      BY <3>2, <3>3
  <2>2. CASE Len(s) > 0
    <3>1. 1 \in 1 .. Len(s) /\ Len(r) > 0
      BY <1>1, <2>2
    <3>2. r[1] = s[1]
      BY <3>1
    <3> QED
      BY <2>2, <3>1, <3>2 DEF Front
  <2> QED
    BY <1>1, <2>1, <2>2
<1> QED
  BY <1>2, <1>3 DEF Framing

\* input_get takes the first frame out.
LEMMA DropFrame ==
  ASSUME NEW s \in Seq(Bytes), NEW f \in Seq(Chunks), NEW k \in Nat, NEW top,
         Framing(s, f), Ordered(f, top),
         Len(s) > 0, k < Len(f), s[1] = <<f[k + 1], 1>>
  PROVE  LET c == f[k + 1] IN
         /\ c \in Chunks /\ FrameAt(s, c, 0)
         /\ \A r : Less(r, s, FrameLen(c)) => Framing(r, f) /\ Front(r, f, k + 1)
<1> DEFINE c == f[k + 1]
           m == FrameLen(c)
<1>1. /\ Len(s) \in Nat /\ Len(f) \in Nat /\ DOMAIN f = 1 .. Len(f)
      /\ k + 1 \in DOMAIN f /\ \A n \in DOMAIN f : f[n] \in Chunks
  OBVIOUS
<1>2. c \in Chunks /\ m \in Nat /\ m > 1
  BY <1>1, FrameFact
<1>3. FrameAt(s, c, 0) /\ Follows(s, f, c, m)
  <2>1. 0 \in 0 .. Len(s) - 1 /\ s[0 + 1] = <<c, 1>>
    BY <1>1
  <2>2. FrameAt(s, c, 0) /\ Follows(s, f, c, 0 + m)
    BY <1>2, <2>1 DEF Framing
  <2> QED
    BY <1>2, <2>2
<1>4. m <= Len(s)
  BY <1>2, <1>3 DEF FrameAt
<1>5. ASSUME NEW n \in DOMAIN f, f[n] = c PROVE n = k + 1
  <2>1. /\ n \in Nat /\ f[n] \in Nat /\ f[k + 1] \in Nat
        /\ \A i, j \in DOMAIN f : i < j => f[i] < f[j]
    BY <1>1, FrameFact DEF Ordered
  <2> QED
    BY <1>1, <1>5, <2>1
<1> SUFFICES ASSUME NEW r \in Seq(Bytes), Len(r) = Len(s) - m,
                    \A i \in 1 .. Len(r) : r[i] = s[m + i]
             PROVE  Framing(r, f) /\ Front(r, f, k + 1)
  BY <1>2, <1>3 DEF Less
<1> HIDE DEF c, m
<1>6. ASSUME NEW b \in 0 .. Len(r) - 1, NEW d \in Chunks, r[b + 1] = <<d, 1>>
      PROVE  FrameAt(r, d, b) /\ Follows(r, f, d, b + FrameLen(d))
  <2>1. FrameLen(d) \in Nat /\ FrameLen(d) > 1 /\ b \in Nat /\ Len(r) \in Nat
    BY FrameFact
  <2>2. /\ s[(m + b) + 1] = <<d, 1>> /\ m + b \in 0 .. Len(s) - 1
    <3>1. b + 1 \in 1 .. Len(r) /\ m + (b + 1) = (m + b) + 1 /\ m + b \in 0 .. Len(s) - 1
      BY <1>1, <1>2, <2>1
    <3> QED
      BY <1>6, <3>1
  <2>3. FrameAt(s, d, m + b) /\ Follows(s, f, d, (m + b) + FrameLen(d))
    BY <2>2 DEF Framing
  <2>4. b + FrameLen(d) <= Len(r)
    BY <1>1, <1>2, <2>1, <2>3, SMTT(30) DEF FrameAt
  <2>5. FrameAt(r, d, b)
    <3>1. ASSUME NEW h \in 1 .. FrameLen(d) PROVE r[b + h] = <<d, h>>
      <4>1. b + h \in 1 .. Len(r) /\ m + (b + h) = (m + b) + h
        BY <1>2, <2>1, <2>4, SMTT(30)
      <4>2. r[b + h] = s[(m + b) + h]
        BY <4>1
      <4> QED
        BY <2>3, <4>2 DEF FrameAt
    <3> QED
      BY <2>4, <3>1 DEF FrameAt
  <2>6. Follows(r, f, d, b + FrameLen(d))
    <3> DEFINE e == b + FrameLen(d)
               x == (m + b) + FrameLen(d)
    <3>1. e \in Nat /\ e <= Len(r) /\ x = m + e
      BY <1>2, <2>1, <2>4, SMTT(30)
    <3> HIDE DEF e, x
    <3>2. PICK n \in DOMAIN f :
            /\ f[n] = d
            /\ \/ x = Len(s) /\ n = Len(f)
               \/ x < Len(s) /\ s[x + 1][1] = 0
               \/ x < Len(s) /\ n < Len(f) /\ s[x + 1] = <<f[n + 1], 1>>
      BY <2>3 DEF Follows, x
    <3>3. CASE x = Len(s)
      <4>1. e = Len(r) /\ n = Len(f)
        BY <1>1, <1>2, <3>1, <3>2, <3>3, SMTT(30)
      <4> QED
        BY <3>2, <4>1 DEF Follows, e
    <3>4. CASE x < Len(s)
      <4>1. e < Len(r) /\ e + 1 \in 1 .. Len(r) /\ m + (e + 1) = x + 1
        BY <1>1, <1>2, <3>1, <3>4
      <4>2. r[e + 1] = s[x + 1]
        BY <4>1, SMTT(30)
      <4> QED
        BY <3>2, <3>4, <4>1, <4>2, SMTT(30) DEF Follows, e
    <3> QED
      BY <3>2, <3>3, <3>4
  <2> QED
    BY <2>5, <2>6
<1>7. Front(r, f, k + 1)
  <2>1. \/ m = Len(s) /\ k + 1 = Len(f)
        \/ m < Len(s) /\ s[m + 1][1] = 0
        \/ m < Len(s) /\ k + 1 < Len(f) /\ s[m + 1] = <<f[(k + 1) + 1], 1>>
    BY <1>3, <1>5 DEF Follows
  <2>2. CASE m = Len(s)
    <3>1. Len(r) = 0 /\ k + 1 = Len(f)
      BY <1>1, <1>2, <2>1, <2>2
    <3> QED
      BY <3>1 DEF Front
  <2>3. CASE m < Len(s)
    <3>1. Len(r) > 0 /\ 1 \in 1 .. Len(r)
      BY <1>1, <1>2, <2>3
    <3>2. r[1] = s[m + 1]
      BY <3>1
    <3> QED
      BY <2>1, <2>3, <3>1, <3>2 DEF Front
  <2> QED
    BY <1>1, <1>2, <1>4, <2>2, <2>3
<1> QED
  BY <1>6, <1>7 DEF Framing

-----------------------------------------------------------------------------
\* What memmove leaves.
LEMMA AfterFact ==
  ASSUME NEW e \in Seq(Bytes), NEW n \in 0 .. Len(e)
  PROVE  /\ After(e, n) \in Seq(Bytes) /\ Len(After(e, n)) = Len(e) - n
         /\ \A i \in 1 .. Len(e) - n : After(e, n)[i] = e[n + i]
<1> n \in Nat /\ Len(e) \in Nat
  OBVIOUS
<1> QED
  BY DEF After

\* Cutting a list in two.
LEMMA CutFact ==
  ASSUME NEW w \in Seq(Bytes), NEW e \in Seq(Bytes), NEW n \in 0 .. Len(e)
  PROVE  /\ SubSeq(e, 1, n) \in Seq(Bytes) /\ Len(SubSeq(e, 1, n)) = n
         /\ After(e, n) \in Seq(Bytes)
         /\ w \o SubSeq(e, 1, n) \in Seq(Bytes)
         /\ (w \o SubSeq(e, 1, n)) \o After(e, n) = w \o e
<1> DEFINE a == SubSeq(e, 1, n)
           b == SubSeq(e, n + 1, Len(e))
<1>1. n \in Nat /\ Len(e) \in Nat
  OBVIOUS
<1>2. a \in Seq(Bytes) /\ Len(a) = n
  BY <1>1
<1>3. b \in Seq(Bytes)
  BY <1>1
<1>4. a \o b = e
  <2>1. 1 \in 1 .. Len(e) + 1 /\ n \in 1 - 1 .. Len(e) /\ Len(e) \in n .. Len(e)
    BY <1>1
  <2>2. a \o b = SubSeq(e, 1, Len(e))
    BY <2>1, ConcatAdjacentSubSeq
  <2>3. SubSeq(e, 1, Len(e)) = e
    BY SubSeqFull
  <2> QED
    BY <2>2, <2>3, Zenon
<1> HIDE DEF a, b
<1>5. (w \o a) \o b = w \o (a \o b)
  <2>1. a \in Seq(Bytes) /\ b \in Seq(Bytes)
    BY <1>2, <1>3
  <2> QED
    BY <2>1, ConcatAssociative, SMTT(30)
<1>6. w \o a \in Seq(Bytes)
  BY <1>2, ConcatProperties, Zenon
<1>7. (w \o a) \o b = w \o e
  BY <1>4, <1>5, Zenon
<1> QED
  BY <1>2, <1>3, <1>6, <1>7 DEF a, b, After

LEMMA Assoc ==
  \A r, s, t \in Seq(Bytes) : (r \o s) \o t = r \o (s \o t)
<1> QED
  BY ConcatAssociative, SMTT(30)

LEMMA StreamType ==
  ASSUME TypeOK
  PROVE  /\ Stream \in Seq(Bytes) /\ Len(Stream) = Len(recvbuf) + (Len(wire) + Len(sendbuf))
         /\ wire \o sendbuf \in Seq(Bytes)
<1>1. recvbuf \in Seq(Bytes) /\ wire \in Seq(Bytes) /\ sendbuf \in Seq(Bytes)
  BY DEF TypeOK
<1>2. wire \o sendbuf \in Seq(Bytes) /\ Len(wire \o sendbuf) = Len(wire) + Len(sendbuf)
  BY <1>1, ConcatProperties, Zenon
<1>3. /\ Stream \in Seq(Bytes)
      /\ Len(Stream) = Len(recvbuf) + Len(wire \o sendbuf)
  BY <1>1, <1>2, ConcatProperties, Zenon DEF Stream
<1> QED
  BY <1>2, <1>3, Zenon

\* A concatenation, by its elements.
LEMMA ConcatFact ==
  ASSUME NEW s \in Seq(Bytes), NEW e \in Seq(Bytes), NEW r, r = s \o e
  PROVE  /\ r \in Seq(Bytes) /\ Len(r) = Len(s) + Len(e)
         /\ \A i \in 1 .. Len(s) : r[i] = s[i]
         /\ \A h \in 1 .. Len(e) : r[Len(s) + h] = e[h]
<1>1. /\ s \o e \in Seq(Bytes) /\ Len(s \o e) = Len(s) + Len(e)
      /\ \A i \in 1 .. Len(s) + Len(e) :
           (s \o e)[i] = IF i <= Len(s) THEN s[i] ELSE e[i - Len(s)]
  BY ConcatProperties, Zenon
<1>2. /\ r \in Seq(Bytes) /\ Len(r) = Len(s) + Len(e)
      /\ \A i \in 1 .. Len(s) + Len(e) : r[i] = IF i <= Len(s) THEN s[i] ELSE e[i - Len(s)]
  BY <1>1, Zenon
<1>3. Len(s) \in Nat /\ Len(e) \in Nat
  OBVIOUS
<1>4. \A i \in 1 .. Len(s) : r[i] = s[i]
  BY <1>2, <1>3
<1>5. ASSUME NEW h \in 1 .. Len(e) PROVE r[Len(s) + h] = e[h]
  <2>1. /\ Len(s) + h \in 1 .. Len(s) + Len(e) /\ ~(Len(s) + h <= Len(s))
        /\ (Len(s) + h) - Len(s) = h
    BY <1>3
  <2>2. r[Len(s) + h] = e[(Len(s) + h) - Len(s)]
    BY <1>2, <2>1
  <2> QED
    BY <2>1, <2>2
<1> QED
  BY <1>2, <1>4, <1>5

LEMMA StreamInvInit == Init => StreamInv
<1> SUFFICES ASSUME Init PROVE StreamInv
  OBVIOUS
<1>1. /\ next = 1 /\ sendbuf = <<>> /\ wire = <<>> /\ framed = <<>>
      /\ recvbuf = <<>> /\ decoded = <<>> /\ again = FALSE
      /\ fd \in {"none", "open", "broken"}
  BY DEF Init, OutInit, InInit, Connects
<1>2. TypeOK
  <2>1. 1 \in 1 .. MaxChunk + 1
    BY FramesAssumption
  <2>2. <<>> \in Seq(Bytes) /\ <<>> \in Seq(Chunks) /\ <<>> \in Seq({0} \union Chunks)
    OBVIOUS
  <2>3. Len(recvbuf) <= BufSize
    BY <1>1, FramesAssumption
  <2>4. next \in 1 .. MaxChunk + 1 /\ again \in BOOLEAN
    BY <1>1, <2>1
  <2> QED
    BY <1>1, <2>2, <2>3, <2>4, Zenon DEF TypeOK
<1>3. Len(Stream) = 0
  BY <1>1, <1>2, StreamType
<1>4. Len(framed) = 0 /\ Len(decoded) = 0 /\ DOMAIN framed = {} /\ DOMAIN decoded = {}
  BY <1>1
<1>5. Framing(Stream, framed) /\ Front(Stream, framed, Len(decoded)) /\ Ordered(framed, next)
  BY <1>3, <1>4 DEF Framing, Front, Ordered
<1> QED
  BY <1>2, <1>4, <1>5 DEF StreamInv, DecodesWhatWasFramed

\* What chunk_write puts behind the stream, and what it notes as framed.
LEMMA EncodedFact ==
  ASSUME TypeOK, next \in Chunks
  PROVE  \E x \in Seq(Bytes) :
           /\ Encoded(next) = sendbuf \o x
           /\ Encoded(next) \in Seq(Bytes)
           /\ IF NoSpace(next) THEN \A h \in 1 .. Len(x) : x[h][1] = 0
                               ELSE /\ Len(x) = FrameLen(next)
                                    /\ \A h \in 1 .. FrameLen(next) : x[h] = <<next, h>>
<1> DEFINE x == IF NoSpace(next) THEN Damage ELSE Frame(next)
<1>1. sendbuf \in Seq(Bytes)
  BY DEF TypeOK
<1>2. x \in Seq(Bytes)
  BY FrameFact, DamageFact
<1>3. Encoded(next) = sendbuf \o x
  BY DEF Encoded
<1>4. IF NoSpace(next) THEN \A h \in 1 .. Len(x) : x[h][1] = 0
                       ELSE /\ Len(x) = FrameLen(next)
                            /\ \A h \in 1 .. FrameLen(next) : x[h] = <<next, h>>
  BY FrameFact, DamageFact
<1> HIDE DEF x
<1>5. Encoded(next) \in Seq(Bytes)
  BY <1>1, <1>2, <1>3, ConcatProperties
<1> QED
  BY <1>2, <1>3, <1>4, <1>5

LEMMA OrderedStays ==
  ASSUME NEW f \in Seq(Chunks), NEW c \in Chunks, Ordered(f, c)
  PROVE  Ordered(f, c + 1) /\ Ordered(Append(f, c), c + 1)
<1>1. c \in Nat /\ Len(f) \in Nat /\ DOMAIN f = 1 .. Len(f)
  BY FrameFact
<1>2. ASSUME NEW i \in DOMAIN f PROVE f[i] \in Nat /\ f[i] < c
  <2>1. f[i] \in Chunks
    BY <1>1
  <2> QED
    BY <2>1, FrameFact DEF Ordered
<1>3. Ordered(f, c + 1)
  BY <1>1, <1>2 DEF Ordered
<1>4. /\ DOMAIN Append(f, c) = 1 .. Len(f) + 1 /\ Append(f, c)[Len(f) + 1] = c
      /\ \A i \in DOMAIN f : Append(f, c)[i] = f[i]
  BY <1>1
<1>5. ASSUME NEW i \in DOMAIN Append(f, c) PROVE i \in DOMAIN f \/ i = Len(f) + 1
  BY <1>1, <1>4
<1>6. \A i \in DOMAIN Append(f, c) : Append(f, c)[i] < c + 1
  BY <1>1, <1>2, <1>4, <1>5
<1>7. ASSUME NEW i \in DOMAIN Append(f, c), NEW j \in DOMAIN Append(f, c), i < j
      PROVE  Append(f, c)[i] < Append(f, c)[j]
  <2>1. i \in DOMAIN f
    BY <1>1, <1>4, <1>5, <1>7
  <2>2. CASE j = Len(f) + 1
    BY <1>2, <1>4, <2>1, <2>2
  <2>3. CASE j \in DOMAIN f
    BY <1>4, <1>7, <2>1, <2>3 DEF Ordered
  <2> QED
    BY <1>5, <2>2, <2>3
<1> QED
  BY <1>3, <1>6, <1>7 DEF Ordered

\* chunk_write as far as the stream goes: it grows by what was encoded.
LEMMA WriteStays ==
  ASSUME StreamInv, next \in Chunks,
         wire' \in Seq(Bytes), sendbuf' \in Seq(Bytes),
         wire' \o sendbuf' = wire \o Encoded(next),
         fd' \in {"none", "open", "broken"},
         framed' = IF NoSpace(next) THEN framed ELSE Append(framed, next),
         next' = next + 1, UNCHANGED inVars
  PROVE  StreamInv'
<1>1. /\ TypeOK /\ Ordered(framed, next) /\ Framing(Stream, framed)
      /\ Front(Stream, framed, Len(decoded)) /\ DecodesWhatWasFramed
  BY DEF StreamInv
<1>2. PICK x \in Seq(Bytes) :
        /\ Encoded(next) = sendbuf \o x
        /\ Encoded(next) \in Seq(Bytes)
        /\ IF NoSpace(next) THEN \A h \in 1 .. Len(x) : x[h][1] = 0
                            ELSE /\ Len(x) = FrameLen(next)
                                 /\ \A h \in 1 .. FrameLen(next) : x[h] = <<next, h>>
  BY <1>1, EncodedFact
<1>3. Stream' = Stream \o x
  <2>1. /\ recvbuf \in Seq(Bytes) /\ wire \in Seq(Bytes) /\ sendbuf \in Seq(Bytes)
        /\ recvbuf' = recvbuf
    BY <1>1 DEF TypeOK, inVars
  <2>2. wire \o sendbuf \in Seq(Bytes)
    BY <2>1, ConcatProperties, Zenon
  <2>3. (wire \o sendbuf) \o x = wire \o (sendbuf \o x)
    BY <2>1, Assoc, ZenonT(60)
  <2>4. (recvbuf \o (wire \o sendbuf)) \o x = recvbuf \o ((wire \o sendbuf) \o x)
    <3> DEFINE ws == wire \o sendbuf
    <3>1. ws \in Seq(Bytes) /\ recvbuf \in Seq(Bytes) /\ x \in Seq(Bytes)
      BY <2>1, <2>2
    <3> HIDE DEF ws
    <3>2. (recvbuf \o ws) \o x = recvbuf \o (ws \o x)
      BY <3>1, Assoc, ZenonT(60)
    <3> QED
      BY <3>2 DEF ws
  <2>5. Stream' = recvbuf \o (wire \o (sendbuf \o x))
    BY <1>2, <2>1, Zenon DEF Stream
  <2> QED
    BY <2>3, <2>4, <2>5, Zenon DEF Stream
<1>4. /\ Stream \in Seq(Bytes) /\ Stream' \in Seq(Bytes)
      /\ Len(Stream') = Len(Stream) + Len(x)
      /\ \A i \in 1 .. Len(Stream) : Stream'[i] = Stream[i]
      /\ \A h \in 1 .. Len(x) : Stream'[Len(Stream) + h] = x[h]
  BY <1>1, <1>3, StreamType, ConcatFact
<1>5. /\ framed \in Seq(Chunks) /\ Len(framed) \in Nat /\ DOMAIN framed = 1 .. Len(framed)
      /\ decoded' = decoded /\ Len(decoded) \in Nat /\ Len(decoded) <= Len(framed)
      /\ decoded \in Seq({0} \union Chunks) /\ DOMAIN decoded = 1 .. Len(decoded)
      /\ next \in Nat
  BY <1>1, FrameFact, SMTT(30) DEF TypeOK, DecodesWhatWasFramed, inVars
<1>6. TypeOK'
  <2>1. framed' \in Seq(Chunks)
    BY <1>5
  <2>2. next' \in 1 .. MaxChunk + 1
    BY FramesAssumption DEF Chunks
  <2> QED
    BY <1>1, <1>5, <2>1, <2>2 DEF TypeOK, inVars
<1> HIDE DEF Stream
<1>7. CASE NoSpace(next)
  <2>1. /\ framed' = framed /\ Len(x) \in Nat
        /\ \A h \in 1 .. Len(x) : Stream'[Len(Stream) + h][1] = 0
    <3>1. \A h \in 1 .. Len(x) : x[h][1] = 0
      BY <1>2, <1>7
    <3>2. framed' = framed /\ Len(x) \in Nat
      BY <1>7
    <3> QED
      BY <1>4, <3>1, <3>2
  <2>2. Framing(Stream', framed) /\ Front(Stream', framed, Len(decoded))
    BY <1>1, <1>4, <1>5, <2>1, AppendDamage
  <2>3. Ordered(framed, next + 1)
    BY <1>1, <1>5, OrderedStays
  <2> QED
    BY <1>1, <1>5, <1>6, <2>1, <2>2, <2>3 DEF StreamInv, DecodesWhatWasFramed
<1>8. CASE ~NoSpace(next)
  <2>1. /\ framed' = Append(framed, next) /\ Len(x) = FrameLen(next)
        /\ \A h \in 1 .. FrameLen(next) : Stream'[Len(Stream) + h] = <<next, h>>
    BY <1>2, <1>4, <1>8
  <2>2. /\ framed' \in Seq(Chunks) /\ Len(framed') = Len(framed) + 1
        /\ framed'[Len(framed) + 1] = next
        /\ \A n \in 1 .. Len(framed) : framed'[n] = framed[n]
        /\ DOMAIN framed' = 1 .. Len(framed) + 1
    BY <1>5, <2>1, SMTT(30)
  <2>3. Framing(Stream', framed') /\ Front(Stream', framed', Len(decoded))
    <3>1. Len(Stream') = Len(Stream) + FrameLen(next)
      BY <1>4, <2>1
    <3>2. Framing(Stream, framed) /\ Front(Stream, framed, Len(decoded))
      BY <1>1
    <3> QED
      BY <1>4, <1>5, <2>1, <2>2, <3>1, <3>2, AppendFrame, ZenonT(60)
  <2>4. Ordered(framed', next + 1)
    BY <1>1, <1>5, <2>1, OrderedStays
  <2>5. DecodesWhatWasFramed'
    BY <1>1, <1>5, <2>2 DEF DecodesWhatWasFramed
  <2> QED
    BY <1>5, <1>6, <2>3, <2>4, <2>5 DEF StreamInv
<1> QED
  BY <1>7, <1>8

LEMMA WriteIsWrite ==
  ASSUME StreamInv, Write
  PROVE  StreamInv'
<1>1. /\ TypeOK /\ next \in Chunks /\ UNCHANGED inVars /\ next' = next + 1
      /\ framed' = IF NoSpace(next) THEN framed ELSE Append(framed, next)
      /\ fd' \in {"none", "open", "broken"}
  BY DEF StreamInv, Write, ChunkHeld, ChunkWritten
<1>2. wire \in Seq(Bytes) /\ Encoded(next) \in Seq(Bytes)
  BY <1>1, EncodedFact DEF TypeOK
<1>3. CASE ChunkHeld
  <2>1. wire' = wire /\ sendbuf' = Encoded(next)
    BY <1>3 DEF ChunkHeld
  <2>2. wire' \o sendbuf' = wire \o Encoded(next)
    BY <2>1, Zenon
  <2> QED
    BY <1>1, <1>2, <2>1, <2>2, WriteStays, Zenon
<1>4. CASE ChunkWritten
  <2>1. PICK n \in 0 .. Len(Encoded(next)) :
          /\ wire' = wire \o SubSeq(Encoded(next), 1, n)
          /\ sendbuf' = After(Encoded(next), n)
    BY <1>4 DEF ChunkWritten, Unsent
  <2> DEFINE e == Encoded(next)
  <2> HIDE DEF e
  <2>2. e \in Seq(Bytes) /\ n \in 0 .. Len(e)
    BY <1>2, <2>1 DEF e
  <2>3. /\ After(e, n) \in Seq(Bytes) /\ wire \o SubSeq(e, 1, n) \in Seq(Bytes)
        /\ (wire \o SubSeq(e, 1, n)) \o After(e, n) = wire \o e
    BY <1>2, <2>2, CutFact, Zenon
  <2>4. /\ wire' \in Seq(Bytes) /\ sendbuf' \in Seq(Bytes)
        /\ wire' \o sendbuf' = wire \o Encoded(next)
    BY <2>1, <2>3, Zenon DEF e
  <2> QED
    BY <1>1, <2>4, WriteStays, Zenon
<1> QED
  BY <1>3, <1>4 DEF Write

LEMMA FailStays ==
  ASSUME StreamInv, Fail
  PROVE  StreamInv'
<1>1. /\ next \in Chunks /\ next' = next + 1 /\ sendbuf' = <<>> /\ wire' = <<>>
      /\ framed' = <<>> /\ recvbuf' = <<>> /\ decoded' = <<>> /\ again' = FALSE
      /\ fd' = "none"
  BY DEF Fail, ChunkLost
<1>2. TypeOK'
  <2>1. next' \in 1 .. MaxChunk + 1
    BY <1>1, FramesAssumption DEF Chunks
  <2>2. <<>> \in Seq(Bytes) /\ <<>> \in Seq(Chunks) /\ <<>> \in Seq({0} \union Chunks)
    OBVIOUS
  <2>3. Len(recvbuf') <= BufSize
    BY <1>1, FramesAssumption
  <2>4. again' \in BOOLEAN
    BY <1>1
  <2> QED
    BY <1>1, <2>1, <2>2, <2>3, <2>4, Zenon DEF TypeOK
<1>3. Len(Stream') = 0
  <2>1. Stream' = <<>> \o (<<>> \o <<>>)
    BY <1>1, Zenon DEF Stream
  <2> QED
    BY <2>1
<1>4. Len(framed') = 0 /\ Len(decoded') = 0 /\ DOMAIN framed' = {} /\ DOMAIN decoded' = {}
  BY <1>1
<1>5. Framing(Stream', framed') /\ Front(Stream', framed', Len(decoded')) /\ Ordered(framed', next')
  BY <1>3, <1>4 DEF Framing, Front, Ordered
<1> QED
  BY <1>2, <1>4, <1>5 DEF StreamInv, DecodesWhatWasFramed

\* Taking m bytes from the front of a buffer takes them from the stream.
LEMMA AfterConcat ==
  ASSUME NEW a \in Seq(Bytes), NEW t \in Seq(Bytes), NEW u \in Seq(Bytes),
         NEW m \in 0 .. Len(a), Less(u, a, m)
  PROVE  Less(u \o t, a \o t, m)
<1> SUFFICES ASSUME NEW z, z = a \o t, NEW r, r = u \o t PROVE Less(r, z, m)
  OBVIOUS
<1>1. /\ r \in Seq(Bytes) /\ Len(r) = Len(u) + Len(t)
      /\ \A i \in 1 .. Len(u) : r[i] = u[i]
      /\ \A h \in 1 .. Len(t) : r[Len(u) + h] = t[h]
  BY ConcatFact
<1>2. /\ Len(z) = Len(a) + Len(t)
      /\ \A i \in 1 .. Len(a) : z[i] = a[i]
      /\ \A h \in 1 .. Len(t) : z[Len(a) + h] = t[h]
  BY ConcatFact
<1>3. Len(a) \in Nat /\ Len(t) \in Nat /\ m \in Nat /\ m <= Len(a)
  OBVIOUS
<1>4. Len(u) = Len(a) - m /\ \A i \in 1 .. Len(u) : u[i] = a[m + i]
  BY DEF Less
<1>5. Len(r) = Len(z) - m
  BY <1>1, <1>2, <1>3, <1>4
<1>6. ASSUME NEW i \in 1 .. Len(r) PROVE r[i] = z[m + i]
  <2>1. CASE i <= Len(a) - m
    <3>1. m + i \in 1 .. Len(a) /\ i \in 1 .. Len(u)
      BY <1>3, <1>4, <2>1
    <3>2. r[i] = u[i] /\ u[i] = a[m + i] /\ z[m + i] = a[m + i]
      BY <1>1, <1>2, <1>4, <3>1
    <3> QED
      BY <3>2
  <2>2. CASE i > Len(a) - m
    <3> DEFINE h == i - (Len(a) - m)
    <3>1. h \in 1 .. Len(t) /\ Len(u) + h = i /\ Len(a) + h = m + i
      BY <1>1, <1>3, <1>4, <2>2
    <3> HIDE DEF h
    <3>2. r[Len(u) + h] = t[h] /\ z[Len(a) + h] = t[h]
      BY <1>1, <1>2, <3>1
    <3>3. r[i] = t[h]
      BY <3>1, <3>2
    <3>4. z[m + i] = t[h]
      BY <3>1, <3>2
    <3> QED
      BY <3>3, <3>4, Zenon
  <2>3. i <= Len(a) - m \/ i > Len(a) - m
    <3>1. i \in Int
      BY <1>1, <1>3
    <3> QED
      BY <1>3, <3>1
  <2> QED
    BY <2>1, <2>2, <2>3
<1> QED
  BY <1>1, <1>5, <1>6 DEF Less

\* What recv moves from the connection to the buffer stays in the stream.
LEMMA Moved ==
  ASSUME TypeOK, NEW n \in 0 .. Len(wire)
  PROVE  LET a == recvbuf \o SubSeq(wire, 1, n)
             t == After(wire, n) \o sendbuf
         IN  /\ a \in Seq(Bytes) /\ Len(a) = Len(recvbuf) + n
             /\ After(wire, n) \in Seq(Bytes) /\ t \in Seq(Bytes)
             /\ Stream = a \o t
<1> DEFINE p == SubSeq(wire, 1, n)
           b == After(wire, n)
           a == recvbuf \o p
<1>1. recvbuf \in Seq(Bytes) /\ wire \in Seq(Bytes) /\ sendbuf \in Seq(Bytes)
  BY DEF TypeOK
<1>2. /\ p \in Seq(Bytes) /\ Len(p) = n /\ b \in Seq(Bytes)
      /\ a \in Seq(Bytes) /\ a \o b = recvbuf \o wire
  BY <1>1, CutFact, Zenon
<1> HIDE DEF p, b
<1>3. Len(a) = Len(recvbuf) + n
  BY <1>1, <1>2, ConcatFact, Zenon
<1>4. b \o sendbuf \in Seq(Bytes)
  BY <1>1, <1>2, ConcatProperties, Zenon
<1> HIDE DEF a
<1>5. (a \o b) \o sendbuf = a \o (b \o sendbuf)
  BY <1>1, <1>2, Assoc, ZenonT(60)
<1>6. (recvbuf \o wire) \o sendbuf = recvbuf \o (wire \o sendbuf)
  BY <1>1, Assoc, Zenon
<1>7. (a \o b) \o sendbuf = (recvbuf \o wire) \o sendbuf
  BY <1>2, Zenon
<1>8. Stream = a \o (b \o sendbuf)
  BY <1>5, <1>6, <1>7, Zenon DEF Stream
<1> QED
  BY <1>2, <1>3, <1>4, <1>8, Zenon DEF a, b, p

\* How many bytes a call reads.
LEMMA ReceivedFact ==
  ASSUME TypeOK, NEW n \in Received
  PROVE  n \in 0 .. Len(wire) /\ Len(recvbuf) + n <= BufSize
<1>1. Len(wire) \in Nat /\ Len(recvbuf) \in Nat /\ Len(recvbuf) <= BufSize /\ BufSize \in Nat
  BY FramesAssumption DEF TypeOK
<1> DEFINE free == BufSize - Len(recvbuf)
           most == IF Len(wire) < free THEN Len(wire) ELSE free
<1>2. free \in Nat /\ most \in Nat /\ most <= Len(wire) /\ most <= free
  BY <1>1
<1>3. n \in UpTo(most)
  BY DEF Received
<1> HIDE DEF most
<1>4. n \in Nat /\ n <= most
  BY <1>2, <1>3 DEF UpTo
<1> QED
  BY <1>1, <1>2, <1>4

\* A buffer that begins with a whole frame has the chunk in it that follows the
\* k decoded so far.
LEMMA CompleteFact ==
  ASSUME NEW a \in Seq(Bytes), NEW z \in Seq(Bytes), Begins(z, a),
         NEW f \in Seq(Chunks), NEW k \in Nat, NEW top,
         Framing(z, f), Ordered(f, top), Front(z, f, k), Complete(a)
  PROVE  LET c == f[k + 1] IN
         /\ k < Len(f) /\ Len(z) > 0 /\ z[1] = <<c, 1>> /\ c \in Chunks
         /\ a[1][1] = c /\ FrameLen(c) \in 0 .. Len(a) /\ Decoded(a) = c
<1> DEFINE c == f[k + 1]
           m == FrameLen(c)
<1>1. HeaderLen \in Nat \ {0} /\ Len(a) \in Nat /\ Len(z) \in Nat /\ Len(f) \in Nat
  BY FramesAssumption
<1>2. Len(a) > 0 /\ a[1][1] # 0 /\ Len(z) > 0
  BY <1>1 DEF Complete, Begins
<1>3. z[1] = a[1]
  <2>1. 1 \in 1 .. Len(a)
    BY <1>1, <1>2
  <2> QED
    BY <2>1 DEF Begins
<1>4. k < Len(f) /\ z[1] = <<c, 1>>
  BY <1>1, <1>2, <1>3 DEF Front
<1>5. c \in Chunks /\ FrameAt(z, c, 0)
  BY <1>2, <1>4, DropFrame, Zenon
<1>6. a[1][1] = c
  BY <1>3, <1>4
<1>7. m \in Nat /\ m > 1 /\ m <= Len(a)
  BY <1>5, <1>6, FrameFact DEF Complete
<1>8. ASSUME NEW h \in 1 .. m PROVE a[h] = <<c, h>>
  <2>1. h \in 1 .. Len(a) /\ 0 + h = h
    BY <1>1, <1>7
  <2>2. z[0 + h] = <<c, h>>
    BY <1>5 DEF FrameAt
  <2> QED
    BY <2>1, <2>2 DEF Begins
<1> HIDE DEF c, m
<1>9. SubSeq(a, 1, m) = Frame(c)
  <2>1. /\ SubSeq(a, 1, m) \in Seq(Bytes) /\ Len(SubSeq(a, 1, m)) = m
        /\ \A i \in 1 .. m : SubSeq(a, 1, m)[i] = a[i]
    BY <1>1, <1>7
  <2>2. /\ Frame(c) \in Seq(Bytes) /\ Len(Frame(c)) = m
        /\ \A i \in 1 .. m : Frame(c)[i] = <<c, i>>
    BY <1>5, FrameFact DEF m
  <2>3. \A i \in 1 .. Len(SubSeq(a, 1, m)) : SubSeq(a, 1, m)[i] = Frame(c)[i]
    BY <1>8, <2>1, <2>2
  <2>4. Len(SubSeq(a, 1, m)) = Len(Frame(c))
    BY <2>1, <2>2
  <2> QED
    BY <2>1, <2>2, <2>3, <2>4, SeqEqual
<1>10. Decoded(a) = c
  BY <1>6, <1>9 DEF Decoded, m
<1>11. m \in 0 .. Len(a)
  BY <1>1, <1>7
<1> QED
  BY <1>2, <1>4, <1>5, <1>6, <1>10, <1>11 DEF c, m

\* What a call that reads n bytes does: it hands out the next chunk that was
\* framed, or none, and what is left is the rest of the stream.
LEMMA ReadStays ==
  ASSUME StreamInv, Read
  PROVE  StreamInv'
<1>1. /\ TypeOK /\ Ordered(framed, next) /\ Framing(Stream, framed)
      /\ Front(Stream, framed, Len(decoded)) /\ DecodesWhatWasFramed
      /\ next' = next /\ sendbuf' = sendbuf /\ fd' = fd /\ framed' = framed
  BY DEF StreamInv, Read, outVars
<1>2. PICK n \in Received :
        LET s == recvbuf \o SubSeq(wire, 1, n)
        IN  /\ wire' = After(wire, n)
            /\ decoded' = IF Complete(s) THEN Append(decoded, Decoded(s)) ELSE decoded
            /\ recvbuf' = IF Complete(s) THEN Rest(s) ELSE s
            /\ again' = More(recvbuf')
  BY DEF Read, InputGet
<1> DEFINE a == recvbuf \o SubSeq(wire, 1, n)
           t == After(wire, n) \o sendbuf
           k == Len(decoded)
           c == framed[k + 1]
<1>3. n \in 0 .. Len(wire) /\ Len(recvbuf) + n <= BufSize
  BY <1>1, <1>2, ReceivedFact
<1>4. /\ a \in Seq(Bytes) /\ Len(a) = Len(recvbuf) + n
      /\ After(wire, n) \in Seq(Bytes) /\ t \in Seq(Bytes)
      /\ Stream = a \o t
  BY <1>1, <1>3, Moved, Zenon
<1>5. /\ wire' = After(wire, n)
      /\ decoded' = IF Complete(a) THEN Append(decoded, Decoded(a)) ELSE decoded
      /\ recvbuf' = IF Complete(a) THEN Rest(a) ELSE a
      /\ again' = More(recvbuf')
  BY <1>2
<1>6. Stream' = recvbuf' \o t
  BY <1>1, <1>5, Zenon DEF Stream
<1>7. /\ Len(a) \in Nat /\ Len(t) \in Nat /\ BufSize \in Nat
      /\ k \in Nat /\ framed \in Seq(Chunks) /\ decoded \in Seq({0} \union Chunks)
      /\ Len(framed) \in Nat /\ DOMAIN decoded = 1 .. k /\ DOMAIN framed = 1 .. Len(framed)
  BY <1>1, <1>4, FramesAssumption, SMTT(30) DEF TypeOK
<1>8. again' \in BOOLEAN
  BY <1>5 DEF More, Complete
<1> HIDE DEF a, t
<1>9. CASE ~Complete(a)
  <2>1. Stream' = Stream /\ decoded' = decoded /\ recvbuf' = a
    BY <1>4, <1>5, <1>6, <1>9
  <2>2. Len(recvbuf') <= BufSize
    BY <1>3, <1>4, <2>1
  <2>3. TypeOK'
    BY <1>1, <1>4, <1>5, <1>8, <2>1, <2>2 DEF TypeOK
  <2> QED
    BY <1>1, <2>1, <2>3 DEF StreamInv, DecodesWhatWasFramed
<1>10. CASE Complete(a)
  <2>1. /\ Stream \in Seq(Bytes) /\ Len(Stream) = Len(a) + Len(t)
        /\ \A i \in 1 .. Len(a) : Stream[i] = a[i]
    <3>1. a \in Seq(Bytes) /\ t \in Seq(Bytes) /\ Stream = a \o t
      BY <1>4
    <3> QED
      BY <3>1, ConcatFact
  <2> HIDE DEF k
  <2>2. /\ k < Len(framed) /\ Len(Stream) > 0 /\ Stream[1] = <<c, 1>> /\ c \in Chunks
        /\ a[1][1] = c /\ FrameLen(c) \in 0 .. Len(a) /\ Decoded(a) = c
    <3>1. Begins(Stream, a)
      BY <1>7, <2>1 DEF Begins
    <3>2. Front(Stream, framed, k)
      BY <1>1 DEF k
    <3> HIDE DEF c
    <3>3. /\ a \in Seq(Bytes) /\ Stream \in Seq(Bytes) /\ framed \in Seq(Chunks) /\ k \in Nat
          /\ Framing(Stream, framed) /\ Ordered(framed, next)
      BY <1>1, <1>4, <1>7, <2>1
    <3> QED
      BY <1>10, <3>1, <3>2, <3>3, CompleteFact, Zenon DEF c
  <2>3. recvbuf' = After(a, FrameLen(c)) /\ decoded' = Append(decoded, c)
    BY <1>5, <1>10, <2>2 DEF Rest
  <2>4. /\ recvbuf' \in Seq(Bytes) /\ Len(recvbuf') = Len(a) - FrameLen(c)
        /\ \A i \in 1 .. Len(a) - FrameLen(c) : recvbuf'[i] = a[FrameLen(c) + i]
    BY <1>4, <2>2, <2>3, AfterFact
  <2>5. Less(Stream', Stream, FrameLen(c))
    <3>1. /\ a \in Seq(Bytes) /\ t \in Seq(Bytes) /\ recvbuf' \in Seq(Bytes)
          /\ FrameLen(c) \in 0 .. Len(a)
      BY <1>4, <2>2, <2>4
    <3>2. Less(recvbuf', a, FrameLen(c))
      BY <2>4 DEF Less
    <3> QED
      <4>1. Less(recvbuf' \o t, a \o t, FrameLen(c))
        BY <3>1, <3>2, AfterConcat, Zenon
      <4>2. Stream = a \o t /\ Stream' = recvbuf' \o t
        BY <1>4, <1>6
      <4> QED
        BY <4>1, <4>2, Zenon
  <2>6. Framing(Stream', framed) /\ Front(Stream', framed, k + 1)
    <3>1. \A r : Less(r, Stream, FrameLen(c)) => Framing(r, framed) /\ Front(r, framed, k + 1)
      BY <1>1, <1>7, <2>1, <2>2, DropFrame, Zenon
    <3> QED
      BY <2>5, <3>1
  <2>7. Len(recvbuf') <= BufSize
    BY <1>3, <1>4, <1>7, <2>2, <2>4, SMTT(30)
  <2>8. /\ decoded' \in Seq({0} \union Chunks) /\ Len(decoded') = k + 1
        /\ DOMAIN decoded' = 1 .. k + 1
        /\ decoded'[k + 1] = c /\ \A i \in 1 .. k : decoded'[i] = decoded[i]
    BY <1>7, <2>2, <2>3 DEF k
  <2>9. TypeOK'
    BY <1>1, <1>4, <1>5, <1>8, <2>4, <2>7, <2>8 DEF TypeOK
  <2>10. DecodesWhatWasFramed'
    <3>1. ASSUME NEW i \in 1 .. k + 1 PROVE decoded'[i] = framed[i]
      <4>1. CASE i = k + 1
        BY <2>8, <4>1
      <4>2. CASE i # k + 1
        <5>1. i \in 1 .. k
          BY <1>7, <4>2
        <5> QED
          BY <1>1, <1>7, <2>8, <5>1 DEF DecodesWhatWasFramed
      <4> QED
        BY <4>1, <4>2
    <3>2. k + 1 <= Len(framed)
      BY <1>7, <2>2
    <3> QED
      BY <1>1, <2>8, <3>1, <3>2 DEF DecodesWhatWasFramed
  <2> QED
    BY <1>1, <2>6, <2>8, <2>9, <2>10 DEF StreamInv
<1> QED
  BY <1>9, <1>10

LEMMA StreamInvStep == StreamInv /\ [Next]_vars => StreamInv'
<1> SUFFICES ASSUME StreamInv, [Next]_vars PROVE StreamInv'
  OBVIOUS
<1>1. CASE UNCHANGED vars
  BY <1>1 DEF vars, StreamInv, TypeOK, Stream, DecodesWhatWasFramed
<1>2. CASE Next
  BY <1>2, WriteIsWrite, FailStays, ReadStays DEF Next
<1> QED
  BY <1>1, <1>2

\* Whatever write() and recv() cut it into, what is not handed out yet is a
\* sequence of whole frames in the order of framed, as far as it is undamaged.
THEOREM Invariance == Spec => []StreamInv
<1> QED
  BY StreamInvInit, StreamInvStep, PTL DEF Spec

\* Every variable keeps its type, and the reader's buffer holds what it reads.
THEOREM TypeCorrect == Spec => []TypeOK
<1>1. StreamInv => TypeOK
  BY DEF StreamInv
<1> QED
  BY <1>1, Invariance, PTL

\* The reader hands out the chunks the writer framed on its connection, each
\* once, in their order and none left out.
THEOREM DecodesFrames == Spec => []DecodesWhatWasFramed
<1>1. StreamInv => DecodesWhatWasFramed
  BY DEF StreamInv
<1> QED
  BY <1>1, Invariance, PTL
=============================================================================
