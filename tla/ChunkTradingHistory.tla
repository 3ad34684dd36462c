------------------------- MODULE ChunkTradingHistory -------------------------
(***************************************************************************)
(* ChunkTrading with two history variables that no action reads: which     *)
(* locks ran out, and who has sent which chunk to whom.                    *)
(***************************************************************************)
EXTENDS ChunkTrading

VARIABLES
  expired,  \* expired[p]: ids of which a lock of p has run out
  sent      \* <<p, q, c>>: p has sent chunk c to q

hvars == <<vars, expired, sent>>

HInit ==
  /\ Init
  /\ expired = [p \in Peers |-> {}]
  /\ sent = {}

\* A lock that goes although its chunk has not come has run out.
HNext ==
  /\ Next
  /\ expired' = [p \in Peers |-> expired[p] \union (locked[p] \ (locked'[p] \union seen'[p]))]
  /\ sent' = sent \union UNION {{<<m.from, m.to, c>> : c \in m.cset} :
                                  m \in {n \in net' \ net : n.type = "chunk"}}

HSpec == HInit /\ [][HNext]_hvars

\* The datagrams that bring, or will bring, q the chunk c because q asked for it.
Pulls(q, c) ==
  {m \in net : /\ c \in m.cset
               /\ \/ m.type = "accept" /\ m.from = q
                  \/ m.type = "chunk" /\ m.to = q /\ m.tid # 0}

-----------------------------------------------------------------------------
\* One request at a time: unless a lock ran out, a peer has asked at most one
\* neighbour for a chunk, whatever offers of it cross in the network (the lock of
\* get_chunks_to_accept, kept until received_chunk).
SinglePull ==
  ~Duplicating => \A q \in Peers, c \in Chunks :
    c \notin expired[q] => \A m, n \in Pulls(q, c) : m = n

\* "don't send twice ... assuming that it will actually arrive", of a chunk the
\* receiver has not asked for again.
SendsOnce ==
  [][\A m \in net' \ net : m.type = "chunk" =>
       \A c \in m.cset : c \in expired[m.to] \/ <<m.from, m.to, c>> \notin sent]_hvars
=============================================================================
