---------------------------- MODULE ChunkTrading ----------------------------
(***************************************************************************)
(* The chunk trading protocol of streaming.c and chunk_signaling.c, run by *)
(* every peer of an overlay over an unreliable datagram network.           *)
(*                                                                         *)
(* The source pushes each new chunk to a few neighbours (send_chunk); any  *)
(* peer then OFFERs what it holds (send_offer); the offered peer locks and *)
(* ACCEPTs at most one chunk it needs (offer_received); the offerer sends  *)
(* it (send_accepted_chunks) under the transaction id of the offer; the    *)
(* receiver delivers and stores it and answers with an ACK that carries    *)
(* its whole buffer map (received_chunk).  Every peer keeps a guess of     *)
(* what each neighbour holds, struct peer's bmap, and decides with it.     *)
(*                                                                         *)
(* A chunk is its id; ids grow with their timestamps, one per chunk        *)
(* period, so that the 0.5 s of compose_offer_cset is a number of ids      *)
(* (Lag).  The 2 s of a chunk lock and the 10 s of a transaction may       *)
(* elapse at any moment.                                                   *)
(***************************************************************************)
EXTENDS Integers, FiniteSets

CONSTANTS
  Peers,         \* every process of the overlay
  Source,        \* the one that was started with an input
  CbSize,        \* chunk buffer size, -b of the command line
  Lag,           \* chunk periods in DEFAULT_RTT_ESTIMATE (0.5 s)
  Multiply,      \* copies of a new chunk the source pushes, -m
  MaxTid,        \* largest transaction id, 2^16 - 1 in the code
  InitNbr,       \* InitNbr[p]: the neighbourhood p starts from
  UnknownSizes,  \* cb_size of a neighbour added without metadata
  Lossy,         \* datagrams and sends may fail
  Duplicating,   \* datagrams may be delivered again
  MaxChunk,      \* bound: chunks generated
  MaxNet,        \* bound: datagrams in flight
  MaxChurn       \* bound: neighbourhood changes

ASSUME SourceAssumption == Source \in Peers
ASSUME CbSizeAssumption == CbSize \in Nat \ {0}
ASSUME LagAssumption == Lag \in Nat
ASSUME MultiplyAssumption == Multiply \in Nat
ASSUME MaxTidAssumption == MaxTid \in Nat \ {0}
ASSUME InitNbrAssumption ==
         /\ InitNbr \in [Peers -> SUBSET Peers]
         /\ \A p \in Peers : p \notin InitNbr[p]
ASSUME UnknownSizesAssumption == UnknownSizes \subseteq Nat
ASSUME NetworkAssumption == Lossy \in BOOLEAN /\ Duplicating \in BOOLEAN
ASSUME BoundsAssumption == MaxChunk \in Nat /\ MaxNet \in Nat /\ MaxChurn \in Nat

VARIABLES
  nextId,  \* id of the next chunk the input hands out
  cb,      \* cb[p]: ids in p's chunk buffer
  seen,    \* seen[p]: ids p generated, or delivered to its output, so far
  nbr,     \* nbr[p]: p's neighbourhood (the peerset)
  bmap,    \* bmap[p][q]: what p believes its neighbour q holds
  size,    \* size[p][q]: the cb_size p knows of its neighbour q
  locked,  \* locked[p]: ids p has accepted and still waits for
  txn,     \* txn[p]: p's open transactions
  lastTid, \* lastTid[p]: trans_id of p's last offer
  net,     \* datagrams in flight
  churn    \* neighbourhood changes so far

vars == <<nextId, cb, seen, nbr, bmap, size, locked, txn, lastTid, net, churn>>
local == <<cb, seen, locked>>
topo == <<nbr, size, churn>>

Chunks == 1 .. MaxChunk
Tids == 1 .. MaxTid

Message == [type : {"offer", "accept", "chunk", "ack", "bmap"},
            from : Peers, to : Peers, cset : SUBSET Chunks, tid : 0 .. MaxTid]

Msg(type, p, q, cset, tid) ==
  [type |-> type, from |-> p, to |-> q, cset |-> cset, tid |-> tid]

\* The peer whose transaction (or push) the datagram belongs to.
Owner(m) == IF m.type \in {"offer", "chunk"} THEN m.from ELSE m.to

\* The cb_size p announces: the source asks for nothing.
Declared(p) == IF p = Source THEN 0 ELSE CbSize

-----------------------------------------------------------------------------
(***************************************************************************)
(* A definition whose comment begins with "Fault:" is a variant of the one *)
(* that follows it, with a bug that the properties are expected to reveal. *)
(* No action uses it.                                                      *)
(***************************************************************************)

\* Fault: no age window, only what is held is turned down.
NoWindow(set, n, c) ==
  /\ n # 0
  /\ c \notin set

\* Fault: the window is counted from the wrong end.
WideWindow(set, n, c) ==
  /\ n # 0
  /\ c \notin set
  /\ set = {} \/ \E oldest \in set : c + 1 + n - Cardinality(set) >= oldest

\* Fault: an id that is held is wanted again.
NoMembership(set, n, c) ==
  /\ n # 0
  /\ set = {} \/ \E oldest \in set : c >= oldest

\* _needs: is id c of use to a peer that holds `set' in a buffer of n ids?
Needs(set, n, c) ==
  /\ n # 0
  /\ c \notin set
  /\ \/ set = {}
     \/ \E oldest \in set :
          LET missing == IF n > Cardinality(set) THEN n - Cardinality(set) ELSE 0
          IN c >= oldest - missing

\* cb_add_chunk: a full buffer gives up its oldest id, which may be c itself.
CbAdd(set, c) ==
  LET all == set \union {c}
  IN  IF c \in set \/ Cardinality(set) < CbSize
      THEN all
      ELSE {x \in all : \E y \in all : y < x}

\* compose_offer_cset: not the oldest Lag ids, and not the source's newest quarter.
OfferSet(p) ==
  {c \in cb[p] :
     /\ \E oldest \in cb[p] : c > oldest + Lag
     /\ p = Source => 4 * Cardinality({x \in cb[p] : x < c})
                        <= 3 * (Cardinality(cb[p]) - 1)}

\* Fault: 0 is not skipped.
NextTidThroughZero(t) == IF t = MaxTid THEN 0 ELSE t + 1

\* trans_id++, skipping 0.
NextTid(t) == IF t = MaxTid THEN 1 ELSE t + 1

\* max_deliver is 1: one acceptable chunk when there is one.
AcceptSets(acceptable) ==
  IF acceptable = {} THEN {{}} ELSE {{c} : c \in acceptable}

\* Fault: chunks already asked for are accepted from others too.
AcceptableUnlocked(p, cset) == {c \in cset : Needs(cb[p], CbSize, c)}

\* get_chunks_to_accept: what p needs and has not asked for.
Acceptable(p, cset) == {c \in cset \ locked[p] : Needs(cb[p], CbSize, c)}

\* Fault: the accept is not registered.
RegAcceptNothing(open, tid) == open

\* transaction_reg_accept: the transaction with this id, of whatever peer.
RegAccept(open, tid) ==
  {[id |-> t.id, accepted |-> t.accepted \/ t.id = tid] : t \in open}

\* The neighbours that `Multiply' rounds of send_chunk reach.
PushSets(needy) ==
  {S \in SUBSET needy :
     /\ Cardinality(S) <= Multiply
     /\ Lossy \/ S = needy \/ Cardinality(S) = Multiply}

\* The network hands m over, and may keep a copy; the handler sends `replies'.
Handle(m, replies) ==
  \/ net' = (net \ {m}) \union replies
  \/ /\ Duplicating
     /\ Cardinality(net \union replies) <= MaxNet
     /\ net' = net \union replies

\* p replaces what it believes of q, when q is a neighbour.
Believe(p, q, set) ==
  bmap' = IF q \in nbr[p] THEN [bmap EXCEPT ![p][q] = set] ELSE bmap

\* The new chunk goes to the neighbours S, which are noted to have it.
Push(S) ==
  /\ bmap' = [bmap EXCEPT ![Source] =
                [q \in Peers |-> IF q \in S THEN bmap[Source][q] \union {nextId}
                                            ELSE bmap[Source][q]]]
  /\ net' = net \union {Msg("chunk", Source, q, {nextId}, 0) : q \in S}

-----------------------------------------------------------------------------
Init ==
  /\ nextId = 1
  /\ cb = [p \in Peers |-> {}]
  /\ seen = [p \in Peers |-> {}]
  /\ nbr = InitNbr
  /\ bmap = [p \in Peers |-> [q \in Peers |-> {}]]
  /\ size = [p \in Peers |-> [q \in Peers |-> IF q \in InitNbr[p] THEN Declared(q) ELSE 0]]
  /\ locked = [p \in Peers |-> {}]
  /\ txn = [p \in Peers |-> {}]
  /\ lastTid = [p \in Peers |-> 1]
  /\ net = {}
  /\ churn = 0

\* source_loop on new input: generated_chunk, add_chunk, Multiply x send_chunk.
Generate ==
  /\ nextId <= MaxChunk
  /\ LET needy == {q \in nbr[Source] :
                     Needs(bmap[Source][q], size[Source][q], nextId)}
     IN \E S \in PushSets(needy) :
          /\ Cardinality(net) + Cardinality(S) <= MaxNet
          /\ Push(S)
  /\ cb' = [cb EXCEPT ![Source] = CbAdd(cb[Source], nextId)]
  /\ seen' = [seen EXCEPT ![Source] = seen[Source] \union {nextId}]
  /\ nextId' = nextId + 1
  /\ UNCHANGED <<topo, locked, txn, lastTid>>

\* send_offer to a neighbour the scheduler picks among those that need a
\* chunk; transaction_create first drops the transactions that timed out.
Offer(p, q) ==
  /\ q \in nbr[p]
  /\ \E c \in cb[p] : Needs(bmap[p][q], size[p][q], c)
  /\ Cardinality(net) < MaxNet
  /\ LET tid == NextTid(lastTid[p])
     IN /\ \E timedOut \in SUBSET txn[p] :
             /\ \A t \in txn[p] \ timedOut : t.id # tid
             /\ txn' = [txn EXCEPT ![p] = (txn[p] \ timedOut)
                                          \union {[id |-> tid, accepted |-> FALSE]}]
        /\ lastTid' = [lastTid EXCEPT ![p] = tid]
        /\ net' = net \union {Msg("offer", p, q, OfferSet(p), tid)}
  /\ UNCHANGED <<nextId, local, topo, bmap>>

\* The id that p's next offer gets is not in use any more: 2^16 - 1 of them
\* would have to be spent within the 10 s of a transaction.
Unused(p) == \A m \in net : Owner(m) = p => m.tid # NextTid(lastTid[p])

SendOffer(p, q) == Unused(p) /\ Offer(p, q)

\* offer_received, get_chunks_to_accept.
ReceiveOffer(m) ==
  /\ m.type = "offer"
  /\ Believe(m.to, m.from, m.cset)
  /\ LET p == m.to
     IN \E A \in AcceptSets(Acceptable(p, m.cset)) :
          /\ locked' = [locked EXCEPT ![p] = locked[p] \union A]
          /\ Handle(m, {Msg("accept", p, m.from, A, m.tid)})
  /\ UNCHANGED <<nextId, cb, seen, topo, txn, lastTid>>

\* Fault: all that was accepted is noted before the buffer is looked at.
SendMarkingAll(m, sent) ==
  /\ Believe(m.to, m.from, bmap[m.to][m.from] \union m.cset)
  /\ Handle(m, {Msg("chunk", m.to, m.from, {c}, m.tid) : c \in sent})

\* The chunks `sent' of the accept m go out, and the peer is noted to have them.
Send(m, sent) ==
  /\ Believe(m.to, m.from, bmap[m.to][m.from] \union sent)
  /\ Handle(m, {Msg("chunk", m.to, m.from, {c}, m.tid) : c \in sent})

\* accept_received, send_accepted_chunks: a chunk that is gone from the buffer,
\* or that the neighbour is believed to have, is not sent.
ReceiveAccept(m) ==
  /\ m.type = "accept"
  /\ LET p == m.to
         q == m.from
         due == {c \in m.cset \intersect cb[p] :
                   q \in nbr[p] => Needs(bmap[p][q], size[p][q], c)}
     IN /\ txn' = [txn EXCEPT ![p] = RegAccept(txn[p], m.tid)]
        /\ \E sent \in SUBSET due :
             /\ Lossy \/ sent = due
             /\ Send(m, sent)
  /\ UNCHANGED <<nextId, local, topo, lastTid>>

\* received_chunk: unlock, deliver, store, note the sender has it, ack.  (The
\* source would drop a chunk, but none is ever sent to it: SourceNeverAccepts.
\* ack_chunk leaves out an ack only if MONL measured losses: as Lose does.)
ReceiveChunk(m) ==
  /\ m.type = "chunk"
  /\ m.to # Source
  /\ \E c \in m.cset :
       LET p == m.to
           held == CbAdd(cb[p], c)
       IN /\ cb' = [cb EXCEPT ![p] = held]
          /\ seen' = [seen EXCEPT ![p] = seen[p] \union {c}]
          /\ locked' = [locked EXCEPT ![p] = locked[p] \ {c}]
          /\ Believe(p, m.from, bmap[p][m.from] \union {c})
          /\ Handle(m, {Msg("ack", p, m.from, held, m.tid)})
  /\ UNCHANGED <<nextId, topo, txn, lastTid>>

\* ack_received, rc_reg_ack: transaction_remove.
ReceiveAck(m) ==
  /\ m.type = "ack"
  /\ Believe(m.to, m.from, m.cset)
  /\ txn' = [txn EXCEPT ![m.to] = {t \in txn[m.to] : t.id # m.tid}]
  /\ Handle(m, {})
  /\ UNCHANGED <<nextId, local, topo, lastTid>>

\* bmap_received.
ReceiveBmap(m) ==
  /\ m.type = "bmap"
  /\ Believe(m.to, m.from, m.cset)
  /\ size' = IF m.from \in nbr[m.to]
             THEN [size EXCEPT ![m.to][m.from] = Declared(m.from)] ELSE size
  /\ Handle(m, {})
  /\ UNCHANGED <<nextId, local, nbr, churn, txn, lastTid>>

\* The 2 s of p's lock on c are over.
LockTimeout(p, c) ==
  /\ c \in locked[p]
  /\ locked' = [locked EXCEPT ![p] = locked[p] \ {c}]
  /\ UNCHANGED <<nextId, cb, seen, topo, bmap, txn, lastTid, net>>

Lose(m) ==
  /\ Lossy
  /\ net' = net \ {m}
  /\ UNCHANGED <<nextId, local, topo, bmap, txn, lastTid>>

\* Fault: the new neighbour is not told what the peer holds.
JoinSilently(p, q) ==
  /\ nbr' = [nbr EXCEPT ![p] = nbr[p] \union {q}]
  /\ \E n \in {Declared(q)} \union UnknownSizes : size' = [size EXCEPT ![p][q] = n]
  /\ UNCHANGED net

\* add_peer, local part: the new neighbour is sent the buffer map.
Join(p, q) ==
  /\ nbr' = [nbr EXCEPT ![p] = nbr[p] \union {q}]
  /\ \E n \in {Declared(q)} \union UnknownSizes : size' = [size EXCEPT ![p][q] = n]
  /\ net' = net \union {Msg("bmap", p, q, cb[p], 0)}

\* update_peers adds on metadata or, without it, on an ADD message.
AddPeer(p, q) ==
  /\ churn < MaxChurn
  /\ q \notin nbr[p] \union {p}
  /\ Cardinality(net) < MaxNet
  /\ Join(p, q)
  /\ churn' = churn + 1
  /\ UNCHANGED <<nextId, local, bmap, txn, lastTid>>

\* remove_peer, local part: what was known of q goes with it.
RemovePeer(p, q) ==
  /\ churn < MaxChurn
  /\ q \in nbr[p]
  /\ nbr' = [nbr EXCEPT ![p] = nbr[p] \ {q}]
  /\ bmap' = [bmap EXCEPT ![p][q] = {}]
  /\ size' = [size EXCEPT ![p][q] = 0]
  /\ churn' = churn + 1
  /\ UNCHANGED <<nextId, local, txn, lastTid, net>>

Receive(m) ==
  \/ ReceiveOffer(m)
  \/ ReceiveAccept(m)
  \/ ReceiveChunk(m)
  \/ ReceiveAck(m)
  \/ ReceiveBmap(m)

Next ==
  \/ Generate
  \/ \E p, q \in Peers : SendOffer(p, q) \/ AddPeer(p, q) \/ RemovePeer(p, q)
  \/ \E m \in net : Receive(m) \/ Lose(m)
  \/ \E p \in Peers, c \in Chunks : LockTimeout(p, c)

Spec == Init /\ [][Next]_vars

-----------------------------------------------------------------------------
\* Every variable keeps its type (struct peer, the locks, the transactions).
TypeOK ==
  /\ nextId \in 1 .. MaxChunk + 1
  /\ cb \in [Peers -> SUBSET Chunks]
  /\ seen \in [Peers -> SUBSET Chunks]
  /\ nbr \in [Peers -> SUBSET Peers]
  /\ bmap \in [Peers -> [Peers -> SUBSET Chunks]]
  /\ size \in [Peers -> [Peers -> Nat]]
  /\ locked \in [Peers -> SUBSET Chunks]
  /\ txn \in [Peers -> SUBSET [id : Tids, accepted : BOOLEAN]]
  /\ lastTid \in [Peers -> Tids]
  /\ net \subseteq Message
  /\ churn \in 0 .. MaxChurn

\* An id that was delivered once is never asked for again, although the only
\* memory of it is the chunk buffer, which may have evicted it since: the
\* window test of _needs, on the peer's own buffer, keeps it out.
NeverRerequests == [][\A p \in Peers : (locked'[p] \ locked[p]) \intersect seen[p] = {}]_vars

\* What a peer asks for would be stored if it came now: get_chunks_to_accept
\* never requests an id that cb_add_chunk would refuse as too old.
AcceptsStorable == [][\A p \in Peers, c \in Chunks :
                        c \in locked'[p] \ locked[p] => c \in CbAdd(cb[p], c)]_vars

\* The source never requests a chunk and is never sent one, although
\* get_chunks_to_accept decides there with the real buffer size, not with the 0
\* it announces, and a neighbour without metadata does offer to it.
SourceNeverAccepts ==
  /\ locked[Source] = {}
  /\ \A m \in net : m.type = "chunk" => m.to # Source

\* A neighbour believed to hold an id has had it, or a chunk message with it is
\* on its way: with no loss nobody is starved by "don't send twice ... assuming
\* that it will actually arrive", whatever order acks, offers and buffer maps
\* overwrite the belief in.
NoPhantomChunks ==
  ~Lossy => \A p, q \in Peers : \A c \in bmap[p][q] \ seen[q] :
              \E m \in net : m.type = "chunk" /\ m.to = q /\ c \in m.cset

\* An ack only closes a transaction whose accept was registered, so that
\* transaction_remove hands rc_reg_ack a real accept time: the id in a late,
\* lost or repeated datagram never meets another offer's transaction.
AcksCloseAccepted ==
  [][\A m \in net : ReceiveAck(m) =>
       \A t \in txn[m.to] \ txn'[m.to] : t.accepted]_vars
=============================================================================
