-------------------------- MODULE ChunkTradingProofs --------------------------
(***************************************************************************)
(* Proofs about ChunkTrading, with its history and with restarts, for any  *)
(* set of peers, any overlay, any buffer size and any bounds on ids,       *)
(* datagrams, churn and restarts.                                          *)
(***************************************************************************)
EXTENDS ChunkTradingHistory, ChunkTradingRestart, FiniteSetTheorems, TLAPS

\* A datagram built by the senders of chunk_signaling.c is a datagram.
LEMMA MsgType ==
  ASSUME NEW type \in {"offer", "accept", "chunk", "ack", "bmap"},
         NEW p \in Peers, NEW q \in Peers,
         NEW cset \in SUBSET Chunks, NEW tid \in 0 .. MaxTid
  PROVE  Msg(type, p, q, cset, tid) \in Message
  BY DEF Msg, Message

\* The fields of a datagram in flight.
LEMMA Fields ==
  ASSUME TypeOK, NEW m \in net
  PROVE  /\ m \in Message
         /\ m.from \in Peers /\ m.to \in Peers
         /\ m.cset \in SUBSET Chunks /\ m.tid \in 0 .. MaxTid
  BY DEF TypeOK, Message

\* Whatever p comes to believe about q keeps the type of bmap.
LEMMA BelieveType ==
  ASSUME TypeOK, NEW p \in Peers, NEW q \in Peers, NEW set \in SUBSET Chunks,
         Believe(p, q, set)
  PROVE  bmap' \in [Peers -> [Peers -> SUBSET Chunks]]
  BY DEF TypeOK, Believe

\* cb_add_chunk stores no id but the old ones and the new one.
LEMMA CbAddType ==
  ASSUME NEW set, NEW c
  PROVE  CbAdd(set, c) \subseteq set \union {c}
  BY DEF CbAdd

\* The counter of transaction_create keeps to the non-zero 16-bit numbers.
LEMMA NextTidType ==
  ASSUME NEW t \in Tids
  PROVE  NextTid(t) \in Tids /\ NextTid(t) \in 0 .. MaxTid
  BY MaxTidAssumption DEF Tids, NextTid

-----------------------------------------------------------------------------
\* Every peer starts with well-formed state.
LEMMA InitType == Init => TypeOK
  BY BoundsAssumption, MaxTidAssumption, InitNbrAssumption, CbSizeAssumption
  DEF Init, TypeOK, Declared, Tids

\* The push of a new chunk keeps the types.
LEMMA GenerateType == ASSUME TypeOK, Generate PROVE TypeOK'
<1>1. /\ nextId \in Chunks /\ nextId' \in 1 .. MaxChunk + 1
      /\ nextId' = nextId + 1
  BY BoundsAssumption DEF TypeOK, Generate, Chunks
<1>2. cb' \in [Peers -> SUBSET Chunks] /\ seen' \in [Peers -> SUBSET Chunks]
  <2>1. CbAdd(cb[Source], nextId) \subseteq Chunks
    BY <1>1, CbAddType, SourceAssumption DEF TypeOK
  <2> QED
    BY <1>1, <2>1 DEF TypeOK, Generate
<1>3. net' \subseteq Message /\ bmap' \in [Peers -> [Peers -> SUBSET Chunks]]
  <2>1. PICK S \in PushSets({q \in nbr[Source] :
                     Needs(bmap[Source][q], size[Source][q], nextId)}) :
          /\ bmap' = [bmap EXCEPT ![Source] =
                        [q \in Peers |-> IF q \in S THEN bmap[Source][q] \union {nextId}
                                                    ELSE bmap[Source][q]]]
          /\ net' = net \union {Msg("chunk", Source, q, {nextId}, 0) : q \in S}
    BY DEF Generate, Push
  <2>2. S \subseteq nbr[Source]
    BY <2>1 DEF PushSets
  <2>3. S \subseteq Peers
    BY <2>2, SourceAssumption DEF TypeOK
  <2>4. \A q \in S : Msg("chunk", Source, q, {nextId}, 0) \in Message
    BY <1>1, <2>3, MsgType, SourceAssumption, MaxTidAssumption
  <2>5. net' \subseteq Message
    BY <2>1, <2>4 DEF TypeOK
  <2>6. bmap' \in [Peers -> [Peers -> SUBSET Chunks]]
    BY <1>1, <2>1, SourceAssumption DEF TypeOK
  <2> QED
    BY <2>5, <2>6
<1> QED
  BY <1>1, <1>2, <1>3 DEF TypeOK, Generate, topo

\* send_offer keeps the types.
LEMMA OfferType ==
  ASSUME TypeOK, NEW p \in Peers, NEW q \in Peers, Offer(p, q)
  PROVE  TypeOK'
<1> DEFINE tid == NextTid(lastTid[p])
<1>1. tid \in Tids /\ tid \in 0 .. MaxTid
  BY NextTidType DEF TypeOK
<1>2. OfferSet(p) \in SUBSET Chunks
  BY DEF OfferSet, TypeOK
<1>3. net' \subseteq Message
  BY <1>1, <1>2, MsgType DEF Offer, TypeOK
<1>4. lastTid' \in [Peers -> Tids]
  BY <1>1 DEF Offer, TypeOK
<1>5. txn' \in [Peers -> SUBSET [id : Tids, accepted : BOOLEAN]]
  <2>1. PICK open \in SUBSET txn[p] :
          txn' = [txn EXCEPT ![p] = open \union {[id |-> tid, accepted |-> FALSE]}]
    <3>1. PICK timedOut \in SUBSET txn[p] :
            txn' = [txn EXCEPT ![p] = (txn[p] \ timedOut)
                                      \union {[id |-> tid, accepted |-> FALSE]}]
      BY DEF Offer
    <3> QED
      BY <3>1
  <2>2. open \union {[id |-> tid, accepted |-> FALSE]}
          \in SUBSET [id : Tids, accepted : BOOLEAN]
    <3>1. [id |-> tid, accepted |-> FALSE] \in [id : Tids, accepted : BOOLEAN]
      BY <1>1
    <3> QED
      BY <2>1, <3>1 DEF TypeOK
  <2> QED
    BY <2>1, <2>2 DEF TypeOK
<1> QED
  BY <1>3, <1>4, <1>5 DEF TypeOK, Offer, topo, local

\* offer_received keeps the types.
LEMMA ReceiveOfferType ==
  ASSUME TypeOK, NEW m \in net, ReceiveOffer(m) PROVE TypeOK'
<1>1. /\ m.from \in Peers /\ m.to \in Peers /\ m.cset \in SUBSET Chunks
      /\ m.tid \in 0 .. MaxTid
  BY Fields
<1>2. bmap' \in [Peers -> [Peers -> SUBSET Chunks]]
  BY <1>1, BelieveType DEF ReceiveOffer
<1>3. PICK A \in AcceptSets(Acceptable(m.to, m.cset)) :
        /\ locked' = [locked EXCEPT ![m.to] = locked[m.to] \union A]
        /\ Handle(m, {Msg("accept", m.to, m.from, A, m.tid)})
  BY DEF ReceiveOffer
<1>4. A \in SUBSET Chunks
  BY <1>1, <1>3 DEF AcceptSets, Acceptable
<1>5. locked' \in [Peers -> SUBSET Chunks]
  BY <1>1, <1>3, <1>4 DEF TypeOK
<1>6. net' \subseteq Message
  BY <1>1, <1>3, <1>4, MsgType DEF TypeOK, Handle
<1> QED
  BY <1>2, <1>5, <1>6 DEF TypeOK, ReceiveOffer, topo

\* accept_received keeps the types.
LEMMA ReceiveAcceptType ==
  ASSUME TypeOK, NEW m \in net, ReceiveAccept(m) PROVE TypeOK'
<1>1. /\ m.from \in Peers /\ m.to \in Peers /\ m.cset \in SUBSET Chunks
      /\ m.tid \in 0 .. MaxTid
  BY Fields
<1>2. PICK out \in SUBSET (m.cset \intersect cb[m.to]) :
        /\ Believe(m.to, m.from, bmap[m.to][m.from] \union out)
        /\ Handle(m, {Msg("chunk", m.to, m.from, {c}, m.tid) : c \in out})
  BY DEF ReceiveAccept, Send
<1>3. bmap' \in [Peers -> [Peers -> SUBSET Chunks]]
  BY <1>1, <1>2 DEF TypeOK, Believe
<1>4. {Msg("chunk", m.to, m.from, {c}, m.tid) : c \in out} \subseteq Message
  <2>1. ASSUME NEW c \in out PROVE Msg("chunk", m.to, m.from, {c}, m.tid) \in Message
    <3>1. {c} \in SUBSET Chunks
      BY <1>1, <1>2
    <3> QED
      BY <1>1, <3>1, MsgType, Zenon
  <2> QED
    BY <2>1, Zenon
<1>5. net' \subseteq Message
  <2>1. net' \subseteq net \union {Msg("chunk", m.to, m.from, {c}, m.tid) : c \in out}
    BY <1>2 DEF Handle
  <2> QED
    BY <1>4, <2>1 DEF TypeOK
<1>6. txn' \in [Peers -> SUBSET [id : Tids, accepted : BOOLEAN]]
  <2>1. {[id |-> t.id, accepted |-> t.accepted \/ t.id = m.tid] : t \in txn[m.to]}
          \in SUBSET [id : Tids, accepted : BOOLEAN]
    <3>1. ASSUME NEW t \in txn[m.to]
          PROVE  [id |-> t.id, accepted |-> t.accepted \/ t.id = m.tid]
                   \in [id : Tids, accepted : BOOLEAN]
      <4>1. t \in [id : Tids, accepted : BOOLEAN]
        BY <1>1 DEF TypeOK
      <4>2. t.id \in Tids /\ (t.accepted \/ t.id = m.tid) \in BOOLEAN
        BY <4>1
      <4> QED
        BY <4>2, Zenon
    <3> QED
      BY <3>1
  <2> QED
    BY <2>1 DEF TypeOK, ReceiveAccept, Send, RegAccept
<1> QED
  BY <1>3, <1>5, <1>6 DEF TypeOK, ReceiveAccept, Send, topo, local

\* received_chunk keeps the types.
LEMMA ReceiveChunkType ==
  ASSUME TypeOK, NEW m \in net, ReceiveChunk(m) PROVE TypeOK'
<1>1. /\ m.from \in Peers /\ m.to \in Peers /\ m.cset \in SUBSET Chunks
      /\ m.tid \in 0 .. MaxTid
  BY Fields
<1>2. PICK c \in m.cset :
        /\ cb' = [cb EXCEPT ![m.to] = CbAdd(cb[m.to], c)]
        /\ seen' = [seen EXCEPT ![m.to] = seen[m.to] \union {c}]
        /\ locked' = [locked EXCEPT ![m.to] = locked[m.to] \ {c}]
        /\ Believe(m.to, m.from, bmap[m.to][m.from] \union {c})
        /\ Handle(m, {Msg("ack", m.to, m.from, CbAdd(cb[m.to], c), m.tid)})
  BY DEF ReceiveChunk
<1>3. c \in Chunks /\ CbAdd(cb[m.to], c) \in SUBSET Chunks
  BY <1>1, CbAddType DEF TypeOK
<1>4. bmap' \in [Peers -> [Peers -> SUBSET Chunks]]
  BY <1>1, <1>2, <1>3 DEF TypeOK, Believe
<1>5. net' \subseteq Message
  <2>1. Msg("ack", m.to, m.from, CbAdd(cb[m.to], c), m.tid) \in Message
    BY <1>1, <1>3, MsgType
  <2> QED
    BY <1>2, <2>1 DEF TypeOK, Handle
<1>6. /\ cb' \in [Peers -> SUBSET Chunks]
      /\ seen' \in [Peers -> SUBSET Chunks]
      /\ locked' \in [Peers -> SUBSET Chunks]
  BY <1>1, <1>2, <1>3 DEF TypeOK
<1> QED
  BY <1>4, <1>5, <1>6 DEF TypeOK, ReceiveChunk, topo

\* ack_received keeps the types.
LEMMA ReceiveAckType ==
  ASSUME TypeOK, NEW m \in net, ReceiveAck(m) PROVE TypeOK'
<1>1. /\ m.from \in Peers /\ m.to \in Peers /\ m.cset \in SUBSET Chunks
  BY Fields
<1>2. bmap' \in [Peers -> [Peers -> SUBSET Chunks]]
  BY <1>1, BelieveType DEF ReceiveAck
<1>3. txn' \in [Peers -> SUBSET [id : Tids, accepted : BOOLEAN]]
  BY <1>1 DEF TypeOK, ReceiveAck
<1>4. net' \subseteq Message
  BY DEF TypeOK, ReceiveAck, Handle
<1> QED
  BY <1>2, <1>3, <1>4 DEF TypeOK, ReceiveAck, topo, local

\* bmap_received keeps the types.
LEMMA ReceiveBmapType ==
  ASSUME TypeOK, NEW m \in net, ReceiveBmap(m) PROVE TypeOK'
<1>1. /\ m.from \in Peers /\ m.to \in Peers /\ m.cset \in SUBSET Chunks
  BY Fields
<1>2. bmap' \in [Peers -> [Peers -> SUBSET Chunks]]
  BY <1>1, BelieveType DEF ReceiveBmap
<1>3. size' \in [Peers -> [Peers -> Nat]]
  BY <1>1, CbSizeAssumption DEF TypeOK, ReceiveBmap, Declared
<1>4. net' \subseteq Message
  BY DEF TypeOK, ReceiveBmap, Handle
<1> QED
  BY <1>2, <1>3, <1>4 DEF TypeOK, ReceiveBmap, local

\* The expiry of a lock and the loss of a datagram keep the types.
LEMMA EnvironmentType ==
  ASSUME TypeOK,
         \/ \E p \in Peers, c \in Chunks : LockTimeout(p, c)
         \/ \E m \in net : Lose(m)
  PROVE  TypeOK'
<1>1. ASSUME NEW p \in Peers, NEW c \in Chunks, LockTimeout(p, c) PROVE TypeOK'
  BY <1>1 DEF TypeOK, LockTimeout, topo
<1>2. ASSUME NEW m \in net, Lose(m) PROVE TypeOK'
  BY <1>2 DEF TypeOK, Lose, topo, local
<1> QED
  BY <1>1, <1>2

\* add_peer and remove_peer keep the types.
LEMMA ChurnType ==
  ASSUME TypeOK, NEW p \in Peers, NEW q \in Peers,
         AddPeer(p, q) \/ RemovePeer(p, q)
  PROVE  TypeOK'
<1>1. churn' \in 0 .. MaxChurn
  BY BoundsAssumption DEF TypeOK, AddPeer, Join, RemovePeer
<1>2. CASE AddPeer(p, q)
  <2>1. Msg("bmap", p, q, cb[p], 0) \in Message
    BY MsgType, MaxTidAssumption DEF TypeOK
  <2>2. net' \subseteq Message
    BY <1>2, <2>1 DEF TypeOK, AddPeer, Join
  <2>3. size' \in [Peers -> [Peers -> Nat]]
    BY <1>2, CbSizeAssumption, UnknownSizesAssumption DEF TypeOK, AddPeer, Join, Declared
  <2> QED
    BY <1>1, <1>2, <2>2, <2>3 DEF TypeOK, AddPeer, Join, local
<1>3. CASE RemovePeer(p, q)
  BY <1>1, <1>3 DEF TypeOK, RemovePeer, local
<1> QED
  BY <1>2, <1>3

\* One step keeps the types.
LEMMA NextType == TypeOK /\ [Next]_vars => TypeOK'
<1> SUFFICES ASSUME TypeOK, [Next]_vars PROVE TypeOK'
  OBVIOUS
<1>1. CASE Generate
  BY <1>1, GenerateType
<1>2. ASSUME NEW p \in Peers, NEW q \in Peers,
             SendOffer(p, q) \/ AddPeer(p, q) \/ RemovePeer(p, q)
      PROVE  TypeOK'
  BY <1>2, OfferType, ChurnType DEF SendOffer
<1>3. ASSUME NEW m \in net, Receive(m) PROVE TypeOK'
  BY <1>3, ReceiveOfferType, ReceiveAcceptType, ReceiveChunkType,
     ReceiveAckType, ReceiveBmapType DEF Receive
<1>4. CASE \/ \E p \in Peers, c \in Chunks : LockTimeout(p, c)
           \/ \E m \in net : Lose(m)
  BY <1>4, EnvironmentType
<1>5. CASE UNCHANGED vars
  BY <1>5 DEF TypeOK, vars
<1> QED
  BY <1>1, <1>2, <1>3, <1>4, <1>5 DEF Next

\* The types of all the peers' state, for every overlay and every bound.
THEOREM TypeCorrect == Spec => []TypeOK
  BY InitType, NextType, PTL DEF Spec

-----------------------------------------------------------------------------
\* What a chunk buffer S says of the ids H its peer has had: those that are not
\* stored any more are older than all that are, and the buffer is full.
Window(S, H) ==
  \A c \in H \ S : Cardinality(S) >= CbSize /\ \A y \in S : c < y

\* A chunk buffer is a finite set, so that its size is a number.
LEMMA BufferFinite ==
  ASSUME NEW S \in SUBSET Chunks
  PROVE  IsFiniteSet(S) /\ Cardinality(S) \in Nat
<1>1. IsFiniteSet(Chunks)
  BY FS_Interval, BoundsAssumption DEF Chunks
<1>2. IsFiniteSet(S)
  BY <1>1, FS_Subset
<1> QED
  BY <1>2, FS_CardinalityType

\* _needs on the peer's own buffer turns down every id it has had: the buffer
\* remembers by its oldest id what it has evicted.
LEMMA NeedsNothingSeen ==
  ASSUME NEW S \in SUBSET Chunks, NEW H \in SUBSET Chunks, Window(S, H), NEW c \in H
  PROVE  ~Needs(S, CbSize, c)
<1> SUFFICES ASSUME Needs(S, CbSize, c) PROVE FALSE
  OBVIOUS
<1>1. c \notin S
  BY DEF Needs
<1>2. Cardinality(S) >= CbSize /\ \A y \in S : c < y
  BY <1>1 DEF Window
<1>3. S # {}
  BY <1>2, FS_EmptySet, CbSizeAssumption
<1>4. PICK oldest \in S :
        c >= oldest - (IF CbSize > Cardinality(S) THEN CbSize - Cardinality(S) ELSE 0)
  BY <1>3 DEF Needs
<1>5. c >= oldest /\ c \in Nat /\ oldest \in Nat
  BY <1>2, <1>4, BufferFinite, CbSizeAssumption DEF Chunks
<1> QED
  BY <1>2, <1>5

\* cb_add_chunk keeps to the window, whatever id comes: also one that makes it
\* evict, one that is itself too old to be stored and one it evicted before.
LEMMA CbAddWindow ==
  ASSUME NEW S \in SUBSET Chunks, NEW H \in SUBSET Chunks, S \subseteq H,
         Window(S, H), NEW c \in Chunks
  PROVE  /\ CbAdd(S, c) \subseteq H \union {c}
         /\ Window(CbAdd(S, c), H \union {c})
<1> DEFINE all == S \union {c}
           new == {x \in all : \E y \in all : y < x}
<1>1. /\ IsFiniteSet(S) /\ Cardinality(S) \in Nat /\ CbSize \in Nat
      /\ \A x \in all \union H : x \in Nat
  BY BufferFinite, CbSizeAssumption DEF Chunks
<1>2. CASE c \in S
  BY <1>2, S \union {c} = S, H \union {c} = H DEF CbAdd
<1>3. CASE c \notin S /\ Cardinality(S) < CbSize
  <2>1. H \subseteq S
    BY <1>1, <1>3 DEF Window
  <2>2. CbAdd(S, c) = all
    BY <1>3 DEF CbAdd
  <2> QED
    BY <2>1, <2>2 DEF Window
<1>4. CASE c \notin S /\ ~(Cardinality(S) < CbSize)
  <2>1. CbAdd(S, c) = new
    BY <1>4 DEF CbAdd
  <2>2. IsFiniteSet(all) /\ Cardinality(all) = Cardinality(S) + 1
    BY <1>1, <1>4, FS_AddElement
  <2>3. \A x \in all \ new : \A y \in all \ {x} : x < y
    BY <1>1
  <2>4. Cardinality(new) >= CbSize
    <3>1. CASE new = all
      BY <1>1, <1>4, <2>2, <3>1, SMTT(30)
    <3>2. ASSUME NEW x \in all \ new PROVE Cardinality(new) >= CbSize
      <4>1. new = all \ {x}
        BY <1>1, <2>3
      <4>2. Cardinality(all \ {x}) = Cardinality(all) - 1
        BY <2>2, FS_RemoveElement
      <4> HIDE DEF new, all
      <4> QED
        BY <1>1, <1>4, <2>2, <4>1, <4>2
    <3> QED
      BY <3>1, <3>2
  <2>5. ASSUME NEW z \in (H \union {c}) \ new, NEW y \in new
        PROVE  z < y
    <3>1. CASE z \in all
      BY <2>3, <2>5, <3>1
    <3>2. CASE z \notin all
      <4>1. \A x \in S : z < x
        BY <3>2 DEF Window
      <4>2. CASE y \in S
        BY <4>1, <4>2
      <4>3. CASE y = c
        <5>1. PICK x \in S : x < c
          BY <1>1, <4>3
        <5> QED
          BY <1>1, <4>1, <4>3, <5>1
      <4> QED
        BY <4>2, <4>3
    <3> QED
      BY <3>1, <3>2
  <2> QED
    BY <2>1, <2>4, <2>5 DEF Window
<1> QED
  BY <1>2, <1>3, <1>4

\* What get_chunks_to_accept asks for, cb_add_chunk stores.
LEMMA NeededIsStorable ==
  ASSUME NEW S \in SUBSET Chunks, NEW c \in Chunks, Needs(S, CbSize, c)
  PROVE  c \in CbAdd(S, c)
<1>1. /\ IsFiniteSet(S) /\ Cardinality(S) \in Nat /\ CbSize \in Nat \ {0}
      /\ \A x \in S \union {c} : x \in Nat
  BY BufferFinite, CbSizeAssumption DEF Chunks
<1>2. CASE Cardinality(S) < CbSize
  BY <1>2 DEF CbAdd
<1>3. CASE ~(Cardinality(S) < CbSize)
  <2>1. S # {} /\ c \notin S
    BY <1>1, <1>3, FS_EmptySet DEF Needs
  <2>2. PICK oldest \in S :
        c >= oldest - (IF CbSize > Cardinality(S) THEN CbSize - Cardinality(S) ELSE 0)
    BY <2>1 DEF Needs
  <2>3. oldest < c
    BY <1>1, <1>3, <2>1, <2>2, SMTT(30)
  <2> QED
    BY <2>1, <2>3 DEF CbAdd
<1> QED
  BY <1>2, <1>3

-----------------------------------------------------------------------------
\* Only an offer makes a peer lock an id, one that _needs asked for.
LEMMA NewLock ==
  ASSUME TypeOK, [Next]_vars, NEW p \in Peers, NEW c \in locked'[p] \ locked[p]
  PROVE  /\ c \in Chunks /\ Needs(cb[p], CbSize, c)
         /\ \E m \in net : c \in m.cset
<1>1. ASSUME NEW m \in net, ReceiveOffer(m)
      PROVE  c \in Chunks /\ Needs(cb[p], CbSize, c) /\ c \in m.cset
  <2>1. m.to \in Peers /\ m.cset \in SUBSET Chunks
    BY Fields
  <2>2. PICK A \in AcceptSets(Acceptable(m.to, m.cset)) :
          locked' = [locked EXCEPT ![m.to] = locked[m.to] \union A]
    BY <1>1 DEF ReceiveOffer
  <2>3. A \subseteq {x \in m.cset : Needs(cb[m.to], CbSize, x)}
    BY <2>2 DEF AcceptSets, Acceptable
  <2>4. p = m.to /\ c \in A
    BY <2>1, <2>2 DEF TypeOK
  <2> QED
    BY <2>1, <2>3, <2>4
<1>2. ASSUME NEW m \in net, ReceiveChunk(m)
      PROVE  c \in locked[p]
  <2>1. PICK x : locked' = [locked EXCEPT ![m.to] = locked[m.to] \ {x}]
    BY <1>2 DEF ReceiveChunk
  <2> QED
    BY <2>1, Fields DEF TypeOK
<1>3. ASSUME NEW q \in Peers, NEW x \in Chunks, LockTimeout(q, x)
      PROVE  c \in locked[p]
  BY <1>3 DEF LockTimeout, TypeOK
<1>4. CASE locked' = locked
  BY <1>4
<1> QED
  BY <1>1, <1>2, <1>3, <1>4, ZenonT(60)
  DEF Next, Receive, Generate, SendOffer, Offer, ReceiveAccept, Send, ReceiveAck, ReceiveBmap,
      Lose, AddPeer, Join, RemovePeer, local, vars

\* A step locks only ids that the buffer would store.
LEMMA StorableStep ==
  ASSUME TypeOK, [Next]_vars, NEW p \in Peers, NEW c \in Chunks,
         c \in locked'[p] \ locked[p]
  PROVE  c \in CbAdd(cb[p], c)
<1>1. Needs(cb[p], CbSize, c)
  BY NewLock
<1> QED
  BY <1>1, NeededIsStorable DEF TypeOK

\* An accepted chunk could be stored: no request is wasted on an id that the
\* buffer would turn down as too old.
THEOREM Storable == Spec => AcceptsStorable
<1>1. TypeOK /\ [Next]_vars =>
        [\A p \in Peers, c \in Chunks :
           c \in locked'[p] \ locked[p] => c \in CbAdd(cb[p], c)]_vars
  BY StorableStep
<1> QED
  BY <1>1, TypeCorrect, PTL DEF Spec, AcceptsStorable

\* What a step does to a peer's buffer and to the ids it has had: nothing, or
\* cb_add_chunk of the source's next id or of a chunk just received.
LEMMA StoreStep ==
  ASSUME TypeOK, [Next]_vars, NEW p \in Peers
  PROVE  \/ seen'[p] = seen[p] /\ cb'[p] = cb[p]
         \/ \E c \in Chunks :
              /\ seen'[p] = seen[p] \union {c}
              /\ cb'[p] = CbAdd(cb[p], c)
              /\ \/ p = Source /\ c = nextId /\ Generate
                 \/ /\ p # Source
                    /\ \E m \in net : m.type = "chunk" /\ m.to = p /\ c \in m.cset
<1>1. CASE Generate
  <2>1. nextId \in Chunks
    BY <1>1, BoundsAssumption DEF Generate, TypeOK, Chunks
  <2> QED
    BY <1>1, <2>1, SourceAssumption DEF Generate, TypeOK
<1>2. ASSUME NEW m \in net, ReceiveChunk(m)
      PROVE  \/ seen'[p] = seen[p] /\ cb'[p] = cb[p]
             \/ \E c \in Chunks :
                  /\ seen'[p] = seen[p] \union {c}
                  /\ cb'[p] = CbAdd(cb[p], c)
                  /\ p # Source
                  /\ m.type = "chunk" /\ m.to = p /\ c \in m.cset
  <2>1. PICK c \in m.cset :
        /\ cb' = [cb EXCEPT ![m.to] = CbAdd(cb[m.to], c)]
        /\ seen' = [seen EXCEPT ![m.to] = seen[m.to] \union {c}]
    BY <1>2 DEF ReceiveChunk
  <2>2. m.type = "chunk" /\ m.to # Source /\ m.to \in Peers /\ c \in Chunks
    BY <1>2, Fields DEF ReceiveChunk
  <2> QED
    BY <2>1, <2>2 DEF TypeOK
<1>3. CASE seen' = seen /\ cb' = cb
  BY <1>3
<1> QED
  BY <1>1, <1>2, <1>3, ZenonT(60)
  DEF Next, Receive, SendOffer, Offer, ReceiveOffer, ReceiveAccept, Send, ReceiveAck, ReceiveBmap,
      LockTimeout, Lose, AddPeer, Join, RemovePeer, local, vars

\* Where a datagram that was not in flight before the step comes from.
LEMMA NewMessage ==
  ASSUME TypeOK, [Next]_vars, NEW n \in net', n \notin net
  PROVE  \/ /\ Generate
            /\ \E q \in nbr[Source] : n = Msg("chunk", Source, q, {nextId}, 0)
         \/ \E p, q \in Peers :
              /\ SendOffer(p, q)
              /\ n = Msg("offer", p, q, OfferSet(p), NextTid(lastTid[p]))
         \/ \E m \in net :
              /\ ReceiveOffer(m)
              /\ \E A \in SUBSET {c \in m.cset : Needs(cb[m.to], CbSize, c)} :
                   n = Msg("accept", m.to, m.from, A, m.tid)
         \/ \E m \in net :
              /\ ReceiveAccept(m)
              /\ \E c \in m.cset \intersect cb[m.to] :
                   n = Msg("chunk", m.to, m.from, {c}, m.tid)
         \/ \E m \in net :
              /\ ReceiveChunk(m)
              /\ n = Msg("ack", m.to, m.from, cb'[m.to], m.tid)
         \/ \E p, q \in Peers :
              /\ AddPeer(p, q)
              /\ n = Msg("bmap", p, q, cb[p], 0)
<1> DEFINE Goal ==
         \/ /\ Generate
            /\ \E q \in nbr[Source] : n = Msg("chunk", Source, q, {nextId}, 0)
         \/ \E p, q \in Peers :
              /\ SendOffer(p, q)
              /\ n = Msg("offer", p, q, OfferSet(p), NextTid(lastTid[p]))
         \/ \E m \in net :
              /\ ReceiveOffer(m)
              /\ \E A \in SUBSET {c \in m.cset : Needs(cb[m.to], CbSize, c)} :
                   n = Msg("accept", m.to, m.from, A, m.tid)
         \/ \E m \in net :
              /\ ReceiveAccept(m)
              /\ \E c \in m.cset \intersect cb[m.to] :
                   n = Msg("chunk", m.to, m.from, {c}, m.tid)
         \/ \E m \in net :
              /\ ReceiveChunk(m)
              /\ n = Msg("ack", m.to, m.from, cb'[m.to], m.tid)
         \/ \E p, q \in Peers :
              /\ AddPeer(p, q)
              /\ n = Msg("bmap", p, q, cb[p], 0)
<1>1. ASSUME Generate PROVE Goal
  <2>1. PICK S \in PushSets({q \in nbr[Source] :
                     Needs(bmap[Source][q], size[Source][q], nextId)}) :
          net' = net \union {Msg("chunk", Source, q, {nextId}, 0) : q \in S}
    BY <1>1 DEF Generate, Push
  <2>2. S \subseteq nbr[Source]
    BY <2>1 DEF PushSets
  <2> QED
    BY <1>1, <2>1, <2>2
<1>2. ASSUME NEW p \in Peers, NEW q \in Peers, SendOffer(p, q) PROVE Goal
  BY <1>2 DEF SendOffer, Offer
<1>3. ASSUME NEW m \in net, ReceiveOffer(m) PROVE Goal
  <2>1. PICK A \in AcceptSets(Acceptable(m.to, m.cset)) :
          Handle(m, {Msg("accept", m.to, m.from, A, m.tid)})
    BY <1>3 DEF ReceiveOffer
  <2>2. A \in SUBSET {c \in m.cset : Needs(cb[m.to], CbSize, c)}
    BY <2>1 DEF AcceptSets, Acceptable
  <2>3. n = Msg("accept", m.to, m.from, A, m.tid)
    BY <2>1 DEF Handle
  <2> QED
    BY <1>3, <2>2, <2>3
<1>4. ASSUME NEW m \in net, ReceiveAccept(m) PROVE Goal
  <2>1. PICK out \in SUBSET (m.cset \intersect cb[m.to]) :
          Handle(m, {Msg("chunk", m.to, m.from, {c}, m.tid) : c \in out})
    BY <1>4 DEF ReceiveAccept, Send
  <2>2. n \in {Msg("chunk", m.to, m.from, {c}, m.tid) : c \in out}
    BY <2>1 DEF Handle
  <2> QED
    BY <1>4, <2>1, <2>2
<1>5. ASSUME NEW m \in net, ReceiveChunk(m) PROVE Goal
  <2>1. PICK c \in m.cset :
          /\ cb' = [cb EXCEPT ![m.to] = CbAdd(cb[m.to], c)]
          /\ Handle(m, {Msg("ack", m.to, m.from, CbAdd(cb[m.to], c), m.tid)})
    BY <1>5 DEF ReceiveChunk
  <2>2. cb'[m.to] = CbAdd(cb[m.to], c)
    BY <2>1, Fields DEF TypeOK
  <2>3. n = Msg("ack", m.to, m.from, CbAdd(cb[m.to], c), m.tid)
    BY <2>1 DEF Handle
  <2> QED
    BY <1>5, <2>2, <2>3
<1>6. ASSUME NEW p \in Peers, NEW q \in Peers, AddPeer(p, q) PROVE Goal
  BY <1>6 DEF AddPeer, Join
<1>7. ASSUME net' \subseteq net PROVE Goal
  BY <1>7
<1>8. ASSUME NEW m \in net, ReceiveAck(m) \/ ReceiveBmap(m) \/ Lose(m)
      PROVE  net' \subseteq net
  BY <1>8 DEF ReceiveAck, ReceiveBmap, Lose, Handle
<1>9. ASSUME NEW p \in Peers, NEW q \in Peers, RemovePeer(p, q)
      PROVE  net' \subseteq net
  BY <1>9 DEF RemovePeer
<1>10. ASSUME NEW p \in Peers, NEW c \in Chunks, LockTimeout(p, c)
       PROVE  net' \subseteq net
  BY <1>10 DEF LockTimeout
<1>11. ASSUME UNCHANGED vars PROVE net' \subseteq net
  BY <1>11 DEF vars
<1> HIDE DEF Goal
<1>12. ASSUME NEW m \in net, Receive(m) \/ Lose(m) PROVE Goal
  BY <1>3, <1>4, <1>5, <1>7, <1>8, <1>12 DEF Receive
<1>13. ASSUME NEW p \in Peers, NEW q \in Peers,
              SendOffer(p, q) \/ AddPeer(p, q) \/ RemovePeer(p, q)
       PROVE  Goal
  BY <1>2, <1>6, <1>7, <1>9, <1>13
<1>14. Goal
  BY <1>1, <1>7, <1>10, <1>11, <1>12, <1>13 DEF Next
<1> QED
  BY <1>14 DEF Goal

-----------------------------------------------------------------------------
\* No peer is its own neighbour.
NeighboursAreOthers == \A p \in Peers : p \notin nbr[p]

\* Only ids that the input handed out are around, and the source had them all.
KnownIds ==
  /\ seen[Source] = 1 .. nextId - 1
  /\ \A p \in Peers : cb[p] \subseteq seen[p] /\ seen[p] \subseteq 1 .. nextId - 1
  /\ \A m \in net : m.cset \subseteq 1 .. nextId - 1

Windows == \A p \in Peers : Window(cb[p], seen[p])

\* The source accepts nothing, so nothing is sent to it.
SourceQuiet ==
  /\ SourceNeverAccepts
  /\ \A m \in net : m.type = "accept" /\ m.from = Source => m.cset = {}

\* A chunk sent under a transaction, and its ack, find it accepted or gone.
AcceptedBeforeAck ==
  \A m \in net : m.type \in {"chunk", "ack"} =>
    \A t \in txn[Owner(m)] : t.id = m.tid => t.accepted

\* What a peer tells that it holds it has had; a chunk datagram carries one id.
Truthful ==
  \A m \in net :
    /\ m.type # "accept" => m.cset \subseteq seen[m.from]
    /\ m.type = "chunk" => \E c \in Chunks : m.cset = {c}

\* What a restart keeps too, whatever outlives it.
BaseInv == TypeOK /\ NeighboursAreOthers /\ KnownIds /\ Windows /\ SourceQuiet

\* What holds on any network.
SafeInv == BaseInv /\ AcceptedBeforeAck /\ Truthful

\* The inductive invariant.
IInv == SafeInv /\ NoPhantomChunks

\* Nothing is stored, accepted or in flight at the start.
LEMMA InitIInv == Init => IInv
<1> SUFFICES ASSUME Init PROVE IInv
  OBVIOUS
<1>1. TypeOK
  BY InitType
<1>2. NeighboursAreOthers
  BY InitNbrAssumption DEF Init, NeighboursAreOthers
<1>3. KnownIds
  BY SourceAssumption DEF Init, KnownIds
<1>4. Windows
  BY DEF Init, Windows, Window
<1>5. SourceQuiet /\ AcceptedBeforeAck /\ Truthful
  BY SourceAssumption
  DEF Init, SourceQuiet, SourceNeverAccepts, AcceptedBeforeAck, Truthful
<1>6. NoPhantomChunks
  BY SMTT(30) DEF Init, NoPhantomChunks
<1> QED
  BY <1>1, <1>2, <1>3, <1>4, <1>5, <1>6 DEF IInv, SafeInv, BaseInv

\* add_peer and remove_peer leave a peer out of its own neighbourhood.
LEMMA OthersStep == ASSUME BaseInv, [Next]_vars PROVE NeighboursAreOthers'
<1> USE DEF BaseInv, TypeOK, NeighboursAreOthers
<1>1. ASSUME NEW p \in Peers, NEW q \in Peers, AddPeer(p, q) \/ RemovePeer(p, q)
      PROVE  NeighboursAreOthers'
  BY <1>1 DEF AddPeer, Join, RemovePeer
<1>2. CASE nbr' = nbr
  BY <1>2, SMTT(30)
<1> QED
  BY <1>1, <1>2
  DEF Next, Receive, Generate, SendOffer, Offer, ReceiveOffer, ReceiveAccept, Send, ReceiveChunk,
      ReceiveAck, ReceiveBmap, LockTimeout, Lose, topo, vars

\* The input numbers the chunks one after the other.
LEMMA NextIdStep ==
  ASSUME TypeOK, [Next]_vars
  PROVE  \/ Generate /\ nextId' = nextId + 1
         \/ nextId' = nextId
  BY ZenonT(60) DEF Next, Receive, Generate, SendOffer, Offer, ReceiveOffer, ReceiveAccept, Send, ReceiveChunk,
         ReceiveAck, ReceiveBmap, LockTimeout, Lose, AddPeer, Join, RemovePeer, vars

\* What a peer has had stays had.
LEMMA SeenGrows ==
  ASSUME TypeOK, [Next]_vars, NEW p \in Peers
  PROVE  seen[p] \subseteq seen'[p]
  BY StoreStep

\* The ids handed out after one more.
LEMMA OneMoreId ==
  ASSUME NEW n \in Nat \ {0}
  PROVE  1 .. (n + 1) - 1 = (1 .. n - 1) \union {n}
  OBVIOUS

\* Ids spread from the source; received chunks bring no other.
LEMMA KnownIdsStep == ASSUME BaseInv, [Next]_vars PROVE KnownIds'
<1>1. TypeOK /\ KnownIds /\ SourceQuiet /\ nextId \in Nat \ {0}
  BY BoundsAssumption DEF BaseInv, TypeOK
<1>2. nextId' \in Nat /\ 1 .. nextId - 1 \subseteq 1 .. nextId' - 1
  BY <1>1, NextIdStep
<1>3. Generate => nextId' = nextId + 1 /\ seen'[Source] = seen[Source] \union {nextId}
  BY SourceAssumption, <1>1 DEF Generate, TypeOK
<1>4. seen'[Source] = 1 .. nextId' - 1
  <2>1. CASE Generate
    <3>1. nextId' = nextId + 1 /\ seen'[Source] = (1 .. nextId - 1) \union {nextId}
      BY <1>1, <1>3, <2>1 DEF KnownIds
    <3>2. (1 .. nextId - 1) \union {nextId} = 1 .. (nextId + 1) - 1
      BY <1>1, OneMoreId
    <3> QED
      BY <3>1, <3>2
  <2>2. CASE ~Generate
    <3>1. nextId' = nextId
      BY <1>1, <2>2, NextIdStep
    <3>2. seen'[Source] = seen[Source]
      BY <1>1, <2>2, SourceAssumption, StoreStep
    <3> QED
      BY <1>1, <3>1, <3>2 DEF KnownIds
  <2> QED
    BY <2>1, <2>2
<1>5. ASSUME NEW p \in Peers
      PROVE  cb'[p] \subseteq seen'[p] /\ seen'[p] \subseteq 1 .. nextId' - 1
  <2>1. cb[p] \subseteq seen[p] /\ seen[p] \subseteq 1 .. nextId' - 1
    BY <1>1, <1>2 DEF KnownIds
  <2>2. CASE seen'[p] = seen[p] /\ cb'[p] = cb[p]
    BY <2>1, <2>2
  <2>3. CASE ~(seen'[p] = seen[p] /\ cb'[p] = cb[p])
    <3>1. PICK c \in Chunks :
              /\ seen'[p] = seen[p] \union {c}
              /\ cb'[p] = CbAdd(cb[p], c)
              /\ \/ p = Source /\ c = nextId /\ Generate
                 \/ \E m \in net : c \in m.cset
      BY <1>1, <2>3, StoreStep
    <3>2. c \in 1 .. nextId' - 1
      <4>1. CASE c = nextId /\ Generate
        BY <1>1, <1>3, <4>1
      <4>2. CASE \E m \in net : c \in m.cset
        BY <1>1, <1>2, <4>2 DEF KnownIds
      <4> QED
        BY <3>1, <4>1, <4>2
    <3>3. cb'[p] \subseteq cb[p] \union {c}
      BY <3>1, CbAddType
    <3> QED
      BY <2>1, <3>1, <3>2, <3>3
  <2> QED
    BY <2>2, <2>3
<1>6. ASSUME NEW n \in net'
      PROVE  n.cset \subseteq 1 .. nextId' - 1
  <2>1. CASE n \in net
    BY <1>1, <1>2, <2>1 DEF KnownIds
  <2>2. CASE n \notin net
    <3>1. \A p \in Peers : OfferSet(p) \subseteq cb[p]
      BY DEF OfferSet
    <3>2. \A m \in net : m.to \in Peers
      BY <1>1, Fields
    <3>3. \/ n.cset = {nextId} /\ Generate
          \/ \E p \in Peers : n.cset \subseteq cb[p] \/ n.cset = cb'[p]
          \/ \E m \in net : n.cset \subseteq m.cset
      BY <1>1, <2>2, <3>1, <3>2, NewMessage DEF Msg
    <3>4. CASE n.cset = {nextId} /\ Generate
      BY <1>1, <1>3, <3>4
    <3>5. ASSUME NEW p \in Peers, n.cset \subseteq cb[p] \/ n.cset = cb'[p]
          PROVE  n.cset \subseteq 1 .. nextId' - 1
      <4>1. cb[p] \subseteq 1 .. nextId - 1 /\ cb'[p] \subseteq 1 .. nextId' - 1
        BY <1>1, <1>5 DEF KnownIds
      <4> QED
        BY <1>2, <3>5, <4>1
    <3>6. ASSUME NEW m \in net, n.cset \subseteq m.cset
          PROVE  n.cset \subseteq 1 .. nextId' - 1
      <4>1. m.cset \subseteq 1 .. nextId - 1
        BY <1>1 DEF KnownIds
      <4> QED
        BY <1>2, <3>6, <4>1
    <3> QED
      BY <3>3, <3>4, <3>5, <3>6
  <2> QED
    BY <2>1, <2>2
<1> QED
  BY <1>4, <1>5, <1>6 DEF KnownIds

\* Every buffer keeps its window.
LEMMA WindowsStep == ASSUME BaseInv, [Next]_vars PROVE Windows'
<1> SUFFICES ASSUME NEW p \in Peers PROVE Window(cb'[p], seen'[p])
  BY DEF Windows, Window
<1>1. /\ TypeOK /\ cb[p] \in SUBSET Chunks /\ seen[p] \in SUBSET Chunks
      /\ cb[p] \subseteq seen[p] /\ Window(cb[p], seen[p])
  BY DEF BaseInv, TypeOK, KnownIds, Windows
<1>2. CASE seen'[p] = seen[p] /\ cb'[p] = cb[p]
  BY <1>1, <1>2
<1>3. ASSUME NEW c \in Chunks,
             seen'[p] = seen[p] \union {c}, cb'[p] = CbAdd(cb[p], c)
      PROVE  Window(cb'[p], seen'[p])
  BY <1>1, <1>3, CbAddWindow
<1> QED
  BY <1>1, <1>2, <1>3, StoreStep

\* The source has had every id there is, and so asks for none.
LEMMA SourceQuietStep == ASSUME BaseInv, [Next]_vars PROVE SourceQuiet'
<1>1. /\ TypeOK /\ KnownIds /\ SourceQuiet /\ Source \in Peers
      /\ Source \notin nbr[Source]
      /\ cb[Source] \in SUBSET Chunks /\ seen[Source] \in SUBSET Chunks
      /\ Window(cb[Source], seen[Source])
  BY SourceAssumption DEF BaseInv, TypeOK, NeighboursAreOthers, Windows
<1>2. ASSUME NEW m \in net, NEW c \in m.cset
      PROVE  ~Needs(cb[Source], CbSize, c)
  <2>1. c \in seen[Source]
    BY <1>1 DEF KnownIds
  <2> QED
    BY <1>1, <2>1, NeedsNothingSeen
<1>3. locked'[Source] = {}
  <2> SUFFICES ASSUME NEW c \in locked'[Source] PROVE FALSE
    OBVIOUS
  <2>1. c \in locked'[Source] \ locked[Source]
    BY <1>1 DEF SourceQuiet, SourceNeverAccepts
  <2> QED
    BY <1>1, <1>2, <2>1, NewLock
<1>4. ASSUME NEW n \in net'
      PROVE  /\ n.type = "chunk" => n.to # Source
             /\ n.type = "accept" /\ n.from = Source => n.cset = {}
  <2>1. CASE n \in net
    BY <1>1, <2>1 DEF SourceQuiet, SourceNeverAccepts
  <2>2. CASE n \notin net
    <3>1. CASE \E m \in net : \E A \in SUBSET {c \in m.cset : Needs(cb[m.to], CbSize, c)} :
                 n = Msg("accept", m.to, m.from, A, m.tid)
      BY <1>2, <3>1 DEF Msg
    <3>2. CASE \E m \in net :
                 /\ ReceiveAccept(m)
                 /\ \E c \in m.cset : n = Msg("chunk", m.to, m.from, {c}, m.tid)
      BY <1>1, <3>2 DEF Msg, ReceiveAccept, Send, SourceQuiet
    <3>3. CASE \E q \in nbr[Source] : n = Msg("chunk", Source, q, {nextId}, 0)
      BY <1>1, <3>3 DEF Msg
    <3>4. CASE n.type \in {"offer", "ack", "bmap"}
      BY <3>4
    <3> QED
      BY <1>1, <2>2, <3>1, <3>2, <3>3, <3>4, NewMessage DEF Msg
  <2> QED
    BY <2>1, <2>2
<1> QED
  BY <1>3, <1>4 DEF SourceQuiet, SourceNeverAccepts

\* What a step does to a peer's transactions.
LEMMA TxnStep ==
  ASSUME TypeOK, [Next]_vars, NEW p \in Peers, NEW t \in txn'[p]
  PROVE  \/ t \in txn[p]
         \/ \A m \in net : Owner(m) = p => m.tid # t.id
         \/ \E u \in txn[p] : t.id = u.id /\ (u.accepted => t.accepted)
<1>1. ASSUME NEW x \in Peers, NEW q \in Peers, SendOffer(x, q)
      PROVE  t \in txn[p] \/ \A m \in net : Owner(m) = p => m.tid # t.id
  <2> DEFINE tid == NextTid(lastTid[x])
  <2>1. PICK timedOut \in SUBSET txn[x] :
          txn' = [txn EXCEPT ![x] = (txn[x] \ timedOut)
                                    \union {[id |-> tid, accepted |-> FALSE]}]
    BY <1>1 DEF SendOffer, Offer, Unused
  <2>2. \A m \in net : Owner(m) = x => m.tid # tid
    BY <1>1 DEF SendOffer, Offer, Unused
  <2> HIDE DEF tid
  <2>3. CASE p = x
    BY <2>1, <2>2, <2>3 DEF TypeOK
  <2>4. CASE p # x
    BY <2>1, <2>4 DEF TypeOK
  <2> QED
    BY <2>3, <2>4
<1>2. ASSUME NEW m \in net, ReceiveAccept(m)
      PROVE  t \in txn[p] \/ \E u \in txn[p] : t.id = u.id /\ (u.accepted => t.accepted)
  <2>1. txn' = [txn EXCEPT ![m.to] =
           {[id |-> u.id, accepted |-> u.accepted \/ u.id = m.tid] : u \in txn[m.to]}]
    BY <1>2 DEF ReceiveAccept, Send, RegAccept
  <2>2. CASE p = m.to
    <3>1. PICK u \in txn[p] : t = [id |-> u.id, accepted |-> u.accepted \/ u.id = m.tid]
      BY <2>1, <2>2 DEF TypeOK
    <3>2. t.id = u.id /\ t.accepted = (u.accepted \/ u.id = m.tid)
      BY <3>1, Zenon
    <3> QED
      BY <3>2
  <2>3. CASE p # m.to
    BY <2>1, <2>3 DEF TypeOK
  <2> QED
    BY <2>2, <2>3
<1>3. ASSUME NEW m \in net, ReceiveAck(m) PROVE t \in txn[p]
  BY <1>3, Fields DEF ReceiveAck, TypeOK
<1>4. CASE txn' = txn
  BY <1>4
<1> QED
  BY <1>1, <1>2, <1>3, <1>4
  DEF Next, Receive, Generate, ReceiveOffer, ReceiveChunk, ReceiveBmap,
      LockTimeout, Lose, AddPeer, Join, RemovePeer, vars

\* A chunk or an ack that meets an open transaction which was not accepted has
\* been preceded by one that did: accept_received marks the transaction before the
\* chunk is sent under it, and no id that is still on its way starts a new one.
LEMMA StaleStep ==
  ASSUME TypeOK, [Next]_vars, NEW n \in net', n.type \in {"chunk", "ack"},
         NEW t \in txn'[Owner(n)], t.id = n.tid, ~t.accepted
  PROVE  \E m \in net : /\ m.type \in {"chunk", "ack"}
                        /\ Owner(m) = Owner(n) /\ m.tid = n.tid
                        /\ \E u \in txn[Owner(m)] : u.id = m.tid /\ ~u.accepted
<1> DEFINE Meets(m) == /\ m.type \in {"chunk", "ack"}
                       /\ Owner(m) = Owner(n) /\ m.tid = n.tid
                       /\ \E u \in txn[Owner(m)] : u.id = m.tid /\ ~u.accepted
           Goal == \E m \in net : Meets(m)
<1>1. TypeOK'
  BY NextType
<1>2. n \in Message /\ Owner(n) \in Peers
  BY <1>1 DEF TypeOK, Message, Owner
<1>3. ASSUME NEW m \in net, m.type \in {"chunk", "ack"}, Owner(m) = Owner(n),
             m.tid = n.tid
      PROVE  Goal
  <2>1. PICK u \in txn[Owner(n)] : t.id = u.id /\ ~u.accepted
    BY <1>2, <1>3, TxnStep
  <2>2. Meets(m)
    BY <1>3, <2>1
  <2> QED
    BY <1>3, <2>2
<1> HIDE DEF Meets, Goal
<1>4. ASSUME n \in net PROVE Goal
  BY <1>3, <1>4
<1>5. ASSUME n \notin net PROVE Goal
  <2>1. ASSUME n.tid = 0 PROVE FALSE
    <3>1. t.id \in Tids
      BY <1>1, <1>2 DEF TypeOK
    <3> QED
      BY <2>1, <3>1, MaxTidAssumption DEF Tids
  <2>2. ASSUME NEW m \in net, ReceiveAccept(m), Owner(n) = m.to, n.tid = m.tid
        PROVE  FALSE
    <3>1. txn'[m.to] =
            {[id |-> u.id, accepted |-> u.accepted \/ u.id = m.tid] : u \in txn[m.to]}
      BY <2>2, Fields DEF ReceiveAccept, Send, RegAccept, TypeOK
    <3>2. PICK u \in txn[m.to] : t = [id |-> u.id, accepted |-> u.accepted \/ u.id = m.tid]
      BY <2>2, <3>1
    <3>3. t.id = u.id /\ t.accepted = (u.accepted \/ u.id = m.tid)
      BY <3>2, Zenon
    <3> QED
      BY <2>2, <3>3
  <2>3. ASSUME NEW m \in net, ReceiveChunk(m), Owner(n) = m.from, n.tid = m.tid
        PROVE  Goal
    BY <1>3, <2>3 DEF ReceiveChunk, Owner
  <2>4. \/ n.tid = 0
        \/ \E m \in net : ReceiveAccept(m) /\ Owner(n) = m.to /\ n.tid = m.tid
        \/ \E m \in net : ReceiveChunk(m) /\ Owner(n) = m.from /\ n.tid = m.tid
    BY <1>5, NewMessage DEF Msg, Owner
  <2> QED
    BY <2>1, <2>2, <2>3, <2>4
<1>6. Goal
  BY <1>4, <1>5
<1> QED
  BY <1>6 DEF Goal, Meets

\* So there is none.
LEMMA AcceptedStep == ASSUME SafeInv, [Next]_vars PROVE AcceptedBeforeAck'
<1>1. TypeOK /\ AcceptedBeforeAck
  BY DEF SafeInv, BaseInv
<1> SUFFICES ASSUME NEW n \in net', n.type \in {"chunk", "ack"},
                    NEW t \in txn'[Owner(n)], t.id = n.tid, ~t.accepted
             PROVE  FALSE
  BY DEF AcceptedBeforeAck, Owner
<1> QED
  BY <1>1, StaleStep DEF AcceptedBeforeAck

\* A peer announces what it stores, and stores what it has had.
LEMMA TruthfulStep == ASSUME SafeInv, [Next]_vars PROVE Truthful'
<1>1. /\ TypeOK /\ Truthful /\ KnownIds /\ KnownIds'
      /\ \A p \in Peers : seen[p] \subseteq seen'[p] /\ cb[p] \subseteq seen'[p]
  <2>1. TypeOK /\ Truthful /\ KnownIds /\ KnownIds'
    BY KnownIdsStep DEF SafeInv, BaseInv
  <2>2. \A p \in Peers : seen[p] \subseteq seen'[p]
    BY <2>1, SeenGrows
  <2> QED
    BY <2>1, <2>2 DEF KnownIds
<1>2. Generate => nextId \in Chunks /\ nextId \in seen'[Source]
  BY <1>1, SourceAssumption, BoundsAssumption DEF Generate, TypeOK, Chunks
<1>3. \A p \in Peers : OfferSet(p) \subseteq cb[p] /\ cb[p] \subseteq Chunks
  BY <1>1 DEF OfferSet, TypeOK
<1>4. \A m \in net : m.to \in Peers /\ m.from \in Peers
  BY <1>1, Fields
<1>5. ASSUME NEW n \in net'
      PROVE  /\ n.type # "accept" => n.cset \subseteq seen'[n.from]
             /\ n.type = "chunk" => \E c \in Chunks : n.cset = {c}
  <2>1. CASE n \in net
    BY <1>1, <1>4, <2>1 DEF Truthful
  <2>2. CASE n \notin net
    <3>1. CASE Generate /\ \E q \in nbr[Source] : n = Msg("chunk", Source, q, {nextId}, 0)
      BY <1>2, <3>1 DEF Msg
    <3>2. CASE \E p, q \in Peers : n = Msg("offer", p, q, OfferSet(p), NextTid(lastTid[p]))
      BY <1>1, <1>3, <3>2 DEF Msg
    <3>3. CASE n.type = "accept"
      BY <3>3
    <3>4. CASE \E m \in net : \E c \in m.cset \intersect cb[m.to] :
                 n = Msg("chunk", m.to, m.from, {c}, m.tid)
      BY <1>1, <1>3, <1>4, <3>4 DEF Msg
    <3>5. CASE \E m \in net : n = Msg("ack", m.to, m.from, cb'[m.to], m.tid)
      BY <1>1, <1>4, <3>5 DEF Msg, KnownIds
    <3>6. CASE \E p, q \in Peers : n = Msg("bmap", p, q, cb[p], 0)
      BY <1>1, <3>6 DEF Msg
    <3> QED
      BY <1>1, <2>2, <3>1, <3>2, <3>3, <3>4, <3>5, <3>6, NewMessage DEF Msg
  <2> QED
    BY <2>1, <2>2
<1> QED
  BY <1>5 DEF Truthful

\* Why p believes after a step that q holds c.
LEMMA BelieveStep ==
  ASSUME TypeOK, [Next]_vars, NEW p \in Peers, NEW q \in Peers, NEW c \in bmap'[p][q]
  PROVE  \/ c \in bmap[p][q]
         \/ \E n \in net' : n.type = "chunk" /\ n.to = q /\ c \in n.cset
         \/ \E m \in net : m.type # "accept" /\ m.from = q /\ c \in m.cset
<1> DEFINE Sent == \E n \in net' : n.type = "chunk" /\ n.to = q /\ c \in n.cset
           Told(m) == m.type # "accept" /\ m.from = q /\ c \in m.cset
<1>1. ASSUME Generate PROVE c \in bmap[p][q] \/ Sent
  <2>1. PICK S \in PushSets({x \in nbr[Source] :
                     Needs(bmap[Source][x], size[Source][x], nextId)}) :
          /\ bmap' = [bmap EXCEPT ![Source] =
                        [x \in Peers |-> IF x \in S THEN bmap[Source][x] \union {nextId}
                                                    ELSE bmap[Source][x]]]
          /\ net' = net \union {Msg("chunk", Source, x, {nextId}, 0) : x \in S}
    BY <1>1 DEF Generate, Push
  <2>2. CASE p = Source /\ q \in S /\ c = nextId
    <3>1. Msg("chunk", Source, q, {nextId}, 0) \in net'
      BY <2>1, <2>2
    <3> QED
      BY <2>2, <3>1 DEF Msg
  <2>3. CASE ~(p = Source /\ q \in S /\ c = nextId)
    BY <2>1, <2>3, SourceAssumption DEF TypeOK
  <2> QED
    BY <2>2, <2>3
<1>2. ASSUME NEW m \in net, ReceiveAccept(m) PROVE c \in bmap[p][q] \/ Sent
  <2>1. PICK out \in SUBSET (m.cset \intersect cb[m.to]) :
          /\ Believe(m.to, m.from, bmap[m.to][m.from] \union out)
          /\ Handle(m, {Msg("chunk", m.to, m.from, {x}, m.tid) : x \in out})
    BY <1>2 DEF ReceiveAccept, Send
  <2>2. CASE p = m.to /\ q = m.from /\ c \in out
    <3>1. Msg("chunk", m.to, m.from, {c}, m.tid) \in net'
      BY <2>1, <2>2 DEF Handle
    <3> QED
      BY <2>2, <3>1 DEF Msg
  <2>3. CASE ~(p = m.to /\ q = m.from /\ c \in out)
    BY <2>1, <2>3, Fields DEF Believe, TypeOK
  <2> QED
    BY <2>2, <2>3
<1>3. ASSUME NEW m \in net, ReceiveOffer(m) \/ ReceiveAck(m) \/ ReceiveBmap(m)
      PROVE  c \in bmap[p][q] \/ Told(m)
  <2>1. Believe(m.to, m.from, m.cset) /\ m.type # "accept"
    BY <1>3 DEF ReceiveOffer, ReceiveAck, ReceiveBmap
  <2> QED
    BY <2>1, Fields DEF Believe, TypeOK
<1>4. ASSUME NEW m \in net, ReceiveChunk(m) PROVE c \in bmap[p][q] \/ Told(m)
  <2>1. PICK x \in m.cset : Believe(m.to, m.from, bmap[m.to][m.from] \union {x})
    BY <1>4 DEF ReceiveChunk
  <2>2. m.type # "accept"
    BY <1>4 DEF ReceiveChunk
  <2> QED
    BY <2>1, <2>2, Fields DEF Believe, TypeOK
<1>5. ASSUME NEW x \in Peers, NEW y \in Peers, RemovePeer(x, y)
      PROVE  c \in bmap[p][q]
  BY <1>5 DEF RemovePeer, TypeOK
<1>6. ASSUME bmap' = bmap PROVE c \in bmap[p][q]
  BY <1>6
<1> HIDE DEF Sent, Told
<1>7. c \in bmap[p][q] \/ Sent \/ \E m \in net : Told(m)
  BY <1>1, <1>2, <1>3, <1>4, <1>5, <1>6
  DEF Next, Receive, SendOffer, Offer, LockTimeout, Lose, AddPeer, Join, vars
<1> QED
  BY <1>7 DEF Sent, Told

\* A chunk datagram leaves the network by loss or at its receiver.
LEMMA ChunkStays ==
  ASSUME TypeOK, [Next]_vars, NEW m \in net, m.type = "chunk", m \notin net', ~Lossy
  PROVE  ReceiveChunk(m)
<1>1. ASSUME NEW n \in net, n # m, Receive(n) PROVE m \in net'
  BY <1>1
  DEF Receive, ReceiveOffer, ReceiveAccept, Send, ReceiveChunk, ReceiveAck, ReceiveBmap, Handle
<1>2. Receive(m) => ReceiveChunk(m)
  BY DEF Receive, ReceiveOffer, ReceiveAccept, Send, ReceiveAck, ReceiveBmap
<1>3. ASSUME \/ Generate
             \/ \E p, q \in Peers : SendOffer(p, q) \/ AddPeer(p, q) \/ RemovePeer(p, q)
             \/ \E p \in Peers, c \in Chunks : LockTimeout(p, c)
             \/ UNCHANGED vars
      PROVE  m \in net'
  BY <1>3, ZenonT(60) DEF Generate, Push, SendOffer, Offer, AddPeer, Join, RemovePeer, LockTimeout, vars
<1>4. \A n \in net : ~Lose(n)
  BY DEF Lose
<1> QED
  BY <1>1, <1>2, <1>3, <1>4, SMTT(30) DEF Next

\* Without loss a belief about a neighbour is true, or its chunk is on its way.
LEMMA PhantomStep == ASSUME IInv, [Next]_vars PROVE NoPhantomChunks'
<1> SUFFICES ASSUME ~Lossy, NEW p \in Peers, NEW q \in Peers,
                    NEW c \in bmap'[p][q] \ seen'[q]
             PROVE  \E n \in net' : n.type = "chunk" /\ n.to = q /\ c \in n.cset
  BY DEF NoPhantomChunks
<1>1. TypeOK /\ Truthful /\ NoPhantomChunks
  BY DEF IInv, SafeInv, BaseInv
<1>2. c \notin seen[q]
  BY <1>1, SeenGrows
<1>3. CASE c \in bmap[p][q]
  <2>1. PICK m \in net : m.type = "chunk" /\ m.to = q /\ c \in m.cset
    BY <1>1, <1>2, <1>3 DEF NoPhantomChunks
  <2>2. m.cset = {c}
    BY <1>1, <2>1 DEF Truthful
  <2>3. ReceiveChunk(m) => c \in seen'[q]
    BY <1>1, <2>1, <2>2 DEF ReceiveChunk, TypeOK
  <2>4. m \in net'
    BY <1>1, <2>1, <2>3, ChunkStays
  <2> QED
    BY <2>1, <2>4
<1>4. ASSUME NEW m \in net, m.type # "accept", m.from = q, c \in m.cset
      PROVE  FALSE
  BY <1>1, <1>2, <1>4 DEF Truthful
<1> QED
  BY <1>1, <1>3, <1>4, BelieveStep

\* One step keeps what a restart keeps.
LEMMA BaseStep == BaseInv /\ [Next]_vars => BaseInv'
<1> SUFFICES ASSUME BaseInv, [Next]_vars PROVE BaseInv'
  OBVIOUS
<1>1. TypeOK'
  BY NextType DEF BaseInv
<1> QED
  BY <1>1, OthersStep, KnownIdsStep, WindowsStep, SourceQuietStep DEF BaseInv

\* One step keeps what needs no delivery.
LEMMA SafeStep == SafeInv /\ [Next]_vars => SafeInv'
  BY BaseStep, AcceptedStep, TruthfulStep DEF SafeInv

\* One step keeps the inductive invariant.
LEMMA NextIInv == IInv /\ [Next]_vars => IInv'
  BY SafeStep, PhantomStep DEF IInv

\* The invariant holds in every reachable state.
THEOREM Invariance == Spec => []IInv
  BY InitIInv, NextIInv, PTL DEF Spec

\* The source asks for no chunk and no chunk is sent to it.
THEOREM SourceStaysQuiet == Spec => []SourceNeverAccepts
<1>1. IInv => SourceNeverAccepts
  BY DEF IInv, SafeInv, BaseInv, SourceQuiet
<1> QED
  BY <1>1, Invariance, PTL

\* On a network that loses nothing no peer is believed to hold a chunk that it
\* never had and that nobody is sending it.
THEOREM BeliefsHold == Spec => []NoPhantomChunks
<1>1. IInv => NoPhantomChunks
  BY DEF IInv
<1> QED
  BY <1>1, Invariance, PTL

\* A step locks no id its peer has had.
LEMMA RerequestStep ==
  ASSUME BaseInv, [Next]_vars, NEW p \in Peers
  PROVE  (locked'[p] \ locked[p]) \intersect seen[p] = {}
<1> SUFFICES ASSUME NEW c \in locked'[p] \ locked[p], c \in seen[p]
             PROVE  FALSE
  OBVIOUS
<1>1. /\ TypeOK /\ cb[p] \in SUBSET Chunks /\ seen[p] \in SUBSET Chunks
      /\ Window(cb[p], seen[p])
  BY DEF BaseInv, TypeOK, Windows
<1>2. Needs(cb[p], CbSize, c)
  BY <1>1, NewLock
<1> QED
  BY <1>1, <1>2, NeedsNothingSeen

\* An ack finds its transaction accepted.
LEMMA AckStep ==
  ASSUME SafeInv, NEW m \in net, ReceiveAck(m), NEW t \in txn[m.to] \ txn'[m.to]
  PROVE  t.accepted
<1>1. TypeOK /\ AcceptedBeforeAck /\ m.type = "ack" /\ m.to \in Peers
  BY Fields DEF SafeInv, BaseInv, ReceiveAck
<1>2. t.id = m.tid
  BY <1>1 DEF ReceiveAck, TypeOK
<1> QED
  BY <1>1, <1>2 DEF AcceptedBeforeAck, Owner

\* A peer asks for no id it has had, although it forgets the ids it evicts.
THEOREM NoRerequest == Spec => NeverRerequests
<1>1. IInv /\ [Next]_vars =>
        [\A p \in Peers : (locked'[p] \ locked[p]) \intersect seen[p] = {}]_vars
  BY RerequestStep DEF IInv, SafeInv
<1> QED
  BY <1>1, Invariance, PTL DEF Spec, NeverRerequests

\* An ack closes a transaction that was accepted: rc_reg_ack measures from a
\* real accept time, whatever is lost, late or repeated.
THEOREM AckAfterAccept == Spec => AcksCloseAccepted
<1>1. IInv =>
        [\A m \in net : ReceiveAck(m) =>
           \A t \in txn[m.to] \ txn'[m.to] : t.accepted]_vars
  BY AckStep DEF IInv
<1> QED
  BY <1>1, Invariance, PTL DEF Spec, AcksCloseAccepted

-----------------------------------------------------------------------------
\* A new process of p, and those that remember the old one, keep the types.
LEMMA RestartType ==
  ASSUME TypeOK, NEW p \in Restarting, Restart(p) PROVE TypeOK'
<1>1. p \in Peers
  BY RestartAssumption
<1>2. /\ cb' \in [Peers -> SUBSET Chunks] /\ seen' \in [Peers -> SUBSET Chunks]
      /\ locked' \in [Peers -> SUBSET Chunks] /\ nbr' \in [Peers -> SUBSET Peers]
      /\ txn' \in [Peers -> SUBSET [id : Tids, accepted : BOOLEAN]]
  BY <1>1 DEF TypeOK, Restart
<1>3. /\ bmap' \in [Peers -> [Peers -> SUBSET Chunks]]
      /\ size' \in [Peers -> [Peers -> Nat]]
  <2>1. [q \in Peers |-> {}] \in [Peers -> SUBSET Chunks]
    OBVIOUS
  <2>2. [q \in Peers |-> 0] \in [Peers -> Nat]
    OBVIOUS
  <2> QED
    BY <1>1, <2>1, <2>2 DEF TypeOK, Restart
<1>4. lastTid' \in [Peers -> Tids]
  BY <1>1, MaxTidAssumption DEF TypeOK, Restart, Tids
<1>5. net' \subseteq Message
  BY DEF TypeOK, Restart
<1>6. nextId' \in 1 .. MaxChunk + 1 /\ churn' \in 0 .. MaxChurn
  BY DEF TypeOK, Restart
<1> QED
  BY <1>2, <1>3, <1>4, <1>5, <1>6 DEF TypeOK

\* A new process of a peer but the source keeps what is said of every process: it
\* has had nothing, and what is on its way was so before.
LEMMA RestartBase ==
  ASSUME BaseInv, NEW p \in Restarting, Restart(p) PROVE BaseInv'
<1>1. /\ p \in Peers /\ p # Source /\ Source \in Peers /\ TypeOK /\ TypeOK'
      /\ net' \subseteq net
  BY RestartType, RestartAssumption, SourceAssumption DEF BaseInv, Restart
<1>2. /\ \A q \in Peers \ {p} : /\ cb'[q] = cb[q] /\ seen'[q] = seen[q]
                                /\ locked'[q] = locked[q] /\ nbr'[q] = nbr[q]
      /\ cb'[p] = {} /\ seen'[p] = {} /\ nbr'[p] = {} /\ nextId' = nextId
  BY <1>1 DEF Restart, TypeOK
<1>3. NeighboursAreOthers'
  BY <1>1, <1>2 DEF BaseInv, NeighboursAreOthers
<1>4. KnownIds'
  BY <1>1, <1>2 DEF BaseInv, KnownIds
<1>5. Windows'
  BY <1>1, <1>2 DEF BaseInv, Windows, Window
<1>6. SourceQuiet'
  BY <1>1, <1>2 DEF BaseInv, SourceQuiet, SourceNeverAccepts
<1> QED
  BY <1>1, <1>3, <1>4, <1>5, <1>6 DEF BaseInv

\* A neighbour that is found again is told what the new process holds.
LEMMA RejoinBase ==
  ASSUME BaseInv, NEW p \in Peers, NEW q \in Peers, Rejoin(p, q) PROVE BaseInv'
<1> DEFINE n == Msg("bmap", p, q, cb[p], 0)
<1>1. /\ TypeOK /\ KnownIds /\ net' = net \union {n}
      /\ UNCHANGED <<nextId, cb, seen, locked, bmap, txn, lastTid, churn>>
      /\ nbr' = [nbr EXCEPT ![p] = nbr[p] \union {q}]
  BY DEF BaseInv, Rejoin, Join, local
<1>2. n.type = "bmap" /\ n.cset = cb[p] /\ cb[p] \subseteq 1 .. nextId - 1
  BY <1>1 DEF Msg, KnownIds
<1>3. TypeOK'
  <2>1. n \in Message
    BY <1>1, MsgType, MaxTidAssumption DEF TypeOK
  <2>2. size' \in [Peers -> [Peers -> Nat]]
    BY <1>1, CbSizeAssumption, UnknownSizesAssumption DEF TypeOK, Rejoin, Join, Declared
  <2> HIDE DEF n
  <2> QED
    BY <1>1, <2>1, <2>2 DEF TypeOK
<1>4. NeighboursAreOthers'
  <2>1. q # p
    BY InitNbrAssumption DEF Rejoin
  <2> QED
    BY <1>1, <2>1 DEF BaseInv, NeighboursAreOthers, TypeOK
<1> HIDE DEF n
<1>5. KnownIds'
  BY <1>1, <1>2 DEF KnownIds
<1>6. Windows'
  BY <1>1 DEF BaseInv, Windows, Window
<1>7. SourceQuiet'
  BY <1>1, <1>2 DEF BaseInv, SourceQuiet, SourceNeverAccepts
<1> QED
  BY <1>3, <1>4, <1>5, <1>6, <1>7 DEF BaseInv

\* An offer keeps it whatever id it is given.
LEMMA OfferBase ==
  ASSUME BaseInv, NEW p \in Peers, NEW q \in Peers, Offer(p, q) PROVE BaseInv'
<1> DEFINE n == Msg("offer", p, q, OfferSet(p), NextTid(lastTid[p]))
<1>1. /\ TypeOK /\ KnownIds /\ net' = net \union {n}
      /\ UNCHANGED <<nextId, cb, seen, locked, nbr>>
  BY DEF BaseInv, Offer, local, topo
<1>2. n.type = "offer" /\ n.cset \subseteq 1 .. nextId - 1
  BY <1>1 DEF Msg, KnownIds, OfferSet
<1> HIDE DEF n
<1>3. TypeOK'
  BY <1>1, OfferType
<1>4. NeighboursAreOthers' /\ Windows'
  BY <1>1 DEF BaseInv, NeighboursAreOthers, Windows, Window
<1>5. KnownIds'
  BY <1>1, <1>2 DEF KnownIds
<1>6. SourceQuiet'
  BY <1>1, <1>2 DEF BaseInv, SourceQuiet, SourceNeverAccepts
<1> QED
  BY <1>3, <1>4, <1>5, <1>6 DEF BaseInv

\* A chunk sent under a transaction, and its ack, find it accepted, unless a
\* datagram outlived an earlier process of the peer under the same id.
AcceptedOrFormer ==
  \A m \in net : m.type \in {"chunk", "ack"} =>
    \A t \in txn[Owner(m)] : t.id = m.tid => t.accepted \/ t.id \in former[Owner(m)]

RestartInv == BaseInv /\ former \in [Peers -> SUBSET (0 .. MaxTid)] /\ AcceptedOrFormer

\* A new process has no transactions, and knows none of the ids in flight.
LEMMA RestartKeeps ==
  ASSUME RestartInv, NEW p \in Restarting, Restart(p) PROVE RestartInv'
<1>1. p \in Peers /\ BaseInv /\ BaseInv' /\ TypeOK /\ net' \subseteq net
  BY RestartBase, RestartAssumption DEF RestartInv, BaseInv, Restart
<1>2. /\ txn' = [txn EXCEPT ![p] = {}]
      /\ former' = [former EXCEPT ![p] = former[p] \union {m.tid : m \in {n \in net' : Owner(n) = p}}]
  BY DEF Restart
<1>3. former' \in [Peers -> SUBSET (0 .. MaxTid)]
  <2>1. {m.tid : m \in {n \in net' : Owner(n) = p}} \subseteq 0 .. MaxTid
    BY <1>1, Fields
  <2> QED
    BY <1>1, <1>2, <2>1 DEF RestartInv
<1>4. AcceptedOrFormer'
  <2> SUFFICES ASSUME NEW m \in net', m.type \in {"chunk", "ack"},
                      NEW t \in txn'[Owner(m)], t.id = m.tid
               PROVE  t.accepted \/ t.id \in former'[Owner(m)]
    BY DEF AcceptedOrFormer, Owner
  <2>1. m \in net /\ Owner(m) \in Peers
    BY <1>1, Fields DEF Owner
  <2>2. Owner(m) # p /\ txn'[Owner(m)] = txn[Owner(m)] /\ former'[Owner(m)] = former[Owner(m)]
    BY <1>1, <1>2, <2>1 DEF TypeOK, RestartInv
  <2> QED
    BY <2>1, <2>2 DEF RestartInv, AcceptedOrFormer
<1> QED
  BY <1>1, <1>3, <1>4 DEF RestartInv

\* An offer takes an id that is out of the network, or a former one.
LEMMA ReofferKeeps ==
  ASSUME RestartInv, NEW p \in Peers, NEW q \in Peers, Reoffer(p, q) PROVE RestartInv'
<1> DEFINE tid == NextTid(lastTid[p])
           n == Msg("offer", p, q, OfferSet(p), tid)
<1>1. /\ BaseInv /\ BaseInv' /\ TypeOK /\ former' = former /\ net' = net \union {n}
      /\ tid \in former[p] \/ \A m \in net : Owner(m) = p => m.tid # tid
  BY OfferBase DEF RestartInv, BaseInv, Reoffer, Running, Offer, Unused
<1>2. PICK timedOut \in SUBSET txn[p] :
        txn' = [txn EXCEPT ![p] = (txn[p] \ timedOut)
                                  \union {[id |-> tid, accepted |-> FALSE]}]
  BY DEF Reoffer, Offer
<1>3. n.type = "offer"
  BY DEF Msg
<1> HIDE DEF tid, n
<1>4. AcceptedOrFormer'
  <2> SUFFICES ASSUME NEW m \in net', m.type \in {"chunk", "ack"},
                      NEW t \in txn'[Owner(m)], t.id = m.tid
               PROVE  t.accepted \/ t.id \in former[Owner(m)]
    BY <1>1 DEF AcceptedOrFormer, Owner
  <2>1. m \in net /\ Owner(m) \in Peers
    BY <1>1, <1>3, Fields DEF Owner
  <2>2. t \in txn[Owner(m)] \/ (Owner(m) = p /\ t.id = tid)
    BY <1>1, <1>2, <2>1 DEF TypeOK
  <2> QED
    BY <1>1, <2>1, <2>2 DEF RestartInv, AcceptedOrFormer
<1> QED
  BY <1>1, <1>4 DEF RestartInv

\* Every step of peers that may restart keeps the invariant.
LEMMA RestartInvStep == RestartInv /\ [RNext]_allVars => RestartInv'
<1> SUFFICES ASSUME RestartInv, [RNext]_allVars PROVE RestartInv'
  OBVIOUS
<1>1. CASE (Next /\ Running) \/ UNCHANGED allVars
  <2>1. [Next]_vars /\ former' = former /\ BaseInv /\ BaseInv' /\ TypeOK
    BY <1>1, BaseStep DEF allVars, Running, RestartInv, BaseInv
  <2>2. AcceptedOrFormer'
    <3> SUFFICES ASSUME NEW n \in net', n.type \in {"chunk", "ack"},
                        NEW t \in txn'[Owner(n)], t.id = n.tid, ~t.accepted
                 PROVE  t.id \in former[Owner(n)]
      BY <2>1 DEF AcceptedOrFormer, Owner
    <3>1. PICK m \in net : /\ m.type \in {"chunk", "ack"}
                           /\ Owner(m) = Owner(n) /\ m.tid = n.tid
                           /\ \E u \in txn[Owner(m)] : u.id = m.tid /\ ~u.accepted
      BY <2>1, StaleStep
    <3> QED
      BY <3>1 DEF RestartInv, AcceptedOrFormer
  <2> QED
    BY <2>1, <2>2 DEF RestartInv
<1>2. ASSUME NEW p \in Restarting, Restart(p) PROVE RestartInv'
  BY <1>2, RestartKeeps
<1>3. ASSUME NEW p \in Peers, NEW q \in Peers, Reoffer(p, q) PROVE RestartInv'
  BY <1>3, ReofferKeeps
<1>4. ASSUME NEW p \in Peers, NEW q \in Peers, Rejoin(p, q) PROVE RestartInv'
  <2> DEFINE n == Msg("bmap", p, q, cb[p], 0)
  <2>1. /\ BaseInv' /\ former' = former /\ txn' = txn /\ net' = net \union {n}
        /\ n.type = "bmap"
    BY <1>4, RejoinBase DEF RestartInv, Rejoin, Join, Msg
  <2> HIDE DEF n
  <2>2. AcceptedOrFormer'
    BY <2>1 DEF RestartInv, AcceptedOrFormer, Owner
  <2> QED
    BY <2>1, <2>2 DEF RestartInv
<1> QED
  BY <1>1, <1>2, <1>3, <1>4 DEF RNext

\* Restarts lose beliefs and chunks, and break none of this, whatever outlives the
\* old processes: the types, the window of every buffer, the silence of the source,
\* and the order of accepts and acks but for the ids they used.
THEOREM SafeAcrossRestarts == RSpec => []RestartInv
<1>1. RInit => RestartInv
  <2> SUFFICES ASSUME RInit PROVE RestartInv
    OBVIOUS
  <2>1. BaseInv /\ net = {} /\ former = [p \in Peers |-> {}]
    BY InitIInv DEF RInit, IInv, SafeInv, Init
  <2>2. former \in [Peers -> SUBSET (0 .. MaxTid)]
    BY <2>1
  <2> QED
    BY <2>1, <2>2 DEF RestartInv, AcceptedOrFormer
<1> QED
  BY <1>1, RestartInvStep, PTL DEF RSpec

\* A new process asks for none of the ids it has had, though it may well ask
\* for those of the old one.
THEOREM NoRerequestAcrossRestarts == RSpec => NeverRerequests
<1>1. RestartInv /\ [RNext]_allVars =>
        [\A p \in Peers : (locked'[p] \ locked[p]) \intersect seen[p] = {}]_vars
  <2> SUFFICES ASSUME BaseInv, [RNext]_allVars, NEW p \in Peers
               PROVE  (locked'[p] \ locked[p]) \intersect seen[p] = {}
    BY DEF RestartInv
  <2>1. CASE Next \/ UNCHANGED allVars
    BY <2>1, RerequestStep DEF allVars
  <2>2. CASE \E x \in Restarting : Restart(x)
    BY <2>2, RestartAssumption DEF Restart, BaseInv, TypeOK
  <2>3. CASE \E x, y \in Peers : Rejoin(x, y) \/ Reoffer(x, y)
    BY <2>3 DEF Rejoin, Reoffer, Offer, local
  <2> QED
    BY <2>1, <2>2, <2>3 DEF RNext
<1> QED
  BY <1>1, SafeAcrossRestarts, PTL DEF RSpec, NeverRerequests

\* An ack closes a transaction that was not accepted only under an id that a
\* datagram carried past the end of an earlier process of the same peer: no restart
\* of a neighbour misleads rc_reg_ack.
THEOREM AckAfterAcceptOrFormer == RSpec => AcksCloseAcceptedOrFormer
<1>1. RestartInv =>
        [\A m \in net : ReceiveAck(m) /\ Running =>
           \A t \in txn[m.to] \ txn'[m.to] : t.accepted \/ t.id \in former[m.to]]_allVars
  <2> SUFFICES ASSUME RestartInv, NEW m \in net, ReceiveAck(m),
                      NEW t \in txn[m.to] \ txn'[m.to]
               PROVE  t.accepted \/ t.id \in former[m.to]
    OBVIOUS
  <2>1. TypeOK /\ AcceptedOrFormer /\ m.type = "ack" /\ m.to \in Peers
    BY Fields DEF RestartInv, BaseInv, ReceiveAck
  <2>2. t.id = m.tid
    BY <2>1 DEF ReceiveAck, TypeOK
  <2> QED
    BY <2>1, <2>2 DEF AcceptedOrFormer, Owner
<1> QED
  BY <1>1, SafeAcrossRestarts, PTL DEF RSpec, AcksCloseAcceptedOrFormer

\* The source stays silent when its neighbours are started again.
THEOREM SourceStaysQuietAcrossRestarts == RSpec => []SourceNeverAccepts
<1>1. RestartInv => SourceNeverAccepts
  BY DEF RestartInv, BaseInv, SourceQuiet
<1> QED
  BY <1>1, SafeAcrossRestarts, PTL

-----------------------------------------------------------------------------
\* How a step may start a pull of c by q: q answers an offer, of a chunk it does
\* not wait for, with a request for it.
Asked(m, q, c) ==
  /\ ReceiveOffer(m) /\ m.to = q
  /\ c \in locked'[q] \ locked[q]
  /\ net' \ net \subseteq {Msg("accept", q, m.from, {c}, m.tid)}

\* Or the request m is answered.
Answered(m, q, c) ==
  /\ ReceiveAccept(m) /\ m \in Pulls(q, c) /\ m.from = q

\* A new accept asks for one id, which its sender locks at that moment.
LEMMA AskStep ==
  ASSUME TypeOK, NEW m \in net, ReceiveOffer(m),
         NEW n \in net' \ net, NEW c \in n.cset
  PROVE  Asked(m, m.to, c) /\ n = Msg("accept", m.to, m.from, {c}, m.tid)
<1>1. m.to \in Peers /\ m.cset \in SUBSET Chunks
  BY Fields
<1>2. PICK A \in AcceptSets(Acceptable(m.to, m.cset)) :
        /\ locked' = [locked EXCEPT ![m.to] = locked[m.to] \union A]
        /\ Handle(m, {Msg("accept", m.to, m.from, A, m.tid)})
  BY DEF ReceiveOffer
<1>3. /\ \A x \in net' \ net : x = Msg("accept", m.to, m.from, A, m.tid)
      /\ n = Msg("accept", m.to, m.from, A, m.tid)
  BY <1>2 DEF Handle
<1>4. c \in A
  BY <1>3 DEF Msg
<1>5. A = {c} /\ c \notin locked[m.to]
  BY <1>2, <1>4 DEF AcceptSets, Acceptable
<1>6. c \in locked'[m.to]
  BY <1>1, <1>2, <1>4 DEF TypeOK
<1> QED
  BY <1>3, <1>5, <1>6 DEF Asked

\* A pull that a step puts in flight.
LEMMA NewPull ==
  ASSUME SafeInv, [Next]_vars, NEW q \in Peers, NEW c \in Chunks,
         NEW n \in net', n \notin net, c \in n.cset,
         \/ n.type = "accept" /\ n.from = q
         \/ n.type = "chunk" /\ n.to = q /\ n.tid # 0
  PROVE  \E m \in net :
           \/ Asked(m, q, c) /\ n = Msg("accept", q, m.from, {c}, m.tid)
           \/ Answered(m, q, c) /\ n = Msg("chunk", m.to, q, {c}, m.tid)
<1>1. TypeOK
  BY DEF SafeInv, BaseInv
<1>2. ASSUME NEW m \in net, ReceiveOffer(m), n.type = "accept", n.from = q
      PROVE  \E x \in net : Asked(x, q, c) /\ n = Msg("accept", q, x.from, {c}, x.tid)
  <2>1. Asked(m, m.to, c) /\ n = Msg("accept", m.to, m.from, {c}, m.tid)
    BY <1>1, <1>2, AskStep
  <2>2. m.to = q
    BY <1>2, <2>1 DEF Msg
  <2> QED
    BY <2>1, <2>2
<1>3. ASSUME NEW m \in net, ReceiveAccept(m),
             NEW x \in m.cset \intersect cb[m.to],
             n = Msg("chunk", m.to, m.from, {x}, m.tid)
      PROVE  Answered(m, q, c) /\ n = Msg("chunk", m.to, q, {c}, m.tid)
  <2>1. x = c /\ m.from = q
    BY <1>3 DEF Msg
  <2> QED
    BY <1>3, <2>1 DEF Answered, Pulls, ReceiveAccept
<1> QED
  BY <1>1, <1>2, <1>3, NewMessage DEF Msg

\* A request in flight is one whose lock is kept, has run out, or has done its
\* work: the lock of get_chunks_to_accept outlives every copy of it.
PullsHeld ==
  ~Duplicating => \A q \in Peers, c \in Chunks :
    c \notin expired[q] /\ Pulls(q, c) # {} => c \in locked[q] \union seen[q]

\* Every peer has its record of the locks that ran out.
ExpiredType == expired \in [Peers -> SUBSET Chunks]

\* The inductive invariant of the history.
PullInv == SafeInv /\ ExpiredType /\ PullsHeld /\ SinglePull

\* A step of the history is a step of the peers.
LEMMA HistoryStep ==
  ASSUME [HNext]_hvars
  PROVE  /\ [Next]_vars
         /\ \/ UNCHANGED hvars
            \/ expired' = [p \in Peers |-> expired[p] \union
                                             (locked[p] \ (locked'[p] \union seen'[p]))]
  BY DEF HNext, hvars

\* What has not run out after a step had not before, and a lock that is gone
\* has done its work.
LEMMA ExpiredStep ==
  ASSUME TypeOK, ExpiredType, [HNext]_hvars, NEW q \in Peers, NEW c \in Chunks,
         c \notin expired'[q]
  PROVE  /\ c \notin expired[q]
         /\ c \in locked[q] => c \in locked'[q] \union seen'[q]
<1>1. CASE UNCHANGED hvars
  BY <1>1 DEF hvars, vars
<1>2. CASE expired' = [p \in Peers |-> expired[p] \union
                                        (locked[p] \ (locked'[p] \union seen'[p]))]
  BY <1>2
<1> QED
  BY <1>1, <1>2, HistoryStep

LEMMA ExpiredTypeStep ==
  ASSUME TypeOK, ExpiredType, [HNext]_hvars PROVE ExpiredType'
<1>1. CASE UNCHANGED hvars
  BY <1>1 DEF hvars, ExpiredType
<1>2. CASE expired' = [p \in Peers |-> expired[p] \union
                                        (locked[p] \ (locked'[p] \union seen'[p]))]
  BY <1>2 DEF TypeOK, ExpiredType
<1> QED
  BY <1>1, <1>2, HistoryStep

\* Who asks for an id was not being sent it: it had no lock on it, and _needs
\* keeps out what it has had.
LEMMA NoPullBefore ==
  ASSUME PullInv, [Next]_vars, ~Duplicating, NEW q \in Peers, NEW c \in Chunks,
         c \notin expired[q], c \in locked'[q] \ locked[q]
  PROVE  Pulls(q, c) = {}
<1>1. c \notin seen[q]
  BY RerequestStep DEF PullInv, SafeInv
<1> QED
  BY <1>1 DEF PullInv, PullsHeld

\* The requests for a chunk after a step, of which no lock ran out.
LEMMA PullsStep ==
  ASSUME PullInv, [Next]_vars, ~Duplicating, NEW q \in Peers, NEW c \in Chunks,
         c \notin expired[q]
  PROVE  \/ Pulls(q, c)' \subseteq Pulls(q, c)
         \/ /\ c \in locked'[q]
            /\ \E n : Pulls(q, c)' \subseteq {n}
         \/ /\ Pulls(q, c) # {}
            /\ \E n : Pulls(q, c)' \subseteq {n}
<1> DEFINE Old == Pulls(q, c)
           New == Pulls(q, c)'
<1>1. SafeInv /\ \A m, n \in Old : m = n
  BY DEF PullInv, SinglePull
<1>2. \A n \in New : /\ n \in net' /\ c \in n.cset
                     /\ \/ n.type = "accept" /\ n.from = q
                        \/ n.type = "chunk" /\ n.to = q /\ n.tid # 0
                     /\ n \in net => n \in Old
  BY DEF Pulls
<1>3. ASSUME NEW n \in New, n \notin net
      PROVE  \E m \in net :
               \/ Asked(m, q, c) /\ n = Msg("accept", q, m.from, {c}, m.tid)
               \/ Answered(m, q, c) /\ n = Msg("chunk", m.to, q, {c}, m.tid)
  BY <1>1, <1>2, <1>3, NewPull, ZenonT(60)
<1>4. ASSUME NEW m \in net, Asked(m, q, c)
      PROVE  /\ c \in locked'[q]
             /\ \E n : New \subseteq {n}
  <2>1. c \in locked'[q] \ locked[q]
    BY <1>4 DEF Asked
  <2>2. Old = {}
    BY <2>1, NoPullBefore
  <2>3. New \subseteq {Msg("accept", q, m.from, {c}, m.tid)}
    BY <1>2, <1>4, <2>2 DEF Asked
  <2> QED
    BY <2>1, <2>3
<1>5. ASSUME NEW m \in net, Answered(m, q, c)
      PROVE  /\ Old # {}
             /\ \E n : New \subseteq {n}
  <2>1. PICK out \in SUBSET (m.cset \intersect cb[m.to]) :
          Handle(m, {Msg("chunk", m.to, m.from, {x}, m.tid) : x \in out})
    BY <1>5 DEF Answered, ReceiveAccept, Send
  <2>2. m \in Old /\ m.from = q /\ m.type = "accept"
    BY <1>5 DEF Answered, ReceiveAccept
  <2>3. net' = (net \ {m}) \union {Msg("chunk", m.to, q, {x}, m.tid) : x \in out}
    BY <2>1, <2>2 DEF Handle
  <2>4. ASSUME NEW n \in New PROVE n = Msg("chunk", m.to, q, {c}, m.tid)
    <3>1. (n \in net /\ n # m) \/ \E x \in out : n = Msg("chunk", m.to, q, {x}, m.tid)
      BY <1>2, <2>3
    <3>2. ~(n \in net /\ n # m)
      BY <1>1, <1>2, <2>2
    <3>3. PICK x \in out : n = Msg("chunk", m.to, q, {x}, m.tid)
      BY <3>1, <3>2
    <3>4. x = c
      BY <1>2, <3>3 DEF Msg
    <3> QED
      BY <3>3, <3>4
  <2> HIDE DEF Old, New
  <2> QED
    BY <2>2, <2>4
<1>6. CASE New \subseteq net
  BY <1>2, <1>6
<1>7. CASE ~(New \subseteq net)
  <2> HIDE DEF Old, New
  <2> QED
    BY <1>3, <1>4, <1>5, <1>7 DEF Old, New
<1> QED
  BY <1>6, <1>7

\* One step keeps the invariant of the history.
LEMMA PullInvStep == PullInv /\ [HNext]_hvars => PullInv'
<1> SUFFICES ASSUME PullInv, [HNext]_hvars PROVE PullInv'
  OBVIOUS
<1>1. [Next]_vars /\ TypeOK /\ ExpiredType /\ SafeInv
  BY HistoryStep DEF PullInv, SafeInv, BaseInv
<1>2. SafeInv' /\ ExpiredType'
  BY <1>1, SafeStep, ExpiredTypeStep
<1>3. ASSUME ~Duplicating, NEW q \in Peers, NEW c \in Chunks, c \notin expired'[q]
      PROVE  /\ Pulls(q, c)' # {} => c \in locked'[q] \union seen'[q]
             /\ \A m, n \in Pulls(q, c)' : m = n
  <2>1. /\ c \notin expired[q]
        /\ c \in locked[q] => c \in locked'[q] \union seen'[q]
    BY <1>1, <1>3, ExpiredStep
  <2>2. Pulls(q, c) # {} => c \in locked'[q] \union seen'[q]
    <3>1. Pulls(q, c) # {} => c \in locked[q] \union seen[q]
      BY <1>3, <2>1 DEF PullInv, PullsHeld
    <3> QED
      BY <1>1, <2>1, <3>1, SeenGrows
  <2>3. \A m, n \in Pulls(q, c) : m = n
    BY <1>3, <2>1 DEF PullInv, SinglePull
  <2>4. \/ Pulls(q, c)' \subseteq Pulls(q, c)
        \/ /\ c \in locked'[q]
           /\ \E n : Pulls(q, c)' \subseteq {n}
        \/ /\ Pulls(q, c) # {}
           /\ \E n : Pulls(q, c)' \subseteq {n}
    BY <1>1, <1>3, <2>1, PullsStep
  <2> QED
    BY <2>2, <2>3, <2>4
<1>4. PullsHeld' /\ SinglePull'
  BY <1>3 DEF PullsHeld, SinglePull
<1> QED
  BY <1>2, <1>4 DEF PullInv

\* A peer has asked at most one neighbour for a chunk, and at most one copy of
\* the request or of the chunk is on its way, unless its lock ran out: for any
\* overlay, with offers, losses and churn in any order, if no datagram is repeated.
THEOREM OnePullAtATime == HSpec => []SinglePull
<1>1. HInit => PullInv
  <2> SUFFICES ASSUME HInit PROVE PullInv
    OBVIOUS
  <2>1. SafeInv
    BY InitIInv DEF HInit, IInv
  <2>2. net = {} /\ ExpiredType
    BY DEF HInit, Init, ExpiredType
  <2>3. PullsHeld /\ SinglePull
    BY <2>2 DEF PullsHeld, SinglePull, Pulls
  <2> QED
    BY <2>1, <2>2, <2>3 DEF PullInv
<1>2. PullInv => SinglePull
  BY DEF PullInv
<1> QED
  BY <1>1, <1>2, PullInvStep, PTL DEF HSpec
=============================================================================
