------------------------- MODULE ChunkTradingRestart -------------------------
(***************************************************************************)
(* Chunk trading when a peer's process ends and is started again at the    *)
(* same address.  Nothing is stored: the new process has an empty chunk    *)
(* buffer, no neighbours, no locks, no transactions, and counts them from  *)
(* the start, while the neighbours of the old one keep it, with what they  *)
(* believe it holds.                                                       *)
(*                                                                         *)
(* What was sent by the old process, or to it, may still be under way when *)
(* the new one listens on its port (Outliving): the new process takes the  *)
(* datagrams for its own, and the transaction ids in them may be those it  *)
(* counts through again.  The topology manager (Topology) makes it find    *)
(* its neighbours again, one at a time.                                    *)
(***************************************************************************)
EXTENDS ChunkTrading

CONSTANTS
  Outliving,   \* may a datagram outlive the process it was sent by or to?
  Restarting,  \* the peers whose process may end
  MaxRestarts, \* bound: restarts
  LastRestart  \* bound: no restart once nextId is larger

ASSUME RestartAssumption ==
         /\ Outliving \in BOOLEAN /\ Restarting \subseteq Peers \ {Source}
         /\ MaxRestarts \in Nat /\ LastRestart \in Nat

VARIABLES
  restarts,  \* restarts so far
  since,     \* since[p]: nextId when p's process was started
  former     \* former[p]: transaction ids in datagrams that outlived a process of p

allVars == <<vars, restarts, since, former>>

RInit ==
  /\ Init
  /\ restarts = 0
  /\ since = [p \in Peers |-> nextId]
  /\ former = [p \in Peers |-> {}]

\* The statics of streaming.c, chunklock.c, transaction.c and topology.c start
\* from what they are initialised to.
Restart(p) ==
  /\ restarts < MaxRestarts
  /\ nextId <= LastRestart
  /\ cb' = [cb EXCEPT ![p] = {}]
  /\ seen' = [seen EXCEPT ![p] = {}]
  /\ locked' = [locked EXCEPT ![p] = {}]
  /\ txn' = [txn EXCEPT ![p] = {}]
  /\ lastTid' = [lastTid EXCEPT ![p] = 1]
  /\ nbr' = [nbr EXCEPT ![p] = {}]
  /\ bmap' = [bmap EXCEPT ![p] = [q \in Peers |-> {}]]
  /\ size' = [size EXCEPT ![p] = [q \in Peers |-> 0]]
  /\ net' = IF Outliving THEN net ELSE {m \in net : p \notin {m.from, m.to}}
  /\ former' = [former EXCEPT ![p] = former[p] \union {m.tid : m \in {n \in net' : Owner(n) = p}}]
  /\ restarts' = restarts + 1
  /\ since' = [since EXCEPT ![p] = nextId]
  /\ UNCHANGED <<nextId, churn>>

\* update_peers of the new process: a neighbour of the overlay is found again.
Rejoin(p, q) ==
  /\ q \in InitNbr[p] \ nbr[p]
  /\ Cardinality(net) < MaxNet
  /\ Join(p, q)
  /\ UNCHANGED <<nextId, local, bmap, txn, lastTid, churn, restarts, since, former>>

Running == UNCHANGED <<restarts, since, former>>

\* The id of an offer may be one that the process before this one used, however
\* recently: nothing tells it.
Reoffer(p, q) ==
  /\ Unused(p) \/ NextTid(lastTid[p]) \in former[p]
  /\ Offer(p, q)
  /\ Running

RNext ==
  \/ Next /\ Running
  \/ \E p, q \in Peers : Reoffer(p, q)
  \/ \E p \in Restarting : Restart(p)
  \/ \E p, q \in Peers : Rejoin(p, q)

-----------------------------------------------------------------------------
(***************************************************************************)
(* Liveness is stated for a network that delivers, a neighbourhood that is *)
(* only lost by a restart, and a start that takes longer than a datagram   *)
(* lives: an ack of the old process that comes after the buffer map of the *)
(* new one leaves a false belief until the next chunk is acknowledged. The *)
(* timers of both loops keep firing, each turn of the timeout branch calls *)
(* send_offer, and the scheduler draws the offered peer at random, so a    *)
(* neighbour that keeps needing chunks is drawn; the gossip goes on until  *)
(* a new process has its neighbours. Strong fairness, because a full       *)
(* network (MaxNet) and an id in use disable Generate, SendOffer and       *)
(* Rejoin only in passing. An offer is not overtaken for ever by others on *)
(* its way, nor is an accept, or a datagram that tells what a peer has.    *)
(***************************************************************************)
ReceiveOn(p, q, types) ==
  \E m \in net : m.from = p /\ m.to = q /\ m.type \in types /\ Receive(m)

RFairness ==
  /\ SF_allVars(Generate /\ Running)
  /\ \A p \in Peers : \A q \in InitNbr[p] :
       /\ q # Source => /\ SF_allVars(SendOffer(p, q) /\ Running)
                        /\ WF_allVars(ReceiveOn(p, q, {"offer"}) /\ Running)
       /\ p # Source => WF_allVars(ReceiveOn(p, q, {"accept"}) /\ Running)
       /\ p \in Restarting => SF_allVars(Rejoin(p, q))
       /\ WF_allVars(ReceiveOn(p, q, {"chunk", "ack", "bmap"}) /\ Running)
  /\ \A p \in Peers \ {Source} : WF_allVars((\E c \in Chunks : LockTimeout(p, c)) /\ Running)

RSpec == RInit /\ [][RNext]_allVars /\ RFairness

-----------------------------------------------------------------------------
\* Neighbours that remember a full buffer do not starve the new process, nor does
\* send_accepted_chunks, which turns down what they remember and leaves the chunk
\* locked against the offers of others: where neighbours have each other, in the
\* end none of them holds and may offer (compose_offer_cset) a chunk of use to
\* the other (_needs), whatever it believed at the start of the process.  And what
\* was generated after the last start reaches every peer, but for the oldest
\* ids of a buffer, which may be offered by nobody.
Diffusion ==
  <>[](/\ \A p, q \in Peers : p \in nbr[q] /\ q \in nbr[p] =>
            \A c \in OfferSet(q) : ~Needs(cb[p], CbSize, c)
       /\ \A p \in Peers \ {Source} :
            {c \in Chunks : \A q \in Peers : c > since[q] + Lag} \subseteq seen[p])

\* Two peers that have each other as neighbours end with a true belief of each
\* other: the buffer map that add_peer sends corrects what was remembered of
\* the old process.
BeliefsHeal ==
  <>[](\A p, q \in Peers :
         q \in nbr[p] /\ p \in nbr[q] => bmap[p][q] \subseteq seen[q])

\* An ack that closes a transaction whose accept was not registered, so that
\* rc_reg_ack measures from no accept time, carries an id under which a datagram
\* outlived an earlier process of the same peer: restarts of the neighbours never
\* bring it about, nor do the ids that the new process counts through again once
\* they are out of the network (transaction_remove).
AcksCloseAcceptedOrFormer ==
  [][\A m \in net : ReceiveAck(m) /\ Running =>
       \A t \in txn[m.to] \ txn'[m.to] : t.accepted \/ t.id \in former[m.to]]_allVars
=============================================================================
