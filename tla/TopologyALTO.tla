----------------------------- MODULE TopologyALTO -----------------------------
(***************************************************************************)
(* The neighbourhood of one peer in the ALTO build: update_peers           *)
(* and PeerSelectorALTO of topology-ALTO.c; nodeid_to_peer, the other      *)
(* function that adds peers, is never asked to (neigh_on_sign_recv and     *)
(* neigh_on_chunk_recv are false and never set).                           *)
(*                                                                         *)
(* Now and then the peers known are sent to an ALTO server for ranking;    *)
(* when the answer is there, some of the best and some random others make  *)
(* the list that is put into the peerset.  The client works on its own     *)
(* thread, so an answer may come at any time; until then the list of       *)
(* known peers stays frozen.                                               *)
(*                                                                         *)
(* stage says where the single thread is in update_peers; each of its      *)
(* loops takes one element a step.  Ranking is the server's: any peers     *)
(* may be the best.  Addresses, ports and the order of lists are left out: *)
(* an address that several peers share stands for as many entries.         *)
(***************************************************************************)
EXTENDS Integers, FiniteSets

CONSTANTS
  Peers,    \* the other peers of the overlay
  Targets,  \* the values of neighborhood_target_size to be covered
  Factor    \* alto_factor, in percent

ASSUME PeersAssumption == IsFiniteSet(Peers)
ASSUME TargetsAssumption == Targets \subseteq Nat
ASSUME FactorAssumption == Factor \in 0 .. 100

VARIABLES
  target,   \* NEIGHBORHOOD_TARGET_SIZE, 0 for no limit
  pset,     \* the peerset
  view,     \* nbrs: what the gossip protocol returned in this call
  cells,    \* the entries of currentNeighborhood that are not NULL
  size,     \* c_neigh_size
  alto,     \* altoList
  results,  \* newAltoResults: 0 asked, 1 to be put into pset, 2 done
  ready,    \* ALTO_query_state() = ALTO_QUERY_READY
  stage,    \* where update_peers is
  picks,    \* random picks still to be made
  todo      \* members of altoList not yet put into pset

vars == <<target, pset, view, cells, size, alto, results, ready, stage, picks, todo>>

Stages == {"idle", "query", "reply", "pick", "compose", "add", "fill"}

-----------------------------------------------------------------------------
\* A definition whose comment begins with "Fault:" is a variant of the one
\* that follows it, with a bug the properties are expected to reveal.

OfSize(S, n) == {T \in SUBSET S : Cardinality(T) = n}

\* Fault: the known peers are collected anew while a query is under way.
CollectsAlways == TRUE

\* Is currentNeighborhood made anew?
Collects == results # 0

\* altoList_size for n known peers
ListSize(n) == IF target > 0 /\ target < n THEN target ELSE n

\* Fault: the share is taken of all the known peers.
BucketSizeOfAll(n) == (n * Factor) \div 100

\* ALTO_bucket_size
BucketSize(n) == (ListSize(n) * Factor) \div 100

\* Fault: the list is filled up to the target, however few peers are known.
RandSizeToTarget(n) == (IF target > 0 THEN target ELSE n) - BucketSize(n)

\* RAND_bucket_size
RandSize(n) == ListSize(n) - BucketSize(n)

\* Is there no room for one more peer?
Full(s) == target # 0 /\ Cardinality(s) >= target

\* Fault: anybody may go.
VictimsAny(q) == pset

\* Who may go to make room for q of altoList.
Victims(q) == pset \ (alto \ {q})

-----------------------------------------------------------------------------
Init ==
  /\ target \in Targets
  /\ pset = {} /\ view = {} /\ cells = {} /\ size = 0
  /\ alto = {} /\ results = 2 /\ ready = TRUE
  /\ stage = "idle" /\ picks = 0 /\ todo = {}

\* update_peers, from a gossip message or the timer: what is known is collected.
UpdatePeers(seen) ==
  /\ stage = "idle" /\ stage' = "query"
  /\ view' = seen
  /\ IF Collects
       THEN cells' = pset \union seen /\ size' = Cardinality(cells')
       ELSE UNCHANGED <<cells, size>>
  /\ UNCHANGED <<target, pset, alto, results, ready, picks, todo>>

\* PeerSelectorALTO, when update_interval has passed: the server is asked.
\* A failed query is followed by the list there was.
Query ==
  /\ stage = "query" /\ stage' = "reply"
  /\ size > 1 /\ results # 0
  /\ \/ results' = 0 /\ ready' = FALSE
     \/ results' = 1 /\ UNCHANGED ready
  /\ UNCHANGED <<target, pset, view, cells, size, alto, picks, todo>>

\* No server is asked.
NoQuery ==
  /\ stage = "query" /\ stage' = "reply"
  /\ UNCHANGED <<target, pset, view, cells, size, alto, results, ready, picks, todo>>

\* The client's thread has the answer.
Answer ==
  /\ ~ready /\ ready' = TRUE
  /\ UNCHANGED <<target, pset, view, cells, size, alto, results, stage, picks, todo>>

\* The answer is there: the first bucket is filled with the best ranked.
RankedPicks ==
  /\ stage = "reply" /\ stage' = "pick"
  /\ size > 1 /\ ready /\ results = 0
  /\ \E best \in OfSize(cells, BucketSize(size)) : alto' = best /\ cells' = cells \ best
  /\ picks' = RandSize(size)
  /\ UNCHANGED <<target, pset, view, size, results, ready, todo>>

\* One random pick: rand() is called until it hits an entry that is not NULL.
RandomPick ==
  /\ stage = "pick" /\ picks > 0
  /\ \E q \in cells : alto' = alto \union {q} /\ cells' = cells \ {q}
  /\ picks' = picks - 1
  /\ UNCHANGED <<target, pset, view, size, results, ready, stage, todo>>

\* altoList is complete.
Picked ==
  /\ stage = "pick" /\ picks = 0
  /\ stage' = "compose"
  /\ results' = 1
  /\ UNCHANGED <<target, pset, view, cells, size, alto, ready, picks, todo>>

\* PeerSelectorALTO has no answer to work on, or was not called.
NoReply ==
  /\ stage = "reply" /\ stage' = "compose"
  /\ ~(size > 1 /\ ready /\ results = 0)
  /\ UNCHANGED <<target, pset, view, cells, size, alto, results, ready, picks, todo>>

\* Is altoList to be put into the peerset?
Compose ==
  /\ stage = "compose"
  /\ IF ready /\ results = 1 THEN stage' = "add" /\ todo' = alto
                             ELSE stage' = "fill" /\ UNCHANGED todo
  /\ UNCHANGED <<target, pset, view, cells, size, alto, results, ready, picks>>

\* One member of altoList is put into the peerset, in place of another when full.
AddRanked(q) ==
  /\ stage = "add" /\ q \in todo
  /\ todo' = todo \ {q}
  /\ \/ q \in pset /\ UNCHANGED pset
     \/ q \notin pset /\ ~Full(pset) /\ pset' = pset \union {q}
     \/ q \notin pset /\ Full(pset)
        /\ \E r \in Victims(q) : pset' = (pset \ {r}) \union {q}
     \/ q \notin pset /\ Full(pset) /\ Victims(q) = {} /\ UNCHANGED pset
  /\ UNCHANGED <<target, view, cells, size, alto, results, ready, stage, picks>>

\* altoList has been put into the peerset.
Composed ==
  /\ stage = "add" /\ todo = {}
  /\ stage' = "fill"
  /\ results' = 2
  /\ UNCHANGED <<target, pset, view, cells, size, alto, ready, picks, todo>>

\* The rest of update_peers: all of the view is added while there is room for
\* one, and neighbours silent for tout_bmap (10 s), any of them, are dropped.
Fill ==
  /\ stage = "fill" /\ stage' = "idle"
  /\ \E kept \in SUBSET (IF Full(pset) THEN pset ELSE pset \union view) : pset' = kept
  /\ view' = {}
  /\ UNCHANGED <<target, cells, size, alto, results, ready, picks, todo>>

\* What update_peers does once it has been called.
Proceed ==
  \/ Query \/ NoQuery \/ RankedPicks \/ RandomPick \/ Picked \/ NoReply
  \/ Compose \/ Composed \/ Fill
  \/ \E q \in Peers : AddRanked(q)

Next ==
  \/ \E seen \in SUBSET Peers : UpdatePeers(seen)
  \/ Proceed
  \/ Answer

\* The timer calls update_peers for ever, and the client answers what it took.
Fairness ==
  /\ WF_vars(\E seen \in SUBSET Peers : UpdatePeers(seen))
  /\ WF_vars(Proceed)
  /\ WF_vars(Answer)

Spec == Init /\ [][Next]_vars /\ Fairness

-----------------------------------------------------------------------------
(* Types; with a limit, altoList never exceeds it (PeerSelectorALTO).        *)
TypeOK ==
  /\ target \in Targets
  /\ pset \in SUBSET Peers /\ view \in SUBSET Peers /\ cells \in SUBSET Peers
  /\ alto \in SUBSET Peers /\ todo \in SUBSET Peers
  /\ size \in Nat /\ picks \in Nat
  /\ results \in 0 .. 2 /\ ready \in BOOLEAN /\ stage \in Stages
  /\ target # 0 => Cardinality(alto) + picks <= target

(* Each random pick has an entry to hit, so that its loop ends ("it works    *)
(* only if gossipNeighborhood is realloc'ed for sure between two queries",   *)
(* PeerSelectorALTO).                                                        *)
PickingFinishes == stage = "pick" => picks <= Cardinality(cells)

(* After its loop over altoList, update_peers has all of it in the peerset,  *)
(* and has dropped only peers outside it.  The loop keeps a full peerset at  *)
(* its size; below the limit it adds without dropping anybody, but not past  *)
(* the limit.  (Its comment, line 344, wants no increase at all.)            *)
ListGetsIn ==
  [][/\ Composed => alto \subseteq pset
     /\ stage = "add" /\ target # 0 =>
          Cardinality(pset') <= IF Full(pset) THEN Cardinality(pset) ELSE target
     /\ stage = "add" => alto \intersect (pset \ pset') = {}]_vars

(* Every accepted query ends in its answer being put into the peerset, after *)
(* which the next can be made (PeerSelectorALTO, update_peers).              *)
EveryAnswerIsUsed == results = 0 ~> results = 2
=============================================================================
