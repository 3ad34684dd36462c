------------------------------- MODULE Topology -------------------------------
(***************************************************************************)
(* How a peer picks its neighbours: update_peers of topology.c, run by     *)
(* every peer, and the explicit ADD and REMOVE messages between them.      *)
(*                                                                         *)
(* A link carries chunks from a peer to those in its peerset.  With        *)
(* topo_out a peer picks its peerset itself; with topo_in it picks who     *)
(* shall push to it and asks them with ADD and REMOVE; with both, the      *)
(* default, every link is meant to be held at its two ends.  With topo_in  *)
(* alone the picked peers are remembered in savedids, because the peerset  *)
(* then holds those that asked.                                            *)
(*                                                                         *)
(* The gossip protocol below (GRAPES topmanager) is only seen through the  *)
(* view it returns, any set of other peers.  A neighbour may have been     *)
(* silent for tout_bmap (20 s) whenever update_peers looks.  Round trip    *)
(* times decide which peers are desired and which are best: any are.       *)
(*                                                                         *)
(* Buffer maps do not change a neighbourhood (neigh_on_sign_recv and       *)
(* neigh_on_chunk_recv are false and never set), so send_bmap is left to   *)
(* ChunkTrading.                                                           *)
(***************************************************************************)
EXTENDS Integers, Sequences, FiniteSets

CONSTANTS
  Peers,       \* every process of the overlay
  Target,      \* NEIGHBORHOOD_TARGET_SIZE, 0 for no limit
  TopoMem,     \* topo_mem, in percent
  AlphaTarget, \* alpha_target, in percent
  MaxInFlight  \* bound: explicit messages in flight

ASSUME PeersAssumption == IsFiniteSet(Peers)
ASSUME TargetAssumption == Target \in Nat
ASSUME PercentAssumption == TopoMem \in 0 .. 100 /\ AlphaTarget \in 0 .. 100
ASSUME BoundAssumption == MaxInFlight \in Nat

VARIABLES
  nbr,       \* nbr[p]: the peerset of p
  saved,     \* saved[p]: savedids of p
  chan,      \* chan[p][q]: explicit messages from p to q, oldest first
  topo_out,  \* an option of every peer: it picks whom it pushes to
  topo_in,   \* an option of every peer: it picks who pushes to it
  silent     \* neighbours may fall silent

options == <<topo_out, topo_in, silent>>
vars == <<nbr, saved, chan, options>>

Requests == {"add", "remove"}

-----------------------------------------------------------------------------
\* A definition whose comment begins with "Fault:" is a variant of the one
\* that follows it, with a bug the properties are expected to reveal.

OfSize(S, n) == {T \in SUBSET S : Cardinality(T) = n}

\* The options the sizes of a selection depend on, and those of this overlay.
SizeOptions == [target : Nat, mem : 0 .. 100, alpha : 0 .. 100]
Own == [target |-> Target, mem |-> TopoMem, alpha |-> AlphaTarget]

\* keep_size: the part of n old peers that survives a selection.
Keep(o, n) == (o.mem * n) \div 100

\* MAX(NEIGHBORHOOD_TARGET_SIZE - n, 0)
Room(o, n) == IF o.target > n THEN o.target - n ELSE 0

\* desired_part: how many desired peers may join k kept ones.
DesiredPart(o, k) == ((100 - o.alpha) * Room(o, k)) \div 100

\* Fault: the desired ones already taken are not counted.
RestSizeTwice(o, k, w, others) ==
  IF o.target # 0 /\ Room(o, k) < others THEN Room(o, k) ELSE others

\* random_size: how many of the others join k kept and w desired ones.
RestSize(o, k, w, others) ==
  IF o.target # 0 /\ Room(o, k + w) < others THEN Room(o, k + w) ELSE others

\* May `sel' be the selection made from the old peers and the gossip view?
MaySelect(o, old, view, sel) ==
  \E kept \in OfSize(old, Keep(o, Cardinality(old))) :
    LET candidates == (old \union view) \ kept
    IN  \E wanted \in SUBSET candidates :
          LET others == candidates \ wanted
          IN  /\ Cardinality(wanted) <= DesiredPart(o, Cardinality(kept))
              /\ \E rest \in OfSize(others, RestSize(o, Cardinality(kept),
                                          Cardinality(wanted), Cardinality(others))) :
                   sel = kept \union wanted \union rest

\* What a selection replaces: the peerset without the dropped, or savedids.
Old(p, dropped) == IF topo_out THEN nbr[p] \ dropped ELSE saved[p]

\* toadds, of which only those in the view have the metadata add_peer needs.
ToAdd(old, view, sel) == (sel \ old) \intersect view

\* Fault: nobody is told to go.
ToRemoveNobody(old, sel) == {}

\* toremoves
ToRemove(old, sel) == old \ sel

\* Fault: the selection is remembered in every mode.
SavedAlways(p, sel) == sel

\* savedids after a selection
SavedAfter(p, sel) == IF topo_out THEN saved[p] ELSE sel

\* send_topo_msg: p tells the dropped, then the new, then the unwanted ones.
Send(p, c, dropped, adds, removes) ==
  [c EXCEPT ![p] = [q \in Peers |->
      c[p][q] \o (IF q \in dropped THEN <<"remove">> ELSE <<>>)
              \o (IF q \in adds THEN <<"add">> ELSE <<>>)
              \o (IF q \in removes THEN <<"remove">> ELSE <<>>)]]

\* The bound on explicit messages: what the network may be after a step.
Bounded(c) ==
  Cardinality({m \in Peers \X Peers \X (1 .. MaxInFlight + 1) :
                 m[3] <= Len(c[m[1]][m[2]])}) <= MaxInFlight

\* The inactive neighbours an update_peers of p may find.
Dropped(p) == IF silent THEN SUBSET nbr[p] ELSE {{}}

\* p has taken the oldest message of q out of the network.
Taken(p, q) == [chan EXCEPT ![q][p] = Tail(@)]

-----------------------------------------------------------------------------
\* The options of the command line: topo_out, topo_in, or both.
Init ==
  /\ topo_out \in BOOLEAN /\ topo_in \in BOOLEAN
  /\ topo_out \/ topo_in
  /\ silent \in BOOLEAN
  /\ nbr = [p \in Peers |-> {}]
  /\ saved = [p \in Peers |-> {}]
  /\ chan = [p \in Peers |-> [q \in Peers |-> <<>>]]

\* update_peers(NULL, NULL, 0), from the loop's timer: inactive peers are dropped.
Tick(p) ==
  \E dropped \in Dropped(p) :
    /\ nbr' = [nbr EXCEPT ![p] = @ \ dropped]
    /\ chan' = Send(p, chan, dropped, {}, {}) /\ Bounded(chan')
    /\ UNCHANGED <<saved, options>>

\* An ADD of q reaches p, which honours such requests.
ReceiveAdd(p, q) ==
  /\ topo_in
  /\ chan[q][p] # <<>> /\ Head(chan[q][p]) = "add"
  /\ \E dropped \in Dropped(p) :
       /\ nbr' = [nbr EXCEPT ![p] = (@ \ dropped) \union {q}]
       /\ chan' = Send(p, Taken(p, q), dropped, {}, {}) /\ Bounded(chan')
  /\ UNCHANGED <<saved, options>>

\* A REMOVE of q reaches p, which honours such requests.
ReceiveRemove(p, q) ==
  /\ topo_in
  /\ chan[q][p] # <<>> /\ Head(chan[q][p]) = "remove"
  /\ \E dropped \in Dropped(p) :
       /\ nbr' = [nbr EXCEPT ![p] = (@ \ dropped) \ {q}]
       /\ chan' = Send(p, Taken(p, q), dropped, {}, {}) /\ Bounded(chan')
  /\ UNCHANGED <<saved, options>>

\* The rest of update_peers, once the network is c: p selects its neighbours anew.
Reselect(p, c) ==
  \E dropped \in Dropped(p) :
    \E view \in SUBSET (Peers \ ({p} \union dropped)) :
      LET old == Old(p, dropped)
      IN  \E sel \in SUBSET (old \union view) :
            /\ MaySelect(Own, old, view, sel)
            /\ LET adds == ToAdd(old, view, sel)
                   removes == ToRemove(old, sel)
               IN /\ nbr' = [nbr EXCEPT ![p] =
                               IF topo_out THEN ((@ \ dropped) \union adds) \ removes
                                          ELSE @ \ dropped]
                  /\ chan' = Send(p, c, dropped, IF topo_in THEN adds ELSE {},
                                                 IF topo_in THEN removes ELSE {})
                  /\ Bounded(chan')
                  /\ saved' = [saved EXCEPT ![p] = SavedAfter(p, sel)]
                  /\ UNCHANGED options

\* A gossip message reaches p.
ReceiveGossip(p) == Reselect(p, chan)

\* Without topo_in an explicit message is no request: it only causes a selection.
IgnoreRequest(p, q) ==
  /\ ~topo_in
  /\ chan[q][p] # <<>>
  /\ Reselect(p, Taken(p, q))

Next ==
  \/ \E p \in Peers : Tick(p) \/ ReceiveGossip(p)
  \/ \E p, q \in Peers : ReceiveAdd(p, q) \/ ReceiveRemove(p, q) \/ IgnoreRequest(p, q)

Spec == Init /\ [][Next]_vars

-----------------------------------------------------------------------------
(* Types; nobody is its own neighbour; and savedids is only used when the    *)
(* peerset is not the peer's own choice (update_peers).                      *)
TypeOK ==
  /\ nbr \in [Peers -> SUBSET Peers]
  /\ saved \in [Peers -> SUBSET Peers]
  /\ chan \in [Peers -> [Peers -> Seq(Requests)]]
  /\ \A p \in Peers : p \notin nbr[p] /\ p \notin saved[p] /\ chan[p][p] = <<>>
  /\ topo_out \in BOOLEAN /\ topo_in \in BOOLEAN /\ silent \in BOOLEAN
  /\ topo_out \/ topo_in
  /\ topo_out => \A p \in Peers : saved[p] = {}

\* The peers p picked itself.
Chosen(p) == IF topo_out THEN nbr[p] ELSE saved[p]

(* A peer that is the only one to choose its neighbours never has more than  *)
(* NEIGHBORHOOD_TARGET_SIZE, though kept, desired and random ones are picked *)
(* in three rounds with a size each (update_peers).                          *)
ChosenWithinTarget ==
  Target # 0 /\ ~(topo_in /\ topo_out) =>
    \A p \in Peers : Cardinality(Chosen(p)) <= Target

(* With topo_in alone, and nobody silent: once p's messages to q have        *)
(* arrived, q pushes to p exactly when p has chosen q, however selections of *)
(* p, of q and arrivals interleave (ADD and REMOVE of update_peers against   *)
(* savedids).                                                                *)
InLinksAgree ==
  ~topo_out /\ ~silent => \A p, q \in Peers :
    chan[p][q] = <<>> => (p \in nbr[q] <=> q \in saved[p])

(* With both directions a selection brings an overcrowded neighbourhood, one *)
(* that other peers' requests filled, back to the target, or down to the     *)
(* portion topo_mem makes it keep.                                           *)
SelectionDrains ==
  [][Target # 0 => \A p \in Peers : ReceiveGossip(p) =>
       LET kept == Keep(Own, Cardinality(Chosen(p)))
       IN  Cardinality(Chosen(p)') <= IF kept > Target THEN kept ELSE Target]_vars

(* "combined means bidirectional" (topology.c:58): when no message between   *)
(* p and q is in flight, each has the other or neither has.                  *)
LinksMutual ==
  topo_in /\ topo_out /\ ~silent => \A p, q \in Peers :
    chan[p][q] = <<>> /\ chan[q][p] = <<>> => (q \in nbr[p] <=> p \in nbr[q])
=============================================================================
