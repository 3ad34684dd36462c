-------------------------- MODULE TopologyALTOProofs --------------------------
(***************************************************************************)
(* Proofs about TopologyALTO, for any number of peers, any limits and any  *)
(* alto_factor.                                                            *)
(***************************************************************************)
EXTENDS TopologyALTO, FiniteSetTheorems, TLAPS

(* A percentage in integer arithmetic is a part of the whole (ALTO_bucket_   *)
(* size in PeerSelectorALTO).                                                *)
LEMMA Percentage ==
  ASSUME NEW m \in 0 .. 100, NEW n \in Nat
  PROVE  (n * m) \div 100 \in 0 .. n
<1>1. 100 * n = n * m + n * (100 - m)
  OBVIOUS
<1>2. n * m \in Nat /\ n * (100 - m) \in Nat
  <2>1. \A i, j \in Nat : i * j \in Nat
    OBVIOUS
  <2> QED BY <2>1
<1>3. n * m <= 100 * n
  BY <1>1, <1>2
<1>4. \A x, y \in Nat : x <= y => x \div 100 <= y \div 100 /\ x \div 100 \in Nat
  OBVIOUS
<1>5. (100 * n) \div 100 = n /\ 100 * n \in Nat
  OBVIOUS
<1> QED BY <1>2, <1>3, <1>4, <1>5

(* The two buckets are parts of the known peers and make up the list, which  *)
(* the limit bounds (PeerSelectorALTO).                                      *)
LEMMA Buckets ==
  ASSUME target \in Nat, NEW n \in Nat
  PROVE  /\ BucketSize(n) \in Nat /\ RandSize(n) \in Nat
         /\ BucketSize(n) + RandSize(n) = ListSize(n)
         /\ ListSize(n) <= n
         /\ target # 0 => ListSize(n) <= target
<1>1. ListSize(n) \in Nat /\ ListSize(n) <= n /\ (target # 0 => ListSize(n) <= target)
  BY DEF ListSize
<1>2. BucketSize(n) \in 0 .. ListSize(n)
  BY <1>1, FactorAssumption, Percentage DEF BucketSize
<1> QED BY <1>1, <1>2 DEF RandSize

(* Sets of peers are finite.                                                 *)
LEMMA FinitePeers ==
  \A S \in SUBSET Peers : IsFiniteSet(S) /\ Cardinality(S) \in Nat
BY PeersAssumption, FS_Subset, FS_CardinalityType

(* c_neigh_size counts the known peers while a query may need them.          *)
Counted ==
  (results = 0 /\ stage # "pick") \/ stage \in {"query", "reply"} => size = Cardinality(cells)

(* What of altoList has been handled is in the peerset.                      *)
Handled ==
  stage = "add" => todo \subseteq alto /\ alto \ todo \subseteq pset

(* The inductive invariant behind the three properties.                      *)
Inv == TypeOK /\ PickingFinishes /\ Counted /\ Handled

-----------------------------------------------------------------------------
(* With a list that the limit bounds, a full peerset always has a member     *)
(* outside the list that can make room (update_peers).                       *)
LEMMA SomebodyMayGo ==
  ASSUME TypeOK, NEW q \in alto, q \notin pset, Full(pset)
  PROVE  Victims(q) # {}
<1> SUFFICES ASSUME Victims(q) = {} PROVE FALSE
  OBVIOUS
<1>1. pset \subseteq alto \ {q}
  BY DEF Victims
<1>2. IsFiniteSet(alto) /\ Cardinality(alto) \in Nat /\ Cardinality(pset) \in Nat /\ picks \in Nat
  BY FinitePeers DEF TypeOK
<1>3. IsFiniteSet(alto \ {q}) /\ Cardinality(alto \ {q}) = Cardinality(alto) - 1
  BY <1>2, FS_RemoveElement
<1>4. Cardinality(pset) <= Cardinality(alto \ {q})
  BY <1>1, <1>3, FS_Subset
<1>5. target # 0 /\ Cardinality(pset) >= target /\ target \in Nat
  BY TargetsAssumption DEF Full, TypeOK
<1>6. Cardinality(alto) + picks <= target
  BY <1>5 DEF TypeOK
<1> QED BY <1>2, <1>3, <1>4, <1>5, <1>6

(* One turn of the loop over altoList brings its peer in, keeps the others   *)
(* of the list, and does not outgrow the limit (update_peers).               *)
LEMMA OneRanked ==
  ASSUME TypeOK, Handled, NEW q \in Peers, AddRanked(q)
  PROVE  /\ pset' \in SUBSET Peers /\ q \in pset'
         /\ alto \intersect (pset \ pset') = {}
         /\ target # 0 => Cardinality(pset') <= IF Full(pset) THEN Cardinality(pset) ELSE target
<1>1. q \in alto
  BY DEF AddRanked, Handled
<1>2. IsFiniteSet(pset) /\ Cardinality(pset) \in Nat /\ target \in Nat /\ pset \in SUBSET Peers
  BY FinitePeers, TargetsAssumption DEF TypeOK
<1>3. CASE q \in pset /\ UNCHANGED pset
  BY <1>2, <1>3 DEF Full
<1>4. CASE q \notin pset /\ ~Full(pset) /\ pset' = pset \union {q}
  <2>1. Cardinality(pset') = Cardinality(pset) + 1
    BY <1>2, <1>4, FS_AddElement
  <2>2. target # 0 => Cardinality(pset) < target
    BY <1>2, <1>4 DEF Full
  <2> QED BY <1>2, <1>4, <2>1, <2>2
<1>5. ASSUME q \notin pset, Full(pset), NEW r \in Victims(q), pset' = (pset \ {r}) \union {q}
      PROVE  /\ pset' \in SUBSET Peers /\ q \in pset'
             /\ alto \intersect (pset \ pset') = {}
             /\ Cardinality(pset') <= Cardinality(pset)
  <2>1. r \in pset /\ (r \notin alto \/ r = q)
    BY <1>5 DEF Victims
  <2>2. IsFiniteSet(pset \ {r}) /\ Cardinality(pset \ {r}) = Cardinality(pset) - 1
    BY <1>2, <2>1, FS_RemoveElement
  <2>3. Cardinality(pset') = Cardinality(pset \ {r}) + 1
    BY <1>5, <2>2, FS_AddElement
  <2>4. r \notin alto
    BY <2>1, <1>5
  <2> QED BY <1>2, <1>5, <2>2, <2>3, <2>4
<1>6. Victims(q) # {} \/ q \in pset \/ ~Full(pset)
  BY <1>1, SomebodyMayGo
<1> QED BY <1>3, <1>4, <1>5, <1>6 DEF AddRanked

-----------------------------------------------------------------------------
(* Every step of update_peers and of the client keeps the invariant.        *)
LEMMA InvStep == Inv /\ [Next]_vars => Inv'
<1> SUFFICES ASSUME Inv, [Next]_vars PROVE Inv'
  OBVIOUS
<1> USE DEF Inv
<1>t. target \in Nat
  BY TargetsAssumption DEF TypeOK
<1>1. ASSUME NEW seen \in SUBSET Peers, UpdatePeers(seen) PROVE Inv'
  <2>1. pset \union seen \in SUBSET Peers
    BY DEF TypeOK
  <2>2. Cardinality(pset \union seen) \in Nat
    BY <2>1, FinitePeers
  <2>3. TypeOK'
    BY <1>1, <2>1, <2>2 DEF UpdatePeers, TypeOK, Stages
  <2>4. Counted'
    BY <1>1 DEF UpdatePeers, Counted, Collects
  <2>5. stage' = "query"
    BY <1>1 DEF UpdatePeers
  <2> QED BY <2>3, <2>4, <2>5 DEF PickingFinishes, Handled
<1>2. CASE Query
  <2>1. /\ UNCHANGED <<target, pset, view, cells, size, alto, picks, todo>>
        /\ stage = "query" /\ stage' = "reply"
    BY <1>2 DEF Query
  <2>4. (results' = 0 /\ ready' = FALSE) \/ (results' = 1 /\ ready' = ready)
    BY <1>2 DEF Query
  <2>5. results' \in 0 .. 2
    BY <2>4
  <2>6. ready' \in BOOLEAN
    BY <2>4 DEF TypeOK
  <2>2. TypeOK'
    BY <2>1, <2>5, <2>6 DEF TypeOK, Stages
  <2>3. Counted'
    BY <2>1 DEF Counted
  <2> QED BY <2>1, <2>2, <2>3 DEF PickingFinishes, Handled
<1>3. CASE NoQuery
  BY <1>3 DEF NoQuery, TypeOK, Stages, PickingFinishes, Counted, Handled
<1>4. CASE Answer
  BY <1>4 DEF Answer, TypeOK, PickingFinishes, Counted, Handled
<1>5. CASE RankedPicks
  <2>1. PICK best \in OfSize(cells, BucketSize(size)) : alto' = best /\ cells' = cells \ best
    BY <1>5 DEF RankedPicks
  <2>2. size = Cardinality(cells) /\ size \in Nat /\ cells \in SUBSET Peers
    BY <1>5 DEF RankedPicks, Counted, TypeOK
  <2>3. best \subseteq cells /\ Cardinality(best) = BucketSize(size)
    BY <2>1 DEF OfSize
  <2>4. IsFiniteSet(cells) /\ IsFiniteSet(best) /\ IsFiniteSet(cells \ best) /\ Cardinality(cells \ best) \in Nat
    BY <2>2, <2>3, FinitePeers, FS_Subset, FS_Difference
  <2>5. Cardinality(cells \ best) = Cardinality(cells) - Cardinality(best)
    <3>1. cells \intersect best = best
      BY <2>3
    <3> QED BY <2>4, <3>1, FS_Difference, ZenonT(60)
  <2>6. picks' = RandSize(size)
    BY <1>5 DEF RankedPicks
  <2>7. /\ picks' \in Nat /\ picks' <= Cardinality(cells')
        /\ target # 0 => Cardinality(alto') + picks' <= target
    BY <1>t, <2>1, <2>2, <2>3, <2>5, <2>6, Buckets
  <2>8. TypeOK'
    BY <1>5, <2>1, <2>2, <2>3, <2>7 DEF RankedPicks, TypeOK, Stages
  <2> QED BY <1>5, <2>7, <2>8 DEF RankedPicks, PickingFinishes, Counted, Handled
<1>6. CASE RandomPick
  <2>1. PICK q \in cells : alto' = alto \union {q} /\ cells' = cells \ {q}
    BY <1>6 DEF RandomPick
  <2>2. /\ picks > 0 /\ picks' = picks - 1 /\ picks \in Nat /\ picks <= Cardinality(cells)
        /\ cells \in SUBSET Peers /\ alto \in SUBSET Peers
    BY <1>6 DEF RandomPick, TypeOK, PickingFinishes
  <2>3. Cardinality(cells') = Cardinality(cells) - 1 /\ Cardinality(cells) \in Nat
    BY <2>1, <2>2, FinitePeers, FS_RemoveElement
  <2>4. Cardinality(alto') <= Cardinality(alto) + 1 /\ Cardinality(alto) \in Nat /\ Cardinality(alto') \in Nat
    <3>1. IsFiniteSet(alto) /\ Cardinality(alto) \in Nat
      BY <2>2, FinitePeers
    <3>2. Cardinality(alto') = IF q \in alto THEN Cardinality(alto) ELSE Cardinality(alto) + 1
      BY <2>1, <3>1, FS_AddElement
    <3> QED BY <3>1, <3>2
  <2>5. target # 0 => Cardinality(alto') + picks' <= target
    BY <1>t, <2>2, <2>4 DEF TypeOK
  <2>6. TypeOK'
    BY <1>6, <2>1, <2>2, <2>5 DEF RandomPick, TypeOK
  <2>7. picks' <= Cardinality(cells')
    BY <2>2, <2>3
  <2> QED BY <1>6, <2>6, <2>7 DEF RandomPick, PickingFinishes, Counted, Handled
<1>7. CASE Picked
  BY <1>7 DEF Picked, TypeOK, Stages, PickingFinishes, Counted, Handled
<1>8. CASE NoReply
  BY <1>8 DEF NoReply, TypeOK, Stages, PickingFinishes, Counted, Handled
<1>9. CASE Compose
  BY <1>9 DEF Compose, TypeOK, Stages, PickingFinishes, Counted, Handled
<1>10. ASSUME NEW q \in Peers, AddRanked(q) PROVE Inv'
  <2>1. /\ pset' \in SUBSET Peers /\ q \in pset'
        /\ alto \intersect (pset \ pset') = {}
    BY <1>10, OneRanked
  <2>2. TypeOK'
    BY <1>10, <2>1 DEF AddRanked, TypeOK
  <2>3. Handled'
    BY <1>10, <2>1 DEF AddRanked, Handled
  <2> QED BY <1>10, <2>2, <2>3 DEF AddRanked, PickingFinishes, Counted
<1>11. CASE Composed
  BY <1>11 DEF Composed, TypeOK, Stages, PickingFinishes, Counted, Handled
<1>12. CASE Fill
  <2>1. pset' \in SUBSET Peers
    BY <1>12 DEF Fill, TypeOK
  <2> QED BY <1>12, <2>1 DEF Fill, TypeOK, Stages, PickingFinishes, Counted, Handled
<1>13. CASE UNCHANGED vars
  BY <1>13 DEF vars, TypeOK, PickingFinishes, Counted, Handled
<1> QED BY <1>1, <1>2, <1>3, <1>4, <1>5, <1>6, <1>7, <1>8, <1>9, <1>10, <1>11,
           <1>12, <1>13 DEF Next, Proceed

(* The invariant holds of every reachable state.                             *)
THEOREM Invariant == Spec => []Inv
<1>1. Init => Inv
  BY FS_EmptySet, TargetsAssumption DEF Init, Inv, TypeOK, Stages, PickingFinishes, Counted, Handled
<1> QED BY <1>1, InvStep, PTL DEF Spec

(* The types, and the limit bounds altoList (PeerSelectorALTO).              *)
THEOREM TypeCorrect == Spec => []TypeOK
<1>1. Inv => TypeOK
  BY DEF Inv
<1> QED BY <1>1, Invariant, PTL

(* No random pick spins for ever (PeerSelectorALTO).                         *)
THEOREM Picks == Spec => []PickingFinishes
<1>1. Inv => PickingFinishes
  BY DEF Inv
<1> QED BY <1>1, Invariant, PTL

(* altoList gets into the peerset, and a full one keeps its size             *)
(* (update_peers).                                                           *)
THEOREM RankedGetIn == Spec => ListGetsIn
<1> DEFINE A == /\ Composed => alto \subseteq pset
                /\ stage = "add" /\ target # 0 =>
                     Cardinality(pset') <= IF Full(pset) THEN Cardinality(pset) ELSE target
                /\ stage = "add" => alto \intersect (pset \ pset') = {}
<1>1. Inv /\ [Next]_vars => [A]_vars
  <2> SUFFICES ASSUME Inv, Next PROVE A
    OBVIOUS
  <2>1. Composed => alto \subseteq pset
    BY DEF Composed, Inv, Handled
  <2>2. ASSUME stage = "add", NEW q \in Peers, AddRanked(q) PROVE A
    BY <2>1, <2>2, OneRanked DEF Inv
  <2>3. ASSUME stage = "add", UNCHANGED pset PROVE A
    <3>1. Cardinality(pset) \in Nat /\ target \in Nat
      BY FinitePeers, TargetsAssumption DEF Inv, TypeOK
    <3> QED BY <2>1, <2>3, <3>1 DEF Full
  <2>4. ASSUME stage = "add", ~\E q \in Peers : AddRanked(q) PROVE UNCHANGED pset
    BY <2>4 DEF Next, Proceed, UpdatePeers, Query, NoQuery, RankedPicks, RandomPick, Picked,
                NoReply, Compose, Composed, Fill, Answer
  <2> QED BY <2>1, <2>2, <2>3, <2>4
<1> QED BY <1>1, Invariant, PTL DEF Spec, ListGetsIn
=============================================================================
