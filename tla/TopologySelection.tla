-------------------------- MODULE TopologySelection --------------------------
(***************************************************************************)
(* How update_peers of topology.c makes a selection: arrays of ids of      *)
(* max_ids entries each, and the set operations of nodeid_set.c on them,   *)
(* which fill an array up to its size and give up there.                   *)
(*                                                                         *)
(* A shuffle or a sort of an array is its order by a ranking of all ids.   *)
(***************************************************************************)
EXTENDS Topology, Lists, SequencesExt

CONSTANT Sizes  \* the options, beside its own, under which selections are looked at

ASSUME SizesAssumption == Sizes \subseteq SizeOptions

\* The first n entries of an array, or all it has.
First(s, n) == SubSeq(s, 1, Min({n, Len(s)}))

\* A ranking of the ids; what a shuffle or a sort makes of an array.
Rankings == SetToSeqs(Peers)
Ranked(ids, ranking) == Those(ranking, ToSet(ids))

\* nidset_filter
NidsetFilter(size, src, desired) == First(Those(src, desired), size)

\* Fault: the last of as is not looked at.
NidsetComplementShort(size, bs, as) ==
  First(Those(bs, Peers \ ToSet(First(as, Len(as) - 1))), size)

\* nidset_complement: B \ A
NidsetComplement(size, bs, as) == First(Those(bs, Peers \ ToSet(as)), size)

\* nidset_add: all of as, then what bs has besides, as far as there is room.
NidsetAdd(size, as, bs) ==
  LET n == Min({Len(as), size})
  IN  First(as, n) \o (IF n < Len(as) THEN <<>> ELSE NidsetComplement(size - n, bs, as))

\* nidset_add_i: what as has besides is put behind dst.
NidsetAddI(dst, size, as) == dst \o NidsetComplement(size - Len(dst), as, dst)

\* max_ids: the peerset, savedids and the view; `unused' is the length of that one
\* of the first two which the old peers are not taken from.
MaxIds(old, unused, view) == Cardinality(old) + unused + Cardinality(view)

\* The selection of update_peers from the old peers in one order, with the desired
\* ones in a second and the others in a third.
Selecteds(o, oldids, newids, desired, ranking1, ranking2, max) ==
  LET kept       == First(oldids, Keep(o, Len(oldids)))
      nodeids    == NidsetAdd(max, oldids, newids)
      candidates == NidsetComplement(max, nodeids, kept)
      desireds   == Ranked(NidsetFilter(max, candidates, desired), ranking1)
      wanted     == First(desireds, DesiredPart(o, Len(kept)))
      joined     == NidsetAddI(kept, max, wanted)
      others     == Ranked(NidsetComplement(max, candidates, joined), ranking2)
      rest       == First(others, RestSize(o, Len(kept), Len(joined) - Len(kept), Len(others)))
  IN  NidsetAddI(joined, max, rest)

\* toadds and toremoves
ToAdds(selecteds, oldids, max) == NidsetComplement(max, selecteds, oldids)
ToRemoves(selecteds, oldids, max) == NidsetComplement(max, oldids, selecteds)

-----------------------------------------------------------------------------
\* What becomes of an old neighbourhood: who is selected, the length of that
\* array, who is added and who is removed.
Outcome(o, oldids, newids, desired, ranking1, ranking2, max) ==
  LET s == Selecteds(o, oldids, newids, desired, ranking1, ranking2, max)
  IN  <<ToSet(s), Len(s), ToSet(ToAdds(s, oldids, max)), ToSet(ToRemoves(s, oldids, max))>>

\* All that the arrays may make of an old neighbourhood and a gossip view.
Outcomes(o, old, unused, view) ==
  UNION {{Outcome(o, oldids, SetToSeq(view), desired, r1, r2, MaxIds(old, unused, view)) :
            oldids \in SetToSeqs(old), desired \in SUBSET (old \union view)} :
            r1 \in Rankings, r2 \in Rankings}

\* All that Topology allows, no peer twice.
Allowed(o, old, view) ==
  {<<sel, Cardinality(sel), sel \ old, ToRemove(old, sel)>> :
     sel \in {s \in SUBSET (old \union view) : MaySelect(o, old, view, s)}}

\* The lengths of that other list with which the arrays yield exactly these.
ExactWith ==
  {unused \in 0 .. Cardinality(Peers) - 1 :
     \A o \in Sizes \union {Own}, old, view \in SUBSET Peers :
       Outcomes(o, old, unused, view) = Allowed(o, old, view)}

(* Whatever the old peers, the gossip view, the shuffles, the sorts and the  *)
(* desired peers, the arrays yield exactly the selections of MaySelect, with *)
(* the peers to add and to remove: with the lists a peer may hold, none of   *)
(* the arrays is ever too short, and no peer is taken twice or forgotten     *)
(* between two of them (update_peers, nodeid_set.c).                         *)
SelectionIsExact ==
  \A p \in Peers : Cardinality(IF topo_out THEN saved[p] ELSE nbr[p]) \in ExactWith
=============================================================================
