------------------------------ MODULE MCTopology ------------------------------
(* Topology on small sets of interchangeable peers, and its selections.      *)
EXTENDS TopologySelection

PeersSymmetry == Permutations(Peers)

\* Room for every stage of a selection: of three peers one is kept, one of the
\* desired ones and one of the others may join it.
ThreeRounds == {[target |-> 3, mem |-> 50, alpha |-> 40]}
=============================================================================
