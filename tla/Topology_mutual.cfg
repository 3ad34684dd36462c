SPECIFICATION Spec
CONSTANTS
  Peers = {a, b, c}
  Target = 1
  TopoMem = 70
  AlphaTarget = 0
  Sizes = {}
  MaxInFlight = 4
SYMMETRY PeersSymmetry
INVARIANT LinksMutual
