SPECIFICATION Spec
CONSTANTS
  Peers = {a, b, c}
  Target = 1
  TopoMem = 70
  AlphaTarget = 0
  Sizes <- ThreeRounds
  MaxInFlight = 3
SYMMETRY PeersSymmetry
INVARIANTS TypeOK ChosenWithinTarget InLinksAgree SelectionIsExact
PROPERTY SelectionDrains
