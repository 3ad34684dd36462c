SPECIFICATION Spec
CONSTANTS
  Peers = {a, b, c}
  Targets = {0, 1, 2, 3}
  Factor = 80
INVARIANTS TypeOK PickingFinishes
PROPERTIES ListGetsIn EveryAnswerIsUsed
