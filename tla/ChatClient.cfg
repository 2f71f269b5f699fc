SPECIFICATION Spec
CONSTANTS
  d1 = d1
  Draft = {d1}
  From = {"peer"}
  MaxLog = 2
  MaxLoads = 2
  MaxDrops = 1
INVARIANTS
  SpentIsKept
  ShownIsStored
CHECK_DEADLOCK FALSE
