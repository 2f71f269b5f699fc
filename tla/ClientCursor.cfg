SPECIFICATION Spec
CONSTANTS
  d1 = d1
  Draft = {}
  From = {"peer"}
  MaxLog = 2
  MaxLoads = 1
  MaxDrops = 0
INVARIANTS
  CursorIsHighest
CHECK_DEADLOCK FALSE
