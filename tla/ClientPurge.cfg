SPECIFICATION Spec
CONSTANTS
  d1 = d1
  Draft = {}
  From = {"peer"}
  MaxLog = 1
  MaxLoads = 1
  MaxDrops = 0
INVARIANTS
  PurgedStaysPurged
CHECK_DEADLOCK FALSE
