SPECIFICATION ServerSpec
CONSTANTS
  alice = alice
  bob = bob
  a1 = a1
  a2 = a2
  b1 = b1
  x = x
  p = p
  m = m
  User = {alice, bob}
  Socket = {a1, a2, b1}
  UserOf <- MCUserOf
  Home = {a1, b1}
  Movers = {a1}
  Subscribers = {b1}
  MaxConnections = 1
  Blob = {x, p}
  Picture = {p}
  Message = {m}
  Nothing = Nothing
  Quota = 2
  MaxFaults = 1
INVARIANTS
  RegistryIsSound
  OfflineOnlyAfterLeaving
PROPERTIES
  HeartbeatSparesTheLiving
  DeadLeave
  AbandonedReclaimed
CHECK_DEADLOCK FALSE
