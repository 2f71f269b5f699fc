SPECIFICATION FairSpec
CONSTANTS
  alice = alice
  bob = bob
  a1 = a1
  b1 = b1
  User = {alice, bob}
  Socket = {a1, b1}
  UserOf <- MCUserOf
  Home = {a1}
  Movers = {}
  Subscribers = {b1}
  MaxConnections = 2
PROPERTIES
  SubAnswered
