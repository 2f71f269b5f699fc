SPECIFICATION MCSpec
CONSTANTS
  Owner = Owner
  alice = alice
  bob = bob
  carol = carol
  None = None
  Guest = {bob, carol}
  Away = {carol}
  Target = 1
  MaxEpoch = 3
  MaxApps = 1
  MaxPackages = 2
  MaxFaults = 1
  MaxConversations = 2
INVARIANTS
  WelcomeCanBeOpened
  ReadersAreOnRoster
  OneGroupOrBothUnaware
  VerifiedIsShared
PROPERTIES
  RatchetGoesForward
  TheAddedJoin
CHECK_DEADLOCK FALSE
