SPECIFICATION FairSpec
CONSTANTS
  alice = alice
  bob = bob
  x = x
  p = p
  q = q
  m = m
  n = n
  s1 = s1
  s2 = s2
  s3 = s3
  Blob = {x}
  Owner <- MCOwner
  Picture = {}
  Message = {m}
  Sender <- MCSender
  Carries <- MCCarries
  Save = {}
  Saver <- MCSaver
  Nothing = Nothing
  Quota = 2
  MaxFaults = 0
PROPERTIES
  DeletedReclaimed
CHECK_DEADLOCK FALSE
