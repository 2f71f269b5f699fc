SPECIFICATION Spec
CONSTANTS
  alice = alice
  bob = bob
  x = x
  p = p
  q = q
  m = m
  n = n
  s1 = s1
  s2 = s2
  s3 = s3
  Blob = {x, p, q}
  Owner <- MCOwner
  Picture = {p, q}
  Message = {m, n}
  Sender <- MCSender
  Carries <- MCCarries
  Save = {s1, s2, s3}
  Saver <- MCSaver
  Nothing = Nothing
  Quota = 2
  MaxFaults = 1
INVARIANTS
  TypeOK
  QuotaOvershootBounded
  NoOrphanObject
  AttachmentStays
  PictureStays
PROPERTIES
  CollectorOrphansNothing
CHECK_DEADLOCK FALSE
CONSTRAINT Apart
SYMMETRY Symmetric
