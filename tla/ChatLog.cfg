SPECIFICATION FairSpec
CONSTANTS
  alice = alice
  bob = bob
  a1 = a1
  a2 = a2
  b1 = b1
  User = {alice, bob}
  Owner = alice
  Socket = {a1, b1}
  UserOf <- MCUserOf
  NoSocket = NoSocket
  SendReq = {s1, s2}
  DelReq = {d1}
INVARIANTS
  TypeOK
  SeqsContiguous
  FramesMatchLog
  RelayOnlyToWitnesses
  MessageBeforeDeleted
  DeletedByAuthor
  DeletedNoticeIsTrue
PROPERTIES
  OrderedSpec
  EverySendAnswered
