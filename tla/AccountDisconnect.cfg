SPECIFICATION AccountSpec
CONSTANTS
  Listener = {"lea"}
  Track = {"song"}
  Typed = {"busy"}
  Pass = {p1, p2}
  MaxEdits = 1
  MaxRows = 1
  MaxTokens = 2
  MaxErrors = 1
  t1 = t1
  t2 = t2
  p1 = p1
  p2 = p2
  Tab = {t1, t2}
  Passphrase = {"p"}
  Chat = {"dm"}
  MaxItems = 2
  MaxMade = 2
  olga = olga
  otto = otto
  ann = ann
  uma = uma
  s1 = s1
  s2 = s2
  None = None
  Person = {olga, otto, ann, uma}
  AdminEmail = olga
  Custom = {"custom"}
  Assigned = {"owner", "user", "custom"}
  Granted = {"roles:manage"}
  RoleSets <- MCRoleSets
  Flag = {"chat"}
  Start <- MCStart
  StartRoles <- MCStartRoles
  Slot = {s1, s2}
  MaxRequests = 2
  MaxFaults = 1
PROPERTIES
  DisconnectClears
CHECK_DEADLOCK FALSE
