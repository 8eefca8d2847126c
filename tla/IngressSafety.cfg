SPECIFICATION IngressSafety
CONSTANTS
  s1 = s1
  s2 = s2
  h1 = h1
  h2 = h2
  b1 = b1
  b2 = b2
  a1 = a1
  a2 = a2
  Sessions = {s1, s2}
  HostIds = {h1, h2}
  TokenSessions <- MCTokenSessions
  NoSession = NoSession
  NoHost = NoHost
  Conns = {b1, b2}
  Attachers = {a1, a2}
  NoConn = NoConn
CHECK_DEADLOCK FALSE
SYMMETRY MCSymmetry
INVARIANTS
  TypeOK
  CurrentSession
  OneChannelPerBrowser
  NoOrphanBrowser
  HandedOffStaysOpen
  ListedIsPending
  OnlyOwnHostDrops
PROPERTIES
  LifecycleSpec
