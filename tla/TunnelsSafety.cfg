SPECIFICATION TunnelsSpec
CONSTANTS
  Sessions = {s1, s2}
  HostIds = {h1}
  TokenSessions = {}
  NoSession = NoSession
  NoHost = NoHost
  Clients = {c1, c2}
  NoClient = NoClient
  Tuns = {t1, t2}
  MaxFrames = 2
CHECK_DEADLOCK FALSE
SYMMETRY MCSymmetry
INVARIANTS
  TypeOK
  FramesFromOwnHost
  CloseToldOnce
  TunnelHasClient
