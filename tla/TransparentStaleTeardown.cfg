SPECIFICATION TransparentSafety
CONSTANTS
  s1 = s1
  s2 = s2
  h1 = h1
  b1 = b1
  a1 = a1
  Sessions = {s1, s2}
  HostIds = {h1}
  TokenSessions = {s1}
  NoSession = NoSession
  NoHost = NoHost
  Conns = {b1}
  Attachers = {a1}
  NoConn = NoConn
CHECK_DEADLOCK FALSE
PROPERTY AttachAcked
