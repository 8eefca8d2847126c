SPECIFICATION MCSpec
CONSTANTS
  s1 = s1
  s2 = s2
  r1 = r1
  w1 = w1
  Hosts = {s1, s2}
  NoHost = NoHost
  Http = {r1}
  Wss = {w1}
  MaxUp <- MCMax
  MaxDown <- MCMax
  Empty = {2}
CHECK_DEADLOCK FALSE
INVARIANTS
  TypeOK
  LatestAttached
  ConnsOfLatest
  ResponseFaithful
  RequestWhole
  EntryHasHandler
  MessagesInOrder
PROPERTIES
  RequestResolved
  TunnelEndsTogether
