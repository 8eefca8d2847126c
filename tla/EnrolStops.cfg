SPECIFICATION EnrolSpec
CONSTANTS
  m1 = m1
  m2 = m2
  k1 = k1
  k2 = k2
  k3 = k3
  c1 = c1
  cfg = cfg
  s1 = s1
  s2 = s2
  Ids = {m1}
  Creds = {k1, k2, k3}
  Cli = {c1}
  Relay = Relay
  ConfigCode = cfg
  NoCode = NoCode
  NoCred = NoCred
  NoReq = NoReq
  Absent = Absent
  Torn = Torn
  HasState = TRUE
  PairWhileUp = FALSE
  Svcs = {s1}
  MachineId = NoId
  NoId = NoId
  NoSvc = NoSvc
  MaxFaults = 1
CHECK_DEADLOCK FALSE
PROPERTY EndsWhenCancelled
