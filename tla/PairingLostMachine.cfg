SPECIFICATION PairingSpec
CONSTANTS
  m1 = m1
  m2 = m2
  k1 = k1
  k2 = k2
  k3 = k3
  k4 = k4
  c1 = c1
  cfg = cfg
  Ids = {m1, m2}
  Creds = {k1, k2, k3, k4}
  Cli = {c1}
  Relay = Relay
  ConfigCode = cfg
  NoCode = NoCode
  NoCred = NoCred
  NoReq = NoReq
  Absent = Absent
  Torn = Torn
  HasState = TRUE
  PairWhileUp = TRUE
CHECK_DEADLOCK FALSE
SYMMETRY MCSymmetry
INVARIANT PairedStaysPaired
