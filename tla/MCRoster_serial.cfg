SPECIFICATION Spec
CONSTANTS
  w1 = w1
  w2 = w2
  s1 = s1
  s2 = s2
  s3 = s3
  m1 = m1
  m2 = m2
  ana = ana
  bia = bia
  caio = caio
  mgr = mgr
  sup = sup
  com = com
  None = None
  Manager = mgr
  RowIds = {1, 2, 3, 4, 5, 6, 7, 8, 9, 10, 11, 12}
  Workers = {w1}
  Stores = {s1, s2, s3}
  Users = {ana, bia, m1, m2}
  Roles = {mgr, sup}
  MaxStores = 2
  Mix = {"join", "transfer", "swap", "advance", "create", "remove", "round"}
  InitialStatus = "ROUND_1"
  InitialStores = {s1, s2}
  InitialMembers <- Pair
INVARIANTS
  OutboundWithinQuota
  StoresOverrunBounded
PROPERTIES
  DepartureTruthful
  GateHolds
CHECK_DEADLOCK FALSE
