\* One timer request at a time, a page that reloads and loses its connection.
CONSTANTS
  w1 = w1
  w2 = w2
  ana = ana
  None = None
  Missing = Missing
  Workers = {w1}
  Users = {ana}
  Mix = {"start", "pause", "stop"}
  InitialStatus = "ROUND_1"
  InitialDuration = 1
  Durations = {1}
  TicksPerSecond = 1
  MaxNow = 2
  ClientMix = {"reload", "drop"}
  MaxWire = 2
SPECIFICATION TFairSpec
INVARIANTS
  SyncedWhenQuiet
  ShownWasTrue
PROPERTIES
  FreezesOnClients
CHECK_DEADLOCK FALSE
