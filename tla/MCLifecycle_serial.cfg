\* One request at a time, every operation, the whole game, half-second clock.
CONSTANTS
  w1 = w1
  w2 = w2
  ana = ana
  None = None
  Missing = Missing
  Workers = {w1}
  Users = {ana}
  Mix = {"advance", "start", "pause", "stop", "edit", "finish"}
  InitialStatus = "SETUP"
  InitialDuration = 1
  Durations = {1, 2}
  TicksPerSecond = 2
  MaxNow = 4
SPECIFICATION Spec
INVARIANTS
  TypeOK
  
  
PROPERTIES
  NoTimeGivenBack
CHECK_DEADLOCK FALSE
