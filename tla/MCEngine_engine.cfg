SPECIFICATION EngineSpec
CONSTANTS
  w1 = w1
  w2 = w2
  s1 = s1
  s2 = s2
  food = food
  None = None
  Stores = {s1, s2}
  Categories = {food}
  Perishable = {food}
  UnitCost <- One
  OnOffer <- Three
  Capex = {"AUTOMATION"}
  Downtime <- Days
  SlaRisk <- Risks
  Runners = {w1}
  Runs = {1, 2, 3}
  MaxCalls = 3
  MaxFails = 1
  EventTypes = {"POWER_OUTAGE"}
  Luck <- Lucks
  Options <- Few
  Desks <- OneDesk
  InitialPlans <- Late
  InitialQuiz <- Answered
  Scores = {50}
  InitialCash = 3
  CapexCost <- Costs
INVARIANTS
  DemandShared
  LossesAddUp
PROPERTY SettledRoundsReproduce
CHECK_DEADLOCK FALSE
