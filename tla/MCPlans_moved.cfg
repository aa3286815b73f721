SPECIFICATION PlansSpec
CONSTANTS
  p1 = p1
  p2 = p2
  q1 = q1
  s1 = s1
  s2 = s2
  ana = ana
  bia = bia
  caio = caio
  food = food
  freezer = freezer
  some = some
  none = none
  None = None
  QuizWorkers = {q1}
  Stores = {s1, s2}
  Users = {ana, bia, caio}
  Managers = {ana, bia}
  Answering = {ana}
  Rounds = {2}
  QuestionsPerRound = 1
  QuestionIds = {1}
  QuizMix = {"transfer"}
  InitialTeams <- Managed
  InitialQuestions <- Saved
  InitialAnswers <- Answered
  Planners = {p1}
  Versions = {1, 2}
  Categories = {food}
  Capex = {freezer}
  Staffings = {none, some}
  NoStaff = none
  MaxUnits = 2
  Stock <- OneUnit
  Sum <- SumOver
  InitialPlans <- Visited
  Calls <- Planning
PROPERTIES
  ConfirmedByEveryone
CHECK_DEADLOCK FALSE
