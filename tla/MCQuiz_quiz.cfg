SPECIFICATION QuizSpec
CONSTANTS
  q1 = q1
  q2 = q2
  s1 = s1
  s2 = s2
  ana = ana
  bia = bia
  None = None
  QuizWorkers = {q1, q2}
  Stores = {s1, s2}
  Users = {ana, bia}
  Managers = {ana}
  Answering = {ana, bia}
  Rounds = {1}
  QuestionsPerRound = 1
  QuestionIds = {1, 2, 3}
  QuizMix = {"questions", "submit", "consolidate", "transfer"}
  InitialTeams <- Team
  InitialQuestions = {}
  InitialAnswers = {}
SYMMETRY WorkerSymmetry
INVARIANTS
  SameSheet
  ScoreWasTrue
  PosedStays
  FinishAnnounced
PROPERTIES
  OneAttempt
CHECK_DEADLOCK FALSE
