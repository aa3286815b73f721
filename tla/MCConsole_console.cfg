SPECIFICATION ConsoleSpec
CONSTANTS
  r1 = r1
  r2 = r2
  f1 = f1
  f2 = f2
  s1 = s1
  s2 = s2
  None = None
  Stores = {s1, s2}
  MaxStores = 2
  Versions = {1, 2}
  Requests = {r1, r2}
  Fetches = {f1, f2}
SYMMETRY ConsoleSymmetry
CONSTRAINT Followed
PROPERTIES
  ButtonsKeepTheirWord
  RoundOneConfirmed
CHECK_DEADLOCK FALSE
