SPECIFICATION LinkSpec
CONSTANTS
  dot = dot
  p1 = p1
  p2 = p2
  u1 = u1
  u2 = u2
  c1 = c1
  c2 = c2
  None = None
  Users = {u1, u2}
  Slots = {c1, c2}
  MaxIssued = 3
  Dots = {dot}
  Pages = {p1, p2}
  MaxMade = 3
SYMMETRY Symmetry
INVARIANTS
  TokenFollowsUser
  LineIsHeld
  HeardWhileSteady
CHECK_DEADLOCK FALSE
