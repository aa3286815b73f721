SPECIFICATION PageSpec
CONSTANTS
  a = a
  b = b
  None = None
  Pages = {a, b}
  Managers = {a}
  Fields = {"stockPurchased", "priceMargin"}
  Values = {0, 1}
  Blank = 0
  Versions = {1, 2}
  MaxWrites = 2
INVARIANT ShowsThePlan
PROPERTIES
  NeighbourKept
  ConfirmationSticks
CHECK_DEADLOCK FALSE
