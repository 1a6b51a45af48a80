SPECIFICATION FairSpec
CONSTANTS
  Calls = {c1, c2}
  Keys = {c1, c2}
  KeyOf <- OneKeyPerCall
  Rule <- AllowOne
  Workers = {w1}
  MaxTurns = 2
  MaxFaults = 2
  FreshIds = TRUE
PROPERTY EventuallyEnds
CHECK_DEADLOCK FALSE
