SPECIFICATION Spec
CONSTANTS
  Calls = {c1}
  Keys = {c1}
  KeyOf <- OneKeyPerCall
  Rule <- AskAll
  Workers = {}
  MaxTurns = 1
  MaxFaults = 1
  FreshIds = TRUE
INVARIANT StoredDenialWasGiven
CHECK_DEADLOCK FALSE
