SPECIFICATION Spec
CONSTANTS
  Calls = {c1}
  Keys = {c1}
  KeyOf <- OneKeyPerCall
  Rule <- AskAll
  Workers = {w1}
  MaxTurns = 2
  MaxFaults = 2
  FreshIds = TRUE
INVARIANT CallsAnsweredOnce
CHECK_DEADLOCK FALSE
