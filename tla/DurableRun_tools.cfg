SPECIFICATION Spec
CONSTANTS
  Calls = {c1, c2}
  Keys = {k1}
  KeyOf <- OneKey
  Rule <- AskAll
  Workers = {}
  MaxTurns = 2
  MaxFaults = 2
  FreshIds = TRUE
SYMMETRY CallSymmetry
INVARIANTS
  AtMostOnce
  RecordedResultIsReported
  CallsAnsweredOnce
  OneReplyPerTurn
PROPERTIES
  ApprovedThisTurn
  TerminalIsFinal
CHECK_DEADLOCK FALSE
