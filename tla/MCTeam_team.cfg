SPECIFICATION TeamFairSpec
CONSTANTS
  w1 = w1
  w2 = w2
  b1 = b1
  b2 = b2
  b3 = b3
  c1 = c1
  c2 = c2
  c3 = c3
  Workers = {w1, w2}
  Modes <- MCModes
  Hooked = TRUE
  Retain = TRUE
  MaxRuns = 2
  Readers = {r1, r2}
  Messages = 3
  Requests = {q1}
  TreeRuns = {r1, r2, r3}
  Root = r1
  NoLimit = NoLimit
  Limit <- MCLimit
  WarnAt <- MCWarnAt
  MaxCost = 1
  MaxTurns = 2
  Branches = {b1, b2, b3}
  Program <- MCProgram
  Outer <- MCOuter
  Fn = Fn
  Slots = 2
  Invocations = 2
  Ops = {o1, o2, o3}
  Cap = 2
  Commands = {c1, c2, c3}
  RunBy <- MCRunBy
INVARIANTS
  StoppedStaysSilent
  OneDriver
  MailOnceInOrder
  OvershootIsBounded
  JournaledCallsAreNotRerun
  ClosedForGood
  NothingOutlivesItsCall
PROPERTIES
  WorkflowReturns
  CallsReturn
CHECK_DEADLOCK FALSE
