SPECIFICATION Spec
CONSTANTS
  a = a
  b = b
  Ids = {a, b}
  Period <- Periods
  Cron = {b}
  None = None
  MaxClock = 3
  MaxFaults = 0
INVARIANT CancelledIsRemoved
