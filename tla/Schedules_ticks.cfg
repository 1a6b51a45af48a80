SPECIFICATION FairSpec
CONSTANTS
  a = a
  b = b
  Ids = {a, b}
  Period <- Periods
  Cron = {b}
  None = None
  MaxClock = 4
  MaxFaults = 1
INVARIANT FiringsAreSpaced
PROPERTIES GoneStaysGone DueIsServed
