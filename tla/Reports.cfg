\* Two users, one of them blocked, two settings handlers, one fault; fair scheduling.
SPECIFICATION FairSpec
CONSTANTS
  u1 = u1
  u2 = u2
  c1 = c1
  c2 = c2
  User = {u1, u2}
  Blocked = {u2}
  Worker = {c1, c2}
  Freq <- MCFreq
  Period <- MCPeriod
  Default = "daily"
  ReportTick = 1
  MaxClock = 5
  MaxEdits = 2
  MaxFaults = 1
INVARIANTS TypeOK NextFollowsLast
PROPERTIES ReportsSpaced DueServed
CHECK_DEADLOCK FALSE
