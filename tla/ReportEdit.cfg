\* One settings edit against a dispatch run, no errors.
SPECIFICATION Spec
CONSTANTS
  u1 = u1
  u2 = u2
  c1 = c1
  c2 = c2
  User = {u1, u2}
  Blocked = {}
  Worker = {c1}
  Freq <- MCFreq
  Period <- MCPeriod
  Default = "daily"
  ReportTick = 1
  MaxClock = 5
  MaxEdits = 1
  MaxFaults = 0
INVARIANTS FrequencyHonoured
CHECK_DEADLOCK FALSE
