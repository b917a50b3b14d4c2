\* Schedules that begin on any day of two years, up to two days late; two
\* rows of a wallet or of one of another user, over five instants and periods
\* of one and two, with an edit, a failure or a restart; pages of two users
\* with up to six.
SPECIFICATION ReadSpec
CONSTANTS
  MonthDays <- MCMonthDays
  FirstMonth = 13
  LastMonth = 36
  MaxReports = 13
  MaxLate = 2
  Wallet = {w1, w2}
  Own = {w1}
  Kind = {in, out}
  NoKind = none
  Amount = {0, 1}
  Periods = {1, 2}
  LastTick = 4
  MaxRows = 2
  MaxUpsets = 1
  UsersPerPage = 2
  MaxUsers = 6
INVARIANTS GapOnce GapOfLateness ReportsAddUp ButtonsLead WalkSeesAll
CHECK_DEADLOCK FALSE
