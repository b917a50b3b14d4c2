\* Chains of nine blocks with one gap in their times; three chunks of at most
\* three blocks forward, two back; two Bitcoin transactions, one
\* reorganisation, one error.
SPECIFICATION ProvidersSpec
CONSTANTS
  StartBlock = 1
  MaxLatest = 8
  MaxTime = 9
  Chains <- MCChains
  Confirmations = 1
  ChunkSize = 3
  Target = 2
  MaxRanges = 2
  MaxNulls = 1
  MaxLogs = 1
  Tx <- MCTx
  Paid <- MCPaid
  Spent <- MCSpent
  PageSize = 1
  Period = 2
  Skew = 1
  LastInstant = 8
  MaxTxReorgs = 1
  MaxErrors = 1
INVARIANTS SearchRight WindowRead IndexedIsRead BootstrapContiguous OnlyMinedStored BtcStoredOnce MissedForAReason
PROPERTIES ImplementsChoice CallsRunOut FetchEnds
CHECK_DEADLOCK FALSE
