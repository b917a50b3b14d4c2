\* Both pollers on one wallet with one database fault or crash and
\* restart, deletion, and re-adding with token filters.
SPECIFICATION Spec
CONSTANTS
  n1 = n1
  e1 = e1
  n2 = n2
  t1 = t1
  t2 = t2
  w1 = w1
  w2 = w2
  Wallet = {w1}
  Unsupported = {}
  Flaky = {}
  Transfer = {n1, e1}
  Erc20 = {e1}
  Hash <- MCHash
  Touches <- MCTouches
  Token = {"MATIC", "USDC"}
  Window = 1
  Confirmations = 1
  ChunkSize = 1
  StartBlock = 1
  Target = 1
  MaxRanges = 2
  MaxClock = 2
  MaxBlocks = 2
  MaxReorgs = 0
  MaxFaults = 1
INVARIANTS TypeOK NativeOnce StoredIsFinal WindowStored LabelsOfAWallet
PROPERTIES ImplementsLedger
CHECK_DEADLOCK FALSE
