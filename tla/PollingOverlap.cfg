\* Both pollers on one wallet while the chain reorganises and the wallet is
\* deleted or added again, with RPC errors. Database and process hold.
SPECIFICATION Spec
CONSTANTS
  n1 = n1
  e1 = e1
  n2 = n2
  t1 = t1
  t2 = t2
  w1 = w1
  w2 = w2
  Wallet = {w1}
  Unsupported = {}
  Flaky = {w1}
  Transfer = {n1, e1}
  Erc20 = {e1}
  Hash <- MCHash
  Touches <- MCTouches
  Token = {}
  Window = 1
  Confirmations = 1
  ChunkSize = 1
  StartBlock = 1
  Target = 1
  MaxRanges = 2
  MaxClock = 2
  MaxBlocks = 3
  MaxReorgs = 1
  MaxFaults = 0
INVARIANTS StoredIsFinal IndexedIsFinal WindowStored
CHECK_DEADLOCK FALSE
