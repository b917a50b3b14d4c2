\* No error of any kind, no reorganisation, no crash, one wallet.
SPECIFICATION Spec
CONSTANTS
  n1 = n1
  e1 = e1
  n2 = n2
  t1 = t1
  t2 = t2
  w1 = w1
  w2 = w2
  Wallet = {w1}
  Unsupported = {}
  Flaky = {}
  Transfer = {n2}
  Erc20 = {}
  Hash <- MCHash
  Touches <- MCTouches
  Token = {}
  Window = 1
  Confirmations = 1
  ChunkSize = 1
  StartBlock = 1
  Target = 1
  MaxRanges = 2
  MaxClock = 3
  MaxBlocks = 3
  MaxReorgs = 0
  MaxFaults = 0
INVARIANTS NoTransferMissed
CHECK_DEADLOCK FALSE
