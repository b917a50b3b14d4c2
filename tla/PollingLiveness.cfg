\* Two wallets, of which w2 is on a chain without a provider,
\* fair scheduling, no database errors and no crashes.
SPECIFICATION FairSpec
CONSTANTS
  n1 = n1
  e1 = e1
  n2 = n2
  t1 = t1
  t2 = t2
  w1 = w1
  w2 = w2
  Wallet = {w1, w2}
  Unsupported = {w2}
  Flaky = {}
  Transfer = {}
  Erc20 = {}
  Hash <- MCHash
  Touches <- MCTouches
  Token = {}
  Window = 1
  Confirmations = 1
  ChunkSize = 1
  StartBlock = 1
  Target = 1
  MaxRanges = 1
  MaxClock = 2
  MaxBlocks = 2
  MaxReorgs = 0
  MaxFaults = 0
PROPERTIES EveryWalletPolled
CHECK_DEADLOCK FALSE
