\* Two updates of the chat handled at the same time. Blank stands for every text.
SPECIFICATION Spec
CONSTANTS
  k1 = k1
  k2 = k2
  s1 = s1
  s2 = s2
  x = x
  y = y
  cancel = cancel
  blank = blank
  matic = matic
  btc = btc
  MATIC = MATIC
  BTC = BTC
  usdt = usdt
  Worker = {k1, k2}
  SetupId = {s1, s2}
  Text = {cancel, blank}
  Cancel = cancel
  Blank = blank
  Lower <- MCLower
  Csv <- MCCsv
  Chain = {matic}
  Coin = {MATIC}
  BaseCoin <- MCBaseCoin
  Token = {}
  Options <- MCOptions
  Plain = {}
  Unset = Unset
  MaxWallets = 1
INVARIANTS FieldsInOrder
SYMMETRY Symmetry
