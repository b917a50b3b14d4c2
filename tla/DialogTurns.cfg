\* One update at a time: every order of answers and of buttons, old ones too.
SPECIFICATION Spec
CONSTANTS
  k1 = k1
  k2 = k2
  s1 = s1
  s2 = s2
  x = x
  y = y
  cancel = cancel
  blank = blank
  matic = matic
  btc = btc
  MATIC = MATIC
  BTC = BTC
  usdt = usdt
  Worker = {k1}
  SetupId = {s1}
  Text = {x, cancel, blank}
  Cancel = cancel
  Blank = blank
  Lower <- MCLower
  Csv <- MCCsv
  Chain = {matic, btc}
  Coin = {MATIC, BTC}
  BaseCoin <- MCBaseCoin
  Token = {usdt}
  Options <- MCOptions
  Plain = {btc}
  Unset = Unset
  MaxWallets = 1
INVARIANTS TypeOK CoinOfItsChain SavedOnce
