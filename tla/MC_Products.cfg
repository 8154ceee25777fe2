SPECIFICATION MCSpec
CONSTANTS
  shop = shop
  house = house
  car = car
  ngozi = ngozi
  tunde = tunde
  bank = bank
  k1 = k1
  k2 = k2
  x1 = x1
  x2 = x2
  d1 = d1
  d2 = d2
  rk1 = rk1
  rk2 = rk2
  Key <- Keys
  Wallet <- Wallets
  System <- OneBank
  Currency <- OneCurrency
  MaxAmount = 6
  GoalKey <- GoalKeys
  Asked <- OneOrTwo
  Rate <- OneOrTwo
  NoKey = NoKey
  NoTxn = NoTxn
  Goal <- TwoGoals
  Current <- Shop
  MaxActiveGoals = 1
  NotClosing = NotClosing
  Payee <- Payees
  Attempt <- Attempts
  RunKey <- RunKeys
  Body <- Bodies
  AtRate = AtRate
  OtherKey <- OtherKeys
  MaxPayees = 2
  MaxEdits = 1
  NoRun = NoRun
CHECK_DEADLOCK FALSE
SYMMETRY AnyName
INVARIANTS SavingsComeBack RunIsWhole
