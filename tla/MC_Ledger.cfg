SPECIFICATION MCSpec
CONSTANTS
  k1 = k1
  k2 = k2
  k3 = k3
  ada = ada
  bola = bola
  usd = usd
  clearNGN = clearNGN
  clearUSD = clearUSD
  NoKey = NoKey
  NoTxn = NoTxn
  Currency <- HeldCurrency
  Key <- ThreeKeys
  Wallet <- Wallets
  System <- Clearings
  MaxAmount = 2
  Runner = {r1, r2}
  Offers <- Seven
  Period = 2
  GraceDays = 0
  DefaultAfter = 1
  LateFee = 1
  MinRepayment = 2
  MaxDay = 4
  None = None
SYMMETRY Interchangeable
CHECK_DEADLOCK FALSE
INVARIANTS
  DoubleEntry
  BalanceIsLedger
  BalancesAllowed
  ReversedOnce
  BalanceIsSchedule
PROPERTIES
  HistoryKept
  OwedAsAgreed
  CollectedAsAgreed
