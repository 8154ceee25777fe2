SPECIFICATION FairBrokerage
CONSTANTS
  w1 = w1
  w2 = w2
  u1 = u1
  Nothing = Nothing
  c1 = c1
  c2 = c2
  Connect <- Twice
  Chosen <- OneEach
  Wallet <- TwoWallets
  Owner <- OneUser
  Symbol = {s1}
  Worker = {r1, r2}
  Attempts = 1
  MaxTrades = 1
  MaxFaults = 1
CHECK_DEADLOCK FALSE
INVARIANTS NothingLeftBehind
PROPERTIES SyncsInOrder FinallyInStep
