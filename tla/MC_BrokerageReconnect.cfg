SPECIFICATION BrokerageSpec
CONSTANTS
  w1 = w1
  w2 = w2
  u1 = u1
  Nothing = Nothing
  c1 = c1
  c2 = c2
  Connect <- Twice
  Chosen <- OneEach
  Wallet <- TwoWallets
  Owner <- OneUser
  Symbol = {s1}
  Worker = {r1, r2}
  Attempts = 2
  MaxTrades = 0
  MaxFaults = 0
CHECK_DEADLOCK FALSE
PROPERTIES OnlyRefusedExpires
