SPECIFICATION FairPayouts
CONSTANTS
  w1 = w1
  w2 = w2
  c1 = c1
  c2 = c2
  Worker = Worker
  NoRow = NoRow
  Withdrawal <- TwoWithdrawals
  Caller <- OneCaller
  Deposit = 4
  MaxAmount = 1
  FeeTenths <- OneFee
  DailyLimit = 2
  BatchLimit = 1
  MaxFaults = 1
  Faults <- None
CHECK_DEADLOCK FALSE
PROPERTY
  WorkerReachesAll
