SPECIFICATION PayoutsSpec
CONSTANTS
  w1 = w1
  w2 = w2
  c1 = c1
  c2 = c2
  Worker = Worker
  NoRow = NoRow
  Withdrawal <- OneWithdrawal
  Caller <- TwoCallers
  Deposit = 4
  MaxAmount = 1
  FeeTenths <- OneFee
  DailyLimit = 2
  BatchLimit = 2
  MaxFaults = 1
  Faults <- TornReply
CHECK_DEADLOCK FALSE
INVARIANTS
  RefundedIsNotSent
