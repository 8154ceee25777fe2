SPECIFICATION MCSpec
CONSTANTS
  None = None
  x1 = x1
  x2 = x2
  k1 = k1
  pay = pay
  other = other
  Slot <- TwoSlots
  Key <- OneKey
  Payload <- Payloads
  Cost <- OneAndTwo
  Funds = 2
  MaxDeaths = 1
  w1 = w1
  w2 = w2
  c1 = c1
  Worker = Worker
  NoRow = NoRow
  Withdrawal <- TwoWithdrawals
  Caller <- OneCaller
  Deposit = 4
  MaxAmount = 1
  FeeTenths <- OneFee
  DailyLimit = 2
  BatchLimit = 1
  MaxFaults = 1
  Faults <- LostOnly
  Nobody = Nobody
  Email = {e1}
  Sender = {d1, d2}
  EmailAttempts = 2
  MaxMishaps = 2
CHECK_DEADLOCK FALSE
INVARIANTS
  MovedOnce
  SuccessIsReal
  SentOnce
PROPERTIES
  LearnsOutcome
  PromiseKept
  DecidedIsSettled
  EverySettled
