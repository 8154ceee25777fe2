SPECIFICATION MCSpec
CONSTANTS
  w1 = w1
  w2 = w2
  c1 = c1
  Worker = Worker
  NoRow = NoRow
  Withdrawal <- TwoWithdrawals
  Caller <- OneCaller
  Deposit = 3
  MaxAmount = 2
  FeeTenths <- TwoFees
  DailyLimit = 2
  BatchLimit = 2
  MaxFaults = 2
  Faults <- Everything
  p1 = p1
  p2 = p2
  a1 = a1
  a2 = a2
  t1 = t1
  x1 = x1
  x2 = x2
  None = None
  Payment <- TwoPayments
  Account <- TwoAccounts
  Token <- OneToken
  Slot <- TwoSlots
  CardLimit = 2
  MaxCardFaults = 1
CHECK_DEADLOCK FALSE
SYMMETRY AnyName
INVARIANTS
  BooksMatch
  WithinLimit
  CreditedOnce
  RefundedUnlessMisread
  CapturedIsKept
  CardFundsOpenAccount
PROPERTIES
  OutcomeIsFinal
