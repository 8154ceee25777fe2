SPECIFICATION LoansSpec
CONSTANTS
  Runner = {w1}
  Offers <- Five
  Period = 2
  GraceDays = 0
  DefaultAfter = 1
  LateFee = 1
  MinRepayment = 2
  MaxDay = 4
  None = None
PROPERTY DefaultedWhenOverdue
CHECK_DEADLOCK FALSE
