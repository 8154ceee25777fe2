SPECIFICATION Spec
CONSTANTS
  Invoice = {i1, i2}
  Payment = {p1, p2}
  MaxAmount = 2
  MaxDay = 2
  Period = 1
  MaxCycles = 2
  None = None
SYMMETRY Interchangeable
INVARIANTS NoPaymentForgotten BilledOnce
PROPERTIES SentStands PausedTimeNotBilled
CHECK_DEADLOCK FALSE
