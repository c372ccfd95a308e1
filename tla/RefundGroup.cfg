SPECIFICATION GroupFairSpec
CONSTANTS
  Users = {u1, u2}
  Others = {m1}
  Running = {m1}
  Master = m0
  Threshold = 2
  MaxPayments = 2
  MaxMessages = 2
  Amounts = {1, 2}
  PaymentLimit = 1
  OutputLimit = 1
  MaxFailures = 1
INVARIANTS OnePending ToldIsStored RefundsCovered
PROPERTIES RefundedUnlessHeld EventuallyAnswered
CHECK_DEADLOCK FALSE
