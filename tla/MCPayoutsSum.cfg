CONSTANTS
  d1 = d1
  d2 = d2
  RateScale = 4
  MaxRetries = 2
  MinPayoutAmount = 2
  Deliveries <- MCDeliveries
  Adjustments <- MCAdjustments
  CodAmount <- MCCodAmount
  AdjustmentAmount <- MCAdjustmentAmount
  FeeStructures <- MCNoFees
  PayoutAmounts <- MCPayoutAmounts
  PayoutIds = {1, 2}
  Sessions = {s1}
  Admins = {a1}
SPECIFICATION MCSpec
CHECK_DEADLOCK FALSE
INVARIANT SumOfTransactionsIsBalance
