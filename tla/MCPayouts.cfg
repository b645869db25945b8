CONSTANTS
  d1 = d1
  d2 = d2
  RateScale = 4
  MaxRetries = 2
  MinPayoutAmount = 2
  Deliveries <- MCDeliveries
  Adjustments <- MCAdjustments
  CodAmount <- MCCodAmount
  AdjustmentAmount <- MCAdjustmentAmount
  FeeStructures <- MCFeeStructures
  PayoutAmounts <- MCPayoutAmounts
  PayoutIds = {1, 2, 3}
  Sessions = {s1, s2}
  Admins = {a1, a2}
SPECIFICATION MCSpec
SYMMETRY MCSymmetry
CHECK_DEADLOCK FALSE
INVARIANTS
  BalanceNeverNegative
  OpenPayoutsBounded
  GivenBackOnce
  NoMoneyFromRaces
PROPERTIES
  FollowsWorkflow
  OptimisticWritesBuildOnBalance
