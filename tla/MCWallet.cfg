CONSTANTS
  d1 = d1
  d2 = d2
  up = up
  down = down
  RateScale = 4
  MaxRetries = 2
  Deliveries <- MCDeliveries
  Adjustments <- MCAdjustments
  CodAmount <- MCCodAmount
  AdjustmentAmount <- MCAdjustmentAmount
  FeeStructures <- MCFeeStructures
SPECIFICATION WalletFairSpec
CHECK_DEADLOCK FALSE
INVARIANTS
  WalletTypeOK
  VersionIdentifiesRow
  BalanceNeverNegative
  TotalsMatchStatement
  DriftIsRounding
PROPERTIES
  ImplementsLedger
  EveryHandlerSettles
