CONSTANTS
  cod1 = cod1
  pre1 = pre1
  k1 = k1
  Shipments <- MCShipments
  CodShipments <- MCCodShipments
  CodAmount <- MCCodAmount
  Couriers = {k1}
  NoCourier = NoCourier
  AssignedTo <- MCAssignedTo
  Callers = {a1}
  CollectedCash <- MCCollectedCash
  OnePound = 1
  Codes = {right, wrong}
  NoCode = NoCode
  OTP_MAX_ATTEMPTS = 2
  Depositors = {d1}
  DepositAmounts <- MCDepositAmounts
  MaxCalls = 4
SPECIFICATION Spec
CHECK_DEADLOCK FALSE
INVARIANT CodCollectionsReconcile
