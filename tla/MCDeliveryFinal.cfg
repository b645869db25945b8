CONSTANTS
  cod1 = cod1
  pre1 = pre1
  k1 = k1
  Shipments <- MCOneShipment
  CodShipments <- MCCodShipments
  CodAmount <- MCCodAmount
  Couriers = {k1}
  NoCourier = NoCourier
  AssignedTo <- MCAssignedTo
  Callers = {a1, a2}
  CollectedCash <- MCCollectedCash
  OnePound = 1
  Codes = {right, wrong}
  NoCode = NoCode
  OTP_MAX_ATTEMPTS = 1
  Depositors = {e1}
  DepositAmounts <- MCDepositAmounts
  MaxCalls = 5
SPECIFICATION Spec
CHECK_DEADLOCK FALSE
INVARIANT DeliveredIsFinal
