CONSTANTS
  s1 = s1
  s2 = s2
  k1 = k1
  k2 = k2
  app1 = app1
  m1 = m1
  Shipments = {s1}
  CodShipments = {}
  CodAmount <- MCCodAmount
  Couriers = {k1, k2}
  NoCourier = NoCourier
  AssignedTo <- MCAssignedTo
  Callers = {app1}
  CollectedCash = {}
  OnePound = 1
  Codes = {}
  NoCode = NoCode
  OTP_MAX_ATTEMPTS = 3
  Depositors = {}
  DepositAmounts = {}
  MaxCalls = 1
  Dispatchers = {d1}
  Managers = {}
  CourierOf <- MCCourierOf
  MaxDailyCapacity <- MCMaxDailyCapacity
  Batches <- MCBatches
  UniqueShipment = TRUE
  MaxAssignments = 3
SPECIFICATION MCSpec
CHECK_DEADLOCK FALSE
INVARIANTS
  MovesAreInsertable
