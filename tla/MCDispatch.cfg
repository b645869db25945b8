CONSTANTS
  s1 = s1
  s2 = s2
  k1 = k1
  k2 = k2
  app1 = app1
  m1 = m1
  Shipments = {s1, s2}
  CodShipments = {s1}
  CodAmount <- MCCodAmount
  Couriers = {k1, k2}
  NoCourier = NoCourier
  AssignedTo <- MCAssignedTo
  Callers = {app1, m1}
  CollectedCash = {40}
  OnePound = 1
  Codes = {right}
  NoCode = NoCode
  OTP_MAX_ATTEMPTS = 1
  Depositors = {}
  DepositAmounts = {}
  MaxCalls = 5
  Dispatchers = {d1}
  Managers = {m1}
  CourierOf <- MCCourierOf
  MaxDailyCapacity <- MCMaxDailyCapacity
  Batches <- MCBatches
  UniqueShipment = FALSE
  MaxAssignments = 3
SPECIFICATION MCSpec
CHECK_DEADLOCK FALSE
INVARIANTS
  CapacityRespected
  OneActiveAssignment
  CourierFollowsAssignment
  CompletedMeansDone
PROPERTIES
  SyncUndoesNothingSeen
