CONSTANTS
  NoTenant = NoTenant
  People = {u1}
  Devices = {d1, d2}
  RefreshTtl = 2
  MaxTime = 3
  Verifiers = {v1, v2}
  MAX_ATTEMPTS = 3
  MaxSent = 2
  Agents = {1, 2}
  Owners = {2}
  Tabs = {1, 2, 3}
  AgentOf <- MCAgentOf
  Clients = {c1, c2}
  CancelledClients = {c2}
  MaxSessions = 3
  Tenants = {t1, t2}
SPECIFICATION MCSpec
CHECK_DEADLOCK FALSE
INVARIANTS
  ExchangesBounded
  PhoneGuessesBounded
  ActiveSessionsBounded
  RoutesInScope
