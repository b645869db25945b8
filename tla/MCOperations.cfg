CONSTANTS
  Plans = {p1, p2}
  SettledPlans = {p1}
  NoPlan = NoPlan
  Tenants = {t1}
  NoTenant = NoTenant
  Staff = {a1, a2}
  WorksOn <- MCWorksOn
  Visitors = {v1}
  ChosenStatuses = {"TRIALING"}
  ChosenTenantStatuses = {"CANCELLED"}
  MaxSubscriptions = 3
  Blank = Blank
  NotANumber = NotANumber
  Numbers = {n1, n2, n3}
  Sellers = {s1}
  Zones = {"z1"}
  Uploaders = {a1, a2}
  Clerks = {cl1}
  Files <- MCFiles
  BatchSize = 2
  Shops = {m1, m2}
  Riders = {r1}
  Areas = {z1, z2}
  NoArea = NoArea
  Admins = {a1, a2}
  Flags = {k1}
  Tiers = {p1, p2}
  NoTier = NoTier
  Members = {t1, t2}
  Demos = {d1}
  Invoices = {i1, i2}
  Accountants = {a1, a2}
  PaidStates = {"PENDING", "PAID", "PAST_DUE"}
  MaxEntries = 3
  Ids = {i1, i2}
  MaxWrites = 2
SPECIFICATION MCSpec
CHECK_DEADLOCK FALSE
SYMMETRY MCSymmetry
INVARIANTS
  SubscriptionsTypeOK
  CurrentPlanIsSubscribed
  LiveSubscriptionsBounded
  UploadsAreWhole
  RemovalStopsUploads
  ApprovedHasWallet
  TrailTellsHistory
  FiguresAddUp
PROPERTY PlansShieldFromDefaults
