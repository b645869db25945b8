------------------------------- MODULE Routes -------------------------------
(* The routes, controller by controller, each with what its decorators ask.   *)
(* A route is named after its handler; the swagger decorators and the passing  *)
(* on of parameters to the service are left out.                             *)
EXTENDS Guards

VARIABLE visit   \* a request at the guards: a route and who is asking, or none

routesVars == <<visit>>

Public(names) == {[Route EXCEPT !.name = n, !.public = TRUE] : n \in names}

(* Behind a token, without @Roles and without a tenant. *)
SignedIn(names) == {[Route EXCEPT !.name = n] : n \in names}

(* Tenant data, through @EffectiveTenantId. *)
OfTenant(names) == {[Route EXCEPT !.name = n, !.ofTenant = TRUE] : n \in names}

For(roles, routes) == {[r EXCEPT !.roles = roles] : r \in routes}

Platform(names) == {[Route EXCEPT !.name = n, !.platform = TRUE] : n \in names}
All(permissions, routes) == {[r EXCEPT !.all = permissions] : r \in routes}
Any(permissions, routes) == {[r EXCEPT !.any = permissions] : r \in routes}
Dangerous(routes) == {[r EXCEPT !.dangerous = TRUE] : r \in routes}

Managers == {"SUPER_ADMIN", "OPERATIONS_MANAGER"}
Accountants == {"SUPER_ADMIN", "FINANCE_ADMIN"}
Office == Managers \cup Accountants

----------------------------------------------------------------------------
AppController == Public({"hello", "health"})

AuthController ==
  Public({"register", "login", "refresh", "otp/send", "otp/verify"})
    \cup SignedIn({"logout", "me"})

UsersController ==
  For(Managers, OfTenant({"users.findAll"}))
    \cup OfTenant({"users.findById", "users.update"})
    \cup For({"SUPER_ADMIN"}, OfTenant({"users.remove"}))

ShipmentsController ==
  For(Managers \cup {"MERCHANT"}, OfTenant({"shipments.create"}))
    \cup For({"MERCHANT"}, OfTenant({"shipments.bulkUpload"}))
    \cup OfTenant({"shipments.findAll", "shipments.findAllCursor", "shipments.findById",
                   "shipments.getTimeline"})
    \cup Public({"shipments.findByTrackingNumber"})

UpdateStatusRoute ==
  For({"COURIER", "OPERATIONS_MANAGER"}, OfTenant({"shipments.updateStatus"}))

(* The handler also compares the caller's own tenant with the effective one.   *)
AdminShipmentBulkUploadController == For(Managers, OfTenant({"admin.bulkUpload"}))

AdminController ==
  For(Office, OfTenant({"getDashboard", "getFinancialSummary", "generateDailyReport",
                        "generateCourierPerformanceReport", "generateMerchantDeliveryReport"}))

AuditLogsController == For(Office, OfTenant({"auditLogs.findAll"}))

AssignmentsController ==
  For(Managers, OfTenant({"assignments.create", "assignments.reassign", "assignments.cancel"}))
    \cup OfTenant({"assignments.findAll", "assignments.findById"})

CourierAppController ==
  For({"COURIER"}, OfTenant({"getTasks", "getTaskById", "updateTaskStatus", "logDeposit",
                             "getPerformance", "syncUpdates"}))

CouriersController ==
  For(Managers, OfTenant({"couriers.create", "couriers.findAll", "couriers.updateZones"}))
    \cup OfTenant({"couriers.findById", "couriers.updateAvailability"})

MerchantsController ==
  For(Managers, OfTenant({"merchants.create", "merchants.updateKyc"}))
    \cup OfTenant({"merchants.findAll", "merchants.findById"})
    \cup For(Accountants, OfTenant({"merchants.updateFees"}))
    \cup For(Accountants \cup {"MERCHANT"},
             OfTenant({"merchants.getWallet", "merchants.getWalletTransactions"}))

MerchantDashboardController ==
  For(Managers \cup {"MERCHANT"}, OfTenant({"merchant.getDashboard", "merchant.getAnalytics"}))

PayoutsController ==
  For(Accountants \cup {"MERCHANT"}, OfTenant({"payouts.findAll"}))
    \cup For({"MERCHANT"}, OfTenant({"payouts.create"}))
    \cup For(Accountants, OfTenant({"payouts.approve", "payouts.complete", "payouts.reject"}))

WalletsController ==
  For(Accountants, OfTenant({"wallets.findById", "wallets.getTransactions"}))

(* Zones belong to no tenant. *)
ZonesController ==
  For(Managers, SignedIn({"zones.create", "zones.update", "zones.remove"}))
    \cup SignedIn({"zones.findAll", "zones.findById", "zones.findChildren"})

----------------------------------------------------------------------------
PublicPlansController == Public({"publicPlans.findAll"})

PublicOnboardingController == Public({"subscribe", "requestDemo"})

PlatformAnalyticsController ==
  All({"view_platform_analytics"}, Platform({"overview", "usage", "shipments"}))
    \cup Any({"view_platform_analytics", "view_billing"}, Platform({"revenue"}))

PlatformAuditLogsController ==
  All({"view_audit_logs"}, Platform({"platformAuditLogs.findAll"}))

PlatformBillingController ==
  All({"view_billing"},
      Platform({"billing.overview", "findInvoices", "tenantBilling", "exportInvoices"})
        \cup Dangerous(Platform({"createInvoice", "updateInvoice"})))

DemoRequestsController ==
  All({"view_demo_requests"}, Platform({"listDemoRequests", "getDemoRequest"}))
    \cup All({"manage_demo_requests"}, Platform({"updateDemoRequest"}))

PlatformFeatureFlagsController ==
  Any({"manage_feature_flags", "view_platform_analytics"}, Platform({"findAllGlobal"}))
    \cup Any({"manage_feature_flags", "manage_tenants"}, Platform({"findTenantFlags"}))
    \cup All({"manage_feature_flags"}, Dangerous(Platform({"updateGlobal", "updateTenantFlag"})))

PlatformPlansController ==
  Any({"manage_plans", "manage_subscriptions", "view_platform_analytics"},
      Platform({"plans.findAll", "plans.findById"}))
    \cup All({"manage_plans"}, Dangerous(Platform({"plans.create", "plans.update", "plans.remove"})))

SubscriptionsReadRoutes ==
  Any({"manage_subscriptions", "view_billing", "view_platform_analytics"},
      Platform({"subscriptions.findAll", "subscriptions.findById"}))

SubscriptionsWriteRoutes ==
  All({"manage_subscriptions"},
      Dangerous(Platform({"subscriptions.create", "subscriptions.update",
                          "subscriptions.changePlan", "subscriptions.cancel",
                          "subscriptions.renew"})))

PlatformSupportController ==
  Any({"impersonate_tenant_admin", "manage_tenants"}, Platform({"searchTenants"}))
    \cup Any({"impersonate_tenant_admin", "manage_tenants", "view_platform_analytics"},
             Platform({"tenantHealth"}))
    \cup All({"impersonate_tenant_admin"}, Platform({"startImpersonation", "endImpersonation"}))

TenantsCreationRoutes ==
  All({"manage_tenants", "manage_feature_flags"}, Dangerous(Platform({"cloneConfiguration"})))
    \cup All({"manage_tenants", "manage_subscriptions"}, Dangerous(Platform({"onboard"})))

TenantsRoutes ==
  All({"manage_tenants"}, Platform({"tenants.create", "tenants.findAll", "tenants.findById",
                                    "tenants.update"}))
    \cup All({"suspend_tenants"}, Dangerous(Platform({"changeStatus"})))

PlatformRoutes ==
  UNION {PlatformAnalyticsController, PlatformAuditLogsController, PlatformBillingController,
         DemoRequestsController, PlatformFeatureFlagsController, PlatformPlansController,
         SubscriptionsReadRoutes, SubscriptionsWriteRoutes, PlatformSupportController,
         TenantsCreationRoutes, TenantsRoutes}

AllRoutes ==
  UNION {AppController, AuthController, UsersController, ShipmentsController,
         UpdateStatusRoute, AdminShipmentBulkUploadController, AdminController,
         AuditLogsController, AssignmentsController, CourierAppController,
         CouriersController, MerchantsController, MerchantDashboardController,
         PayoutsController, WalletsController, ZonesController,
         PublicPlansController, PublicOnboardingController, PlatformRoutes}

----------------------------------------------------------------------------
(* The tenant whose rows the handler goes on to read and write.              *)
ScopeOf(route, user) ==
  IF route.ofTenant THEN EffectiveTenant(OnRequest(route, user)) ELSE NoTenant

(* Whoever is served stays in scope: a tenant's user in its own tenant, a      *)
(* platform user out of every tenant unless impersonating, and one who does    *)
(* impersonate, with the target's role, out of everything of the platform's.   *)
(* On the platform's side nobody is served without a permission that is asked. *)
InScope(route, user) ==
  Served(route, user) =>
    /\ route.ofTenant => ScopeOf(route, user) = user.tenant /\ user.tenant \in Tenants
    /\ route.ofTenant => user.role \notin PLATFORM_ROLES
    /\ route \in PlatformRoutes =>
         /\ user.role \in PLATFORM_ROLES /\ ~user.impersonating
         /\ (route.all \cup route.any) \cap Permitted(user) # {}
    /\ route \in PlatformBillingController => "view_billing" \in Permitted(user)

(* No combination of decorators closes a route to everybody.                  *)
Reachable(route) == \E user \in Identities : Served(route, user)

----------------------------------------------------------------------------
NoVisit == << >>

RoutesInit == visit = NoVisit

Knocks == visit = NoVisit /\ \E r \in AllRoutes, u \in Identities : visit' = <<r, u>>

Leaves == visit # NoVisit /\ visit' = NoVisit

RoutesNext == Knocks \/ Leaves

RoutesSpec == RoutesInit /\ [][RoutesNext]_routesVars

(* No request the guards let through leaves the scope of whoever made it, and  *)
(* every route is open to somebody.                                         *)
RoutesInScope ==
  visit # NoVisit => InScope(visit[1], visit[2]) /\ Reachable(visit[1])

=============================================================================
