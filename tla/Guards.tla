------------------------------- MODULE Guards -------------------------------
(* Who is let through to what: the global guards (JwtAuthGuard, RolesGuard,    *)
(* PermissionsGuard, DangerousActionGuard), PlatformOnlyGuard on the platform   *)
(* controllers, and resolveEffectiveTenantId for tenant data.                 *)
EXTENDS FiniteSets

CONSTANTS Tenants, NoTenant

ASSUME GuardsAssumption == NoTenant \notin Tenants

PLATFORM_ROLES ==
  {"PLATFORM_OWNER", "PLATFORM_ADMIN", "PLATFORM_SUPPORT", "PLATFORM_FINANCE"}
TENANT_ROLES ==
  {"SUPER_ADMIN", "OPERATIONS_MANAGER", "FINANCE_ADMIN", "MERCHANT", "COURIER"}
UserRoles == PLATFORM_ROLES \cup TENANT_ROLES
Everybody == UserRoles \cup {"nobody"}

PLATFORM_PERMISSIONS ==
  {"manage_tenants", "manage_plans", "manage_subscriptions", "view_platform_analytics",
   "manage_feature_flags", "view_audit_logs", "impersonate_tenant_admin", "view_billing",
   "suspend_tenants", "view_demo_requests", "manage_demo_requests"}

ROLE_PERMISSIONS(role) ==
  CASE role = "PLATFORM_OWNER"   -> PLATFORM_PERMISSIONS
    [] role = "PLATFORM_ADMIN"   -> PLATFORM_PERMISSIONS \ {"impersonate_tenant_admin"}
    [] role = "PLATFORM_SUPPORT" -> {"view_platform_analytics", "view_audit_logs",
                                     "impersonate_tenant_admin"}
    [] role = "PLATFORM_FINANCE" -> {"view_billing", "view_platform_analytics",
                                     "view_audit_logs"}
    [] OTHER                     -> {}

----------------------------------------------------------------------------
(* What JwtStrategy.validate puts on the request.  Under impersonation the     *)
(* role and the tenant are the target user's, which validate has compared with *)
(* the session's; a target is found among the users of the session's tenant.   *)
Anonymous == [role |-> "nobody", tenant |-> NoTenant, impersonating |-> FALSE]

Identities ==
  {Anonymous}
    \cup [role : PLATFORM_ROLES, tenant : {NoTenant}, impersonating : {FALSE}]
    \cup [role : TENANT_ROLES, tenant : Tenants, impersonating : BOOLEAN]
    \cup [role : TENANT_ROLES, tenant : {NoTenant}, impersonating : {FALSE}]

Permitted(user) == ROLE_PERMISSIONS(user.role)

(* A route: the metadata its decorators set, on the handler or its class.      *)
(* `any` empty and `roles` full stand for metadata that is not set.           *)
Route == [public |-> FALSE, roles |-> Everybody, all |-> {}, any |-> {},
          dangerous |-> FALSE, platform |-> FALSE, ofTenant |-> FALSE, name |-> "route"]

JwtAuthGuard(route, user) == route.public \/ user # Anonymous

RolesGuard(route, user) == route.public \/ user.role \in route.roles

PermissionsGuard(route, user) ==
  /\ route.all \subseteq Permitted(user)
  /\ route.any # {} => route.any \cap Permitted(user) # {}

DangerousActionGuard(route, user) == ~(route.dangerous /\ user.impersonating)

PlatformOnlyGuard(route, user) == route.platform => user.role \in PLATFORM_ROLES

(* Mutant: an impersonated tenant is taken on trust, any other from the user.  *)
EffectiveTenant_NoRole(user) == IF user.tenant = NoTenant THEN "any" ELSE user.tenant

(* resolveEffectiveTenantId, or NoTenant where it throws.                     *)
EffectiveTenant(user) ==
  IF user.impersonating THEN user.tenant
  ELSE IF user.role \in PLATFORM_ROLES THEN NoTenant
  ELSE user.tenant

(* On a public route nobody looks at the token.                              *)
OnRequest(route, user) == IF route.public THEN Anonymous ELSE user

Served(route, user) ==
  LET u == OnRequest(route, user) IN
  /\ JwtAuthGuard(route, u)
  /\ RolesGuard(route, u)
  /\ PermissionsGuard(route, u)
  /\ DangerousActionGuard(route, u)
  /\ PlatformOnlyGuard(route, u)
  /\ route.ofTenant => EffectiveTenant(u) # NoTenant

=============================================================================
