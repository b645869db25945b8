--------------------------- MODULE Subscriptions ---------------------------
(***************************************************************************)
(* Plans, tenants and subscriptions: PlatformPlansService, TenantsService,  *)
(* PlatformSubscriptionsService, and the two ways a tenant comes to be with *)
(* its owner and first subscription, TenantOnboardingService.onboard and    *)
(* PublicOnboardingService.subscribe.                                      *)
(*                                                                         *)
(* Every request reads what it needs, checks it, and then writes by id in   *)
(* one transaction; between the two, other requests run.                   *)
(***************************************************************************)
EXTENDS Integers, Sequences, FiniteSets

CONSTANTS
  Plans, NoPlan,      \* NoPlan: currentPlanId = null
  SettledPlans,       \* public plans nobody touches in a behaviour
  Tenants, NoTenant,
  Staff,              \* platform users, one request at a time each
  WorksOn,            \* [Staff -> SUBSET {"plans", "tenants", "subscriptions"}]
  Visitors,           \* callers of the public sign-up
  ChosenStatuses,     \* statuses a request may give a new subscription
  ChosenTenantStatuses,
  MaxSubscriptions    \* bound on the rows of the subscriptions table

ASSUME SubscriptionsAssumption ==
  /\ NoPlan \notin Plans /\ SettledPlans \subseteq Plans
  /\ Staff \cap Visitors = {}
  /\ NoTenant \notin [status : {"TRIAL", "ACTIVE", "PAST_DUE", "SUSPENDED", "CANCELLED"},
                      plan : Plans \cup {NoPlan}]
  /\ WorksOn \in [Staff -> SUBSET {"plans", "tenants", "subscriptions"}]
  /\ ChosenStatuses \subseteq {"TRIALING", "ACTIVE", "PAST_DUE", "PAUSED",
                               "CANCELLED", "EXPIRED"}
  /\ ChosenTenantStatuses \subseteq {"TRIAL", "ACTIVE", "PAST_DUE", "SUSPENDED", "CANCELLED"}
  /\ MaxSubscriptions \in Nat

VARIABLES
  plan,           \* plans table
  tenant,         \* tenants table
  subscription,   \* subscriptions table, in the order of creation
  request         \* what each actor has read and is about to write

subscriptionsVars == <<plan, tenant, subscription, request>>

(* isActive, isPublic and archivedAt, as far as anything depends on them.    *)
PlanStates == {"absent", "private", "public", "off", "archived", "deleted"}
Existing == {p \in Plans : plan[p] \notin {"absent", "deleted"}}
OnSale == {p \in Plans : plan[p] \in {"private", "public"}}

TenantStatuses == {"TRIAL", "ACTIVE", "PAST_DUE", "SUSPENDED", "CANCELLED"}
TenantRow == [status : TenantStatuses, plan : Plans \cup {NoPlan}]

LiveStatuses == {"TRIALING", "ACTIVE", "PAST_DUE", "PAUSED"}
SubscriptionStatuses == LiveStatuses \cup {"CANCELLED", "EXPIRED"}

ALLOWED_STATUS_TRANSITIONS ==
  [TRIALING  |-> {"ACTIVE", "CANCELLED", "EXPIRED"},
   ACTIVE    |-> {"PAST_DUE", "PAUSED", "CANCELLED", "EXPIRED"},
   PAST_DUE  |-> {"ACTIVE", "PAUSED", "CANCELLED", "EXPIRED"},
   PAUSED    |-> {"ACTIVE", "CANCELLED"},
   CANCELLED |-> {},
   EXPIRED   |-> {}]

TransitionAllowed(from, to) == from = to \/ to \in ALLOWED_STATUS_TRANSITIONS[from]

SubscriptionRow == [tenant : Tenants, plan : Plans, status : SubscriptionStatuses,
                    renewed : BOOLEAN]

SubscriptionOf(t, p, status) ==
  [tenant |-> t, plan |-> p, status |-> status, renewed |-> FALSE]

Of(t) == {i \in DOMAIN subscription : subscription[i].tenant = t}
IsLive(i) == subscription[i].status \in LiveStatuses

(* Mutant: only a subscription that is ACTIVE stands in the way. *)
LiveOf_ActiveOnly(t) == {i \in Of(t) : subscription[i].status = "ACTIVE"}

LiveOf(t) == {i \in Of(t) : IsLive(i)}

Idle == [at |-> "idle"]
Ask(a, r) == request' = [request EXCEPT ![a] = r]

SubscriptionsInit ==
  /\ plan = [p \in Plans |-> IF p \in SettledPlans THEN "public" ELSE "absent"]
  /\ tenant = [t \in Tenants |-> NoTenant]
  /\ subscription = << >>
  /\ request = [a \in Staff \cup Visitors |-> Idle]

----------------------------------------------------------------------------
(* Plans.  A name or slug that is taken is refused by the check or by the    *)
(* unique index; which of them makes no difference here.                    *)

CreatesPlan(a) ==
  /\ request[a].at = "idle"
  /\ \E p \in Plans, state \in {"private", "public"} :
       /\ plan[p] = "absent"
       /\ plan' = [plan EXCEPT ![p] = state]
  /\ UNCHANGED <<tenant, subscription, request>>

(* isActive can be set again on an archived plan; archivedAt stays.          *)
UpdatesPlan(a) ==
  /\ request[a].at = "idle"
  /\ \E p \in Existing, state \in {"private", "public", "off"} :
       /\ p \notin SettledPlans /\ plan[p] # "archived"
       /\ plan' = [plan EXCEPT ![p] = state]
  /\ UNCHANGED <<tenant, subscription, request>>

(* remove: a plan somebody refers to is archived, any other one deleted.     *)
IsReferenced(p) ==
  \/ \E i \in DOMAIN subscription : subscription[i].plan = p
  \/ \E t \in Tenants : tenant[t] # NoTenant /\ tenant[t].plan = p

CountsReferences(a) ==
  /\ request[a].at = "idle"
  /\ \E p \in Existing \ SettledPlans :
       Ask(a, [at |-> IF IsReferenced(p) THEN "archives" ELSE "deletes", p |-> p])
  /\ UNCHANGED <<plan, tenant, subscription>>

ArchivesPlan(a) ==
  /\ request[a].at = "archives" /\ request[a].p \in Existing
  /\ plan' = [plan EXCEPT ![request[a].p] = "archived"]
  /\ Ask(a, Idle)
  /\ UNCHANGED <<tenant, subscription>>

(* Mutant: the row goes although subscriptions refer to it. *)
Deletable_Always(p) == TRUE

(* Subscription.plan restricts the deletion.                                 *)
Deletable(p) == \A i \in DOMAIN subscription : subscription[i].plan # p

(* Tenant.currentPlan is set to null with it.                                *)
DeletesPlan(a) ==
  LET p == request[a].p IN
  /\ request[a].at = "deletes" /\ p \in Existing /\ Deletable(p)
  /\ plan' = [plan EXCEPT ![p] = "deleted"]
  /\ tenant' = [t \in Tenants |->
                  IF tenant[t] # NoTenant /\ tenant[t].plan = p
                    THEN [tenant[t] EXCEPT !.plan = NoPlan] ELSE tenant[t]]
  /\ Ask(a, Idle)
  /\ UNCHANGED subscription

----------------------------------------------------------------------------
(* Tenants.  changeStatus knows no transitions.                              *)

CreatesTenant(a) ==
  /\ request[a].at = "idle"
  /\ \E t \in Tenants :
       /\ tenant[t] = NoTenant
       /\ tenant' = [tenant EXCEPT ![t] = [status |-> "TRIAL", plan |-> NoPlan]]
  /\ UNCHANGED <<plan, subscription, request>>

ChangesTenantStatus(a) ==
  /\ request[a].at = "idle"
  /\ \E t \in Tenants, status \in ChosenTenantStatuses :
       /\ tenant[t] # NoTenant
       /\ tenant' = [tenant EXCEPT ![t].status = status]
  /\ UNCHANGED <<plan, subscription, request>>

----------------------------------------------------------------------------
(* onboard and subscribe: slug and plan are looked up, then tenant, owner    *)
(* and subscription are inserted in one transaction.  An onboarded tenant     *)
(* starts with the status it is given, one that signs up itself on trial.     *)

AsksSignUp(a, plans, statuses) ==
  /\ request[a].at = "idle"
  /\ \E t \in Tenants, p \in plans, status \in statuses :
       /\ tenant[t] = NoTenant
       /\ Ask(a, [at |-> "signs up", t |-> t, p |-> p, status |-> status])
  /\ UNCHANGED <<plan, tenant, subscription>>

ChecksOnboarding(a) == AsksSignUp(a, OnSale, ChosenStatuses)

ChecksSubscribing(a) ==
  AsksSignUp(a, {p \in OnSale : plan[p] = "public"}, {"TRIALING"})

SignedUp(p) == [status |-> "TRIAL", plan |-> p]

(* The unique slug and the foreign key stand behind the lookups.             *)
InsertsTenant(a) ==
  LET r == request[a] IN
  /\ r.at = "signs up" /\ tenant[r.t] = NoTenant /\ r.p \in Existing
  /\ Len(subscription) < MaxSubscriptions
  /\ tenant' = [tenant EXCEPT ![r.t] = SignedUp(r.p)]
  /\ subscription' = Append(subscription, SubscriptionOf(r.t, r.p, r.status))
  /\ Ask(a, Idle)
  /\ UNCHANGED plan

Onboards(a) == a \in Staff /\ InsertsTenant(a)

(* subscribe goes on to sign the owner in; when that fails, the tenant stays.  *)
Subscribes(a) == a \in Visitors /\ InsertsTenant(a)

----------------------------------------------------------------------------
(* Subscriptions.  The row is read and the request checked against it; the   *)
(* write is by id, whatever the row says by then.                            *)

ChecksNewSubscription(a) ==
  /\ request[a].at = "idle"
  /\ \E t \in Tenants, p \in OnSale, status \in ChosenStatuses :
       /\ tenant[t] # NoTenant /\ tenant[t].status # "CANCELLED"
       /\ LiveOf(t) = {}
       /\ Ask(a, [at |-> "creates", t |-> t, p |-> p, status |-> status])
  /\ UNCHANGED <<plan, tenant, subscription>>

CreatesSubscription(a) ==
  LET r == request[a] IN
  /\ r.at = "creates" /\ r.p \in Existing
  /\ Len(subscription) < MaxSubscriptions
  /\ subscription' = Append(subscription, SubscriptionOf(r.t, r.p, r.status))
  /\ tenant' = [tenant EXCEPT ![r.t].plan = r.p]
  /\ Ask(a, Idle)
  /\ UNCHANGED plan

(* update, and cancel: at once, or at the period's end, which writes the     *)
(* status it read.                                                          *)
ReadsSubscription(a) ==
  /\ request[a].at = "idle"
  /\ \E i \in DOMAIN subscription, status \in SubscriptionStatuses :
       /\ TransitionAllowed(subscription[i].status, status)
       /\ Ask(a, [at |-> "updates", i |-> i, status |-> status])
  /\ UNCHANGED <<plan, tenant, subscription>>

UpdatesSubscription(a) ==
  LET r == request[a] IN
  /\ r.at = "updates"
  /\ subscription' = [subscription EXCEPT ![r.i].status = r.status]
  /\ Ask(a, Idle)
  /\ UNCHANGED <<plan, tenant>>

(* renew looks at no status: it brings back what was cancelled.              *)
Renews(a) ==
  /\ request[a].at = "idle"
  /\ \E i \in DOMAIN subscription :
       subscription' = [subscription EXCEPT ![i].status = "ACTIVE", ![i].renewed = TRUE]
  /\ UNCHANGED <<plan, tenant, request>>

ReadsTargetPlan(a) ==
  /\ request[a].at = "idle"
  /\ \E i \in DOMAIN subscription, p \in OnSale : Ask(a, [at |-> "changes", i |-> i, p |-> p])
  /\ UNCHANGED <<plan, tenant, subscription>>

(* Mutant: the subscription changes its plan and the tenant keeps the old one. *)
ChangesPlan_RowOnly(a) ==
  LET r == request[a] IN
  /\ r.at = "changes" /\ r.p \in Existing
  /\ subscription' = [subscription EXCEPT ![r.i].plan = r.p, ![r.i].renewed = TRUE]
  /\ Ask(a, Idle)
  /\ UNCHANGED <<plan, tenant>>

ChangesPlan(a) ==
  LET r == request[a] IN
  /\ r.at = "changes" /\ r.p \in Existing
  /\ subscription' = [subscription EXCEPT ![r.i].plan = r.p, ![r.i].renewed = TRUE]
  /\ tenant' = [tenant EXCEPT ![subscription[r.i].tenant].plan = r.p]
  /\ Ask(a, Idle)
  /\ UNCHANGED plan

(* A constraint or the database refuses the write, or the process dies.      *)
RequestFails(a) ==
  /\ request[a].at # "idle"
  /\ Ask(a, Idle)
  /\ UNCHANGED <<plan, tenant, subscription>>

----------------------------------------------------------------------------
PlanStep(a) ==
  \/ CreatesPlan(a) \/ UpdatesPlan(a) \/ CountsReferences(a)
  \/ ArchivesPlan(a) \/ DeletesPlan(a)

TenantStep(a) == CreatesTenant(a) \/ ChangesTenantStatus(a) \/ ChecksOnboarding(a)

SubscriptionStep(a) ==
  \/ ChecksNewSubscription(a) \/ CreatesSubscription(a)
  \/ ReadsSubscription(a) \/ UpdatesSubscription(a)
  \/ Renews(a) \/ ReadsTargetPlan(a) \/ ChangesPlan(a)

SubscriptionsNext ==
  \/ \E a \in Staff : \/ "plans" \in WorksOn[a] /\ PlanStep(a)
                      \/ "tenants" \in WorksOn[a] /\ TenantStep(a)
                      \/ "subscriptions" \in WorksOn[a] /\ SubscriptionStep(a)
                      \/ Onboards(a)
  \/ \E a \in Visitors : ChecksSubscribing(a) \/ Subscribes(a)
  \/ \E a \in Staff \cup Visitors : RequestFails(a)

SubscriptionsSpec == SubscriptionsInit /\ [][SubscriptionsNext]_subscriptionsVars

----------------------------------------------------------------------------
Request ==
  {Idle}
    \cup [at : {"archives", "deletes"}, p : Plans]
    \cup [at : {"signs up", "creates"}, t : Tenants, p : Plans, status : SubscriptionStatuses]
    \cup [at : {"updates"}, i : DOMAIN subscription, status : SubscriptionStatuses]
    \cup [at : {"changes"}, i : DOMAIN subscription, p : Plans]

(* The tables have their types and their foreign keys: a subscription's       *)
(* tenant and plan exist, and so does a tenant's current plan.               *)
SubscriptionsTypeOK ==
  /\ plan \in [Plans -> PlanStates]
  /\ tenant \in [Tenants -> TenantRow \cup {NoTenant}]
  /\ subscription \in Seq(SubscriptionRow)
  /\ request \in [Staff \cup Visitors -> Request]
  /\ \A i \in DOMAIN subscription :
       subscription[i].plan \in Existing /\ tenant[subscription[i].tenant] # NoTenant
  /\ \A t \in Tenants :
       tenant[t] # NoTenant => tenant[t].plan \in Existing \cup {NoPlan}

(* The plan a tenant is served under (its flags and limits come from it) is   *)
(* the plan of one of its subscriptions, whoever changes plans, deletes them  *)
(* or signs up at the same time.                                             *)
CurrentPlanIsSubscribed ==
  \A t \in Tenants :
    (tenant[t] # NoTenant /\ tenant[t].plan # NoPlan)
      => \E i \in Of(t) : subscription[i].plan = tenant[t].plan

(* create refuses a tenant that has a live subscription.  Counting those that *)
(* were never renewed, a tenant has at most one per platform user at work:    *)
(* one user alone keeps it to one, overlapping requests can add one each.     *)
LiveSubscriptionsBounded ==
  \A t \in Tenants :
    Cardinality({i \in Of(t) : IsLive(i) /\ ~subscription[i].renewed}) <= Cardinality(Staff)

=============================================================================
