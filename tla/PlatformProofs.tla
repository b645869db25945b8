-------------------------- MODULE PlatformProofs ---------------------------
(* Proofs about what MCOperations follows: subscriptions, merchants and the     *)
(* delivery network, flags, invoices, intake and reports, for any staff,        *)
(* tenants, plans, merchants, flags, invoices, files, batch size and rows.      *)
EXTENDS Subscriptions, Parties, Entitlements, Intake, Billing, Reports, SumLemmas

----------------------------------------------------------------------------
(* Subscriptions *)

Actors == Staff \cup Visitors

(* What an actor that is busy does next.                                     *)
Proceeds(a) ==
  \/ ArchivesPlan(a) \/ DeletesPlan(a) \/ InsertsTenant(a) \/ CreatesSubscription(a)
  \/ UpdatesSubscription(a) \/ ChangesPlan(a) \/ RequestFails(a)

(* What one that is not may begin, or do at once.                             *)
Begins(a) ==
  \/ CreatesPlan(a) \/ UpdatesPlan(a) \/ CountsReferences(a)
  \/ CreatesTenant(a) \/ ChangesTenantStatus(a)
  \/ ChecksOnboarding(a) \/ ChecksSubscribing(a)
  \/ ChecksNewSubscription(a) \/ ReadsSubscription(a) \/ Renews(a) \/ ReadsTargetPlan(a)

LEMMA StepsOfActors ==
  ASSUME SubscriptionsNext
  PROVE  \E a \in Actors : Proceeds(a) \/ Begins(a)
BY DEF SubscriptionsNext, Actors, Proceeds, Begins, PlanStep, TenantStep, SubscriptionStep,
   Onboards, Subscribes

(* A new row goes to the end of the table and leaves the others as they are.     *)
LEMMA Appended ==
  ASSUME subscription \in Seq(SubscriptionRow), NEW r \in SubscriptionRow,
         subscription' = Append(subscription, r)
  PROVE  /\ subscription' \in Seq(SubscriptionRow)
         /\ DOMAIN subscription' = DOMAIN subscription \cup {Len(subscription) + 1}
         /\ \A i \in DOMAIN subscription : subscription'[i] = subscription[i]
         /\ subscription'[Len(subscription) + 1] = r
OBVIOUS

(* A row written in place leaves the table's length and its other rows alone.    *)
LEMMA Rewritten ==
  ASSUME subscription \in Seq(SubscriptionRow), NEW i \in DOMAIN subscription,
         NEW r \in SubscriptionRow, subscription' = [subscription EXCEPT ![i] = r]
  PROVE  /\ subscription' \in Seq(SubscriptionRow)
         /\ DOMAIN subscription' = DOMAIN subscription
         /\ \A j \in DOMAIN subscription :
              subscription'[j] = IF j = i THEN r ELSE subscription[j]
OBVIOUS

----------------------------------------------------------------------------
(* A tenant is never deleted: the one a request was checked for still exists.     *)
CheckedTenantsExist ==
  \A b \in Actors : request[b].at = "creates" => tenant[request[b].t] # NoTenant

SubscriptionsInv == SubscriptionsTypeOK /\ CurrentPlanIsSubscribed /\ CheckedTenantsExist

LEMMA SubscriptionsInitially == SubscriptionsInit => SubscriptionsInv
BY SubscriptionsAssumption
DEF SubscriptionsInit, SubscriptionsInv, SubscriptionsTypeOK, CurrentPlanIsSubscribed,
    CheckedTenantsExist, Actors, PlanStates, Request, Idle

(* What a request carries, by what it asks for.                                *)
LEMMA RequestFields ==
  ASSUME NEW r \in Request
  PROVE  /\ r.at \in {"archives", "deletes", "changes"} => r.p \in Plans
         /\ r.at \in {"signs up", "creates"} =>
              r.t \in Tenants /\ r.p \in Plans /\ r.status \in SubscriptionStatuses
         /\ r.at \in {"updates", "changes"} => r.i \in DOMAIN subscription
         /\ r.at = "updates" => r.status \in SubscriptionStatuses
<1>1. CASE r = Idle
  BY <1>1 DEF Idle
<1>2. CASE r \in [at : {"archives", "deletes"}, p : Plans]
  BY <1>2
<1>3. CASE r \in [at : {"signs up", "creates"}, t : Tenants, p : Plans,
                  status : SubscriptionStatuses]
  BY <1>3
<1>4. CASE r \in [at : {"updates"}, i : DOMAIN subscription, status : SubscriptionStatuses]
  BY <1>4
<1>5. CASE r \in [at : {"changes"}, i : DOMAIN subscription, p : Plans]
  BY <1>5
<1>6. QED
  BY <1>1, <1>2, <1>3, <1>4, <1>5 DEF Request

(* A request is kept or answered, and the tables only gain what it may name.       *)
LEMMA AnsweringKeepsRequests ==
  ASSUME SubscriptionsInv, NEW a \in Actors, UNCHANGED request \/ Ask(a, Idle),
         Request \subseteq Request',
         \A t \in Tenants : tenant[t] # NoTenant => tenant'[t] # NoTenant
  PROVE  request' \in [Staff \cup Visitors -> Request'] /\ CheckedTenantsExist'
<1>1. request \in [Staff \cup Visitors -> Request] /\ CheckedTenantsExist
  BY DEF SubscriptionsInv, SubscriptionsTypeOK
<1>2. Idle \in Request /\ Idle.at # "creates"
  BY DEF Request, Idle
<1>3. request' \in [Staff \cup Visitors -> Request']
  BY <1>1, <1>2 DEF Ask
<1>4. \A b \in Actors : request'[b] \in {request[b], Idle}
  BY <1>1 DEF Ask, Actors
<1>5. \A b \in Actors : request[b].at = "creates" => request[b].t \in Tenants
  BY <1>1, RequestFields DEF Actors
<1>6. CheckedTenantsExist'
  BY <1>1, <1>2, <1>4, <1>5 DEF CheckedTenantsExist
<1>7. QED
  BY <1>3, <1>6

(* Asking leaves the tables alone.                                            *)
LEMMA AskingKeepsInv ==
  ASSUME SubscriptionsInv, NEW a \in Actors, NEW r \in Request,
         r.at = "creates" => tenant[r.t] # NoTenant,
         Ask(a, r), UNCHANGED <<plan, tenant, subscription>>
  PROVE  SubscriptionsInv'
<1>1. Request' = Request
  BY DEF Request
<1>2. request' \in [Staff \cup Visitors -> Request']
  BY <1>1 DEF SubscriptionsInv, SubscriptionsTypeOK, Ask, Actors
<1>3. Existing' = Existing /\ \A t : Of(t)' = Of(t)
  BY DEF Existing, Of
<1>4. CheckedTenantsExist'
  BY DEF SubscriptionsInv, SubscriptionsTypeOK, CheckedTenantsExist, Ask, Actors
<1>5. QED
  BY <1>2, <1>3, <1>4 DEF SubscriptionsInv, SubscriptionsTypeOK, CurrentPlanIsSubscribed

(* A plan that is created or updated exists as before, or newly.                 *)
LEMMA PlanWriteKeepsInv ==
  ASSUME SubscriptionsInv, NEW p \in Plans, NEW state \in PlanStates \ {"absent", "deleted"},
         plan' = [plan EXCEPT ![p] = state], UNCHANGED <<tenant, subscription>>,
         NEW a \in Actors, UNCHANGED request \/ Ask(a, Idle)
  PROVE  SubscriptionsInv'
<1>1. plan' \in [Plans -> PlanStates] /\ Existing \subseteq Existing'
  BY DEF SubscriptionsInv, SubscriptionsTypeOK, Existing
<1>2. Request' = Request /\ \A t : Of(t)' = Of(t)
  BY DEF Request, Of
<1>3. request' \in [Staff \cup Visitors -> Request'] /\ CheckedTenantsExist'
  BY <1>2, AnsweringKeepsRequests
<1>4. QED
  BY <1>1, <1>2, <1>3 DEF SubscriptionsInv, SubscriptionsTypeOK, CurrentPlanIsSubscribed

(* A tenant that is inserted without a plan, or keeps the plan it has.           *)
LEMMA TenantWriteKeepsInv ==
  ASSUME SubscriptionsInv, NEW t \in Tenants, NEW stands \in TenantRow,
         \/ stands.plan = NoPlan
         \/ tenant[t] # NoTenant /\ stands.plan = tenant[t].plan,
         tenant' = [tenant EXCEPT ![t] = stands], UNCHANGED <<plan, subscription>>,
         NEW a \in Actors, UNCHANGED request \/ Ask(a, Idle)
  PROVE  SubscriptionsInv'
<1>1. stands # NoTenant
  BY SubscriptionsAssumption DEF TenantRow, TenantStatuses
<1>2. /\ tenant' \in [Tenants -> TenantRow \cup {NoTenant}]
      /\ tenant'[t] = stands /\ \A u \in Tenants \ {t} : tenant'[u] = tenant[u]
  BY DEF SubscriptionsInv, SubscriptionsTypeOK
<1>3. Request' = Request /\ Existing' = Existing /\ \A u : Of(u)' = Of(u)
  BY DEF Request, Of, Existing
<1>4. \A i \in DOMAIN subscription :
        subscription[i].plan \in Existing /\ tenant'[subscription[i].tenant] # NoTenant
  BY <1>1, <1>2 DEF SubscriptionsInv, SubscriptionsTypeOK, SubscriptionRow
<1>5. \A u \in Tenants : tenant'[u] # NoTenant => tenant'[u].plan \in Existing \cup {NoPlan}
  BY <1>2 DEF SubscriptionsInv, SubscriptionsTypeOK
<1>6. CurrentPlanIsSubscribed'
  BY <1>2, <1>3 DEF SubscriptionsInv, CurrentPlanIsSubscribed
<1>7. request' \in [Staff \cup Visitors -> Request'] /\ CheckedTenantsExist'
  BY <1>1, <1>2, <1>3, AnsweringKeepsRequests
<1>8. QED
  BY <1>2, <1>3, <1>4, <1>5, <1>6, <1>7 DEF SubscriptionsInv, SubscriptionsTypeOK

(* A subscription whose tenant and plan stay.                                   *)
LEMMA StatusWriteKeepsInv ==
  ASSUME SubscriptionsInv, NEW i \in DOMAIN subscription, NEW r \in SubscriptionRow,
         r.tenant = subscription[i].tenant, r.plan = subscription[i].plan,
         subscription' = [subscription EXCEPT ![i] = r], UNCHANGED <<plan, tenant>>,
         NEW a \in Actors, UNCHANGED request \/ Ask(a, Idle)
  PROVE  SubscriptionsInv'
<1>1. subscription \in Seq(SubscriptionRow)
  BY DEF SubscriptionsInv, SubscriptionsTypeOK
<1>2. /\ subscription' \in Seq(SubscriptionRow)
      /\ DOMAIN subscription' = DOMAIN subscription
      /\ \A j \in DOMAIN subscription : /\ subscription'[j].tenant = subscription[j].tenant
                                        /\ subscription'[j].plan = subscription[j].plan
  BY <1>1, Rewritten
<1>3. Request' = Request /\ Existing' = Existing /\ \A u : Of(u)' = Of(u)
  BY <1>2 DEF Request, Of, Existing
<1>4. request' \in [Staff \cup Visitors -> Request'] /\ CheckedTenantsExist'
  BY <1>3, AnsweringKeepsRequests
<1>5. QED
  BY <1>2, <1>3, <1>4 DEF SubscriptionsInv, SubscriptionsTypeOK, CurrentPlanIsSubscribed, Of

(* Beginning a request, and what is done at once.                             *)
LEMMA BeginningKeepsInv ==
  ASSUME SubscriptionsInv, NEW a \in Actors, Begins(a)
  PROVE  SubscriptionsInv'
<1>types. /\ request \in [Staff \cup Visitors -> Request]
          /\ plan \in [Plans -> PlanStates]
          /\ tenant \in [Tenants -> TenantRow \cup {NoTenant}]
          /\ subscription \in Seq(SubscriptionRow)
  BY DEF SubscriptionsInv, SubscriptionsTypeOK
<1>1. CASE CreatesPlan(a)
  BY <1>1, <1>types, PlanWriteKeepsInv DEF CreatesPlan, PlanStates
<1>2. CASE UpdatesPlan(a)
  BY <1>2, <1>types, PlanWriteKeepsInv DEF UpdatesPlan, PlanStates, Existing
<1>3. CASE CountsReferences(a)
  <2>1. PICK p \in Plans :
          Ask(a, [at |-> IF IsReferenced(p) THEN "archives" ELSE "deletes", p |-> p])
    BY <1>3 DEF CountsReferences, Existing
  <2>2. [at |-> IF IsReferenced(p) THEN "archives" ELSE "deletes", p |-> p] \in Request
    BY DEF Request
  <2>3. QED
    BY <1>3, <2>1, <2>2, AskingKeepsInv DEF CountsReferences
<1>4. CASE CreatesTenant(a)
  <2>1. PICK t \in Tenants : /\ tenant[t] = NoTenant
                             /\ tenant' = [tenant EXCEPT ![t] = [status |-> "TRIAL", plan |-> NoPlan]]
    BY <1>4 DEF CreatesTenant
  <2>2. [status |-> "TRIAL", plan |-> NoPlan] \in TenantRow
    BY DEF TenantRow, TenantStatuses
  <2>3. QED
    BY <1>4, <1>types, <2>1, <2>2, TenantWriteKeepsInv DEF CreatesTenant
<1>5. CASE ChangesTenantStatus(a)
  <2>1. PICK t \in Tenants, status \in TenantStatuses :
          /\ tenant[t] # NoTenant
          /\ tenant' = [tenant EXCEPT ![t].status = status]
    BY <1>5, SubscriptionsAssumption DEF ChangesTenantStatus, TenantStatuses
  <2>2. tenant[t] \in TenantRow
    BY <1>types, <2>1
  <2>3. [tenant[t] EXCEPT !.status = status] \in TenantRow
    BY <2>2 DEF TenantRow
  <2>4. [tenant[t] EXCEPT !.status = status].plan = tenant[t].plan
    BY <2>2 DEF TenantRow
  <2>5. tenant' = [tenant EXCEPT ![t] = [tenant[t] EXCEPT !.status = status]]
    BY <2>1
  <2>6. QED
    BY <1>5, <1>types, <2>1, <2>3, <2>4, <2>5, TenantWriteKeepsInv DEF ChangesTenantStatus
<1>6. CASE ChecksOnboarding(a) \/ ChecksSubscribing(a)
  <2>1. PICK t \in Tenants, p \in Plans, status \in SubscriptionStatuses :
          Ask(a, [at |-> "signs up", t |-> t, p |-> p, status |-> status])
    BY <1>6, SubscriptionsAssumption
    DEF ChecksOnboarding, ChecksSubscribing, AsksSignUp, OnSale, SubscriptionStatuses,
        LiveStatuses
  <2>2. [at |-> "signs up", t |-> t, p |-> p, status |-> status] \in Request
    BY DEF Request
  <2>3. QED
    BY <1>6, <2>1, <2>2, AskingKeepsInv DEF ChecksOnboarding, ChecksSubscribing, AsksSignUp
<1>7. CASE ChecksNewSubscription(a)
  <2>1. PICK t \in Tenants, p \in Plans, status \in SubscriptionStatuses :
          Ask(a, [at |-> "creates", t |-> t, p |-> p, status |-> status]) /\ tenant[t] # NoTenant
    BY <1>7, SubscriptionsAssumption
    DEF ChecksNewSubscription, OnSale, SubscriptionStatuses, LiveStatuses
  <2>2. [at |-> "creates", t |-> t, p |-> p, status |-> status] \in Request
    BY DEF Request
  <2>3. QED
    BY <1>7, <2>1, <2>2, AskingKeepsInv DEF ChecksNewSubscription
<1>8. CASE ReadsSubscription(a)
  <2>1. PICK i \in DOMAIN subscription, status \in SubscriptionStatuses :
          Ask(a, [at |-> "updates", i |-> i, status |-> status])
    BY <1>8 DEF ReadsSubscription
  <2>2. [at |-> "updates", i |-> i, status |-> status] \in Request
    BY DEF Request
  <2>3. QED
    BY <1>8, <2>1, <2>2, AskingKeepsInv DEF ReadsSubscription
<1>9. CASE Renews(a)
  <2>1. PICK i \in DOMAIN subscription :
          subscription' = [subscription EXCEPT ![i].status = "ACTIVE", ![i].renewed = TRUE]
    BY <1>9 DEF Renews
  <2> DEFINE r == [subscription[i] EXCEPT !.status = "ACTIVE", !.renewed = TRUE]
  <2>2. subscription[i] \in SubscriptionRow
    BY <1>types
  <2>3. /\ r \in SubscriptionRow
        /\ r.tenant = subscription[i].tenant /\ r.plan = subscription[i].plan
    BY <2>2 DEF SubscriptionRow, SubscriptionStatuses, LiveStatuses
  <2>4. subscription' = [subscription EXCEPT ![i] = r]
    BY <2>1
  <2> HIDE DEF r
  <2>5. QED
    BY <1>9, <1>types, <2>3, <2>4, StatusWriteKeepsInv DEF Renews
<1>10. CASE ReadsTargetPlan(a)
  <2>1. PICK i \in DOMAIN subscription, p \in Plans : Ask(a, [at |-> "changes", i |-> i, p |-> p])
    BY <1>10 DEF ReadsTargetPlan, OnSale
  <2>2. [at |-> "changes", i |-> i, p |-> p] \in Request
    BY DEF Request
  <2>3. QED
    BY <1>10, <2>1, <2>2, AskingKeepsInv DEF ReadsTargetPlan
<1>11. QED
  BY <1>1, <1>2, <1>3, <1>4, <1>5, <1>6, <1>7, <1>8, <1>9, <1>10 DEF Begins

----------------------------------------------------------------------------
(* A row is added, and its tenant served under its plan.                          *)
LEMMA AppendingKeepsInv ==
  ASSUME SubscriptionsInv, NEW r \in SubscriptionRow, NEW stands \in TenantRow,
         r.plan \in Existing, stands.plan = r.plan,
         subscription' = Append(subscription, r),
         tenant' = [tenant EXCEPT ![r.tenant] = stands],
         UNCHANGED plan, NEW a \in Actors, UNCHANGED request \/ Ask(a, Idle)
  PROVE  SubscriptionsInv'
<1> DEFINE last == Len(subscription) + 1
<1>0. /\ subscription \in Seq(SubscriptionRow) /\ plan \in [Plans -> PlanStates]
      /\ tenant \in [Tenants -> TenantRow \cup {NoTenant}]
  BY DEF SubscriptionsInv, SubscriptionsTypeOK
<1>1. r.tenant \in Tenants /\ stands # NoTenant
  BY SubscriptionsAssumption DEF TenantRow, TenantStatuses, SubscriptionRow
<1>2. /\ subscription' \in Seq(SubscriptionRow)
      /\ DOMAIN subscription' = DOMAIN subscription \cup {last}
      /\ \A i \in DOMAIN subscription : subscription'[i] = subscription[i]
      /\ subscription'[last] = r
  BY <1>0, Appended
<1> HIDE DEF last
<1>3. /\ tenant' \in [Tenants -> TenantRow \cup {NoTenant}]
      /\ tenant'[r.tenant] = stands /\ \A u \in Tenants \ {r.tenant} : tenant'[u] = tenant[u]
  BY <1>0, <1>1
<1>4. /\ Request \subseteq Request' /\ Existing' = Existing
      /\ \A u : Of(u) \subseteq Of(u)'
  BY <1>2 DEF Request, Existing, Of
<1>5. \A i \in DOMAIN subscription' :
        subscription'[i].plan \in Existing /\ tenant'[subscription'[i].tenant] # NoTenant
  BY <1>0, <1>1, <1>2, <1>3
  DEF SubscriptionsInv, SubscriptionsTypeOK, SubscriptionRow
<1>6. \A u \in Tenants : tenant'[u] # NoTenant => tenant'[u].plan \in Existing \cup {NoPlan}
  BY <1>3 DEF SubscriptionsInv, SubscriptionsTypeOK
<1>7. CurrentPlanIsSubscribed'
  <2>1. last \in Of(r.tenant)' /\ subscription'[last].plan = stands.plan
    BY <1>2 DEF Of
  <2>2. \A u \in Tenants : \A i \in Of(u) : i \in Of(u)' /\ subscription'[i].plan = subscription[i].plan
    BY <1>2, <1>4 DEF Of
  <2>3. ASSUME NEW u \in Tenants, tenant'[u] # NoTenant, tenant'[u].plan # NoPlan
        PROVE  \E i \in Of(u)' : subscription'[i].plan = tenant'[u].plan
    <3>1. CASE u = r.tenant
      BY <1>3, <2>1, <3>1
    <3>2. CASE u # r.tenant
      <4>1. tenant'[u] = tenant[u]
        BY <1>3, <3>2
      <4>2. PICK i \in Of(u) : subscription[i].plan = tenant[u].plan
        BY <2>3, <4>1 DEF SubscriptionsInv, CurrentPlanIsSubscribed
      <4>3. QED
        BY <2>2, <4>1, <4>2
    <3>3. QED
      BY <3>1, <3>2
  <2>4. QED
    BY <2>3 DEF CurrentPlanIsSubscribed
<1>8. request' \in [Staff \cup Visitors -> Request'] /\ CheckedTenantsExist'
  BY <1>1, <1>3, <1>4, AnsweringKeepsRequests
<1>9. QED
  BY <1>0, <1>2, <1>3, <1>4, <1>5, <1>6, <1>7, <1>8 DEF SubscriptionsInv, SubscriptionsTypeOK

(* A subscription moves to another plan, and its tenant with it.                  *)
LEMMA MovingKeepsInv ==
  ASSUME SubscriptionsInv, NEW i \in DOMAIN subscription, NEW p \in Existing,
         subscription' = [subscription EXCEPT ![i].plan = p, ![i].renewed = TRUE],
         tenant' = [tenant EXCEPT ![subscription[i].tenant].plan = p],
         UNCHANGED plan, NEW a \in Actors, UNCHANGED request \/ Ask(a, Idle)
  PROVE  SubscriptionsInv'
<1> DEFINE t == subscription[i].tenant
           new == [subscription[i] EXCEPT !.plan = p, !.renewed = TRUE]
           stands == [tenant[t] EXCEPT !.plan = p]
<1>types. /\ tenant \in [Tenants -> TenantRow \cup {NoTenant}]
          /\ subscription \in Seq(SubscriptionRow)
  BY DEF SubscriptionsInv, SubscriptionsTypeOK
<1>1. p \in Plans
  BY DEF Existing
<1>2. subscription[i] \in SubscriptionRow
  BY <1>types
<1>3. t \in Tenants
  BY <1>2 DEF SubscriptionRow
<1>4. new \in SubscriptionRow /\ new.tenant = t /\ new.plan = p
  BY <1>1, <1>2 DEF SubscriptionRow
<1>5. tenant[t] \in TenantRow
  BY <1>types, <1>3 DEF SubscriptionsInv, SubscriptionsTypeOK
<1>6. stands \in TenantRow /\ stands.plan = p
  BY <1>1, <1>5 DEF TenantRow
<1>7. stands # NoTenant
  BY <1>6, SubscriptionsAssumption DEF TenantRow, TenantStatuses
<1>8. subscription' = [subscription EXCEPT ![i] = new] /\ tenant' = [tenant EXCEPT ![t] = stands]
  OBVIOUS
<1>9. t = subscription[i].tenant
  OBVIOUS
<1> HIDE DEF t, new, stands
<1>10. /\ subscription' \in Seq(SubscriptionRow)
       /\ DOMAIN subscription' = DOMAIN subscription
       /\ \A j \in DOMAIN subscription :
            subscription'[j] = IF j = i THEN new ELSE subscription[j]
  BY <1>types, <1>4, <1>8, Rewritten
<1>11. /\ tenant' \in [Tenants -> TenantRow \cup {NoTenant}]
       /\ tenant'[t] = stands /\ \A u \in Tenants \ {t} : tenant'[u] = tenant[u]
  BY <1>types, <1>3, <1>6, <1>8
<1>12. \A j \in DOMAIN subscription : subscription'[j].tenant = subscription[j].tenant
  BY <1>4, <1>9, <1>10
<1>13. Request' = Request /\ Existing' = Existing /\ \A u : Of(u)' = Of(u)
  BY <1>10, <1>12 DEF Request, Existing, Of
<1>14. request' \in [Staff \cup Visitors -> Request'] /\ CheckedTenantsExist'
  BY <1>7, <1>11, <1>13, AnsweringKeepsRequests
<1>15. \A j \in DOMAIN subscription' : subscription'[j].plan \in Existing
  BY <1>4, <1>10 DEF SubscriptionsInv, SubscriptionsTypeOK
<1>16. \A j \in DOMAIN subscription' : tenant'[subscription'[j].tenant] # NoTenant
  <2>1. \A j \in DOMAIN subscription : subscription[j] \in SubscriptionRow
    BY <1>types
  <2>2. \A j \in DOMAIN subscription : subscription[j].tenant \in Tenants
    BY <2>1 DEF SubscriptionRow
  <2>3. QED
    BY <1>7, <1>10, <1>11, <1>12, <2>2 DEF SubscriptionsInv, SubscriptionsTypeOK
<1>17. \A u \in Tenants : tenant'[u] # NoTenant => tenant'[u].plan \in Existing \cup {NoPlan}
  BY <1>6, <1>11 DEF SubscriptionsInv, SubscriptionsTypeOK
<1>18. CurrentPlanIsSubscribed'
  <2>1. ASSUME NEW u \in Tenants, tenant'[u] # NoTenant, tenant'[u].plan # NoPlan
        PROVE  \E j \in Of(u)' : subscription'[j].plan = tenant'[u].plan
    <3>1. CASE u = t
      <4>1. i \in Of(u)
        BY <1>9, <3>1 DEF Of
      <4>2. QED
        BY <1>4, <1>6, <1>10, <1>11, <1>13, <3>1, <4>1
    <3>2. CASE u # t
      <4>1. tenant'[u] = tenant[u]
        BY <1>11, <3>2
      <4>2. PICK j \in Of(u) : subscription[j].plan = tenant[u].plan
        BY <2>1, <4>1 DEF SubscriptionsInv, CurrentPlanIsSubscribed
      <4>3. j \in DOMAIN subscription /\ j # i
        BY <1>9, <3>2 DEF Of
      <4>4. QED
        BY <1>10, <1>13, <4>1, <4>2, <4>3
    <3>3. QED
      BY <3>1, <3>2
  <2>2. QED
    BY <2>1 DEF CurrentPlanIsSubscribed
<1>19. QED
  BY <1>10, <1>11, <1>13, <1>14, <1>15, <1>16, <1>17, <1>18
  DEF SubscriptionsInv, SubscriptionsTypeOK

(* Writing what was asked, or giving up.                                       *)
LEMMA ProceedingKeepsInv ==
  ASSUME SubscriptionsInv, NEW a \in Actors, Proceeds(a)
  PROVE  SubscriptionsInv'
<1>types. /\ request \in [Staff \cup Visitors -> Request]
          /\ plan \in [Plans -> PlanStates]
          /\ tenant \in [Tenants -> TenantRow \cup {NoTenant}]
          /\ subscription \in Seq(SubscriptionRow)
  BY DEF SubscriptionsInv, SubscriptionsTypeOK
<1> DEFINE r == request[a]
<1>r. r \in Request
  BY <1>types DEF Actors
<1>1. CASE ArchivesPlan(a)
  BY <1>1, PlanWriteKeepsInv DEF ArchivesPlan, PlanStates, Existing
<1>2. CASE DeletesPlan(a)
  <2> DEFINE p == r.p
  <2>1. /\ p \in Existing /\ plan' = [plan EXCEPT ![p] = "deleted"]
        /\ \A i \in DOMAIN subscription : subscription[i].plan # p
        /\ tenant' = [t \in Tenants |->
                        IF tenant[t] # NoTenant /\ tenant[t].plan = p
                          THEN [tenant[t] EXCEPT !.plan = NoPlan] ELSE tenant[t]]
        /\ Ask(a, Idle) /\ UNCHANGED subscription
    BY <1>2 DEF DeletesPlan, Deletable
  <2> HIDE DEF p
  <2>2. \A t \in Tenants :
          \/ tenant'[t] = tenant[t] /\ (tenant[t] # NoTenant => tenant[t].plan # p)
          \/ /\ tenant[t] # NoTenant /\ tenant'[t] \in TenantRow /\ tenant'[t].plan = NoPlan
    BY <1>types, <2>1 DEF TenantRow
  <2>3. NoTenant \notin TenantRow
    BY SubscriptionsAssumption DEF TenantRow, TenantStatuses
  <2>4. tenant' \in [Tenants -> TenantRow \cup {NoTenant}]
    BY <1>types, <2>1, <2>2
  <2>5. plan' \in [Plans -> PlanStates] /\ Existing' = Existing \ {p}
    BY <1>types, <2>1 DEF Existing, PlanStates
  <2>6. Request' = Request /\ \A u : Of(u)' = Of(u)
    BY <2>1 DEF Request, Of
  <2>7. request' \in [Staff \cup Visitors -> Request'] /\ CheckedTenantsExist'
    BY <2>1, <2>2, <2>3, <2>6, AnsweringKeepsRequests
  <2>8. \A i \in DOMAIN subscription :
          subscription[i].plan \in Existing' /\ tenant'[subscription[i].tenant] # NoTenant
    <3>1. \A i \in DOMAIN subscription : subscription[i] \in SubscriptionRow
      BY <1>types
    <3>2. \A i \in DOMAIN subscription : subscription[i].tenant \in Tenants
      BY <3>1 DEF SubscriptionRow
    <3>3. QED
      BY <2>1, <2>2, <2>3, <2>5, <3>2 DEF SubscriptionsInv, SubscriptionsTypeOK
  <2>9. \A u \in Tenants : tenant'[u] # NoTenant => tenant'[u].plan \in Existing' \cup {NoPlan}
    BY <2>2, <2>5 DEF SubscriptionsInv, SubscriptionsTypeOK
  <2>10. CurrentPlanIsSubscribed'
    BY <2>1, <2>2, <2>6 DEF SubscriptionsInv, CurrentPlanIsSubscribed
  <2>11. QED
    BY <1>types, <2>1, <2>4, <2>5, <2>7, <2>8, <2>9, <2>10
    DEF SubscriptionsInv, SubscriptionsTypeOK
<1>3. CASE InsertsTenant(a)
  <2>1. /\ r.t \in Tenants /\ r.p \in Plans /\ r.status \in SubscriptionStatuses
    BY <1>3, <1>r, RequestFields DEF InsertsTenant
  <2>2. /\ SubscriptionOf(r.t, r.p, r.status) \in SubscriptionRow
        /\ SubscriptionOf(r.t, r.p, r.status).tenant = r.t
        /\ SubscriptionOf(r.t, r.p, r.status).plan = r.p
    BY <2>1 DEF SubscriptionOf, SubscriptionRow
  <2>3. SignedUp(r.p) \in TenantRow /\ SignedUp(r.p).plan = r.p
    BY <2>1 DEF SignedUp, TenantRow, TenantStatuses
  <2>4. /\ r.p \in Existing /\ tenant' = [tenant EXCEPT ![r.t] = SignedUp(r.p)]
        /\ subscription' = Append(subscription, SubscriptionOf(r.t, r.p, r.status))
        /\ Ask(a, Idle) /\ UNCHANGED plan
    BY <1>3 DEF InsertsTenant
  <2>5. QED
    BY <2>2, <2>3, <2>4, AppendingKeepsInv
<1>4. CASE CreatesSubscription(a)
  <2>1. /\ r.t \in Tenants /\ r.p \in Plans /\ r.status \in SubscriptionStatuses
    BY <1>4, <1>r, RequestFields DEF CreatesSubscription
  <2>2. /\ SubscriptionOf(r.t, r.p, r.status) \in SubscriptionRow
        /\ SubscriptionOf(r.t, r.p, r.status).tenant = r.t
        /\ SubscriptionOf(r.t, r.p, r.status).plan = r.p
    BY <2>1 DEF SubscriptionOf, SubscriptionRow
  <2>3. tenant[r.t] \in TenantRow
    BY <1>4, <1>types, <2>1 DEF SubscriptionsInv, CheckedTenantsExist, CreatesSubscription
  <2>4. /\ [tenant[r.t] EXCEPT !.plan = r.p] \in TenantRow
        /\ [tenant[r.t] EXCEPT !.plan = r.p].plan = r.p
    BY <2>1, <2>3 DEF TenantRow
  <2>5. /\ r.p \in Existing
        /\ tenant' = [tenant EXCEPT ![r.t] = [tenant[r.t] EXCEPT !.plan = r.p]]
        /\ subscription' = Append(subscription, SubscriptionOf(r.t, r.p, r.status))
        /\ Ask(a, Idle) /\ UNCHANGED plan
    BY <1>4 DEF CreatesSubscription
  <2>6. QED
    BY <2>2, <2>4, <2>5, AppendingKeepsInv
<1>5. CASE UpdatesSubscription(a)
  <2>1. r.i \in DOMAIN subscription /\ r.status \in SubscriptionStatuses
    BY <1>5, <1>r, RequestFields DEF UpdatesSubscription
  <2>2. subscription[r.i] \in SubscriptionRow
    BY <1>types, <2>1
  <2>3. /\ [subscription[r.i] EXCEPT !.status = r.status] \in SubscriptionRow
        /\ [subscription[r.i] EXCEPT !.status = r.status].tenant = subscription[r.i].tenant
        /\ [subscription[r.i] EXCEPT !.status = r.status].plan = subscription[r.i].plan
    BY <2>1, <2>2 DEF SubscriptionRow
  <2>4. subscription' = [subscription EXCEPT ![r.i] = [subscription[r.i] EXCEPT !.status = r.status]]
    BY <1>5 DEF UpdatesSubscription
  <2>5. QED
    BY <1>5, <2>1, <2>3, <2>4, StatusWriteKeepsInv DEF UpdatesSubscription
<1>6. CASE ChangesPlan(a)
  <2>1. r.i \in DOMAIN subscription /\ r.p \in Existing
    BY <1>6, <1>r, RequestFields DEF ChangesPlan
  <2>2. QED
    BY <1>6, <2>1, MovingKeepsInv DEF ChangesPlan
<1>7. CASE RequestFails(a)
  <2>1. Idle \in Request /\ Idle.at # "creates"
    BY DEF Request, Idle
  <2>2. QED
    BY <1>7, <2>1, AskingKeepsInv DEF RequestFails
<1>8. QED
  BY <1>1, <1>2, <1>3, <1>4, <1>5, <1>6, <1>7 DEF Proceeds

----------------------------------------------------------------------------
LEMMA SubscriptionsInductive == SubscriptionsSpec => []SubscriptionsInv
<1>1. ASSUME SubscriptionsInv, UNCHANGED subscriptionsVars PROVE SubscriptionsInv'
  BY <1>1 DEF subscriptionsVars, SubscriptionsInv, SubscriptionsTypeOK,
              CurrentPlanIsSubscribed, CheckedTenantsExist, Existing, Of, Request
<1>2. SubscriptionsInv /\ [SubscriptionsNext]_subscriptionsVars => SubscriptionsInv'
  BY <1>1, StepsOfActors, BeginningKeepsInv, ProceedingKeepsInv
<1>3. QED
  BY <1>2, SubscriptionsInitially, PTL DEF SubscriptionsSpec

(* The tables keep their types and their foreign keys: a plan that is referred   *)
(* to, by a subscription or as a tenant's current plan, is never deleted.         *)
THEOREM SubscriptionsTypeCorrect == SubscriptionsSpec => []SubscriptionsTypeOK
<1>1. SubscriptionsInv => SubscriptionsTypeOK
  BY DEF SubscriptionsInv
<1>2. QED
  BY <1>1, SubscriptionsInductive, PTL

(* The plan a tenant is served under is the plan of one of its subscriptions,     *)
(* for any number of platform users and visitors at work at the same time.        *)
THEOREM TenantsAreServedAsSubscribed == SubscriptionsSpec => []CurrentPlanIsSubscribed
<1>1. SubscriptionsInv => CurrentPlanIsSubscribed
  BY DEF SubscriptionsInv
<1>2. QED
  BY <1>1, SubscriptionsInductive, PTL

----------------------------------------------------------------------------
(* How many live subscriptions a tenant has *)

(* Only platform users create and update subscriptions.                          *)
StaffWrite == \A v \in Visitors : request[v].at \in {"idle", "signs up"}

(* The update actor a has ready leaves subscription i live.                       *)
Reopens(a, i) == request[a].at = "updates" /\ request[a].i = i /\ request[a].status \in LiveStatuses

(* A tenant's subscriptions that are live or may be again without being renewed,   *)
(* and the users about to create one for it.                                     *)
Opened(t) == {i \in Of(t) : /\ ~subscription[i].renewed
                            /\ IsLive(i) \/ \E a \in Actors : Reopens(a, i)}
Creating(t) == {a \in Actors : request[a].at = "creates" /\ request[a].t = t}

RoomForAll ==
  \A t \in Tenants : Cardinality(Opened(t)) + Cardinality(Creating(t)) <= Cardinality(Staff)

StaffAtWork == Staff # {} /\ IsFiniteSet(Staff)

LiveInv == SubscriptionsInv /\ StaffWrite /\ RoomForAll

LEMMA StaffWriteKept ==
  ASSUME SubscriptionsInv, StaffWrite, SubscriptionsNext
  PROVE  StaffWrite'
<1>0. request \in [Staff \cup Visitors -> Request]
  BY DEF SubscriptionsInv, SubscriptionsTypeOK
<1> DEFINE Others(a) == \A b \in Actors \ {a} : request'[b] = request[b]
<1>1. ASSUME NEW a \in Actors, NEW r, Ask(a, r)
      PROVE  Others(a) /\ request'[a] = r
  BY <1>0, <1>1 DEF Ask, Actors
<1>2. ASSUME NEW a \in Staff, Others(a)
      PROVE  StaffWrite'
  BY <1>2, SubscriptionsAssumption DEF StaffWrite, Actors
<1>3. CASE UNCHANGED request
  BY <1>3 DEF StaffWrite
<1>4. ASSUME NEW a \in Staff, PlanStep(a) \/ TenantStep(a) \/ SubscriptionStep(a) \/ Onboards(a)
      PROVE  StaffWrite'
  <2>1. UNCHANGED request \/ \E r : Ask(a, r)
    BY <1>4
    DEF PlanStep, TenantStep, SubscriptionStep, Onboards, CreatesPlan, UpdatesPlan,
        CountsReferences, ArchivesPlan, DeletesPlan, CreatesTenant, ChangesTenantStatus,
        ChecksOnboarding, AsksSignUp, InsertsTenant, ChecksNewSubscription, CreatesSubscription,
        ReadsSubscription, UpdatesSubscription, Renews, ReadsTargetPlan, ChangesPlan
  <2>2. QED
    BY <1>1, <1>2, <1>3, <2>1 DEF Actors
<1>5. ASSUME NEW a \in Actors, RequestFails(a) \/ InsertsTenant(a) \/ ChecksSubscribing(a)
      PROVE  StaffWrite'
  <2>1. Others(a) /\ request'[a].at \in {"idle", "signs up"}
    <3>1. CASE RequestFails(a) \/ InsertsTenant(a)
      <4>1. Ask(a, Idle)
        BY <3>1 DEF RequestFails, InsertsTenant
      <4>2. Others(a) /\ request'[a] = Idle
        BY <1>1, <4>1
      <4>3. QED
        BY <4>2 DEF Idle
    <3>2. CASE ChecksSubscribing(a)
      <4>1. PICK t, p, status : Ask(a, [at |-> "signs up", t |-> t, p |-> p, status |-> status])
        BY <3>2 DEF ChecksSubscribing, AsksSignUp
      <4> DEFINE r == [at |-> "signs up", t |-> t, p |-> p, status |-> status]
      <4>2. Ask(a, r) /\ r.at = "signs up"
        BY <4>1
      <4> HIDE DEF r
      <4>3. Others(a) /\ request'[a] = r
        BY <1>1, <4>2
      <4>4. QED
        BY <4>2, <4>3
    <3>3. QED
      BY <1>5, <3>1, <3>2
  <2>2. QED
    BY <2>1 DEF StaffWrite, Actors
<1>6. QED
  BY <1>4, <1>5 DEF SubscriptionsNext, Subscribes, Actors

(* The tables of a step, in terms of what is counted.                             *)
LEMMA CountedAreFinite ==
  ASSUME SubscriptionsInv, StaffWrite, IsFiniteSet(Staff), NEW t
  PROVE  /\ IsFiniteSet(Opened(t)) /\ IsFiniteSet(Creating(t))
         /\ Creating(t) \subseteq Staff
<1>1. Opened(t) \subseteq 1..Len(subscription)
  BY DEF Opened, Of, SubscriptionsInv, SubscriptionsTypeOK
<1>2. Len(subscription) \in Nat
  BY DEF SubscriptionsInv, SubscriptionsTypeOK
<1>3. IsFiniteSet(1..Len(subscription))
  BY <1>2, FS_Interval
<1>4. IsFiniteSet(Opened(t))
  BY <1>1, <1>3, FS_Subset
<1>5. Creating(t) \subseteq Staff
  BY DEF Creating, StaffWrite, Actors
<1>6. QED
  BY <1>4, <1>5, FS_Subset

LEMMA FewerFit ==
  ASSUME LiveInv, IsFiniteSet(Staff), NEW t \in Tenants,
         Opened(t)' \subseteq Opened(t), Creating(t)' \subseteq Creating(t)
  PROVE  Cardinality(Opened(t)') + Cardinality(Creating(t)') <= Cardinality(Staff)
<1>1. IsFiniteSet(Opened(t)) /\ IsFiniteSet(Creating(t))
  BY CountedAreFinite DEF LiveInv
<1>2. /\ IsFiniteSet(Opened(t)') /\ Cardinality(Opened(t)') <= Cardinality(Opened(t))
  BY <1>1, FS_Subset
<1>3. /\ IsFiniteSet(Creating(t)') /\ Cardinality(Creating(t)') <= Cardinality(Creating(t))
  BY <1>1, FS_Subset
<1>4. /\ Cardinality(Opened(t)) \in Nat /\ Cardinality(Creating(t)) \in Nat
      /\ Cardinality(Opened(t)') \in Nat /\ Cardinality(Creating(t)') \in Nat
      /\ Cardinality(Staff) \in Nat
  BY <1>1, <1>2, <1>3, FS_CardinalityType
<1>5. Cardinality(Opened(t)) + Cardinality(Creating(t)) <= Cardinality(Staff)
  BY DEF LiveInv, RoomForAll
<1>6. QED
  BY <1>2, <1>3, <1>4, <1>5

(* A step after which no more can be live than before.                            *)
LEMMA NothingOpens ==
  ASSUME LiveInv, IsFiniteSet(Staff),
         DOMAIN subscription' = DOMAIN subscription,
         \A i \in DOMAIN subscription :
           /\ subscription'[i].tenant = subscription[i].tenant
           /\ ~subscription'[i].renewed =>
                /\ ~subscription[i].renewed
                /\ (IsLive(i)' \/ \E a \in Actors : Reopens(a, i)') =>
                     (IsLive(i) \/ \E a \in Actors : Reopens(a, i)),
         \A a \in Actors : request'[a].at = "creates" => request'[a] = request[a]
  PROVE  RoomForAll'
<1>1. SUFFICES ASSUME NEW t \in Tenants
               PROVE  Cardinality(Opened(t)') + Cardinality(Creating(t)') <= Cardinality(Staff)
  BY DEF RoomForAll
<1>2. Creating(t)' \subseteq Creating(t)
  BY DEF Creating
<1>3. Of(t)' = Of(t)
  BY DEF Of
<1>4. Opened(t)' \subseteq Opened(t)
  <2>1. ASSUME NEW i \in Opened(t)'
        PROVE  i \in Opened(t)
    <3>1. /\ i \in Of(t) /\ i \in DOMAIN subscription /\ ~subscription'[i].renewed
          /\ IsLive(i)' \/ \E a \in Actors : Reopens(a, i)'
      BY <1>3, <2>1 DEF Opened, Of
    <3>2. QED
      BY <3>1 DEF Opened
  <2>2. QED
    BY <2>1
<1>5. QED
  BY <1>2, <1>4, FewerFit

(* The same, for a step that only answers or asks.                                *)
LEMMA TableStands ==
  ASSUME LiveInv, IsFiniteSet(Staff), UNCHANGED subscription,
         NEW a \in Actors,
         UNCHANGED request \/ \E r : Ask(a, r) /\ r.at \notin {"creates", "updates"}
  PROVE  RoomForAll'
<1>1. request \in [Actors -> Request]
  BY DEF LiveInv, SubscriptionsInv, SubscriptionsTypeOK, Actors
<1>2. \A b \in Actors : request'[b] = request[b] \/ request'[b].at \notin {"creates", "updates"}
  BY <1>1 DEF Ask
<1>3. \A b \in Actors : \A i : Reopens(b, i)' => Reopens(b, i)
  BY <1>2 DEF Reopens
<1>4. \A i : IsLive(i)' = IsLive(i)
  BY DEF IsLive
<1>5. QED
  BY <1>2, <1>3, <1>4, NothingOpens

(* A new row, written by a: it is the only one that may be live now and was not,   *)
(* and a creates nothing any more.                                              *)
LEMMA AppendOpens ==
  ASSUME SubscriptionsInv, NEW a \in Actors, NEW r \in SubscriptionRow,
         subscription' = Append(subscription, r), Ask(a, Idle), NEW u
  PROVE  /\ Opened(u)' \subseteq
              Opened(u) \cup (IF u = r.tenant THEN {Len(subscription) + 1} ELSE {})
         /\ Creating(u)' \subseteq Creating(u) \ {a}
<1> DEFINE last == Len(subscription) + 1
<1>0. subscription \in Seq(SubscriptionRow) /\ request \in [Actors -> Request]
  BY DEF SubscriptionsInv, SubscriptionsTypeOK, Actors
<1>1. /\ subscription' \in Seq(SubscriptionRow)
      /\ DOMAIN subscription' = DOMAIN subscription \cup {last}
      /\ \A i \in DOMAIN subscription : subscription'[i] = subscription[i]
      /\ subscription'[last] = r
  BY <1>0, Appended
<1> HIDE DEF last
<1>2. request'[a] = Idle /\ \A b \in Actors : request'[b] \in {request[b], Idle}
  BY <1>0 DEF Ask
<1>3. Idle.at = "idle"
  BY DEF Idle
<1>4. Creating(u)' \subseteq Creating(u) \ {a}
  BY <1>2, <1>3 DEF Creating
<1>5. \A b \in Actors : \A i : Reopens(b, i)' => Reopens(b, i)
  BY <1>2, <1>3 DEF Reopens
<1>6. \A i \in DOMAIN subscription : IsLive(i)' = IsLive(i)
  BY <1>1 DEF IsLive
<1>7. \A i \in Opened(u)' : i \in Opened(u) \/ (i = last /\ u = r.tenant)
  BY <1>1, <1>5, <1>6 DEF Opened, Of
<1>8. QED
  BY <1>4, <1>7 DEF last

(* What a finite set may gain, and what it gives up.                               *)
LEMMA GainsOne ==
  ASSUME NEW S, IsFiniteSet(S), NEW x, NEW S1 \in SUBSET (S \cup {x})
  PROVE  Cardinality(S1) \in Nat /\ Cardinality(S1) <= Cardinality(S) + 1
<1>1. Cardinality(S) \in Nat
  BY FS_CardinalityType
<1>2. /\ IsFiniteSet(S \cup {x})
      /\ Cardinality(S \cup {x}) = IF x \in S THEN Cardinality(S) ELSE Cardinality(S) + 1
  BY FS_AddElement
<1>3. IsFiniteSet(S1) /\ Cardinality(S1) <= Cardinality(S \cup {x})
  BY <1>2, FS_Subset
<1>4. Cardinality(S1) \in Nat
  BY <1>3, FS_CardinalityType
<1>5. QED
  BY <1>1, <1>2, <1>3, <1>4

LEMMA LosesOne ==
  ASSUME NEW C, IsFiniteSet(C), NEW a \in C, NEW C1 \in SUBSET (C \ {a})
  PROVE  Cardinality(C1) \in Nat /\ Cardinality(C1) + 1 <= Cardinality(C)
<1>1. Cardinality(C) \in Nat
  BY FS_CardinalityType
<1>2. IsFiniteSet(C \ {a}) /\ Cardinality(C \ {a}) = Cardinality(C) - 1
  BY FS_RemoveElement
<1>3. IsFiniteSet(C1) /\ Cardinality(C1) <= Cardinality(C \ {a})
  BY <1>2, FS_Subset
<1>4. Cardinality(C1) \in Nat
  BY <1>3, FS_CardinalityType
<1>5. QED
  BY <1>1, <1>2, <1>3, <1>4

LEMMA SharesFit ==
  ASSUME NEW s \in Nat, NEW c \in Nat, NEW n \in Nat, NEW d, d = n - c, s <= d
  PROVE  s + c <= n
OBVIOUS

LEMMA CreatingKeepsRoom ==
  ASSUME LiveInv, IsFiniteSet(Staff), NEW a \in Actors, CreatesSubscription(a)
  PROVE  RoomForAll'
<1> DEFINE r == request[a]
           new == SubscriptionOf(r.t, r.p, r.status)
<1>1. SubscriptionsInv /\ StaffWrite /\ RoomForAll
  BY DEF LiveInv
<1>2. r \in Request
  BY <1>1 DEF SubscriptionsInv, SubscriptionsTypeOK, Actors
<1>3. r.t \in Tenants /\ r.p \in Plans /\ r.status \in SubscriptionStatuses
  BY <1>2, RequestFields DEF CreatesSubscription
<1>4. new \in SubscriptionRow /\ new.tenant = r.t
  BY <1>3 DEF SubscriptionOf, SubscriptionRow
<1>5. subscription' = Append(subscription, new) /\ Ask(a, Idle)
  BY DEF CreatesSubscription
<1>6. a \in Creating(r.t)
  BY DEF Creating, CreatesSubscription
<1> HIDE DEF new
<1>7. SUFFICES ASSUME NEW t \in Tenants
               PROVE  Cardinality(Opened(t)') + Cardinality(Creating(t)') <= Cardinality(Staff)
  BY DEF RoomForAll
<1>8. /\ Opened(t)' \subseteq
            Opened(t) \cup (IF t = new.tenant THEN {Len(subscription) + 1} ELSE {})
      /\ Creating(t)' \subseteq Creating(t) \ {a}
  BY <1>1, <1>4, <1>5, AppendOpens
<1>9. CASE t = r.t
  <2>1. IsFiniteSet(Opened(t)) /\ IsFiniteSet(Creating(t))
    BY <1>1, CountedAreFinite
  <2>2. Cardinality(Staff) \in Nat
    BY FS_CardinalityType
  <2>3. Cardinality(Opened(t)) + Cardinality(Creating(t)) <= Cardinality(Staff)
    BY <1>1 DEF RoomForAll
  <2>4. /\ a \in Creating(t) /\ Creating(t)' \subseteq Creating(t) \ {a}
        /\ Opened(t)' \subseteq Opened(t) \cup {Len(subscription) + 1}
    BY <1>4, <1>6, <1>8, <1>9
  <2> DEFINE S == Opened(t)
             S1 == Opened(t)'
             C == Creating(t)
             C1 == Creating(t)'
             last == Len(subscription) + 1
  <2>5. /\ IsFiniteSet(S) /\ IsFiniteSet(C) /\ a \in C
        /\ S1 \in SUBSET (S \cup {last}) /\ C1 \in SUBSET (C \ {a})
    BY <2>1, <2>4
  <2>6. Cardinality(S) \in Nat /\ Cardinality(C) \in Nat
    BY <2>1, FS_CardinalityType
  <2> HIDE DEF S, S1, C, C1, last
  <2>7. Cardinality(S1) \in Nat /\ Cardinality(S1) <= Cardinality(S) + 1
    BY <2>5, GainsOne
  <2>8. Cardinality(C1) \in Nat /\ Cardinality(C1) + 1 <= Cardinality(C)
    BY <2>5, LosesOne
  <2>9. QED
    BY <2>2, <2>3, <2>6, <2>7, <2>8 DEF S, S1, C, C1
<1>10. CASE t # r.t
  BY <1>4, <1>8, <1>10, FewerFit
<1>11. QED
  BY <1>9, <1>10

(* A tenant that is inserted has no subscription yet, and nobody creates one.       *)
LEMMA InsertingKeepsRoom ==
  ASSUME LiveInv, StaffAtWork, NEW a \in Actors, InsertsTenant(a)
  PROVE  RoomForAll'
<1> DEFINE r == request[a]
           new == SubscriptionOf(r.t, r.p, r.status)
<1>0. IsFiniteSet(Staff) /\ Staff # {}
  BY DEF StaffAtWork
<1>1. SubscriptionsInv /\ StaffWrite /\ RoomForAll
  BY DEF LiveInv
<1>2. r \in Request
  BY <1>1 DEF SubscriptionsInv, SubscriptionsTypeOK, Actors
<1>3. r.t \in Tenants /\ r.p \in Plans /\ r.status \in SubscriptionStatuses
  BY <1>2, RequestFields DEF InsertsTenant
<1>4. new \in SubscriptionRow /\ new.tenant = r.t
  BY <1>3 DEF SubscriptionOf, SubscriptionRow
<1>5. subscription' = Append(subscription, new) /\ Ask(a, Idle)
  BY DEF InsertsTenant
<1>6. Of(r.t) = {} /\ Creating(r.t) = {}
  BY <1>1 DEF InsertsTenant, Of, Creating, SubscriptionsInv, SubscriptionsTypeOK, CheckedTenantsExist
<1> HIDE DEF new
<1>7. SUFFICES ASSUME NEW t \in Tenants
               PROVE  Cardinality(Opened(t)') + Cardinality(Creating(t)') <= Cardinality(Staff)
  BY DEF RoomForAll
<1>8. /\ Opened(t)' \subseteq
            Opened(t) \cup (IF t = new.tenant THEN {Len(subscription) + 1} ELSE {})
      /\ Creating(t)' \subseteq Creating(t) \ {a}
  BY <1>1, <1>4, <1>5, AppendOpens
<1>9. CASE t = r.t
  <2>1. Opened(t)' \subseteq {Len(subscription) + 1} /\ Creating(t)' = {}
    BY <1>4, <1>6, <1>8, <1>9 DEF Opened
  <2>2. IsFiniteSet({Len(subscription) + 1}) /\ Cardinality({Len(subscription) + 1}) = 1
    BY FS_Singleton
  <2>3. IsFiniteSet(Opened(t)') /\ Cardinality(Opened(t)') <= 1
    BY <2>1, <2>2, FS_Subset
  <2>4. Cardinality(Creating(t)') = 0
    BY <2>1, FS_EmptySet
  <2>5. Cardinality(Staff) \in Nat /\ Cardinality(Staff) # 0
    BY <1>0, FS_CardinalityType, FS_EmptySet
  <2>6. Cardinality(Opened(t)') \in Nat
    BY <2>3, FS_CardinalityType
  <2>7. QED
    BY <2>3, <2>4, <2>5, <2>6
<1>10. CASE t # r.t
  BY <1>0, <1>4, <1>8, <1>10, FewerFit
<1>11. QED
  BY <1>9, <1>10

(* The user that checks a tenant without a live subscription: whatever may be live  *)
(* again is brought back by an update of its own, and none of those updates is     *)
(* made by a user that creates.                                                  *)
LEMMA CheckingKeepsRoom ==
  ASSUME LiveInv, IsFiniteSet(Staff), NEW a \in Actors, ChecksNewSubscription(a), StaffWrite'
  PROVE  RoomForAll'
<1>1. SubscriptionsInv /\ StaffWrite /\ RoomForAll
  BY DEF LiveInv
<1>2. request \in [Actors -> Request]
  BY <1>1 DEF SubscriptionsInv, SubscriptionsTypeOK, Actors
<1>3. PICK t0 \in Tenants : /\ LiveOf(t0) = {} /\ request'[a].at = "creates" /\ request'[a].t = t0
                           /\ \A b \in Actors \ {a} : request'[b] = request[b]
  BY <1>2 DEF ChecksNewSubscription, Ask
<1>4. request[a].at = "idle" /\ UNCHANGED subscription
  BY DEF ChecksNewSubscription
<1>5. a \in Staff
  BY <1>3 DEF StaffWrite, Actors
<1>6. \A b \in Actors : \A i : Reopens(b, i)' => Reopens(b, i) /\ b # a
  BY <1>3, <1>4 DEF Reopens
<1>7. \A i : IsLive(i)' = IsLive(i)
  BY <1>4 DEF IsLive
<1>8. \A t : Opened(t)' \subseteq Opened(t)
  BY <1>4, <1>6, <1>7 DEF Opened, Of
<1>9. SUFFICES ASSUME NEW t \in Tenants
               PROVE  Cardinality(Opened(t)') + Cardinality(Creating(t)') <= Cardinality(Staff)
  BY DEF RoomForAll
<1>10. CASE t # t0
  <2>1. Creating(t)' \subseteq Creating(t)
    BY <1>3, <1>10 DEF Creating
  <2>2. QED
    BY <1>8, <2>1, FewerFit
<1>11. CASE t = t0
  <2> DEFINE S == Opened(t)'
             C == Creating(t)'
             f == [i \in S |-> CHOOSE b \in Actors : Reopens(b, i)]
  <2>1. \A i \in S : \E b \in Actors : Reopens(b, i)
    BY <1>3, <1>8, <1>11 DEF Opened, LiveOf
  <2>2. \A i \in S : f[i] \in Actors /\ Reopens(f[i], i)
    BY <2>1
  <2>3. C \subseteq Staff
    BY DEF Creating, StaffWrite, Actors
  <2>4. \A i \in S : f[i] \in Staff \ C
    <3>1. \A b \in Actors : \A i : Reopens(b, i) => b \in Staff \ C
      BY <1>1, <1>3, <1>4 DEF Reopens, Creating, StaffWrite, Actors
    <3>2. QED
      BY <2>2, <3>1
  <2>5. \A i, j \in S : f[i] = f[j] => i = j
    BY <2>2 DEF Reopens
  <2> HIDE DEF S, C
  <2>6. f \in Injection(S, Staff \ C)
    BY <2>4, <2>5 DEF Injection, IsInjective
  <2>7. /\ IsFiniteSet(Staff \ C)
        /\ Cardinality(Staff \ C) = Cardinality(Staff) - Cardinality(Staff \cap C)
    BY FS_Difference
  <2>8. Staff \cap C = C
    BY <2>3
  <2>9. IsFiniteSet(C) /\ Cardinality(C) \in Nat /\ Cardinality(Staff) \in Nat
    BY <2>3, FS_Subset, FS_CardinalityType
  <2> HIDE DEF f
  <2>10. IsFiniteSet(S) /\ Cardinality(S) <= Cardinality(Staff \ C)
    BY <2>6, <2>7, FS_Injection
  <2>11. Cardinality(S) \in Nat
    BY <2>10, FS_CardinalityType
  <2>12. Cardinality(S) + Cardinality(C) <= Cardinality(Staff)
    BY <2>7, <2>8, <2>9, <2>10, <2>11, SharesFit
  <2>13. QED
    BY <2>12 DEF S, C
<1>12. QED
  BY <1>10, <1>11

(* The steps that write a row in place.                                           *)
LEMMA WritingKeepsRoom ==
  ASSUME LiveInv, IsFiniteSet(Staff), NEW a \in Actors,
         UpdatesSubscription(a) \/ Renews(a) \/ ChangesPlan(a)
  PROVE  RoomForAll'
<1>1. /\ SubscriptionsInv /\ subscription \in Seq(SubscriptionRow)
      /\ request \in [Actors -> Request]
  BY DEF LiveInv, SubscriptionsInv, SubscriptionsTypeOK, Actors
<1>2. \A i \in DOMAIN subscription : subscription[i] \in SubscriptionRow
  BY <1>1
<1>3. \A b \in Actors : request'[b] = request[b] \/ request'[b] = Idle
  BY <1>1 DEF UpdatesSubscription, Renews, ChangesPlan, Ask
<1>4. Idle.at = "idle"
  BY DEF Idle
<1>5. \A b \in Actors : \A i : Reopens(b, i)' => Reopens(b, i)
  BY <1>3, <1>4 DEF Reopens
<1>6. \A b \in Actors : request'[b].at = "creates" => request'[b] = request[b]
  BY <1>3, <1>4
<1>7. CASE UpdatesSubscription(a)
  <2> DEFINE r == request[a]
  <2>1. r \in Request
    BY <1>1
  <2>2. r.i \in DOMAIN subscription
    BY <1>7, <2>1, RequestFields DEF UpdatesSubscription
  <2>3. subscription' = [subscription EXCEPT ![r.i].status = r.status]
    BY <1>7 DEF UpdatesSubscription
  <2>4. /\ DOMAIN subscription' = DOMAIN subscription
        /\ \A i \in DOMAIN subscription :
             /\ subscription'[i].tenant = subscription[i].tenant
             /\ subscription'[i].renewed = subscription[i].renewed
             /\ subscription'[i].status = IF i = r.i THEN r.status ELSE subscription[i].status
    BY <1>1, <1>2, <2>2, <2>3 DEF SubscriptionRow
  <2>5. \A i \in DOMAIN subscription : IsLive(i)' => IsLive(i) \/ Reopens(a, i)
    BY <1>7, <2>4 DEF IsLive, Reopens, UpdatesSubscription
  <2>6. QED
    BY <1>5, <1>6, <2>4, <2>5, NothingOpens
<1>8. CASE Renews(a) \/ ChangesPlan(a)
  <2>1. PICK i \in DOMAIN subscription : \E status, p :
          subscription' = [subscription EXCEPT ![i].status = status, ![i].plan = p,
                                               ![i].renewed = TRUE]
    <3>1. CASE Renews(a)
      <4>1. PICK i \in DOMAIN subscription :
              subscription' = [subscription EXCEPT ![i].status = "ACTIVE", ![i].renewed = TRUE]
        BY <3>1 DEF Renews
      <4>2. subscription' = [subscription EXCEPT ![i].status = "ACTIVE",
                               ![i].plan = subscription[i].plan, ![i].renewed = TRUE]
        BY <1>1, <1>2, <4>1 DEF SubscriptionRow
      <4>3. QED
        BY <4>2
    <3>2. CASE ChangesPlan(a)
      <4> DEFINE i == request[a].i
      <4>1. i \in DOMAIN subscription
        BY <1>1, <3>2, RequestFields DEF ChangesPlan
      <4>2. subscription' = [subscription EXCEPT ![i].plan = request[a].p, ![i].renewed = TRUE]
        BY <3>2 DEF ChangesPlan
      <4>3. subscription' = [subscription EXCEPT ![i].status = subscription[i].status,
                               ![i].plan = request[a].p, ![i].renewed = TRUE]
        BY <1>1, <1>2, <4>1, <4>2 DEF SubscriptionRow
      <4>4. QED
        BY <4>1, <4>3
    <3>3. QED
      BY <1>8, <3>1, <3>2
  <2>2. /\ DOMAIN subscription' = DOMAIN subscription
        /\ \A j \in DOMAIN subscription :
             /\ subscription'[j].tenant = subscription[j].tenant
             /\ j # i => subscription'[j] = subscription[j]
             /\ j = i => subscription'[j].renewed = TRUE
    BY <1>1, <1>2, <2>1 DEF SubscriptionRow
  <2>3. \A j \in DOMAIN subscription : j # i => IsLive(j)' = IsLive(j)
    BY <2>2 DEF IsLive
  <2>4. QED
    BY <1>5, <1>6, <2>2, <2>3, NothingOpens
<1>9. QED
  BY <1>7, <1>8

(* An update is only ever prepared to leave a subscription live when it is.          *)
LEMMA ReadingKeepsRoom ==
  ASSUME LiveInv, IsFiniteSet(Staff), NEW a \in Actors, ReadsSubscription(a)
  PROVE  RoomForAll'
<1>1. /\ subscription \in Seq(SubscriptionRow) /\ request \in [Actors -> Request]
  BY DEF LiveInv, SubscriptionsInv, SubscriptionsTypeOK, Actors
<1>2. PICK i \in DOMAIN subscription, status \in SubscriptionStatuses :
        /\ TransitionAllowed(subscription[i].status, status)
        /\ Ask(a, [at |-> "updates", i |-> i, status |-> status])
  BY DEF ReadsSubscription
<1>3. subscription[i].status \in SubscriptionStatuses
  <2>1. subscription[i] \in SubscriptionRow
    BY <1>1
  <2>2. QED
    BY <2>1 DEF SubscriptionRow
<1>4. status \in LiveStatuses => IsLive(i)
  BY <1>2, <1>3
  DEF TransitionAllowed, ALLOWED_STATUS_TRANSITIONS, LiveStatuses, SubscriptionStatuses, IsLive
<1>5. /\ request'[a] = [at |-> "updates", i |-> i, status |-> status]
      /\ \A b \in Actors \ {a} : request'[b] = request[b]
  BY <1>1, <1>2 DEF Ask
<1>6. \A b \in Actors : \A j : Reopens(b, j)' => IsLive(j) \/ Reopens(b, j)
  BY <1>4, <1>5 DEF Reopens
<1>7. UNCHANGED subscription /\ \A j : IsLive(j)' = IsLive(j)
  BY DEF ReadsSubscription, IsLive
<1>8. \A b \in Actors : request'[b].at = "creates" => request'[b] = request[b]
  BY <1>5
<1>9. QED
  BY <1>6, <1>7, <1>8, NothingOpens

LEMMA StepKeepsRoom ==
  ASSUME LiveInv, StaffAtWork, NEW a \in Actors, Begins(a) \/ Proceeds(a), StaffWrite'
  PROVE  RoomForAll'
<1>0. IsFiniteSet(Staff)
  BY DEF StaffAtWork
<1>1. CASE \/ CreatesPlan(a) \/ UpdatesPlan(a) \/ CountsReferences(a) \/ CreatesTenant(a)
           \/ ChangesTenantStatus(a) \/ ChecksOnboarding(a) \/ ChecksSubscribing(a)
           \/ ReadsTargetPlan(a) \/ ArchivesPlan(a) \/ DeletesPlan(a) \/ RequestFails(a)
  <2>1. UNCHANGED subscription
    BY <1>1 DEF CreatesPlan, UpdatesPlan, CountsReferences, CreatesTenant, ChangesTenantStatus,
                ChecksOnboarding, ChecksSubscribing, AsksSignUp, ReadsTargetPlan, ArchivesPlan,
                DeletesPlan, RequestFails
  <2>2. UNCHANGED request \/ \E r : Ask(a, r) /\ r.at \notin {"creates", "updates"}
    <3>1. CASE CreatesPlan(a) \/ UpdatesPlan(a) \/ CreatesTenant(a) \/ ChangesTenantStatus(a)
      BY <3>1 DEF CreatesPlan, UpdatesPlan, CreatesTenant, ChangesTenantStatus
    <3>2. CASE CountsReferences(a)
      BY <3>2 DEF CountsReferences
    <3>3. CASE ChecksOnboarding(a) \/ ChecksSubscribing(a)
      <4>1. PICK t, p, status : Ask(a, [at |-> "signs up", t |-> t, p |-> p, status |-> status])
        BY <3>3 DEF ChecksOnboarding, ChecksSubscribing, AsksSignUp
      <4> DEFINE r == [at |-> "signs up", t |-> t, p |-> p, status |-> status]
      <4>2. r.at = "signs up" /\ Ask(a, r)
        BY <4>1
      <4> HIDE DEF r
      <4>3. QED
        BY <4>2
    <3>4. CASE ReadsTargetPlan(a)
      <4>1. PICK i, p : Ask(a, [at |-> "changes", i |-> i, p |-> p])
        BY <3>4 DEF ReadsTargetPlan
      <4> DEFINE r == [at |-> "changes", i |-> i, p |-> p]
      <4>2. r.at = "changes" /\ Ask(a, r)
        BY <4>1
      <4> HIDE DEF r
      <4>3. QED
        BY <4>2
    <3>5. CASE ArchivesPlan(a) \/ DeletesPlan(a) \/ RequestFails(a)
      <4>1. Ask(a, Idle) /\ Idle.at = "idle"
        BY <3>5 DEF ArchivesPlan, DeletesPlan, RequestFails, Idle
      <4>2. QED
        BY <4>1
    <3>6. QED
      BY <1>1, <3>1, <3>2, <3>3, <3>4, <3>5
  <2>3. QED
    BY <1>0, <2>1, <2>2, TableStands
<1>2. QED
  BY <1>0, <1>1, ReadingKeepsRoom, WritingKeepsRoom, CheckingKeepsRoom, InsertingKeepsRoom,
     CreatingKeepsRoom DEF Begins, Proceeds

(* create refuses a tenant that has a live subscription, and still overlapping      *)
(* requests add to them: a tenant has at most one live subscription per platform    *)
(* user at work that was never renewed, however many visitors sign up meanwhile.     *)
THEOREM LiveSubscriptionsStayFew ==
  ASSUME StaffAtWork
  PROVE  SubscriptionsSpec => []LiveSubscriptionsBounded
<1>0. IsFiniteSet(Staff)
  BY DEF StaffAtWork
<1>1. SubscriptionsInit => LiveInv
  <2>1. SUFFICES ASSUME SubscriptionsInit
                 PROVE  LiveInv
    OBVIOUS
  <2>a. \A b \in Actors : request[b] = Idle
    BY <2>1 DEF SubscriptionsInit, Actors
  <2>b. \A b \in Actors : request[b].at = "idle"
    BY <2>a DEF Idle
  <2>2. StaffWrite
    BY <2>b DEF StaffWrite, Actors
  <2>c. DOMAIN subscription = {}
    BY <2>1 DEF SubscriptionsInit
  <2>3. \A t \in Tenants : Opened(t) = {} /\ Creating(t) = {}
    BY <2>b, <2>c DEF Opened, Of, Creating
  <2>4. Cardinality({}) = 0 /\ Cardinality(Staff) \in Nat
    BY <1>0, FS_EmptySet, FS_CardinalityType
  <2>5. QED
    BY <2>1, <2>2, <2>3, <2>4, SubscriptionsInitially DEF LiveInv, RoomForAll
<1>2. LiveInv /\ SubscriptionsInv' /\ [SubscriptionsNext]_subscriptionsVars => LiveInv'
  <2>1. SUFFICES ASSUME LiveInv, SubscriptionsInv', [SubscriptionsNext]_subscriptionsVars
                 PROVE  LiveInv'
    OBVIOUS
  <2>2. CASE SubscriptionsNext
    <3>1. StaffWrite'
      BY <2>1, <2>2, StaffWriteKept DEF LiveInv
    <3>2. RoomForAll'
      BY <2>1, <2>2, <3>1, StepsOfActors, StepKeepsRoom
    <3>3. QED
      BY <2>1, <3>1, <3>2 DEF LiveInv
  <2>3. CASE UNCHANGED subscriptionsVars
    BY <2>1, <2>3 DEF subscriptionsVars, LiveInv, StaffWrite, RoomForAll, Opened, Of, IsLive,
                      Creating, Reopens
  <2>4. QED
    BY <2>1, <2>2, <2>3
<1>3. LiveInv => LiveSubscriptionsBounded
  <2>1. SUFFICES ASSUME LiveInv, NEW t \in Tenants
                 PROVE  Cardinality({i \in Of(t) : IsLive(i) /\ ~subscription[i].renewed})
                          <= Cardinality(Staff)
    BY DEF LiveSubscriptionsBounded
  <2> DEFINE S == {i \in Of(t) : IsLive(i) /\ ~subscription[i].renewed}
  <2>2. S \subseteq Opened(t)
    BY DEF Opened
  <2>3. IsFiniteSet(Opened(t)) /\ IsFiniteSet(Creating(t))
    BY <1>0, <2>1, CountedAreFinite DEF LiveInv
  <2> HIDE DEF S
  <2>4. IsFiniteSet(S) /\ Cardinality(S) <= Cardinality(Opened(t))
    BY <2>2, <2>3, FS_Subset
  <2>5. /\ Cardinality(S) \in Nat /\ Cardinality(Opened(t)) \in Nat
        /\ Cardinality(Creating(t)) \in Nat /\ Cardinality(Staff) \in Nat
    BY <1>0, <2>3, <2>4, FS_CardinalityType
  <2>6. Cardinality(Opened(t)) + Cardinality(Creating(t)) <= Cardinality(Staff)
    BY <2>1 DEF LiveInv, RoomForAll
  <2>7. Cardinality(S) <= Cardinality(Staff)
    BY <2>4, <2>5, <2>6
  <2>8. QED
    BY <2>7 DEF S
<1>4. QED
  BY <1>1, <1>2, <1>3, SubscriptionsInductive, PTL DEF SubscriptionsSpec

----------------------------------------------------------------------------
(* Parties *)

(* A wallet that is there, was given up, or is being made.                     *)
Covered(m) ==
  \/ m \in wallet \cup lapsed
  \/ \E a \in Admins : task[a].at = "wallet" /\ task[a].m = m

(* ApprovedHasWallet is not inductive: a request that read APPROVED opens no    *)
(* wallet, and may approve a merchant that was rejected in between.  It rests    *)
(* on what the request saw, which stays covered.                              *)
SeenApprovedIsCovered ==
  \A a \in Admins :
    (task[a].at = "kyc" /\ task[a].read = "APPROVED") => Covered(task[a].m)

PartiesInv == PartiesTypeOK /\ ApprovedHasWallet /\ SeenApprovedIsCovered

----------------------------------------------------------------------------
(* Steps keep the types.                                                     *)
LEMMA PartiesTypeInductive ==
  ASSUME PartiesTypeOK, [PartiesNext]_partiesVars
  PROVE  PartiesTypeOK'
<1> USE DEF PartiesTypeOK, Task, Rest, Asks, MerchantsUnchanged, KycStatuses
<1>1. CASE UNCHANGED partiesVars
  BY <1>1 DEF partiesVars
<1>2. CASE PartiesNext
  <2> SUFFICES ASSUME NEW a \in Admins, MerchantStep(a) \/ CourierStep(a)
               PROVE  PartiesTypeOK'
    BY <1>2 DEF PartiesNext
  <2>1. CASE CreatesMerchant(a) BY <2>1 DEF CreatesMerchant
  <2>2. CASE ReadsKyc(a) BY <2>2 DEF ReadsKyc
  <2>3. CASE WritesKyc(a) BY <2>3 DEF WritesKyc
  <2>4. CASE CreatesWallet(a) BY <2>4 DEF CreatesWallet
  <2>5. CASE TaskDies(a) BY <2>5 DEF TaskDies
  <2>6. CASE ChecksCourier(a) BY <2>6 DEF ChecksCourier, ActiveAreas
  <2>7. CASE CreatesCourier(a) BY <2>7 DEF CreatesCourier
  <2>8. CASE UpdatesCourier(a)
    <3>1. UNCHANGED <<merchant, wallet, lapsed, area, task>>
      BY <2>8 DEF UpdatesCourier
    <3>2. PICK c \in Riders :
            \/ \E zones \in SUBSET Areas : courier' = [courier EXCEPT ![c].zones = zones]
            \/ courier' = [courier EXCEPT ![c].available = ~@]
            \/ courier' = [courier EXCEPT ![c].state = "removed"]
      BY <2>8 DEF UpdatesCourier
    <3>3. CASE \E zones \in SUBSET Areas : courier' = [courier EXCEPT ![c].zones = zones]
      BY <3>1, <3>3
    <3>4. CASE courier' = [courier EXCEPT ![c].available = ~@]
      <4> DEFINE available == ~courier[c].available
      <4>1. available \in BOOLEAN
        OBVIOUS
      <4>2. courier' = [courier EXCEPT ![c].available = available]
        BY <3>4
      <4> HIDE DEF available
      <4>3. QED BY <3>1, <4>1, <4>2
    <3>5. CASE courier' = [courier EXCEPT ![c].state = "removed"]
      BY <3>1, <3>5
    <3>6. QED BY <3>2, <3>3, <3>4, <3>5
  <2>9. CASE CreatesZone(a) BY <2>9 DEF CreatesZone, ActiveAreas
  <2>10. CASE UpdatesZone(a) BY <2>10 DEF UpdatesZone
  <2>11. CASE RemovesZoneFor(a) BY <2>11 DEF RemovesZoneFor, ActiveAreas
  <2>12. CASE LooksForZone(a) BY <2>12 DEF LooksForZone, ActiveAreas, Parents
  <2>13. QED
    BY <2>1, <2>2, <2>3, <2>4, <2>5, <2>6, <2>7, <2>8, <2>9, <2>10, <2>11, <2>12
    DEF MerchantStep, CourierStep
<1>3. QED BY <1>1, <1>2

(* A merchant once covered stays so: a wallet is never taken away, and a        *)
(* request that was to make one has made it or is on record as having died.     *)
LEMMA CoveredIsStable ==
  ASSUME PartiesTypeOK, [PartiesNext]_partiesVars, NEW m \in Shops, Covered(m)
  PROVE  Covered(m)'
<1> USE DEF PartiesTypeOK, Task, Rest, Asks, MerchantsUnchanged, Covered
<1>1. CASE UNCHANGED partiesVars
  BY <1>1 DEF partiesVars
<1>2. CASE PartiesNext
  <2> SUFFICES ASSUME NEW a \in Admins, MerchantStep(a) \/ CourierStep(a)
               PROVE  Covered(m)'
    BY <1>2 DEF PartiesNext
  <2>1. CASE CreatesMerchant(a) BY <2>1 DEF CreatesMerchant
  <2>2. CASE ReadsKyc(a) BY <2>2 DEF ReadsKyc
  <2>3. CASE WritesKyc(a) BY <2>3 DEF WritesKyc
  <2>4. CASE CreatesWallet(a) BY <2>4 DEF CreatesWallet
  <2>5. CASE TaskDies(a) BY <2>5 DEF TaskDies
  <2>6. CASE CourierStep(a)
    BY <2>5, <2>6 DEF CourierStep, ChecksCourier, CreatesCourier, UpdatesCourier,
       CreatesZone, LooksForZone, UpdatesZone, RemovesZoneFor
  <2>7. QED BY <2>1, <2>2, <2>3, <2>4, <2>5, <2>6 DEF MerchantStep
<1>3. QED BY <1>1, <1>2

(* The three together are inductive.                                         *)
LEMMA PartiesInductive == PartiesSpec => []PartiesInv
<1>1. PartiesInit => PartiesInv
  BY DEF PartiesInit, PartiesInv, PartiesTypeOK, Task, Rest, ApprovedHasWallet,
     SeenApprovedIsCovered
<1>2. PartiesInv /\ [PartiesNext]_partiesVars => PartiesInv'
  <2> SUFFICES ASSUME PartiesInv, [PartiesNext]_partiesVars PROVE PartiesInv'
    OBVIOUS
  <2>1. PartiesTypeOK /\ PartiesTypeOK'
    BY PartiesTypeInductive DEF PartiesInv
  <2>2. \A m \in Shops : Covered(m) => Covered(m)'
    BY <2>1, CoveredIsStable
  <2>3. \A m \in Shops : merchant[m] = "APPROVED" => Covered(m)
    BY DEF PartiesInv, ApprovedHasWallet, Covered
  <2>4. ASSUME NEW m \in Shops, merchant'[m] = "APPROVED" PROVE Covered(m)'
    <3>1. CASE merchant[m] = "APPROVED"
      BY <2>2, <2>3, <3>1
    <3>2. CASE merchant[m] # "APPROVED"
      <4>1. PICK a \in Admins : WritesKyc(a) /\ task[a].m = m /\ task[a].status = "APPROVED"
        <5>1. ASSUME NEW b \in Admins, CourierStep(b) PROVE FALSE
          <6>1. UNCHANGED merchant
            BY <5>1 DEF CourierStep, ChecksCourier, CreatesCourier, UpdatesCourier, CreatesZone,
               LooksForZone, UpdatesZone, RemovesZoneFor, TaskDies, MerchantsUnchanged
          <6>2. QED BY <2>4, <3>2, <6>1
        <5>2. PICK b \in Admins : MerchantStep(b)
          BY <2>1, <2>4, <3>2, <5>1 DEF PartiesNext, partiesVars
        <5>3. CASE WritesKyc(b)
          <6>1. /\ merchant' = [merchant EXCEPT ![task[b].m] = task[b].status]
                /\ merchant \in [Shops -> {"none"} \cup KycStatuses]
            BY <2>1, <5>3 DEF WritesKyc, PartiesTypeOK
          <6>2. task[b].m = m /\ task[b].status = "APPROVED"
            BY <2>4, <3>2, <6>1
          <6>3. QED BY <5>3, <6>2
        <5>4. CASE CreatesMerchant(b)
          BY <2>1, <2>4, <3>2, <5>4 DEF CreatesMerchant, PartiesTypeOK
        <5>5. CASE ReadsKyc(b) \/ CreatesWallet(b) \/ TaskDies(b)
          BY <2>4, <3>2, <5>5 DEF ReadsKyc, CreatesWallet, TaskDies, MerchantsUnchanged
        <5>6. QED BY <5>2, <5>3, <5>4, <5>5 DEF MerchantStep
      <4>2. CASE OpensWallet(task[a])
        BY <2>1, <4>1, <4>2 DEF WritesKyc, Asks, Covered, PartiesTypeOK
      <4>3. CASE ~OpensWallet(task[a])
        <5>1. Covered(m)
          BY <4>1, <4>3 DEF OpensWallet, WritesKyc, PartiesInv, SeenApprovedIsCovered
        <5>2. QED BY <2>2, <5>1
      <4>4. QED BY <4>2, <4>3
    <3>3. QED BY <3>1, <3>2
  <2>5. ASSUME NEW a \in Admins, task'[a].at = "kyc", task'[a].read = "APPROVED"
        PROVE  Covered(task[a].m)'
    <3>1. task'[a].m \in Shops
      BY <2>1, <2>5 DEF PartiesTypeOK, Task, Rest
    <3>2. CASE task'[a] = task[a]
      BY <2>2, <2>5, <3>1, <3>2 DEF PartiesInv, SeenApprovedIsCovered
    <3>3. CASE task'[a] # task[a]
      <4>1. merchant[task'[a].m] = "APPROVED"
        <5> USE DEF Asks, Rest
        <5>1. PICK b \in Admins : MerchantStep(b) \/ CourierStep(b)
          BY <3>3 DEF PartiesNext, partiesVars
        <5>2. task \in [Admins -> Task]
          BY <2>1 DEF PartiesTypeOK
        <5>3. CASE ReadsKyc(b)
          <6>1. PICK m \in Shops, status \in KycStatuses :
                  task' = [task EXCEPT ![b] =
                             [at |-> "kyc", m |-> m, status |-> status, read |-> merchant[m]]]
            BY <5>3 DEF ReadsKyc
          <6>2. b = a
            BY <3>3, <5>2, <6>1
          <6>3. task'[a].m = m /\ task'[a].read = merchant[m]
            BY <5>2, <6>1, <6>2
          <6>4. QED BY <2>5, <6>3
        <5>4. CASE CreatesMerchant(b) \/ WritesKyc(b) \/ CreatesWallet(b) \/ TaskDies(b)
          <6>1. CASE CreatesMerchant(b)
            BY <3>3, <6>1 DEF CreatesMerchant
          <6>2. CASE WritesKyc(b)
            <7>1. PICK t \in {[at |-> "wallet", m |-> task[b].m], [at |-> "idle"]} :
                    task' = [task EXCEPT ![b] = t]
              BY <6>2 DEF WritesKyc
            <7>2. QED BY <2>5, <3>3, <5>2, <7>1
          <6>3. CASE CreatesWallet(b) \/ TaskDies(b)
            BY <2>5, <3>3, <5>2, <6>3 DEF CreatesWallet, TaskDies
          <6>4. QED BY <5>4, <6>1, <6>2, <6>3
        <5>5. CASE CourierStep(b)
          <6>1. CASE UpdatesCourier(b) \/ CreatesZone(b) \/ RemovesZoneFor(b)
            BY <3>3, <6>1 DEF UpdatesCourier, CreatesZone, RemovesZoneFor
          <6>2. CASE ChecksCourier(b) \/ LooksForZone(b)
            BY <2>5, <3>3, <5>2, <6>2 DEF ChecksCourier, LooksForZone
          <6>3. CASE CreatesCourier(b) \/ UpdatesZone(b) \/ TaskDies(b)
            BY <2>5, <3>3, <5>2, <6>3 DEF CreatesCourier, UpdatesZone, TaskDies
          <6>4. QED BY <5>5, <6>1, <6>2, <6>3 DEF CourierStep
        <5>6. QED BY <5>1, <5>3, <5>4, <5>5 DEF MerchantStep
      <4>2. QED BY <2>2, <2>3, <3>1, <4>1
    <3>4. QED BY <3>2, <3>3
  <2>6. QED
    BY <2>1, <2>4, <2>5 DEF PartiesInv, ApprovedHasWallet, SeenApprovedIsCovered, Covered
<1>3. QED BY <1>1, <1>2, PTL DEF PartiesSpec

(* Merchants, wallets, couriers and zones keep their types.                   *)
THEOREM PartiesTypeCorrect == PartiesSpec => []PartiesTypeOK
<1>1. PartiesInv => PartiesTypeOK BY DEF PartiesInv
<1>2. QED BY <1>1, PartiesInductive, PTL

(* However many requests overlap, an approved merchant has its wallet, unless   *)
(* the request that was to make it is still at it or died.                    *)
THEOREM ApprovalOpensWallet == PartiesSpec => []ApprovedHasWallet
<1>1. PartiesInv => ApprovedHasWallet BY DEF PartiesInv
<1>2. QED BY <1>1, PartiesInductive, PTL

----------------------------------------------------------------------------
(* Entitlements *)

(* A plan has a row for every flag. *)
PlansAreComplete == \A p \in TiersNow : tierFlag[p] \in [Flags -> Values]

(* A tenant's plan exists. *)
PlansExist == \A t \in Members : tier[t] \in TiersNow \cup {NoTier, "none"}

EntitlementsInv == EntitlementsTypeOK /\ PlansAreComplete /\ PlansExist

----------------------------------------------------------------------------
(* normalizeFeatureFlags leaves no flag of a plan open, whatever it is asked.   *)
LEMMA NormalizedIsComplete ==
  ASSUME NEW asked \in [Flags -> Values \cup {Unset}]
  PROVE  NormalizeFeatureFlags(asked) \in [Flags -> Values]
BY DEF NormalizeFeatureFlags, Values, Unset, On, Off

(* So plans stay complete, and tenants on plans that exist.                    *)
LEMMA EntitlementsInductive == EntitlementsSpec => []EntitlementsInv
<1> USE EntitlementsAssumption
        DEF EntitlementsInv, EntitlementsTypeOK, PlansAreComplete, PlansExist, TiersNow
<1>1. EntitlementsInit => EntitlementsInv
  BY DEF EntitlementsInit, NoFlags
<1>2. EntitlementsInv /\ [EntitlementsNext]_entitlementsVars => EntitlementsInv'
  <2> SUFFICES ASSUME EntitlementsInv, [EntitlementsNext]_entitlementsVars
               PROVE  EntitlementsInv'
    OBVIOUS
  <2>0. \A keys : Ensured(keys) \in [Flags -> Values \cup {Unset}]
    BY DEF Ensured, Values
  <2>1. CASE UpdatesGlobal
    BY <2>1 DEF UpdatesGlobal
  <2>2. CASE UpdatesTenantFlag
    BY <2>0, <2>2 DEF UpdatesTenantFlag, MembersNow
  <2>3. CASE ReplacesPlanFlags
    <3>1. PICK p \in Tiers, asked \in [Flags -> Values \cup {Unset}] :
            tierFlag' = [tierFlag EXCEPT ![p] = NormalizeFeatureFlags(asked)]
      BY <2>3 DEF ReplacesPlanFlags
    <3>2. NormalizeFeatureFlags(asked) \in [Flags -> Values]
      BY NormalizedIsComplete
    <3>3. global' \in [Flags -> Values \cup {Unset}]
      BY <2>0, <2>3 DEF ReplacesPlanFlags
    <3>4. UNCHANGED <<override, tier>>
      BY <2>3 DEF ReplacesPlanFlags
    <3>5. NormalizeFeatureFlags(asked) \in [Flags -> Values \cup {Unset}] \ {NoTier}
      BY <3>2 DEF Values, Unset, On, Off
    <3> HIDE DEF Values
    <3>6. QED BY <3>1, <3>2, <3>3, <3>4, <3>5
  <2>4. CASE ChangesTier
    BY <2>4 DEF ChangesTier
  <2>5. CASE ClonesConfiguration
    BY <2>5 DEF ClonesConfiguration, ClonedTier, MembersNow, NoFlags
  <2>6. CASE RequestsDemo \/ UpdatesDemo \/ UNCHANGED entitlementsVars
    BY <2>6 DEF RequestsDemo, UpdatesDemo, entitlementsVars
  <2>7. QED
    BY <2>1, <2>2, <2>3, <2>4, <2>5, <2>6 DEF EntitlementsNext
<1>3. QED BY <1>1, <1>2, PTL DEF EntitlementsSpec

(* The tables keep their types. *)
THEOREM EntitlementsTypeCorrect == EntitlementsSpec => []EntitlementsTypeOK
<1>1. EntitlementsInv => EntitlementsTypeOK BY DEF EntitlementsInv
<1>2. QED BY <1>1, EntitlementsInductive, PTL

(* A tenant with a plan is answered from its override or its plan, so no other   *)
(* change reaches it, and none of the defaults.                               *)
THEOREM DefaultsStayOut == EntitlementsSpec => PlansShieldFromDefaults
<1> DEFINE Shielded(t, k) ==
      (tier[t] # NoTier /\ FlagsOf(t)[k].enabled # FlagsOf(t)'[k].enabled) =>
         \/ override[t][k] # override'[t][k]
         \/ override[t][k] = Unset /\ PlanFlagOf(t, k) # PlanFlagOf(t, k)'
<1>1. EntitlementsInv /\ [EntitlementsNext]_entitlementsVars
        => [\A t \in MembersNow, k \in Flags : Shielded(t, k)]_entitlementsVars
  <2> SUFFICES ASSUME EntitlementsInv, NEW t \in MembersNow, NEW k \in Flags,
                      tier[t] # NoTier,
                      override[t][k] = override'[t][k],
                      override[t][k] = Unset => PlanFlagOf(t, k) = PlanFlagOf(t, k)'
               PROVE  FlagsOf(t)[k].enabled = FlagsOf(t)'[k].enabled
    OBVIOUS
  <2>1. PlanFlagOf(t, k) # Unset
    BY EntitlementsAssumption
    DEF EntitlementsInv, PlansAreComplete, PlansExist, TiersNow, MembersNow, PlanFlagOf,
        Values, Unset, On, Off
  <2>2. FlagsOf(t)[k] = ResolveFlag(override[t][k], PlanFlagOf(t, k), global[k])
    BY DEF FlagsOf
  <2>3. FlagsOf(t)'[k] = ResolveFlag(override[t][k], PlanFlagOf(t, k), global[k])'
    BY DEF FlagsOf
  <2>4. QED BY <2>1, <2>2, <2>3 DEF ResolveFlag
<1>2. QED
  BY <1>1, EntitlementsInductive, PTL DEF EntitlementsSpec, PlansShieldFromDefaults

----------------------------------------------------------------------------
(* Billing: invoices and the audit trail about them.                          *)

InvoiceStates == PaidStates \cup {"none"}

BillingTypeOK ==
  /\ invoice \in [Invoices -> InvoiceStates]
  /\ trail \in Seq([i : Invoices, old : InvoiceStates, new : InvoiceStates])
  /\ posting \in [Accountants ->
                    {NoPosting} \cup [at : {"writes"}, i : Invoices, before : InvoiceStates]
                      \cup [at : {"logs"}, i : Invoices, before : InvoiceStates, after : PaidStates]]

(* Nobody works on an invoice that does not exist.                                *)
BusyOnesExist == \A a \in Accountants : posting[a].at # "idle" => invoice[posting[a].i] # "none"

OneAtATime ==
  \A a, b \in Accountants :
    /\ posting[a].at # "idle" /\ posting[b].at # "idle"
    /\ posting[a].i = posting[b].i /\ posting[a].i \notin crossed
    => a = b

(* A request knows where the trail stops, and before it writes also the invoice.     *)
KnowsWhereItStopped ==
  \A a \in Accountants :
    posting[a].at # "idle" /\ posting[a].i \notin crossed =>
      /\ Tells(posting[a].i, Len(trail), posting[a].before)
      /\ invoice[posting[a].i] =
           IF posting[a].at = "logs" THEN posting[a].after ELSE posting[a].before

BillingInv ==
  BillingTypeOK /\ BusyOnesExist /\ OneAtATime /\ KnowsWhereItStopped /\ TrailTellsHistory

LEMMA PostingFields ==
  ASSUME BillingTypeOK, NEW a \in Accountants, posting[a].at # "idle"
  PROVE  /\ posting[a].at \in {"writes", "logs"} /\ posting[a].i \in Invoices
         /\ posting[a].before \in InvoiceStates
         /\ posting[a].at = "logs" => posting[a].after \in PaidStates
<1>1. NoPosting.at = "idle"
  BY DEF NoPosting
<1>2. \/ posting[a] \in [at : {"writes"}, i : Invoices, before : InvoiceStates]
      \/ posting[a] \in [at : {"logs"}, i : Invoices, before : InvoiceStates, after : PaidStates]
  BY <1>1 DEF BillingTypeOK
<1>3. QED
  BY <1>2

LEMMA PostsEffect ==
  ASSUME BillingTypeOK, NEW a \in Accountants, NEW r, Posts(a, r)
  PROVE  posting'[a] = r /\ \A b \in Accountants \ {a} : posting'[b] = posting[b]
BY DEF BillingTypeOK, Posts

LEMMA BillingInitially == BillingInit => BillingInv
<1> SUFFICES ASSUME BillingInit PROVE BillingInv
  OBVIOUS
<1>1. BillingTypeOK
  BY DEF BillingInit, BillingTypeOK, InvoiceStates
<1>2. \A a \in Accountants : posting[a].at = "idle"
  BY DEF BillingInit, NoPosting
<1>3. \A i \in Invoices : invoice[i] = "none"
  BY DEF BillingInit
<1>4. Len(trail) = 0 /\ DOMAIN trail = {}
  BY DEF BillingInit
<1>5. \A i \in Invoices : Tells(i, Len(trail), invoice[i])
  BY <1>3, <1>4 DEF Tells
<1>6. QED
  BY <1>1, <1>2, <1>4, <1>5
  DEF BillingInv, BusyOnesExist, OneAtATime, KnowsWhereItStopped, TrailTellsHistory

(* What the first entries tell does not change when others follow.                  *)
LEMMA TellsStands ==
  ASSUME NEW n \in Nat, \A k \in 1..n : trail'[k] = trail[k], NEW i, NEW st
  PROVE  Tells(i, n, st)' <=> Tells(i, n, st)
<1>1. \A k \in 1..n : \A j \in (k + 1)..n : trail'[j] = trail[j]
  OBVIOUS
<1>2. QED
  BY <1>1 DEF Tells

(* What appending an entry does to the trail.                                       *)
LEMMA AppendEffect ==
  ASSUME BillingTypeOK, NEW e, trail' = Append(trail, e)
  PROVE  /\ Len(trail) \in Nat /\ Len(trail)' = Len(trail) + 1
         /\ DOMAIN trail = 1..Len(trail) /\ DOMAIN trail' = 1..(Len(trail) + 1)
         /\ trail'[Len(trail) + 1] = e
         /\ \A k \in 1..Len(trail) : trail'[k] = trail[k]
BY DEF BillingTypeOK

LEMMA TellsAppended ==
  ASSUME BillingTypeOK, NEW e, trail' = Append(trail, e), NEW n \in Nat, n = Len(trail)
  PROVE  /\ \A i, st : \A m \in 0..n : Tells(i, m, st)' <=> Tells(i, m, st)
         /\ Tells(e.i, n + 1, e.new)'
         /\ \A i, st : i # e.i /\ Tells(i, n, st) => Tells(i, n + 1, st)'
<1>1. /\ Len(trail) \in Nat /\ trail'[Len(trail) + 1] = e
      /\ \A k \in 1..Len(trail) : trail'[k] = trail[k]
  BY AppendEffect
<1>2. n = Len(trail)
  OBVIOUS
<1>3. ASSUME NEW i, NEW st, NEW m \in 0..n PROVE Tells(i, m, st)' <=> Tells(i, m, st)
  <2>1. m \in Nat /\ \A k \in 1..m : trail'[k] = trail[k]
    BY <1>1, <1>2
  <2>2. QED
    BY <2>1, TellsStands
<1>4. \E k \in 1..(n + 1) : /\ trail'[k].i = e.i /\ trail'[k].new = e.new
                            /\ \A j \in (k + 1)..(n + 1) : trail'[j].i # e.i
  <2>1. n + 1 \in 1..(n + 1) /\ ((n + 1) + 1)..(n + 1) = {}
    BY <1>2
  <2>2. QED
    BY <1>1, <1>2, <2>1
<1>5. ASSUME NEW i, NEW st, i # e.i, Tells(i, n, st)
      PROVE  \/ st = "none" /\ \A k \in 1..(n + 1) : trail'[k].i # i
             \/ \E k \in 1..(n + 1) : /\ trail'[k].i = i /\ trail'[k].new = st
                                      /\ \A j \in (k + 1)..(n + 1) : trail'[j].i # i
  <2>1. \A k \in 1..(n + 1) : k \in 1..n \/ k = n + 1
    BY <1>2
  <2>2. CASE st = "none" /\ \A k \in 1..n : trail[k].i # i
    BY <1>1, <1>2, <1>5, <2>1, <2>2
  <2>3. CASE \E k \in 1..n : /\ trail[k].i = i /\ trail[k].new = st
                             /\ \A j \in (k + 1)..n : trail[j].i # i
    <3>1. PICK k \in 1..n : /\ trail[k].i = i /\ trail[k].new = st
                            /\ \A j \in (k + 1)..n : trail[j].i # i
      BY <2>3
    <3>2. ASSUME NEW j \in (k + 1)..(n + 1) PROVE trail'[j].i # i
      <4>1. (j \in 1..n /\ j \in (k + 1)..n) \/ j = n + 1
        BY <1>2, <3>1
      <4>2. QED
        BY <1>1, <1>2, <1>5, <3>1, <4>1
    <3>3. k \in 1..(n + 1) /\ trail'[k] = trail[k]
      BY <1>1, <1>2, <3>1
    <3>4. QED
      BY <3>1, <3>2, <3>3
  <2>4. QED
    BY <1>5, <2>2, <2>3 DEF Tells
<1>6. Tells(e.i, n + 1, e.new)'
  BY <1>4 DEF Tells
<1>7. \A i, st : i # e.i /\ Tells(i, n, st) => Tells(i, n + 1, st)'
  BY <1>5 DEF Tells
<1>8. QED
  BY <1>3, <1>6, <1>7

(* Requests that leave the trail as it is: a's own request, and the others'.          *)
LEMMA TrailKept ==
  ASSUME BillingInv, BillingTypeOK', UNCHANGED trail, NEW a \in Accountants, NEW r, Posts(a, r),
         crossed \subseteq crossed', NEW x \in Invoices,
         \A i \in Invoices \ {x} : invoice'[i] = invoice[i],
         \/ r = NoPosting
         \/ /\ r.at \in {"writes", "logs"} /\ r.i = x /\ invoice'[x] # "none"
            /\ x \notin crossed' =>
                 /\ ~\E b \in Accountants \ {a} : posting[b].at # "idle" /\ posting[b].i = x
                 /\ Tells(x, Len(trail), r.before)
                 /\ invoice'[x] = IF r.at = "logs" THEN r.after ELSE r.before,
         r = NoPosting => /\ UNCHANGED invoice
                          /\ x \notin crossed' => Tells(x, Len(trail), invoice[x]),
         \A i \in Invoices : posting[a].at # "idle" /\ posting[a].i = i => i = x,
         invoice'[x] = "none" => invoice[x] = "none"
  PROVE  BillingInv'
<1>1. \A i, n, st : Tells(i, n, st)' <=> Tells(i, n, st)
  BY DEF Tells
<1>2. posting'[a] = r /\ \A b \in Accountants \ {a} : posting'[b] = posting[b]
  BY PostsEffect DEF BillingInv
<1>3. NoPosting.at = "idle"
  BY DEF NoPosting
<1>4. \A b \in Accountants : posting[b].at # "idle" => posting[b].i \in Invoices
  BY PostingFields DEF BillingInv
<1>5. BusyOnesExist'
  BY <1>2, <1>3, <1>4 DEF BillingInv, BusyOnesExist
<1>6. OneAtATime'
  BY <1>2, <1>3, <1>4 DEF BillingInv, OneAtATime
<1>7. KnowsWhereItStopped'
  <2> SUFFICES ASSUME NEW b \in Accountants, posting'[b].at # "idle", posting'[b].i \notin crossed'
               PROVE  /\ Tells(posting[b].i, Len(trail), posting[b].before)'
                      /\ invoice'[posting'[b].i] =
                           IF posting'[b].at = "logs" THEN posting'[b].after ELSE posting'[b].before
    BY DEF KnowsWhereItStopped
  <2>1. CASE b = a
    BY <1>1, <1>2, <1>3, <2>1
  <2>2. CASE b # a
    <3>1. posting'[b] = posting[b] /\ posting[b].at # "idle" /\ posting[b].i \notin crossed
      BY <1>2, <2>2
    <3>2. invoice'[posting[b].i] = invoice[posting[b].i]
      BY <1>3, <1>4, <2>2, <3>1
    <3>3. QED
      BY <1>1, <3>1, <3>2 DEF BillingInv, KnowsWhereItStopped
  <2>3. QED
    BY <2>1, <2>2
<1>8. TrailTellsHistory'
  BY <1>1, <1>2, <1>3 DEF BillingInv, TrailTellsHistory, Busy
<1>9. QED
  BY <1>5, <1>6, <1>7, <1>8 DEF BillingInv

LEMMA BillingKeepsTypes ==
  ASSUME BillingTypeOK, [BillingNext]_billingVars
  PROVE  BillingTypeOK'
<1> DEFINE Entries == [i : Invoices, old : InvoiceStates, new : InvoiceStates]
           Postings == {NoPosting} \cup [at : {"writes"}, i : Invoices, before : InvoiceStates]
                         \cup [at : {"logs"}, i : Invoices, before : InvoiceStates,
                               after : PaidStates]
<1>types. /\ invoice \in [Invoices -> InvoiceStates] /\ trail \in Seq(Entries)
          /\ posting \in [Accountants -> Postings] /\ PaidStates \subseteq InvoiceStates
          /\ "none" \in InvoiceStates /\ "PENDING" \in PaidStates
  BY BillingAssumption DEF BillingTypeOK, InvoiceStates
<1>posts. ASSUME NEW a \in Accountants, NEW r \in Postings, Posts(a, r)
          PROVE  posting' \in [Accountants -> Postings]
  BY <1>posts, <1>types DEF Posts
<1>none. NoPosting \in Postings
  OBVIOUS
<1> SUFFICES /\ invoice' \in [Invoices -> InvoiceStates] /\ trail' \in Seq(Entries)
             /\ posting' \in [Accountants -> Postings]
  BY DEF BillingTypeOK
<1>1. ASSUME NEW a \in Accountants, CreatesInvoice(a)
      PROVE  /\ invoice' \in [Invoices -> InvoiceStates] /\ trail' \in Seq(Entries)
             /\ posting' \in [Accountants -> Postings]
  <2>1. PICK i \in Invoices :
          /\ invoice' = [invoice EXCEPT ![i] = "PENDING"]
          /\ Posts(a, [at |-> "logs", i |-> i, before |-> "none", after |-> "PENDING"])
    BY <1>1 DEF CreatesInvoice
  <2>2. [at |-> "logs", i |-> i, before |-> "none", after |-> "PENDING"] \in Postings
    BY <1>types
  <2> HIDE DEF Postings
  <2>3. QED
    BY <1>1, <1>types, <1>posts, <2>1, <2>2 DEF CreatesInvoice
<1>2. ASSUME NEW a \in Accountants, ReadsInvoice(a)
      PROVE  /\ invoice' \in [Invoices -> InvoiceStates] /\ trail' \in Seq(Entries)
             /\ posting' \in [Accountants -> Postings]
  <2>1. PICK i \in Invoices : Posts(a, [at |-> "writes", i |-> i, before |-> invoice[i]])
    BY <1>2 DEF ReadsInvoice
  <2>2. [at |-> "writes", i |-> i, before |-> invoice[i]] \in Postings
    BY <1>types
  <2> HIDE DEF Postings
  <2>3. QED
    BY <1>2, <1>types, <1>posts, <2>1, <2>2 DEF ReadsInvoice
<1>3. ASSUME NEW a \in Accountants, UpdatesInvoice(a)
      PROVE  /\ invoice' \in [Invoices -> InvoiceStates] /\ trail' \in Seq(Entries)
             /\ posting' \in [Accountants -> Postings]
  <2>1. PICK p : p = posting[a]
    OBVIOUS
  <2>2. p.i \in Invoices /\ p.before \in InvoiceStates
    BY <1>3, <2>1, PostingFields DEF UpdatesInvoice
  <2>3. PICK status \in PaidStates :
          /\ invoice' = [invoice EXCEPT ![p.i] = status]
          /\ Posts(a, [at |-> "logs", i |-> p.i, before |-> p.before, after |-> status])
    BY <1>3, <2>1 DEF UpdatesInvoice
  <2>4. [at |-> "logs", i |-> p.i, before |-> p.before, after |-> status] \in Postings
    BY <2>2
  <2> HIDE DEF Postings
  <2>5. QED
    BY <1>3, <1>types, <1>posts, <2>2, <2>3, <2>4 DEF UpdatesInvoice
<1>4. ASSUME NEW a \in Accountants, WritesAuditLog(a)
      PROVE  /\ invoice' \in [Invoices -> InvoiceStates] /\ trail' \in Seq(Entries)
             /\ posting' \in [Accountants -> Postings]
  <2>1. PICK p : p = posting[a]
    OBVIOUS
  <2>2. p.i \in Invoices /\ p.before \in InvoiceStates /\ p.after \in InvoiceStates
    BY <1>4, <1>types, <2>1, PostingFields DEF WritesAuditLog
  <2>3. /\ trail' = Append(trail, [i |-> p.i, old |-> p.before, new |-> p.after])
        /\ Posts(a, NoPosting) /\ UNCHANGED invoice
    BY <1>4, <2>1 DEF WritesAuditLog, OldValue
  <2>4. [i |-> p.i, old |-> p.before, new |-> p.after] \in Entries
    BY <2>2
  <2> HIDE DEF Entries, Postings
  <2>5. QED
    BY <1>types, <1>posts, <1>none, <2>3, <2>4
<1>5. ASSUME NEW a \in Accountants, PostingDies(a)
      PROVE  /\ invoice' \in [Invoices -> InvoiceStates] /\ trail' \in Seq(Entries)
             /\ posting' \in [Accountants -> Postings]
  <2> HIDE DEF Postings
  <2>1. QED
    BY <1>5, <1>types, <1>posts, <1>none DEF PostingDies
<1>6. QED
  BY <1>1, <1>2, <1>3, <1>4, <1>5, <1>types DEF BillingNext, billingVars

(* The entry goes on where the trail stopped, and tells what the invoice is now.      *)
LEMMA LoggingKeepsInv ==
  ASSUME BillingInv, BillingTypeOK', NEW a \in Accountants, WritesAuditLog(a)
  PROVE  BillingInv'
<1>1. PICK p : p = posting[a]
  OBVIOUS
<1>2. p.at = "logs" /\ p.i \in Invoices /\ p.after \in PaidStates
  BY <1>1, PostingFields DEF WritesAuditLog, BillingInv
<1>3. PICK e : e = [i |-> p.i, old |-> p.before, new |-> p.after]
  OBVIOUS
<1>4. e.i = p.i /\ e.old = p.before /\ e.new = p.after
  BY <1>3
<1>5. /\ trail' = Append(trail, e) /\ Posts(a, NoPosting) /\ UNCHANGED <<invoice, crossed>>
  BY <1>1, <1>3 DEF WritesAuditLog, OldValue
<1>6. PICK n \in Nat : n = Len(trail)
  BY <1>5, AppendEffect DEF BillingInv
<1>7. /\ \A i, st : \A m \in 0..n : Tells(i, m, st)' <=> Tells(i, m, st)
      /\ Tells(e.i, n + 1, e.new)'
      /\ \A i, st : i # e.i /\ Tells(i, n, st) => Tells(i, n + 1, st)'
  BY <1>5, <1>6, TellsAppended DEF BillingInv
<1>8. /\ Len(trail)' = n + 1 /\ DOMAIN trail = 1..n /\ DOMAIN trail' = 1..(n + 1)
      /\ trail'[n + 1] = e /\ \A k \in 1..n : trail'[k] = trail[k]
  BY <1>5, <1>6, AppendEffect DEF BillingInv
<1>9. posting'[a] = NoPosting /\ \A b \in Accountants \ {a} : posting'[b] = posting[b]
  BY <1>5, PostsEffect DEF BillingInv
<1>10. NoPosting.at = "idle"
  BY DEF NoPosting
<1>11. BusyOnesExist' /\ OneAtATime'
  BY <1>5, <1>9, <1>10 DEF BillingInv, BusyOnesExist, OneAtATime
<1>12. p.i \notin crossed => /\ Tells(p.i, n, p.before) /\ invoice[p.i] = p.after
                            /\ \A b \in Accountants \ {a} :
                                 posting[b].at # "idle" => posting[b].i # p.i
  BY <1>1, <1>2, <1>6 DEF BillingInv, KnowsWhereItStopped, OneAtATime
<1>13. KnowsWhereItStopped'
  <2> SUFFICES ASSUME NEW b \in Accountants, posting'[b].at # "idle", posting'[b].i \notin crossed'
               PROVE  /\ Tells(posting[b].i, Len(trail), posting[b].before)'
                      /\ invoice'[posting'[b].i] =
                           IF posting'[b].at = "logs" THEN posting'[b].after ELSE posting'[b].before
    BY DEF KnowsWhereItStopped
  <2>1. b # a /\ posting'[b] = posting[b]
    BY <1>9, <1>10
  <2>2. posting[b].i \notin crossed /\ posting[b].i # p.i
    BY <1>5, <1>12, <2>1
  <2>3. PICK q : q = posting[b]
    OBVIOUS
  <2>4. Tells(q.i, n, q.before) /\ invoice[q.i] = IF q.at = "logs" THEN q.after ELSE q.before
    BY <1>6, <2>1, <2>2, <2>3 DEF BillingInv, KnowsWhereItStopped
  <2>5. Tells(q.i, n + 1, q.before)'
    BY <1>4, <1>7, <2>2, <2>3, <2>4
  <2>6. QED
    BY <1>5, <1>8, <2>1, <2>3, <2>4, <2>5
<1>14. TrailTellsHistory'
  <2> SUFFICES ASSUME NEW i \in Invoices \ crossed
               PROVE  /\ \A k \in 1..(n + 1) : trail'[k].i = i => Tells(i, k - 1, trail[k].old)'
                      /\ ~Busy(i)' => Tells(i, n + 1, invoice[i])'
    BY <1>5, <1>8 DEF TrailTellsHistory
  <2>1. ASSUME NEW k \in 1..n, trail'[k].i = i PROVE Tells(i, k - 1, trail[k].old)'
    <3>1. PICK old : old = trail[k].old
      OBVIOUS
    <3>2. Tells(i, k - 1, old) /\ k - 1 \in 0..n
      BY <1>8, <2>1, <3>1 DEF BillingInv, TrailTellsHistory
    <3>3. Tells(i, k - 1, old)'
      BY <1>7, <3>2
    <3>4. QED
      BY <1>8, <3>1, <3>3
  <2>2. ASSUME i = p.i PROVE Tells(i, (n + 1) - 1, trail[n + 1].old)'
    <3>1. PICK old : old = p.before
      OBVIOUS
    <3>2. Tells(i, n, old)'
      BY <1>6, <1>7, <1>12, <2>2, <3>1
    <3>3. QED
      BY <1>4, <1>6, <1>8, <3>1, <3>2
  <2>3. ASSUME ~Busy(i)' PROVE Tells(i, n + 1, invoice[i])'
    <3>1. PICK st : st = invoice[i]
      OBVIOUS
    <3>2. CASE i = p.i
      BY <1>4, <1>5, <1>7, <1>12, <3>1, <3>2
    <3>3. CASE i # p.i
      <4>1. ~Busy(i)
        BY <1>1, <1>9, <2>3, <3>3 DEF Busy
      <4>2. Tells(i, n, st)
        BY <1>6, <3>1, <4>1 DEF BillingInv, TrailTellsHistory
      <4>3. Tells(i, n + 1, st)'
        BY <1>4, <1>7, <3>3, <4>2
      <4>4. QED
        BY <1>5, <3>1, <4>3
    <3>4. QED
      BY <3>2, <3>3
  <2>4. \A k \in 1..(n + 1) : k \in 1..n \/ k = n + 1
    OBVIOUS
  <2>5. QED
    BY <1>4, <1>8, <2>1, <2>2, <2>3, <2>4
<1>15. QED
  BY <1>11, <1>13, <1>14 DEF BillingInv

LEMMA BillingStepKeepsInv ==
  ASSUME BillingInv, [BillingNext]_billingVars
  PROVE  BillingInv'
<1>types. BillingTypeOK /\ BillingTypeOK'
  BY BillingKeepsTypes DEF BillingInv
<1>pending. "PENDING" # "none" /\ "none" \notin PaidStates
  BY BillingAssumption
<1>1. ASSUME NEW a \in Accountants, CreatesInvoice(a) PROVE BillingInv'
  <2>1. PICK i \in Invoices :
          /\ invoice[i] = "none" /\ invoice' = [invoice EXCEPT ![i] = "PENDING"]
          /\ Posts(a, [at |-> "logs", i |-> i, before |-> "none", after |-> "PENDING"])
    BY <1>1 DEF CreatesInvoice
  <2>2. PICK r : r = [at |-> "logs", i |-> i, before |-> "none", after |-> "PENDING"]
    OBVIOUS
  <2>3. /\ Posts(a, r) /\ r.at = "logs" /\ r.i = i /\ r.before = "none" /\ r.after = "PENDING"
        /\ posting[a].at = "idle" /\ UNCHANGED <<trail, crossed>>
    BY <1>1, <2>1, <2>2 DEF CreatesInvoice
  <2>4. invoice'[i] = "PENDING" /\ \A j \in Invoices \ {i} : invoice'[j] = invoice[j]
    BY <1>types, <2>1 DEF BillingTypeOK
  <2>5. ~\E b \in Accountants : posting[b].at # "idle" /\ posting[b].i = i
    BY <2>1 DEF BillingInv, BusyOnesExist
  <2>6. i \notin crossed => Tells(i, Len(trail), "none")
    BY <2>1, <2>5 DEF BillingInv, TrailTellsHistory, Busy
  <2>7. r # NoPosting
    BY <2>3 DEF NoPosting
  <2>8. QED
    BY <1>types, <1>pending, <2>3, <2>4, <2>5, <2>6, <2>7, TrailKept
<1>2. ASSUME NEW a \in Accountants, ReadsInvoice(a) PROVE BillingInv'
  <2>1. PICK i \in Invoices :
          /\ invoice[i] # "none" /\ Crossing(i)
          /\ Posts(a, [at |-> "writes", i |-> i, before |-> invoice[i]])
    BY <1>2 DEF ReadsInvoice
  <2>2. PICK r : r = [at |-> "writes", i |-> i, before |-> invoice[i]]
    OBVIOUS
  <2>3. /\ Posts(a, r) /\ r.at = "writes" /\ r.i = i /\ r.before = invoice[i]
        /\ posting[a].at = "idle" /\ UNCHANGED <<invoice, trail>>
    BY <1>2, <2>1, <2>2 DEF ReadsInvoice
  <2>4. crossed \subseteq crossed' /\ (i \notin crossed' => i \notin crossed /\ ~Busy(i))
    BY <2>1 DEF Crossing
  <2>5. i \notin crossed' => /\ Tells(i, Len(trail), invoice[i])
                            /\ ~\E b \in Accountants : posting[b].at # "idle" /\ posting[b].i = i
    BY <2>4 DEF BillingInv, TrailTellsHistory, Busy
  <2>6. r # NoPosting
    BY <2>3 DEF NoPosting
  <2>7. QED
    BY <1>types, <2>1, <2>3, <2>4, <2>5, <2>6, TrailKept
<1>3. ASSUME NEW a \in Accountants, UpdatesInvoice(a) PROVE BillingInv'
  <2>1. PICK p : p = posting[a]
    OBVIOUS
  <2>2. p.at = "writes" /\ p.i \in Invoices
    BY <1>3, <1>types, <2>1, PostingFields DEF UpdatesInvoice
  <2>3. PICK status \in PaidStates :
          /\ invoice' = [invoice EXCEPT ![p.i] = status]
          /\ Posts(a, [at |-> "logs", i |-> p.i, before |-> p.before, after |-> status])
    BY <1>3, <2>1 DEF UpdatesInvoice
  <2>4. PICK r : r = [at |-> "logs", i |-> p.i, before |-> p.before, after |-> status]
    OBVIOUS
  <2>5. /\ Posts(a, r) /\ r.at = "logs" /\ r.i = p.i /\ r.before = p.before /\ r.after = status
        /\ UNCHANGED <<trail, crossed>>
    BY <1>3, <2>1, <2>3, <2>4 DEF UpdatesInvoice
  <2>6. invoice'[p.i] = status /\ \A j \in Invoices \ {p.i} : invoice'[j] = invoice[j]
    BY <1>types, <2>2, <2>3 DEF BillingTypeOK
  <2>7. p.i \notin crossed =>
          /\ Tells(p.i, Len(trail), p.before)
          /\ ~\E b \in Accountants \ {a} : posting[b].at # "idle" /\ posting[b].i = p.i
    BY <2>1, <2>2 DEF BillingInv, KnowsWhereItStopped, OneAtATime
  <2>8. r # NoPosting
    BY <2>5 DEF NoPosting
  <2>9. QED
    BY <1>types, <1>pending, <2>1, <2>2, <2>5, <2>6, <2>7, <2>8, TrailKept
<1>4. ASSUME NEW a \in Accountants, WritesAuditLog(a) PROVE BillingInv'
  BY <1>4, <1>types, LoggingKeepsInv
<1>5. ASSUME NEW a \in Accountants, PostingDies(a) PROVE BillingInv'
  <2>1. PICK p : p = posting[a]
    OBVIOUS
  <2>2. PICK r : r = NoPosting
    OBVIOUS
  <2>3. /\ p.at # "idle" /\ Posts(a, r) /\ UNCHANGED <<invoice, trail>>
        /\ crossed' = IF p.at = "logs" THEN crossed \cup {p.i} ELSE crossed
    BY <1>5, <2>1, <2>2 DEF PostingDies
  <2>4. p.i \in Invoices /\ p.at \in {"writes", "logs"}
    BY <1>types, <2>1, <2>3, PostingFields
  <2>5. p.i \notin crossed' => Tells(p.i, Len(trail), invoice[p.i])
    BY <2>1, <2>3, <2>4 DEF BillingInv, KnowsWhereItStopped
  <2>6. crossed \subseteq crossed'
    BY <2>3
  <2>7. QED
    BY <1>types, <2>1, <2>2, <2>3, <2>4, <2>5, <2>6, TrailKept
<1>6. CASE UNCHANGED billingVars
  BY <1>6 DEF billingVars, BillingInv, BillingTypeOK, BusyOnesExist, OneAtATime,
              KnowsWhereItStopped, TrailTellsHistory, Tells, Busy
<1>7. QED
  BY <1>1, <1>2, <1>3, <1>4, <1>5, <1>6 DEF BillingNext

(* The trail of an invoice whose requests neither overlapped nor died unlogged tells  *)
(* its history: PlatformAuditLogService writes each entry after the transaction it is  *)
(* about, with the status PlatformBillingService read before it.                      *)
THEOREM TrailIsTrue == BillingSpec => []TrailTellsHistory
<1>1. BillingSpec => []BillingInv
  BY BillingInitially, BillingStepKeepsInv, PTL DEF BillingSpec
<1>2. BillingInv => TrailTellsHistory
  BY DEF BillingInv
<1>3. QED
  BY <1>1, <1>2, PTL

----------------------------------------------------------------------------
(* Intake: shipments one by one and by file.                                 *)

(* Sets that a one-to-one function goes from and onto have as many elements.        *)
LEMMA OneToOne ==
  ASSUME NEW S, NEW T, NEW f \in [S -> T], IsFiniteSet(S) \/ IsFiniteSet(T),
         \A x, y \in S : f[x] = f[y] => x = y, \A t \in T : \E x \in S : f[x] = t
  PROVE  IsFiniteSet(S) /\ IsFiniteSet(T) /\ Cardinality(T) = Cardinality(S)
<1>1. f \in Injection(S, T) /\ f \in Surjection(S, T)
  BY DEF Injection, Surjection, IsInjective
<1>2. f \in Bijection(S, T)
  BY <1>1 DEF Bijection
<1>3. CASE IsFiniteSet(S)
  BY <1>2, <1>3, FS_Bijection DEF ExistsBijection
<1>4. CASE IsFiniteSet(T)
  <2>1. IsFiniteSet(S)
    BY <1>1, <1>4, FS_Injection
  <2>2. QED
    BY <1>3, <2>1
<1>5. QED
  BY <1>3, <1>4

(* Counting off the valid rows of a file: every turn from the first to the last is   *)
(* some row's, and one row's only.                                               *)
LEMMA TurnsCountOff ==
  ASSUME NEW e, IsFiniteSet(e.places), e.places \subseteq Nat
  PROVE  /\ \A i \in e.places : Turn(e, i) \in 1..Cardinality(e.places)
         /\ \A i, j \in e.places : Turn(e, i) = Turn(e, j) => i = j
         /\ \A t \in 1..Cardinality(e.places) : \E i \in e.places : Turn(e, i) = t
<1> DEFINE V == e.places
           UpTo(i) == {j \in V : j <= i}
<1>0. IsFiniteSet(V) /\ V \subseteq Nat /\ Cardinality(V) \in Nat
  BY FS_CardinalityType
<1>1. ASSUME NEW i \in V
      PROVE  IsFiniteSet(UpTo(i)) /\ Cardinality(UpTo(i)) \in 1..Cardinality(V) /\ i \in UpTo(i)
  <2>1. UpTo(i) \subseteq V /\ i \in UpTo(i)
    BY <1>0
  <2>2. IsFiniteSet(UpTo(i)) /\ Cardinality(UpTo(i)) <= Cardinality(V)
    BY <1>0, <2>1, FS_Subset
  <2>3. Cardinality(UpTo(i)) \in Nat /\ Cardinality(UpTo(i)) # 0
    BY <2>1, <2>2, FS_CardinalityType, FS_EmptySet
  <2>4. QED
    BY <1>0, <2>1, <2>2, <2>3
<1>2. ASSUME NEW i \in V, NEW j \in V, i < j PROVE Cardinality(UpTo(i)) # Cardinality(UpTo(j))
  <2>1. UpTo(i) \subseteq UpTo(j) /\ j \in UpTo(j) /\ j \notin UpTo(i)
    BY <1>0, <1>2
  <2>2. QED
    BY <1>1, <2>1, FS_Subset
<1>3. \A i \in V : Turn(e, i) = Cardinality(UpTo(i))
  BY DEF Turn
<1>4. \A i \in V : Turn(e, i) \in 1..Cardinality(V)
  BY <1>1, <1>3
<1>5. \A i, j \in V : Turn(e, i) = Turn(e, j) => i = j
  <2> SUFFICES ASSUME NEW i \in V, NEW j \in V, i # j PROVE Turn(e, i) # Turn(e, j)
    OBVIOUS
  <2>1. i < j \/ j < i
    BY <1>0
  <2>2. CASE i < j
    BY <1>2, <1>3, <2>2
  <2>3. CASE j < i
    BY <1>2, <1>3, <2>3
  <2>4. QED
    BY <2>1, <2>2, <2>3
<1>6. \A t \in 1..Cardinality(V) : \E i \in V : Turn(e, i) = t
  <2> DEFINE T == {Turn(e, i) : i \in V}
             f == [i \in V |-> Turn(e, i)]
  <2>1. T \subseteq 1..Cardinality(V)
    BY <1>4
  <2>2. /\ f \in [V -> T]
        /\ \A x, y \in V : f[x] = f[y] => x = y
        /\ \A t \in T : \E x \in V : f[x] = t
    BY <1>5
  <2>3. Cardinality(T) = Cardinality(V)
    BY <1>0, <2>2, OneToOne
  <2>4. IsFiniteSet(1..Cardinality(V)) /\ Cardinality(1..Cardinality(V)) = Cardinality(V)
    BY <1>0, FS_Interval
  <2>5. T = 1..Cardinality(V)
    BY <2>1, <2>3, <2>4, FS_Subset
  <2>6. QED
    BY <2>5
<1>7. QED
  BY <1>4, <1>5, <1>6

LEMMA CountUpTo == ASSUME NEW n \in Nat PROVE IsFiniteSet(1..n) /\ Cardinality(1..n) = n
BY FS_Interval

StoredPlaces(e) == {i \in e.places : Turn(e, i) <= e.done}

LEMMA StoredPlacesCounted ==
  ASSUME NEW e, IsFiniteSet(e.places), e.places \subseteq Nat,
         e.done \in Nat, e.done <= Cardinality(e.places)
  PROVE  IsFiniteSet(StoredPlaces(e)) /\ Cardinality(StoredPlaces(e)) = e.done
<1> DEFINE P == StoredPlaces(e)
           f == [i \in P |-> Turn(e, i)]
<1>1. /\ Cardinality(e.places) \in Nat
      /\ \A i \in e.places : Turn(e, i) \in 1..Cardinality(e.places)
      /\ \A i, j \in e.places : Turn(e, i) = Turn(e, j) => i = j
      /\ \A t \in 1..Cardinality(e.places) : \E i \in e.places : Turn(e, i) = t
  BY TurnsCountOff, FS_CardinalityType
<1>2. IsFiniteSet(1..e.done) /\ Cardinality(1..e.done) = e.done
  BY CountUpTo
<1>3. /\ f \in [P -> 1..e.done]
      /\ \A i, j \in P : f[i] = f[j] => i = j
      /\ \A t \in 1..e.done : \E i \in P : f[i] = t
  <2>1. \A i \in P : i \in e.places /\ Turn(e, i) \in 1..e.done
    BY <1>1 DEF StoredPlaces
  <2>2. \A t \in 1..e.done : \E i \in P : Turn(e, i) = t
    BY <1>1 DEF StoredPlaces
  <2> HIDE DEF P
  <2>3. QED
    BY <1>1, <2>1, <2>2
<1>4. QED
  <2> HIDE DEF f
  <2>1. QED
    BY <1>2, <1>3, OneToOne

LEMMA BatchCounted ==
  ASSUME NEW e, IsFiniteSet(e.places), e.places \subseteq Nat, e.done \in Nat
  PROVE  IsFiniteSet(Batch(e)) /\ Cardinality(Batch(e)) <= BatchSize
<1> DEFINE D == (e.done + 1)..(e.done + BatchSize)
           f == [i \in Batch(e) |-> Turn(e, i)]
<1>1. /\ \A i \in e.places : Turn(e, i) \in Nat
      /\ \A i, j \in e.places : Turn(e, i) = Turn(e, j) => i = j
  BY TurnsCountOff
<1>2. IsFiniteSet(D) /\ Cardinality(D) = BatchSize
  BY IntakeAssumption, FS_Interval
<1>3. f \in [Batch(e) -> D] /\ \A i, j \in Batch(e) : f[i] = f[j] => i = j
  <2>1. \A i \in Batch(e) : i \in e.places /\ Turn(e, i) \in D
    BY <1>1, IntakeAssumption DEF Batch
  <2> HIDE DEF D
  <2>2. QED
    BY <1>1, <2>1
<1>4. f \in Injection(Batch(e), D)
  BY <1>3 DEF Injection, IsInjective
<1>5. QED
  <2> HIDE DEF D, f
  <2>1. QED
    BY <1>2, <1>4, FS_Injection

-----------------------------------------------------------------------------
Data == {[type |-> "PREPAID"]} \cup UNION {{StoredRow(f[i]) : i \in DOMAIN f} : f \in Files}

Stored ==
  [by : Uploaders \cup Clerks, seller : Sellers, row : Nat, data : Data, logged : BOOLEAN,
   late : BOOLEAN]

ClerkRequests ==
  [at : {"idle", "answered", "failed"}]
    \cup [at : {"inserts", "logs", "announces"}, seller : Sellers, number : Numbers]

(* Places are those of rows of the file, and each has its number.                 *)
UploadOK(e) ==
  \/ e \in [at : {"idle", "answered", "failed"}]
  \/ /\ \/ e \in [at : {"answered"}, file : Files, places : SUBSET Nat]
        \/ e \in [at : {"numbers"}, seller : Sellers, file : Files, places : SUBSET Nat]
        \/ e \in [at : {"checks", "stores"}, seller : Sellers, file : Files,
                  places : SUBSET Nat, numbers : [e.places -> Numbers], done : Nat]
     /\ e.places \subseteq DOMAIN e.file

IntakeTypeOK ==
  /\ shipment \in [Numbers -> {Nowhere} \cup Stored]
  /\ selling \subseteq Sellers /\ announced \subseteq Numbers
  /\ DOMAIN entry = Uploaders \cup Clerks /\ entry = [a \in DOMAIN entry |-> entry[a]]
  /\ \A a \in Clerks : entry[a] \in ClerkRequests
  /\ \A a \in Uploaders : UploadOK(entry[a])

(* A clerk's number is stored before it is logged, and logged before it is announced.  *)
AnnouncedAreLogged ==
  /\ \A n \in announced : shipment[n] # Nowhere /\ shipment[n].logged
  /\ \A a \in Clerks :
       /\ entry[a].at \in {"logs", "announces"} => shipment[entry[a].number] # Nowhere
       /\ entry[a].at = "announces" => shipment[entry[a].number].logged

LateBy(a) == {n \in By(a) : shipment[n].late}

(* What an upload has stored, at each point of its way.  A late row is in the last     *)
(* batch: the seller is gone, so the next look at the merchant ends the request.       *)
StandsAt(a, e) ==
  /\ \A n \in By(a) : shipment[n].logged
  /\ \A n, m \in By(a) : shipment[n].row = shipment[m].row => n = m
  /\ IsFiniteSet(By(a)) /\ Cardinality(LateBy(a)) <= BatchSize
  /\ e.at \in {"idle", "numbers"} => By(a) = {}
  /\ e.at = "numbers" => e.places # {}
  /\ e.at \in {"checks", "stores"} =>
       /\ PlacesBy(a) = StoredPlaces(e) /\ e.done < Cardinality(e.places)
       /\ \E m \in Nat : e.done = m * BatchSize
       /\ LateBy(a) # {} => e.at = "checks" /\ e.seller \notin selling
  /\ e.at = "failed" => \E m \in Nat : Cardinality(By(a)) = m * BatchSize
  /\ e.at = "answered" => PlacesBy(a) = IF "places" \in DOMAIN e THEN e.places ELSE {}

UploadStands(a) == StandsAt(a, entry[a])

IntakeInv ==
  /\ IntakeTypeOK /\ AnnouncedAreLogged
  /\ \A a \in Uploaders : UploadStands(a)

Grows ==
  \A n \in Numbers : shipment[n] # Nowhere =>
    /\ shipment'[n] # Nowhere /\ shipment'[n].by = shipment[n].by
    /\ shipment'[n].row = shipment[n].row /\ shipment'[n].late = shipment[n].late
    /\ shipment[n].logged => shipment'[n].logged

LEMMA EntersEffect ==
  ASSUME IntakeTypeOK, NEW a \in Uploaders \cup Clerks, NEW r, Enters(a, r)
  PROVE  /\ entry'[a] = r /\ \A b \in (Uploaders \cup Clerks) \ {a} : entry'[b] = entry[b]
         /\ DOMAIN entry' = Uploaders \cup Clerks /\ entry' = [b \in DOMAIN entry' |-> entry'[b]]
BY DEF IntakeTypeOK, Enters

LEMMA PlacesFinite ==
  ASSUME NEW e, UploadOK(e), e.at \in {"numbers", "checks", "stores"} \/ "places" \in DOMAIN e
  PROVE  /\ IsFiniteSet(e.places) /\ e.places \subseteq Nat /\ e.places \subseteq DOMAIN e.file
         /\ e.file \in Files
<1>1. e.file \in Files /\ e.places \subseteq Nat /\ e.places \subseteq DOMAIN e.file
  BY DEF UploadOK
<1>2. PICK f \in Files : f = e.file
  BY <1>1
<1>3. f \in Seq({f[i] : i \in DOMAIN f})
  BY IntakeAssumption
<1>4. Len(f) \in Nat /\ DOMAIN f = 1..Len(f)
  BY <1>3
<1>5. IsFiniteSet(DOMAIN f)
  BY <1>4, FS_Interval
<1>6. IsFiniteSet(e.places)
  BY <1>1, <1>2, <1>5, FS_Subset
<1>7. QED
  BY <1>1, <1>6

LEMMA UploadFields ==
  ASSUME IntakeTypeOK, NEW a \in Uploaders
  PROVE  /\ entry[a].at \in {"numbers", "checks", "stores"} => entry[a].seller \in Sellers
         /\ entry[a].at \in {"checks", "stores"} =>
              entry[a].done \in Nat /\ entry[a].numbers \in [entry[a].places -> Numbers]
BY DEF IntakeTypeOK, UploadOK

LEMMA ShippedFields ==
  ASSUME IntakeTypeOK, NEW n \in Numbers, shipment[n] # Nowhere
  PROVE  shipment[n] \in Stored
BY DEF IntakeTypeOK

LEMMA NewShipmentIsStored ==
  ASSUME NEW a \in Uploaders \cup Clerks, NEW s \in Sellers, NEW i \in Nat, NEW x \in Data,
         NEW logged \in BOOLEAN
  PROVE  NewShipment(a, s, i, x, logged) \in Stored \ {Nowhere}
<1>1. NewShipment(a, s, i, x, logged) \in Stored
  BY DEF NewShipment, Stored
<1>2. \A r \in Stored : r # Nowhere
  <2>1. "row" \notin DOMAIN Nowhere
    BY DEF Nowhere
  <2>2. \A r \in Stored : "row" \in DOMAIN r
    BY DEF Stored
  <2>3. QED
    BY <2>1, <2>2
<1>3. QED
  BY <1>1, <1>2

(* An upload that is not asked stands where it stood.                              *)
LEMMA OthersStand ==
  ASSUME NEW b \in Uploaders, UploadStands(b), UNCHANGED entry[b], selling' \subseteq selling,
         Grows, By(b)' = By(b)
  PROVE  UploadStands(b)'
<1>1. \A n \in By(b) :
        /\ shipment'[n].row = shipment[n].row /\ shipment'[n].late = shipment[n].late
        /\ shipment[n].logged => shipment'[n].logged
  BY DEF Grows, By
<1>2. LateBy(b)' = LateBy(b)
  BY <1>1 DEF LateBy
<1>3. PlacesBy(b)' = PlacesBy(b)
  BY <1>1 DEF PlacesBy
<1>4. PICK e : e = entry[b]
  OBVIOUS
<1>5. StandsAt(b, e)
  BY <1>4 DEF UploadStands
<1>6. StandsAt(b, e)'
  <2>1. StoredPlaces(e)' = StoredPlaces(e)
    BY DEF StoredPlaces, Turn
  <2>2. \A n \in By(b) : shipment'[n].logged
    BY <1>1, <1>5 DEF StandsAt
  <2>3. \A n, m \in By(b) : shipment'[n].row = shipment'[m].row => n = m
    BY <1>1, <1>5 DEF StandsAt
  <2>4. QED
    BY <1>2, <1>3, <1>5, <2>1, <2>2, <2>3 DEF StandsAt
<1>7. QED
  BY <1>4, <1>6 DEF UploadStands

LEMMA RequestsApart ==
  ASSUME NEW a \in Uploaders, NEW b \in Clerks PROVE a # b
BY IntakeAssumption

(* What stays true of announced numbers when nobody but a moves.                    *)
LEMMA AnnouncementsKept ==
  ASSUME IntakeTypeOK, AnnouncedAreLogged, Grows, NEW a \in Uploaders \cup Clerks,
         \A b \in Clerks \ {a} : entry'[b] = entry[b],
         \A n \in announced' \ announced : shipment'[n] # Nowhere /\ shipment'[n].logged,
         a \in Clerks =>
           /\ entry'[a].at \in {"logs", "announces"} => shipment'[entry'[a].number] # Nowhere
           /\ entry'[a].at = "announces" => shipment'[entry'[a].number].logged
  PROVE  AnnouncedAreLogged'
<1>1. \A n \in announced' : shipment'[n] # Nowhere /\ shipment'[n].logged
  BY DEF AnnouncedAreLogged, Grows, IntakeTypeOK
<1>2. ASSUME NEW b \in Clerks
      PROVE  /\ entry'[b].at \in {"logs", "announces"} => shipment'[entry'[b].number] # Nowhere
             /\ entry'[b].at = "announces" => shipment'[entry'[b].number].logged
  <2>1. CASE b = a
    BY <2>1
  <2>2. CASE b # a
    <3>1. entry'[b] = entry[b]
      BY <2>2
    <3>2. entry[b].at \in {"logs", "announces"} => entry[b].number \in Numbers
      BY DEF IntakeTypeOK, ClerkRequests
    <3>3. QED
      BY <3>1, <3>2 DEF AnnouncedAreLogged, Grows
  <2>3. QED
    BY <2>1, <2>2
<1>3. QED
  BY <1>1, <1>2 DEF AnnouncedAreLogged

LEMMA ShipmentsStill ==
  ASSUME UNCHANGED shipment
  PROVE  Grows /\ \A b : By(b)' = By(b) /\ PlacesBy(b)' = PlacesBy(b) /\ LateBy(b)' = LateBy(b)
BY DEF Grows, By, PlacesBy, LateBy

(* Types, from what a step writes.                                                *)
LEMMA TypesKept ==
  ASSUME IntakeTypeOK, shipment' \in [Numbers -> {Nowhere} \cup Stored], selling' \subseteq selling,
         announced' \subseteq Numbers, NEW a \in Uploaders \cup Clerks, NEW r, Enters(a, r),
         a \in Clerks => r \in ClerkRequests, a \in Uploaders => UploadOK(r)
  PROVE  IntakeTypeOK'
<1>1. /\ entry'[a] = r /\ \A b \in (Uploaders \cup Clerks) \ {a} : entry'[b] = entry[b]
      /\ DOMAIN entry' = Uploaders \cup Clerks /\ entry' = [b \in DOMAIN entry' |-> entry'[b]]
  BY EntersEffect
<1>2. ASSUME NEW b \in Clerks PROVE entry'[b] \in ClerkRequests
  BY <1>1 DEF IntakeTypeOK
<1>3. ASSUME NEW b \in Uploaders PROVE UploadOK(entry'[b])
  <2>1. CASE b = a
    BY <1>1, <2>1
  <2>2. CASE b # a
    BY <1>1, <2>2 DEF IntakeTypeOK
  <2>3. QED
    BY <2>1, <2>2
<1>4. \A b \in Uploaders : UploadOK(entry[b])'
  BY <1>3 DEF UploadOK
<1>5. selling' \subseteq Sellers
  BY DEF IntakeTypeOK
<1>6. ClerkRequests' = ClerkRequests /\ Stored' = Stored /\ Nowhere' = Nowhere
  BY DEF ClerkRequests, Stored, Nowhere, Data
<1>7. QED
  BY <1>1, <1>2, <1>4, <1>5, <1>6 DEF IntakeTypeOK

(* A clerk's step adds no row of an upload and takes none away.                      *)
LEMMA ClerkStepKeepsInv ==
  ASSUME IntakeInv, NEW a \in Clerks, ClerkStep(a)
  PROVE  IntakeInv'
<1>inv. IntakeTypeOK /\ AnnouncedAreLogged /\ \A b \in Uploaders : UploadStands(b)
  BY DEF IntakeInv
<1>1. PICK e : e = entry[a]
  OBVIOUS
<1>2. e.at \in {"inserts", "logs", "announces"} =>
        e \in [at : {"inserts", "logs", "announces"}, seller : Sellers, number : Numbers]
  BY <1>inv, <1>1 DEF IntakeTypeOK, ClerkRequests
<1>apart. \A b \in Uploaders : b # a
  BY RequestsApart
<1>3. ASSUME NEW r \in ClerkRequests, Enters(a, r), UNCHANGED selling, announced' \subseteq Numbers,
             shipment' \in [Numbers -> {Nowhere} \cup Stored], Grows,
             \A b \in Uploaders : By(b)' = By(b),
             \A n \in announced' \ announced : shipment'[n] # Nowhere /\ shipment'[n].logged,
             r.at \in {"logs", "announces"} => shipment'[r.number] # Nowhere,
             r.at = "announces" => shipment'[r.number].logged
      PROVE  IntakeInv'
  <2>1. IntakeTypeOK'
    BY <1>3, <1>inv, <1>apart, TypesKept
  <2>2. entry'[a] = r /\ \A b \in (Uploaders \cup Clerks) \ {a} : entry'[b] = entry[b]
    BY <1>3, <1>inv, EntersEffect
  <2>3. AnnouncedAreLogged'
    BY <1>3, <1>inv, <2>2, AnnouncementsKept
  <2>4. \A b \in Uploaders : UploadStands(b)'
    BY <1>3, <1>inv, <1>apart, <2>2, OthersStand
  <2>5. QED
    BY <2>1, <2>3, <2>4 DEF IntakeInv
<1>4. CASE ChoosesNumber(a)
  <2>1. PICK s \in selling, n \in Free : Enters(a, [at |-> "inserts", seller |-> s, number |-> n])
    BY <1>4 DEF ChoosesNumber
  <2>2. UNCHANGED <<shipment, selling, zoned, announced>>
    BY <1>4 DEF ChoosesNumber
  <2>3. PICK r : r = [at |-> "inserts", seller |-> s, number |-> n]
    OBVIOUS
  <2>4. r \in ClerkRequests /\ r.at = "inserts"
    BY <1>inv, <2>3 DEF IntakeTypeOK, ClerkRequests, Free
  <2>5. QED
    BY <1>3, <1>inv, <2>1, <2>2, <2>3, <2>4, ShipmentsStill DEF IntakeTypeOK
<1>5. CASE StoresOne(a)
  <2>1. PICK x : x = NewShipment(a, e.seller, 1, [type |-> "PREPAID"], FALSE)
    OBVIOUS
  <2>2. /\ e.at = "inserts" /\ e.number \in Free /\ shipment' = [shipment EXCEPT ![e.number] = x]
        /\ Enters(a, [e EXCEPT !.at = "logs"]) /\ UNCHANGED <<selling, zoned, announced>>
    BY <1>1, <1>5, <2>1 DEF StoresOne
  <2>3. x \in Stored /\ x # Nowhere /\ x.by = a
    <3>1. [type |-> "PREPAID"] \in Data /\ e.seller \in Sellers
      BY <1>2, <2>2 DEF Data
    <3>2. x.by = a
      BY <2>1 DEF NewShipment
    <3>3. QED
      BY <2>1, <3>1, <3>2, NewShipmentIsStored
  <2>4. PICK r : r = [e EXCEPT !.at = "logs"]
    OBVIOUS
  <2>5. r \in ClerkRequests /\ r.at = "logs" /\ r.number = e.number /\ e.number \in Numbers
    BY <1>2, <2>2, <2>4 DEF ClerkRequests
  <2>6. shipment' \in [Numbers -> {Nowhere} \cup Stored]
    BY <1>inv, <2>2, <2>3 DEF IntakeTypeOK
  <2>7. shipment[e.number] = Nowhere /\ shipment'[e.number] = x
        /\ \A n \in Numbers \ {e.number} : shipment'[n] = shipment[n]
    BY <1>inv, <2>2 DEF IntakeTypeOK, Free
  <2>8. Grows /\ \A b \in Uploaders : By(b)' = By(b)
    BY <1>apart, <2>3, <2>7 DEF Grows, By
  <2>9. QED
    BY <1>3, <1>inv, <2>2, <2>3, <2>4, <2>5, <2>6, <2>7, <2>8 DEF IntakeTypeOK
<1>6. CASE LogsCreation(a)
  <2>1. /\ e.at = "logs" /\ shipment' = [shipment EXCEPT ![e.number].logged = TRUE]
        /\ Enters(a, [e EXCEPT !.at = "announces"]) /\ UNCHANGED <<selling, zoned, announced>>
    BY <1>1, <1>6 DEF LogsCreation
  <2>2. e.number \in Numbers /\ shipment[e.number] # Nowhere
    BY <1>inv, <1>1, <1>2, <2>1 DEF AnnouncedAreLogged
  <2>3. shipment[e.number] \in Stored
    BY <1>inv, <2>2, ShippedFields
  <2>4. PICK x : x = [shipment[e.number] EXCEPT !.logged = TRUE]
    OBVIOUS
  <2>5. /\ x \in Stored /\ x.by = shipment[e.number].by /\ x.row = shipment[e.number].row
        /\ x.late = shipment[e.number].late /\ x.logged
    BY <2>3, <2>4 DEF Stored
  <2>6. x # Nowhere
    <3>1. "row" \in DOMAIN x /\ "row" \notin DOMAIN Nowhere
      BY <2>5 DEF Stored, Nowhere
    <3>2. QED
      BY <3>1
  <2>7. shipment'[e.number] = x /\ \A n \in Numbers \ {e.number} : shipment'[n] = shipment[n]
    BY <1>inv, <2>1, <2>2, <2>4 DEF IntakeTypeOK
  <2>8. shipment' \in [Numbers -> {Nowhere} \cup Stored]
    BY <1>inv, <2>1, <2>4, <2>5 DEF IntakeTypeOK
  <2>9. Grows
    BY <2>5, <2>6, <2>7 DEF Grows
  <2>10. \A b \in Uploaders : By(b)' = By(b)
    BY <2>2, <2>5, <2>6, <2>7 DEF By
  <2>11. PICK r : r = [e EXCEPT !.at = "announces"]
    OBVIOUS
  <2>12. r \in ClerkRequests /\ r.at = "announces" /\ r.number = e.number
    BY <1>2, <2>1, <2>11 DEF ClerkRequests
  <2>13. QED
    BY <1>3, <1>inv, <2>1, <2>5, <2>6, <2>7, <2>8, <2>9, <2>10, <2>11, <2>12 DEF IntakeTypeOK
<1>7. CASE Announces(a)
  <2>1. /\ e.at = "announces" /\ announced' = announced \cup {e.number}
        /\ Enters(a, [at |-> "answered"]) /\ UNCHANGED <<shipment, selling, zoned>>
    BY <1>1, <1>7 DEF Announces
  <2>2. e.number \in Numbers /\ shipment[e.number] # Nowhere /\ shipment[e.number].logged
    BY <1>inv, <1>1, <1>2, <2>1 DEF AnnouncedAreLogged
  <2>3. PICK r : r = [at |-> "answered"]
    OBVIOUS
  <2>4. r \in ClerkRequests /\ r.at = "answered"
    BY <2>3 DEF ClerkRequests
  <2>5. QED
    BY <1>3, <1>inv, <2>1, <2>2, <2>3, <2>4, ShipmentsStill DEF IntakeTypeOK
<1>8. QED
  BY <1>4, <1>5, <1>6, <1>7 DEF ClerkStep

(* A step that stores nothing, of a request that stands where it goes.               *)
LEMMA QuietKeepsInv ==
  ASSUME IntakeInv, NEW a \in Uploaders \cup Clerks, NEW r, Enters(a, r),
         UNCHANGED <<shipment, selling, announced>>,
         a \in Clerks => r \in ClerkRequests /\ r.at \notin {"logs", "announces"},
         a \in Uploaders => UploadOK(r) /\ StandsAt(a, r)
  PROVE  IntakeInv'
<1>inv. IntakeTypeOK /\ AnnouncedAreLogged /\ \A b \in Uploaders : UploadStands(b)
  BY DEF IntakeInv
<1>1. Grows /\ \A b : By(b)' = By(b) /\ PlacesBy(b)' = PlacesBy(b) /\ LateBy(b)' = LateBy(b)
  BY ShipmentsStill
<1>2. entry'[a] = r /\ \A b \in (Uploaders \cup Clerks) \ {a} : entry'[b] = entry[b]
  BY <1>inv, EntersEffect
<1>3. IntakeTypeOK'
  <2>1. shipment' \in [Numbers -> {Nowhere} \cup Stored] /\ announced' \subseteq Numbers
    BY <1>inv DEF IntakeTypeOK
  <2>2. QED
    BY <1>inv, <2>1, TypesKept
<1>4. AnnouncedAreLogged'
  BY <1>inv, <1>1, <1>2, AnnouncementsKept
<1>5. ASSUME NEW b \in Uploaders PROVE UploadStands(b)'
  <2>1. CASE b = a
    <3>1. (\A n \in By(a) : shipment[n].logged)' <=> \A n \in By(a) : shipment[n].logged
      BY <1>1
    <3>2. StoredPlaces(r)' = StoredPlaces(r)
      BY DEF StoredPlaces, Turn
    <3>3. StandsAt(a, r)'
      BY <1>1, <2>1, <3>1, <3>2 DEF StandsAt
    <3>4. QED
      BY <1>2, <2>1, <3>3 DEF UploadStands
  <2>2. CASE b # a
    BY <1>inv, <1>1, <1>2, <2>2, OthersStand
  <2>3. QED
    BY <2>1, <2>2
<1>6. QED
  BY <1>3, <1>4, <1>5 DEF IntakeInv

LEMMA NothingLate ==
  ASSUME NEW a, By(a) = {} \/ LateBy(a) = {} PROVE LateBy(a) = {} /\ Cardinality(LateBy(a)) <= BatchSize
<1>1. LateBy(a) = {}
  BY DEF LateBy
<1>2. QED
  BY <1>1, FS_EmptySet, IntakeAssumption

LEMMA ReadingKeepsInv ==
  ASSUME IntakeInv, NEW a \in Uploaders, ReadsFile(a)
  PROVE  IntakeInv'
<1>1. entry[a].at = "idle" /\ UNCHANGED <<shipment, selling, announced>>
  BY DEF ReadsFile
<1>2. By(a) = {} /\ PlacesBy(a) = {} /\ Cardinality(LateBy(a)) <= BatchSize
  <2>1. By(a) = {}
    BY <1>1 DEF IntakeInv, UploadStands, StandsAt
  <2>2. QED
    BY <2>1, NothingLate DEF PlacesBy
<1>3. a \notin Clerks
  BY RequestsApart
<1>4. PICK s \in selling, f \in Files :
        Enters(a, IF ValidPlaces(f) = {} THEN [at |-> "answered"]
                  ELSE [at |-> "numbers", seller |-> s, file |-> f, places |-> ValidPlaces(f)])
  BY DEF ReadsFile
<1>5. CASE ValidPlaces(f) = {}
  <2>1. PICK r : r = [at |-> "answered"]
    OBVIOUS
  <2>2. UploadOK(r) /\ r.at = "answered" /\ "places" \notin DOMAIN r
    BY <2>1 DEF UploadOK
  <2>3. StandsAt(a, r)
    BY <1>2, <2>2, FS_EmptySet DEF StandsAt
  <2>4. QED
    BY <1>1, <1>3, <1>4, <1>5, <2>1, <2>2, <2>3, QuietKeepsInv
<1>6. CASE ValidPlaces(f) # {}
  <2>1. PICK P : P = ValidPlaces(f)
    OBVIOUS
  <2>2. PICK r : r = [at |-> "numbers", seller |-> s, file |-> f, places |-> P]
    OBVIOUS
  <2>3. P \subseteq DOMAIN f /\ P \subseteq Nat
    <3>1. f \in Seq({f[i] : i \in DOMAIN f})
      BY IntakeAssumption
    <3>2. DOMAIN f \subseteq Nat
      BY <3>1
    <3>3. QED
      BY <2>1, <3>2 DEF ValidPlaces
  <2>4. UploadOK(r) /\ r.at = "numbers" /\ r.places # {}
    BY <1>6, <2>1, <2>2, <2>3 DEF UploadOK, IntakeInv, IntakeTypeOK
  <2>5. StandsAt(a, r)
    BY <1>2, <2>4, FS_EmptySet DEF StandsAt
  <2>6. QED
    BY <1>1, <1>3, <1>4, <1>6, <2>1, <2>2, <2>4, <2>5, QuietKeepsInv
<1>7. QED
  BY <1>5, <1>6

LEMMA NumberingKeepsInv ==
  ASSUME IntakeInv, NEW a \in Uploaders, TakesNumbers(a)
  PROVE  IntakeInv'
<1>1. PICK e : e = entry[a]
  OBVIOUS
<1>2. e.at = "numbers" /\ UNCHANGED <<shipment, selling, announced>> /\ UploadOK(e)
  BY <1>1 DEF TakesNumbers, IntakeInv, IntakeTypeOK
<1>3. PICK numbers \in [e.places -> Free] :
        Enters(a, [at |-> "checks", seller |-> e.seller, file |-> e.file,
                   places |-> e.places, numbers |-> numbers, done |-> 0])
  BY <1>1 DEF TakesNumbers
<1>4. PICK r : r = [at |-> "checks", seller |-> e.seller, file |-> e.file,
                    places |-> e.places, numbers |-> numbers, done |-> 0]
  OBVIOUS
<1>5. r.at = "checks" /\ r.places = e.places /\ r.done = 0
  BY <1>4
<1>6. By(a) = {} /\ PlacesBy(a) = {} /\ LateBy(a) = {} /\ Cardinality(LateBy(a)) <= BatchSize
      /\ e.places # {}
  <2>1. By(a) = {} /\ e.places # {}
    BY <1>1, <1>2 DEF IntakeInv, UploadStands, StandsAt
  <2>2. QED
    BY <2>1, NothingLate DEF PlacesBy
<1>7. UploadOK(r)
  <2>1. numbers \in [e.places -> Numbers]
    BY DEF Free
  <2>2. /\ e.seller \in Sellers /\ e.file \in Files /\ e.places \in SUBSET Nat
        /\ e.places \subseteq DOMAIN e.file
    BY <1>2 DEF UploadOK
  <2>3. QED
    BY <1>4, <2>1, <2>2 DEF UploadOK
<1>8. IsFiniteSet(e.places) /\ e.places \subseteq Nat
  BY <1>2, PlacesFinite
<1>9. StoredPlaces(r) = {}
  <2>1. \A i \in r.places : Turn(r, i) \in 1..Cardinality(r.places)
    BY <1>5, <1>8, TurnsCountOff
  <2>2. Cardinality(r.places) \in Nat
    BY <1>5, <1>8, FS_CardinalityType
  <2>3. QED
    BY <1>5, <2>1, <2>2 DEF StoredPlaces
<1>10. r.done < Cardinality(r.places)
  BY <1>5, <1>6, <1>8, FS_EmptySet, FS_CardinalityType
<1>11. \E m \in Nat : r.done = m * BatchSize
  <2>1. 0 * BatchSize = 0
    BY IntakeAssumption
  <2>2. QED
    BY <1>5, <2>1
<1>12. StandsAt(a, r)
  BY <1>5, <1>6, <1>9, <1>10, <1>11, FS_EmptySet DEF StandsAt
<1>13. a \notin Clerks
  BY RequestsApart
<1>14. QED
  BY <1>2, <1>3, <1>4, <1>7, <1>12, <1>13, QuietKeepsInv

LEMMA CheckingKeepsInv ==
  ASSUME IntakeInv, NEW a \in Uploaders, ChecksSeller(a)
  PROVE  IntakeInv'
<1>1. PICK e : e = entry[a]
  OBVIOUS
<1>2. PICK r : r = [e EXCEPT !.at = "stores"]
  OBVIOUS
<1>3. /\ e.at = "checks" /\ e.seller \in selling /\ Enters(a, r)
      /\ UNCHANGED <<shipment, selling, announced>> /\ UploadOK(e) /\ StandsAt(a, e)
  BY <1>1, <1>2 DEF ChecksSeller, StillSelling, IntakeInv, IntakeTypeOK, UploadStands
<1>4. /\ UploadOK(r) /\ r.at = "stores" /\ r.places = e.places /\ r.done = e.done
  BY <1>2, <1>3 DEF UploadOK
<1>5. StoredPlaces(r) = StoredPlaces(e)
  BY <1>4 DEF StoredPlaces, Turn
<1>6. StandsAt(a, r)
  BY <1>3, <1>4, <1>5 DEF StandsAt
<1>7. a \notin Clerks
  BY RequestsApart
<1>8. QED
  BY <1>3, <1>4, <1>6, <1>7, QuietKeepsInv

(* What a file has brought in, counted by rows and by numbers.                       *)
LEMMA RowsAndNumbers ==
  ASSUME NEW a, IsFiniteSet(By(a)),
         \A n, m \in By(a) : shipment[n].row = shipment[m].row => n = m
  PROVE  IsFiniteSet(PlacesBy(a)) /\ Cardinality(PlacesBy(a)) = Cardinality(By(a))
<1> DEFINE S == By(a)
           T == PlacesBy(a)
           f == [n \in S |-> shipment[n].row]
<1>1. f \in [S -> T] /\ (\A x, y \in S : f[x] = f[y] => x = y) /\ \A t \in T : \E x \in S : f[x] = t
  BY DEF PlacesBy
<1> HIDE DEF S, T, f
<1>2. IsFiniteSet(S) => IsFiniteSet(T) /\ Cardinality(T) = Cardinality(S)
  BY <1>1, OneToOne
<1>3. QED
  BY <1>2 DEF S, T

LEMMA FailingKeepsInv ==
  ASSUME IntakeInv, NEW a \in Uploaders \cup Clerks, Fails(a)
  PROVE  IntakeInv'
<1>1. PICK e : e = entry[a]
  OBVIOUS
<1>2. PICK r : r = [at |-> "failed"]
  OBVIOUS
<1>3. /\ e.at \notin {"idle", "answered", "failed"} /\ Enters(a, r)
      /\ UNCHANGED <<shipment, selling, announced>>
  BY <1>1, <1>2 DEF Fails
<1>4. r \in ClerkRequests /\ r.at = "failed" /\ UploadOK(r)
  BY <1>2 DEF ClerkRequests, UploadOK
<1>5. ASSUME a \in Uploaders PROVE StandsAt(a, r)
  <2>1. StandsAt(a, e) /\ UploadOK(e)
    BY <1>1, <1>5 DEF IntakeInv, UploadStands, IntakeTypeOK
  <2>2. \E m \in Nat : Cardinality(By(a)) = m * BatchSize
    <3>1. CASE e.at = "numbers"
      <4>1. Cardinality(By(a)) = 0 /\ 0 * BatchSize = 0
        BY <2>1, <3>1, FS_EmptySet, IntakeAssumption DEF StandsAt
      <4>2. QED
        BY <4>1
    <3>2. CASE e.at \in {"checks", "stores"}
      <4>1. /\ PlacesBy(a) = StoredPlaces(e) /\ e.done < Cardinality(e.places) /\ e.done \in Nat
            /\ \E m \in Nat : e.done = m * BatchSize
        BY <1>1, <1>5, <2>1, <3>2, UploadFields DEF StandsAt, IntakeInv
      <4>2. IsFiniteSet(e.places) /\ e.places \subseteq Nat
        BY <2>1, <3>2, PlacesFinite
      <4>3. Cardinality(StoredPlaces(e)) = e.done
        BY <4>1, <4>2, StoredPlacesCounted, FS_CardinalityType
      <4>4. Cardinality(PlacesBy(a)) = Cardinality(By(a))
        BY <2>1, RowsAndNumbers DEF StandsAt
      <4>5. QED
        BY <4>1, <4>3, <4>4
    <3>3. QED
      BY <1>3, <2>1, <3>1, <3>2 DEF UploadOK
  <2>3. QED
    BY <1>4, <2>1, <2>2 DEF StandsAt
<1>6. QED
  BY <1>3, <1>4, <1>5, QuietKeepsInv

(* The rows that a batch stores, each under its number.                              *)
LEMMA BatchEffect ==
  ASSUME IntakeTypeOK, NEW a \in Uploaders, NEW e, e = entry[a], StoresBatch(a)
  PROVE  /\ \A i \in Batch(e) :
              /\ i \in e.places /\ e.numbers[i] \in Numbers /\ shipment[e.numbers[i]] = Nowhere
              /\ shipment'[e.numbers[i]].by = a /\ shipment'[e.numbers[i]].row = i
              /\ shipment'[e.numbers[i]].logged
              /\ shipment'[e.numbers[i]].late = (e.seller \notin selling)
              /\ shipment'[e.numbers[i]] \in Stored /\ shipment'[e.numbers[i]] # Nowhere
         /\ \A i, j \in Batch(e) : e.numbers[i] = e.numbers[j] => i = j
         /\ \A n \in Numbers : (\A i \in Batch(e) : e.numbers[i] # n) => shipment'[n] = shipment[n]
         /\ shipment' \in [Numbers -> {Nowhere} \cup Stored]
<1> DEFINE x(i) == NewShipment(a, e.seller, i, StoredRow(e.file[i]), TRUE)
<1>1. /\ e.at = "stores" /\ UploadOK(e) /\ e.seller \in Sellers
      /\ e.numbers \in [e.places -> Numbers]
  BY UploadFields DEF StoresBatch, IntakeTypeOK
<1>2. /\ \A i \in Batch(e) : e.numbers[i] \in Free
      /\ \A i, j \in Batch(e) : e.numbers[i] = e.numbers[j] => i = j
      /\ shipment' = [n \in Numbers |->
                        IF \E i \in Batch(e) : e.numbers[i] = n
                          THEN x(CHOOSE i \in Batch(e) : e.numbers[i] = n) ELSE shipment[n]]
  BY DEF StoresBatch, Injects
<1>3. e.places \subseteq Nat /\ e.places \subseteq DOMAIN e.file /\ e.file \in Files
  BY <1>1, PlacesFinite
<1>4. ASSUME NEW i \in Batch(e) PROVE i \in e.places /\ x(i) \in Stored \ {Nowhere}
  <2>1. i \in e.places
    BY DEF Batch
  <2>2. StoredRow(e.file[i]) \in Data
    BY <1>3, <2>1 DEF Data
  <2> HIDE DEF x
  <2>3. x(i) \in Stored \ {Nowhere}
    BY <1>1, <1>3, <2>1, <2>2, NewShipmentIsStored DEF x
  <2>4. QED
    BY <2>1, <2>3
<1> HIDE DEF x
<1>5. ASSUME NEW i \in Batch(e) PROVE shipment'[e.numbers[i]] = x(i) /\ e.numbers[i] \in Numbers
  <2>1. e.numbers[i] \in Numbers
    BY <1>2 DEF Free
  <2>2. (CHOOSE j \in Batch(e) : e.numbers[j] = e.numbers[i]) = i
    BY <1>2
  <2>3. QED
    BY <1>2, <2>1, <2>2
<1>6. \A n \in Numbers : (\A i \in Batch(e) : e.numbers[i] # n) => shipment'[n] = shipment[n]
  BY <1>2
<1>7. \A n \in Numbers : shipment'[n] \in {Nowhere} \cup Stored
  BY <1>4, <1>5, <1>6 DEF IntakeTypeOK
<1>8. shipment' \in [Numbers -> {Nowhere} \cup Stored]
  BY <1>2, <1>7
<1>9. \A i \in Batch(e) : shipment[e.numbers[i]] = Nowhere
  BY <1>2 DEF Free
<1>10. ASSUME NEW i \in Batch(e)
       PROVE  x(i).by = a /\ x(i).row = i /\ x(i).logged /\ x(i).late = (e.seller \notin selling)
  BY DEF x, NewShipment
<1>11. QED
  BY <1>2, <1>4, <1>5, <1>6, <1>8, <1>9, <1>10

LEMMA StoringKeepsInv ==
  ASSUME IntakeInv, NEW a \in Uploaders, StoresBatch(a)
  PROVE  IntakeInv'
<1>inv. IntakeTypeOK /\ AnnouncedAreLogged /\ \A b \in Uploaders : UploadStands(b)
  BY DEF IntakeInv
<1>1. PICK e : e = entry[a]
  OBVIOUS
<1>2. /\ e.at = "stores" /\ UploadOK(e) /\ StandsAt(a, e) /\ e.done \in Nat
      /\ IsFiniteSet(e.places) /\ e.places \subseteq Nat /\ Cardinality(e.places) \in Nat
  BY <1>inv, <1>1, UploadFields, PlacesFinite, FS_CardinalityType
  DEF StoresBatch, IntakeTypeOK, UploadStands
<1>3. PICK B : B = Batch(e)
  OBVIOUS
<1>4. IsFiniteSet(B) /\ Cardinality(B) <= BatchSize /\ Cardinality(B) \in Nat
  BY <1>2, <1>3, BatchCounted, FS_CardinalityType
<1>5. PICK numbers : numbers = e.numbers
  OBVIOUS
<1>6. /\ \A i \in B :
           /\ i \in e.places /\ numbers[i] \in Numbers /\ shipment[numbers[i]] = Nowhere
           /\ shipment'[numbers[i]].by = a /\ shipment'[numbers[i]].row = i
           /\ shipment'[numbers[i]].logged
           /\ shipment'[numbers[i]].late = (e.seller \notin selling)
           /\ shipment'[numbers[i]] \in Stored /\ shipment'[numbers[i]] # Nowhere
      /\ \A i, j \in B : numbers[i] = numbers[j] => i = j
      /\ \A n \in Numbers : (\A i \in B : numbers[i] # n) => shipment'[n] = shipment[n]
      /\ shipment' \in [Numbers -> {Nowhere} \cup Stored]
  <2>1. IntakeTypeOK /\ e = entry[a] /\ StoresBatch(a)
    BY <1>inv, <1>1
  <2>2. /\ \A i \in Batch(e) :
              /\ i \in e.places /\ e.numbers[i] \in Numbers /\ shipment[e.numbers[i]] = Nowhere
              /\ shipment'[e.numbers[i]].by = a /\ shipment'[e.numbers[i]].row = i
              /\ shipment'[e.numbers[i]].logged
              /\ shipment'[e.numbers[i]].late = (e.seller \notin selling)
              /\ shipment'[e.numbers[i]] \in Stored /\ shipment'[e.numbers[i]] # Nowhere
        /\ \A i, j \in Batch(e) : e.numbers[i] = e.numbers[j] => i = j
        /\ \A n \in Numbers : (\A i \in Batch(e) : e.numbers[i] # n) => shipment'[n] = shipment[n]
        /\ shipment' \in [Numbers -> {Nowhere} \cup Stored]
    BY <2>1, BatchEffect
  <2>3. QED
    BY <1>3, <1>5, <2>2
<1>7. \A i \in B : /\ shipment'[numbers[i]].by = a /\ shipment'[numbers[i]].row = i
                   /\ shipment'[numbers[i]].logged
                   /\ shipment'[numbers[i]].late = (e.seller \notin selling)
  BY <1>6
<1>8. PICK N : N = {numbers[i] : i \in B}
  OBVIOUS
<1>placed. (\A n \in N : \E i \in B : n = numbers[i]) /\ \A i \in B : numbers[i] \in N
  BY <1>8
<1>9. \A n \in Numbers \ N : shipment'[n] = shipment[n]
  BY <1>6, <1>placed
<1>10. By(a)' = By(a) \cup N /\ By(a) \cap N = {} /\ By(a) \subseteq Numbers
  <2>1. \A n \in N : n \in Numbers /\ shipment[n] = Nowhere /\ shipment'[n] # Nowhere /\ shipment'[n].by = a
    BY <1>6, <1>7, <1>placed
  <2>2. QED
    BY <1>9, <2>1 DEF By
<1>11. Grows
  BY <1>6, <1>placed, <1>9 DEF Grows
<1>12. \A b \in Uploaders \ {a} : By(b)' = By(b)
  <2>1. \A n \in N : n \in Numbers /\ shipment[n] = Nowhere /\ shipment'[n].by = a
    BY <1>6, <1>7, <1>placed
  <2>2. QED
    BY <1>9, <2>1 DEF By
<1>13. IsFiniteSet(N) /\ Cardinality(N) = Cardinality(B)
  <2> DEFINE f == [i \in B |-> numbers[i]]
  <2>1. f \in [B -> N] /\ (\A x, y \in B : f[x] = f[y] => x = y) /\ \A t \in N : \E x \in B : f[x] = t
    <3>1. \A x, y \in B : numbers[x] = numbers[y] => x = y
      BY <1>6
    <3>2. QED
      BY <1>8, <3>1
  <2> HIDE DEF f
  <2>2. QED
    BY <1>4, <2>1, OneToOne
<1>14. PlacesBy(a)' = PlacesBy(a) \cup B
  <2>1. \A n \in By(a) : shipment'[n].row = shipment[n].row
    BY <1>9, <1>10
  <2>2. PlacesBy(a)' = {shipment'[n].row : n \in By(a) \cup N}
    BY <1>10 DEF PlacesBy
  <2>3. {shipment'[n].row : n \in N} = B
    BY <1>7, <1>8
  <2>4. {shipment'[n].row : n \in By(a)} = PlacesBy(a)
    BY <2>1 DEF PlacesBy
  <2>5. QED
    BY <2>2, <2>3, <2>4
<1>15. PICK done : done = e.done + BatchSize
  OBVIOUS
<1>16. PICK rest : rest = [e EXCEPT !.at = "checks", !.done = done]
  OBVIOUS
<1>17. PICK last : last = [at |-> "answered", file |-> e.file, places |-> e.places]
  OBVIOUS
<1>18. PICK r : r = IF done < Cardinality(e.places) THEN rest ELSE last
  OBVIOUS
<1>19. Enters(a, r) /\ UNCHANGED <<selling, zoned, announced>>
  BY <1>1, <1>2, <1>15, <1>16, <1>17, <1>18 DEF StoresBatch
<1>20. /\ rest.at = "checks" /\ rest.done = done /\ rest.places = e.places
       /\ rest.seller = e.seller /\ last.at = "answered" /\ last.places = e.places
       /\ "places" \in DOMAIN last /\ done \in Nat /\ e.done < done
  BY <1>2, <1>15, <1>16, <1>17, IntakeAssumption DEF UploadOK
<1>21. UploadOK(r)
  BY <1>2, <1>16, <1>17, <1>18, <1>20 DEF UploadOK
<1>22. IntakeTypeOK'
  <2>1. a \notin Clerks
    BY RequestsApart
  <2>2. QED
    BY <1>inv, <1>6, <1>19, <1>21, <2>1, TypesKept DEF IntakeTypeOK
<1>23. entry'[a] = r /\ \A b \in (Uploaders \cup Clerks) \ {a} : entry'[b] = entry[b]
  BY <1>inv, <1>19, EntersEffect
<1>24. AnnouncedAreLogged'
  <2>1. a \notin Clerks
    BY RequestsApart
  <2>2. QED
    BY <1>inv, <1>11, <1>19, <1>23, <2>1, AnnouncementsKept
<1>25. \A i \in e.places : Turn(e, i) \in 1..Cardinality(e.places)
  BY <1>2, TurnsCountOff
<1>26. \A i \in B : e.done < Turn(e, i) /\ Turn(e, i) <= done /\ i \in e.places
  BY <1>3, <1>15 DEF Batch
<1>27. PlacesBy(a) = {i \in e.places : Turn(e, i) <= e.done}
  BY <1>2 DEF StandsAt, StoredPlaces
<1>28. PlacesBy(a) \cup B = {i \in e.places : Turn(e, i) <= done}
  BY <1>2, <1>3, <1>15, <1>20, <1>25, <1>27 DEF Batch
<1>29. LateBy(a) = {} /\ LateBy(a)' = IF e.seller \in selling THEN {} ELSE N
  <2>1. LateBy(a) = {}
    BY <1>2 DEF StandsAt
  <2>2. \A n \in By(a) : ~shipment'[n].late
    BY <1>9, <1>10, <2>1 DEF LateBy
  <2>3. \A n \in N : shipment'[n].late <=> e.seller \notin selling
    BY <1>7, <1>8
  <2>4. LateBy(a)' = {n \in By(a) \cup N : shipment'[n].late}
    BY <1>10 DEF LateBy
  <2>5. QED
    BY <2>1, <2>2, <2>3, <2>4
<1>30. Cardinality(LateBy(a)') <= BatchSize
  BY <1>4, <1>13, <1>29, FS_EmptySet, IntakeAssumption
<1>31. \A n \in By(a)' : shipment'[n].logged
  <2>1. \A n \in By(a) : shipment'[n].logged
    BY <1>2, <1>9, <1>10 DEF StandsAt
  <2>2. \A n \in N : shipment'[n].logged
    BY <1>7, <1>8
  <2>3. QED
    BY <1>10, <2>1, <2>2
<1>32. ASSUME NEW n \in By(a)', NEW m \in By(a)', shipment'[n].row = shipment'[m].row PROVE n = m
  <2>1. \A k \in By(a) : shipment'[k].row = shipment[k].row /\ shipment'[k].row \notin B
    <3>1. \A k \in By(a) : shipment'[k] = shipment[k] /\ shipment[k].row \in PlacesBy(a)
      BY <1>9, <1>10 DEF PlacesBy
    <3>2. PlacesBy(a) \cap B = {}
      BY <1>2, <1>25, <1>26, <1>27
    <3>3. QED
      BY <3>1, <3>2
  <2>2. \A k \in N : shipment'[k].row \in B /\ numbers[shipment'[k].row] = k
    BY <1>7, <1>8
  <2>3. \A k, l \in By(a) : shipment[k].row = shipment[l].row => k = l
    BY <1>2 DEF StandsAt
  <2>4. QED
    BY <1>10, <1>32, <2>1, <2>2, <2>3
<1>33. IsFiniteSet(By(a)')
  <2>1. IsFiniteSet(By(a))
    BY <1>2 DEF StandsAt
  <2>2. QED
    BY <1>10, <1>13, <2>1, FS_Union
<1>34. StandsAt(a, r)'
  <2>1. CASE done < Cardinality(e.places)
    <3>1. r = rest
      BY <1>18, <2>1
    <3>2. StoredPlaces(r)' = {i \in e.places : Turn(e, i) <= done}
      BY <1>20, <3>1 DEF StoredPlaces, Turn
    <3>3. \E m \in Nat : done = m * BatchSize
      <4>1. PICK m \in Nat : e.done = m * BatchSize
        BY <1>2 DEF StandsAt
      <4>2. done = (m + 1) * BatchSize
        BY <1>15, <4>1, IntakeAssumption
      <4>3. QED
        BY <4>2
    <3>4. LateBy(a)' # {} => r.seller \notin selling'
      BY <1>19, <1>20, <1>29, <3>1
    <3>5. QED
      BY <1>14, <1>20, <1>28, <1>30, <1>31, <1>32, <1>33, <2>1, <3>1, <3>2, <3>3, <3>4 DEF StandsAt
  <2>2. CASE ~(done < Cardinality(e.places))
    <3>1. r = last
      BY <1>18, <2>2
    <3>2. {i \in e.places : Turn(e, i) <= done} = e.places
      BY <1>2, <1>20, <1>25, <2>2
    <3>3. QED
      BY <1>14, <1>20, <1>28, <1>30, <1>31, <1>32, <1>33, <3>1, <3>2 DEF StandsAt
  <2>3. QED
    BY <2>1, <2>2
<1>35. \A b \in Uploaders : UploadStands(b)'
  <2>1. UploadStands(a)'
    BY <1>23, <1>34 DEF UploadStands
  <2>2. ASSUME NEW b \in Uploaders \ {a} PROVE UploadStands(b)'
    BY <1>inv, <1>11, <1>12, <1>19, <1>23, OthersStand
  <2>3. QED
    BY <2>1, <2>2
<1>36. QED
  BY <1>22, <1>24, <1>35 DEF IntakeInv

LEMMA RemovingKeepsInv ==
  ASSUME IntakeInv, UNCHANGED <<shipment, announced, entry>>, selling' \subseteq selling
  PROVE  IntakeInv'
<1>inv. IntakeTypeOK /\ AnnouncedAreLogged /\ \A b \in Uploaders : UploadStands(b)
  BY DEF IntakeInv
<1>1. Grows /\ \A b : By(b)' = By(b)
  BY ShipmentsStill
<1>2. \A b \in Uploaders : UploadStands(b)'
  BY <1>inv, <1>1, OthersStand
<1>3. IntakeTypeOK'
  BY <1>inv DEF IntakeTypeOK, UploadOK, ClerkRequests, Stored, Data, Nowhere
<1>4. AnnouncedAreLogged'
  BY <1>inv DEF AnnouncedAreLogged, Nowhere
<1>5. QED
  BY <1>2, <1>3, <1>4 DEF IntakeInv

LEMMA IntakeInitially == IntakeInit => IntakeInv
<1> SUFFICES ASSUME IntakeInit PROVE IntakeInv
  OBVIOUS
<1>1. \A n \in Numbers : shipment[n] = Nowhere
  BY DEF IntakeInit
<1>2. \A a \in Uploaders \cup Clerks : entry[a] = [at |-> "idle"]
  BY DEF IntakeInit
<1>3. IntakeTypeOK
  BY <1>2 DEF IntakeInit, IntakeTypeOK, ClerkRequests, UploadOK
<1>4. AnnouncedAreLogged
  BY <1>2 DEF IntakeInit, AnnouncedAreLogged
<1>5. ASSUME NEW a \in Uploaders PROVE UploadStands(a)
  <2>1. By(a) = {}
    BY <1>1 DEF By
  <2>2. Cardinality(LateBy(a)) <= BatchSize
    BY <2>1, NothingLate
  <2>3. entry[a].at = "idle"
    BY <1>2
  <2>4. QED
    BY <2>1, <2>2, <2>3, FS_EmptySet DEF UploadStands, StandsAt
<1>6. QED
  BY <1>3, <1>4, <1>5 DEF IntakeInv

LEMMA IntakeInductive == IntakeSpec => []IntakeInv
<1>1. IntakeInv /\ [IntakeNext]_intakeVars => IntakeInv'
  <2> SUFFICES ASSUME IntakeInv, [IntakeNext]_intakeVars PROVE IntakeInv'
    OBVIOUS
  <2>1. ASSUME NEW a \in Clerks, ClerkStep(a) PROVE IntakeInv'
    BY <2>1, ClerkStepKeepsInv
  <2>2. ASSUME NEW a \in Uploaders, UploadStep(a) PROVE IntakeInv'
    BY <2>2, ReadingKeepsInv, NumberingKeepsInv, CheckingKeepsInv, StoringKeepsInv DEF UploadStep
  <2>3. ASSUME NEW a \in Clerks \cup Uploaders, Fails(a) PROVE IntakeInv'
    BY <2>3, FailingKeepsInv
  <2>4. CASE RemovesSeller
    BY <2>4, RemovingKeepsInv DEF RemovesSeller
  <2>5. CASE RemovesZone
    BY <2>5, RemovingKeepsInv DEF RemovesZone
  <2>6. CASE UNCHANGED intakeVars
    BY <2>6, RemovingKeepsInv DEF intakeVars
  <2>7. QED
    BY <2>1, <2>2, <2>3, <2>4, <2>5, <2>6 DEF IntakeNext
<1>2. QED
  BY <1>1, IntakeInitially, PTL DEF IntakeSpec

(* BulkUploadService stores the valid rows of a file each once and with its log, a    *)
(* batch at a time from the front, whatever else is written and removed meanwhile;    *)
(* and ShipmentsService announces what is stored and logged.                         *)
THEOREM UploadsComeInWhole == IntakeSpec => []UploadsAreWhole
<1>1. ASSUME IntakeInv, NEW a \in Uploaders
      PROVE  /\ Cardinality(By(a)) = Cardinality(PlacesBy(a))
             /\ \A n \in By(a) : shipment[n].logged
             /\ entry[a].at \in {"checks", "stores"} =>
                  PlacesBy(a) = {i \in entry[a].places : Turn(entry[a], i) <= entry[a].done}
             /\ entry[a].at = "failed" => Cardinality(By(a)) % BatchSize = 0
             /\ entry[a].at = "answered" =>
                  PlacesBy(a) = IF "places" \in DOMAIN entry[a] THEN entry[a].places ELSE {}
  <2>1. StandsAt(a, entry[a])
    BY <1>1 DEF IntakeInv, UploadStands
  <2>2. Cardinality(By(a)) = Cardinality(PlacesBy(a))
    BY <2>1, RowsAndNumbers DEF StandsAt
  <2>3. ASSUME NEW m \in Nat PROVE (m * BatchSize) % BatchSize = 0
    BY IntakeAssumption
  <2>4. entry[a].at = "failed" => Cardinality(By(a)) % BatchSize = 0
    BY <2>1, <2>3 DEF StandsAt
  <2>5. QED
    BY <2>1, <2>2, <2>4 DEF StandsAt, StoredPlaces
<1>2. IntakeInv => UploadsAreWhole
  BY <1>1 DEF UploadsAreWhole, IntakeInv, AnnouncedAreLogged
<1>3. QED
  BY <1>2, IntakeInductive, PTL

(* The look at the merchant that each batch's transaction makes bounds what is         *)
(* stored for a merchant who is gone: one batch of each upload at most.              *)
THEOREM RemovalEndsUploads == IntakeSpec => []RemovalStopsUploads
<1>1. IntakeInv => RemovalStopsUploads
  BY DEF IntakeInv, UploadStands, StandsAt, LateBy, RemovalStopsUploads
<1>2. QED
  BY <1>1, IntakeInductive, PTL

----------------------------------------------------------------------------
(* Reports *)

(* Figures F: the parts are some of them, and no state is counted by two.            *)
Apart(F, parts) ==
  /\ IsFiniteSet(parts) /\ parts \subseteq DOMAIN F
  /\ \A f, g \in parts : f # g => F[f] \cap F[g] = {}

(* The parts count states of the whole only; and each of those is some part's.         *)
Inside(F, parts, whole) == \A f \in parts : F[f] \subseteq whole
Exhaust(F, parts, whole) == \A s \in whole : \E f \in parts : s \in F[f]

(* What the laws of a report presuppose of its figures.                              *)
SumFits(F, law) ==
  /\ law[2] \in DOMAIN F /\ Apart(F, law[1])
  /\ Inside(F, law[1], F[law[2]]) /\ Exhaust(F, law[1], F[law[2]])
WithinFits(F, law) ==
  law[2] \in DOMAIN F /\ Apart(F, law[1]) /\ Inside(F, law[1], F[law[2]])
CountFits(F, law) ==
  Apart(F, law[1]) /\ Inside(F, law[1], law[2]) /\ Exhaust(F, law[1], law[2])

LawsFit(r) ==
  /\ \A law \in r.sums : SumFits(r.figures, law)
  /\ \A law \in r.within : WithinFits(r.figures, law)
  /\ \A law \in r.counts : CountFits(r.figures, law)
  /\ r.atOnce \in BOOLEAN /\ (r.atOnce => r.within = {} /\ r.counts = {})

LEMMA SmallSetsFinite ==
  ASSUME NEW a, NEW b, NEW c, NEW d
  PROVE  /\ IsFiniteSet({a}) /\ IsFiniteSet({a, b}) /\ IsFiniteSet({a, b, c})
         /\ IsFiniteSet({a, b, c, d})
<1>1. IsFiniteSet({a})
  BY FS_Singleton
<1>2. IsFiniteSet({a, b})
  <2>1. {a, b} = {a} \cup {b}
    OBVIOUS
  <2>2. QED
    BY <1>1, <2>1, FS_AddElement
<1>3. IsFiniteSet({a, b, c})
  <2>1. {a, b, c} = {a, b} \cup {c}
    OBVIOUS
  <2>2. QED
    BY <1>2, <2>1, FS_AddElement
<1>4. IsFiniteSet({a, b, c, d})
  <2>1. {a, b, c, d} = {a, b, c} \cup {d}
    OBVIOUS
  <2>2. QED
    BY <1>3, <2>1, FS_AddElement
<1>5. QED
  BY <1>1, <1>2, <1>3, <1>4

LEMMA StatusNames ==
  Statuses = {"PENDING", "PICKED_UP", "IN_WAREHOUSE", "OUT_FOR_DELIVERY", "DELIVERED",
              "FAILED", "POSTPONED", "RETURNED", "CANCELLED"}
BY DEF Statuses, TRANSITION_MATRIX

(* The laws of a report are the ones it is given, about the figures it is given.         *)
LEMMA OneWithin ==
  ASSUME NEW table, NEW F, NEW parts, NEW g, WithinFits(F, <<parts, g>>)
  PROVE  LawsFit([Report(table, F) EXCEPT !.within = {<<parts, g>>}])
BY DEF LawsFit, Report

LEMMA OneSum ==
  ASSUME NEW table, NEW F, NEW parts, NEW g, SumFits(F, <<parts, g>>)
  PROVE  /\ LawsFit([Report(table, F) EXCEPT !.sums = {<<parts, g>>}])
         /\ LawsFit([Report(table, F) EXCEPT !.atOnce = TRUE, !.sums = {<<parts, g>>}])
BY DEF LawsFit, Report

LEMMA OneCount ==
  ASSUME NEW table, NEW F, NEW parts, NEW states, CountFits(F, <<parts, states>>)
  PROVE  LawsFit([Report(table, F) EXCEPT !.counts = {<<parts, states>>}])
BY DEF LawsFit, Report

LEMMA SumAndWithin ==
  ASSUME NEW table, NEW F, NEW parts, NEW g, NEW some, NEW h,
         SumFits(F, <<parts, g>>), WithinFits(F, <<some, h>>)
  PROVE  LawsFit([Report(table, F) EXCEPT !.sums = {<<parts, g>>}, !.within = {<<some, h>>}])
BY DEF LawsFit, Report

LEMMA SumAndCount ==
  ASSUME NEW table, NEW F, NEW parts, NEW g, NEW some, NEW states,
         SumFits(F, <<parts, g>>), CountFits(F, <<some, states>>)
  PROVE  LawsFit([Report(table, F) EXCEPT !.sums = {<<parts, g>>}, !.counts = {<<some, states>>}])
BY DEF LawsFit, Report

LEMMA MerchantDashboardFits == LawsFit(MerchantDashboard)
<1> DEFINE F ==
             [total |-> Statuses, pending |-> {"PENDING"},
              inTransit |-> {"PICKED_UP", "IN_WAREHOUSE", "OUT_FOR_DELIVERY"},
              delivered |-> {"DELIVERED"}, returned |-> {"RETURNED"}]
           parts == {"pending", "inTransit", "delivered", "returned"}
<1>1. WithinFits(F, <<parts, "total">>)
  <2>1. Apart(F, parts)
    <3>1. IsFiniteSet(parts)
      BY SmallSetsFinite
    <3>2. parts \subseteq DOMAIN F
      OBVIOUS
    <3>3. \A f, g \in parts : f # g => F[f] \cap F[g] = {}
      OBVIOUS
    <3>4. QED
      BY <3>1, <3>2, <3>3 DEF Apart
  <2>2. Inside(F, parts, F["total"])
    BY StatusNames DEF Inside
  <2>3. QED
    BY <2>1, <2>2 DEF WithinFits
<1>2. QED
  BY <1>1, OneWithin DEF MerchantDashboard

LEMMA AdminDashboardFits == LawsFit(AdminDashboard)
<1> DEFINE F ==
             [shipmentsCreated |-> Statuses, shipmentsDelivered |-> {"DELIVERED"},
              shipmentsFailed |-> {"FAILED"}, pendingAssignments |-> {"PENDING"}]
           parts == {"shipmentsDelivered", "shipmentsFailed", "pendingAssignments"}
<1>1. WithinFits(F, <<parts, "shipmentsCreated">>)
  <2>1. Apart(F, parts)
    <3>1. IsFiniteSet(parts)
      BY SmallSetsFinite
    <3>2. parts \subseteq DOMAIN F
      OBVIOUS
    <3>3. \A f, g \in parts : f # g => F[f] \cap F[g] = {}
      OBVIOUS
    <3>4. QED
      BY <3>1, <3>2, <3>3 DEF Apart
  <2>2. Inside(F, parts, F["shipmentsCreated"])
    BY StatusNames DEF Inside
  <2>3. QED
    BY <2>1, <2>2 DEF WithinFits
<1>2. QED
  BY <1>1, OneWithin DEF AdminDashboard

LEMMA AdminCouriersFits == LawsFit(AdminCouriers)
<1> DEFINE F ==
             [couriersOnline |-> {"online"}, couriersOffline |-> {"offline"}]
           parts == {"couriersOnline", "couriersOffline"}
<1>1. CountFits(F, <<parts, {"online", "offline"}>>)
  <2>1. Apart(F, parts)
    <3>1. IsFiniteSet(parts)
      BY SmallSetsFinite
    <3>2. parts \subseteq DOMAIN F
      OBVIOUS
    <3>3. \A f, g \in parts : f # g => F[f] \cap F[g] = {}
      OBVIOUS
    <3>4. QED
      BY <3>1, <3>2, <3>3 DEF Apart
  <2>2. Inside(F, parts, {"online", "offline"})
    BY DEF Inside
  <2>3. Exhaust(F, parts, {"online", "offline"})
    BY DEF Exhaust
  <2>4. QED
    BY <2>1, <2>2, <2>3 DEF CountFits
<1>2. QED
  BY <1>1, OneCount DEF AdminCouriers

LEMMA FinancialSummaryFits == LawsFit(FinancialSummary)
<1> DEFINE F ==
             [expected |-> {"DELIVERED", "PICKED_UP", "OUT_FOR_DELIVERY"},
              dailyCodCollected |-> {"DELIVERED"}]
           parts == {"dailyCodCollected"}
<1>1. WithinFits(F, <<parts, "expected">>)
  <2>1. Apart(F, parts)
    <3>1. IsFiniteSet(parts)
      BY SmallSetsFinite
    <3>2. parts \subseteq DOMAIN F
      OBVIOUS
    <3>3. \A f, g \in parts : f # g => F[f] \cap F[g] = {}
      OBVIOUS
    <3>4. QED
      BY <3>1, <3>2, <3>3 DEF Apart
  <2>2. Inside(F, parts, F["expected"])
    BY DEF Inside
  <2>3. QED
    BY <2>1, <2>2 DEF WithinFits
<1>2. QED
  BY <1>1, OneWithin DEF FinancialSummary

LEMMA MerchantDeliveryReportFits == LawsFit(MerchantDeliveryReport)
<1> DEFINE F ==
             [totalShipments |-> {"DELIVERED", "RETURNED"},
              delivered |-> {"DELIVERED"}, returned |-> {"RETURNED"}]
           parts == {"delivered", "returned"}
<1>1. SumFits(F, <<parts, "totalShipments">>)
  <2>1. Apart(F, parts)
    <3>1. IsFiniteSet(parts)
      BY SmallSetsFinite
    <3>2. parts \subseteq DOMAIN F
      OBVIOUS
    <3>3. \A f, g \in parts : f # g => F[f] \cap F[g] = {}
      OBVIOUS
    <3>4. QED
      BY <3>1, <3>2, <3>3 DEF Apart
  <2>2. Inside(F, parts, F["totalShipments"])
    BY DEF Inside
  <2>3. Exhaust(F, parts, F["totalShipments"])
    BY DEF Exhaust
  <2>4. QED
    BY <2>1, <2>2, <2>3 DEF SumFits
<1>2. QED
  BY <1>1, OneSum DEF MerchantDeliveryReport

LEMMA PlatformShipmentsFits == LawsFit(PlatformShipments)
<1> DEFINE F ==
             [totalShipments |-> Statuses, deliveredShipments |-> {"DELIVERED"},
              failedShipments |-> {"FAILED"}, returnedShipments |-> {"RETURNED"},
              pendingShipments |-> {"PENDING"}]
           parts == {"deliveredShipments", "failedShipments", "returnedShipments", "pendingShipments"}
<1>1. WithinFits(F, <<parts, "totalShipments">>)
  <2>1. Apart(F, parts)
    <3>1. IsFiniteSet(parts)
      BY SmallSetsFinite
    <3>2. parts \subseteq DOMAIN F
      OBVIOUS
    <3>3. \A f, g \in parts : f # g => F[f] \cap F[g] = {}
      OBVIOUS
    <3>4. QED
      BY <3>1, <3>2, <3>3 DEF Apart
  <2>2. Inside(F, parts, F["totalShipments"])
    BY StatusNames DEF Inside
  <2>3. QED
    BY <2>1, <2>2 DEF WithinFits
<1>2. QED
  BY <1>1, OneWithin DEF PlatformShipments

LEMMA TenantStatusCountsFits == LawsFit(TenantStatusCounts)
<1> DEFINE F ==
             [total |-> TenantStates, active |-> {"ACTIVE"}, trial |-> {"TRIAL"},
              suspended |-> {"SUSPENDED"}, cancelled |-> {"CANCELLED"}]
           parts == {"active", "trial", "suspended", "cancelled"}
<1>1. WithinFits(F, <<parts, "total">>)
  <2>1. Apart(F, parts)
    <3>1. IsFiniteSet(parts)
      BY SmallSetsFinite
    <3>2. parts \subseteq DOMAIN F
      OBVIOUS
    <3>3. \A f, g \in parts : f # g => F[f] \cap F[g] = {}
      BY DEF TenantStates
    <3>4. QED
      BY <3>1, <3>2, <3>3 DEF Apart
  <2>2. Inside(F, parts, F["total"])
    BY DEF Inside, TenantStates
  <2>3. QED
    BY <2>1, <2>2 DEF WithinFits
<1>2. QED
  BY <1>1, OneWithin DEF TenantStatusCounts

LEMMA SubscriptionStatusCountsFits == LawsFit(SubscriptionStatusCounts)
<1> DEFINE F ==
             [active |-> {"ACTIVE"}, trial |-> {"TRIALING"},
              pastDue |-> {"PAST_DUE"}, cancelled |-> {"CANCELLED"},
              earning |-> {"ACTIVE"}]
           parts == {"earning"}
           some == {"active", "trial", "pastDue", "cancelled"}
<1>1. SumFits(F, <<parts, "active">>)
  <2>1. Apart(F, parts)
    <3>1. IsFiniteSet(parts)
      BY SmallSetsFinite
    <3>2. parts \subseteq DOMAIN F
      OBVIOUS
    <3>3. \A f, g \in parts : f # g => F[f] \cap F[g] = {}
      BY DEF SubscriptionStates
    <3>4. QED
      BY <3>1, <3>2, <3>3 DEF Apart
  <2>2. Inside(F, parts, F["active"])
    BY DEF Inside, SubscriptionStates
  <2>3. Exhaust(F, parts, F["active"])
    BY DEF Exhaust, SubscriptionStates
  <2>4. QED
    BY <2>1, <2>2, <2>3 DEF SumFits
<1>2. CountFits(F, <<some, SubscriptionStates \ {"PAUSED", "EXPIRED"}>>)
  <2>1. Apart(F, some)
    <3>1. IsFiniteSet(some)
      BY SmallSetsFinite
    <3>2. some \subseteq DOMAIN F
      OBVIOUS
    <3>3. \A f, g \in some : f # g => F[f] \cap F[g] = {}
      BY DEF SubscriptionStates
    <3>4. QED
      BY <3>1, <3>2, <3>3 DEF Apart
  <2>2. Inside(F, some, SubscriptionStates \ {"PAUSED", "EXPIRED"})
    BY DEF Inside, SubscriptionStates
  <2>3. Exhaust(F, some, SubscriptionStates \ {"PAUSED", "EXPIRED"})
    BY DEF Exhaust, SubscriptionStates
  <2>4. QED
    BY <2>1, <2>2, <2>3 DEF CountFits
<1>3. QED
  BY <1>1, <1>2, SumAndCount DEF SubscriptionStatusCounts

LEMMA ManualInvoiceTotalsFits == LawsFit(ManualInvoiceTotals)
<1> DEFINE F ==
             [paid |-> {"PAID"}, unpaid |-> PaymentStatuses \ {"PAID"}]
           parts == {"paid", "unpaid"}
<1>1. CountFits(F, <<parts, PaymentStatuses>>)
  <2>1. Apart(F, parts)
    <3>1. IsFiniteSet(parts)
      BY SmallSetsFinite
    <3>2. parts \subseteq DOMAIN F
      OBVIOUS
    <3>3. \A f, g \in parts : f # g => F[f] \cap F[g] = {}
      BY DEF PaymentStatuses
    <3>4. QED
      BY <3>1, <3>2, <3>3 DEF Apart
  <2>2. Inside(F, parts, PaymentStatuses)
    BY DEF Inside, PaymentStatuses
  <2>3. Exhaust(F, parts, PaymentStatuses)
    BY DEF Exhaust, PaymentStatuses
  <2>4. QED
    BY <2>1, <2>2, <2>3 DEF CountFits
<1>2. QED
  BY <1>1, OneCount DEF ManualInvoiceTotals

LEMMA BillingOverviewFits == LawsFit(BillingOverview)
<1> DEFINE F ==
             [total |-> PaymentStatuses, paid |-> {"PAID"}, unpaid |-> Unpaid,
              pastDue |-> {"PAST_DUE"}]
           parts == {"paid", "unpaid"}
           some == {"pastDue"}
<1>1. SumFits(F, <<parts, "total">>)
  <2>1. Apart(F, parts)
    <3>1. IsFiniteSet(parts)
      BY SmallSetsFinite
    <3>2. parts \subseteq DOMAIN F
      OBVIOUS
    <3>3. \A f, g \in parts : f # g => F[f] \cap F[g] = {}
      BY DEF PaymentStatuses, Unpaid
    <3>4. QED
      BY <3>1, <3>2, <3>3 DEF Apart
  <2>2. Inside(F, parts, F["total"])
    BY DEF Inside, PaymentStatuses, Unpaid
  <2>3. Exhaust(F, parts, F["total"])
    BY DEF Exhaust, PaymentStatuses, Unpaid
  <2>4. QED
    BY <2>1, <2>2, <2>3 DEF SumFits
<1>2. WithinFits(F, <<some, "unpaid">>)
  <2>1. Apart(F, some)
    <3>1. IsFiniteSet(some)
      BY SmallSetsFinite
    <3>2. some \subseteq DOMAIN F
      OBVIOUS
    <3>3. \A f, g \in some : f # g => F[f] \cap F[g] = {}
      BY DEF PaymentStatuses, Unpaid
    <3>4. QED
      BY <3>1, <3>2, <3>3 DEF Apart
  <2>2. Inside(F, some, F["unpaid"])
    BY DEF Inside, PaymentStatuses, Unpaid
  <2>3. QED
    BY <2>1, <2>2 DEF WithinFits
<1>3. QED
  BY <1>1, <1>2, SumAndWithin DEF BillingOverview

LEMMA TenantInvoiceTotalsFits == LawsFit(TenantInvoiceTotals)
<1> DEFINE F ==
             [summary |-> Unpaid, unpaid |-> Unpaid, pastDue |-> {"PAST_DUE"}]
           parts == {"summary"}
           some == {"pastDue"}
<1>1. SumFits(F, <<parts, "unpaid">>)
  <2>1. Apart(F, parts)
    <3>1. IsFiniteSet(parts)
      BY SmallSetsFinite
    <3>2. parts \subseteq DOMAIN F
      OBVIOUS
    <3>3. \A f, g \in parts : f # g => F[f] \cap F[g] = {}
      BY DEF PaymentStatuses, Unpaid
    <3>4. QED
      BY <3>1, <3>2, <3>3 DEF Apart
  <2>2. Inside(F, parts, F["unpaid"])
    BY DEF Inside, PaymentStatuses, Unpaid
  <2>3. Exhaust(F, parts, F["unpaid"])
    BY DEF Exhaust, PaymentStatuses, Unpaid
  <2>4. QED
    BY <2>1, <2>2, <2>3 DEF SumFits
<1>2. WithinFits(F, <<some, "unpaid">>)
  <2>1. Apart(F, some)
    <3>1. IsFiniteSet(some)
      BY SmallSetsFinite
    <3>2. some \subseteq DOMAIN F
      OBVIOUS
    <3>3. \A f, g \in some : f # g => F[f] \cap F[g] = {}
      BY DEF PaymentStatuses, Unpaid
    <3>4. QED
      BY <3>1, <3>2, <3>3 DEF Apart
  <2>2. Inside(F, some, F["unpaid"])
    BY DEF Inside, PaymentStatuses, Unpaid
  <2>3. QED
    BY <2>1, <2>2 DEF WithinFits
<1>3. QED
  BY <1>1, <1>2, SumAndWithin DEF TenantInvoiceTotals

LEMMA TenantHealthFits == LawsFit(TenantHealth)
<1> DEFINE F ==
             [unpaidInvoices |-> Unpaid, pastDueInvoices |-> {"PAST_DUE"}]
           parts == {"pastDueInvoices"}
<1>1. WithinFits(F, <<parts, "unpaidInvoices">>)
  <2>1. Apart(F, parts)
    <3>1. IsFiniteSet(parts)
      BY SmallSetsFinite
    <3>2. parts \subseteq DOMAIN F
      OBVIOUS
    <3>3. \A f, g \in parts : f # g => F[f] \cap F[g] = {}
      BY DEF PaymentStatuses, Unpaid
    <3>4. QED
      BY <3>1, <3>2, <3>3 DEF Apart
  <2>2. Inside(F, parts, F["unpaidInvoices"])
    BY DEF Inside, PaymentStatuses, Unpaid
  <2>3. QED
    BY <2>1, <2>2 DEF WithinFits
<1>2. QED
  BY <1>1, OneWithin DEF TenantHealth

LEMMA ListingFits == LawsFit(Listing)
<1> DEFINE F ==
             [data |-> PaymentStatuses, total |-> PaymentStatuses]
           parts == {"data"}
<1>1. SumFits(F, <<parts, "total">>)
  <2>1. Apart(F, parts)
    <3>1. IsFiniteSet(parts)
      BY SmallSetsFinite
    <3>2. parts \subseteq DOMAIN F
      OBVIOUS
    <3>3. \A f, g \in parts : f # g => F[f] \cap F[g] = {}
      BY DEF PaymentStatuses
    <3>4. QED
      BY <3>1, <3>2, <3>3 DEF Apart
  <2>2. Inside(F, parts, F["total"])
    BY DEF Inside, PaymentStatuses
  <2>3. Exhaust(F, parts, F["total"])
    BY DEF Exhaust, PaymentStatuses
  <2>4. QED
    BY <2>1, <2>2, <2>3 DEF SumFits
<1>2. QED
  BY <1>1, OneSum DEF Listing

LEMMA DailyReportFits == LawsFit(DailyReport)
<1> DEFINE F == [f \in Statuses \cup {"totalShipments"} |->
                   IF f = "totalShipments" THEN Statuses ELSE {f}]
<1>1. "totalShipments" \notin Statuses
  BY StatusNames
<1>2. IsFiniteSet(Statuses)
  <2>1. /\ IsFiniteSet({"PENDING", "PICKED_UP", "IN_WAREHOUSE", "OUT_FOR_DELIVERY"})
        /\ IsFiniteSet({"DELIVERED", "FAILED", "POSTPONED", "RETURNED"})
    BY SmallSetsFinite
  <2>2. IsFiniteSet({"PENDING", "PICKED_UP", "IN_WAREHOUSE", "OUT_FOR_DELIVERY"}
                      \cup {"DELIVERED", "FAILED", "POSTPONED", "RETURNED"})
    BY <2>1, FS_Union
  <2>3. Statuses = ({"PENDING", "PICKED_UP", "IN_WAREHOUSE", "OUT_FOR_DELIVERY"}
                      \cup {"DELIVERED", "FAILED", "POSTPONED", "RETURNED"}) \cup {"CANCELLED"}
    BY StatusNames
  <2>4. QED
    BY <2>2, <2>3, FS_AddElement
<1>3. SumFits(F, <<Statuses, "totalShipments">>)
  <2>1. F["totalShipments"] = Statuses /\ \A f \in Statuses : F[f] = {f}
    BY <1>1
  <2>2. DOMAIN F = Statuses \cup {"totalShipments"}
    OBVIOUS
  <2> HIDE DEF F
  <2>3. Apart(F, Statuses)
    BY <1>2, <2>1, <2>2 DEF Apart
  <2>4. Inside(F, Statuses, F["totalShipments"]) /\ Exhaust(F, Statuses, F["totalShipments"])
    BY <2>1 DEF Inside, Exhaust
  <2>5. QED
    BY <2>2, <2>3, <2>4 DEF SumFits
<1>4. QED
  BY <1>3, OneSum DEF DailyReport

LEMMA UsageFits == ASSUME NEW step \in {1, 2} PROVE LawsFit(Usage(0, 3, step))
<1> DEFINE bucket(i) == [from |-> i, to |-> IF i + step > 3 THEN 3 ELSE i + step]
           starts == {n \in 0..3 - 1 : (n - 0) % step = 0}
           buckets == BuildBuckets(0, 3, step)
           F == [b \in buckets |-> BucketRows(b)]
<1>1. buckets = {bucket(i) : i \in starts}
  BY DEF BuildBuckets
<1>2. starts = IF step = 1 THEN {0, 1, 2} ELSE {0, 2}
  <2>1. \A n \in 0..2 : n = 0 \/ n = 1 \/ n = 2
    OBVIOUS
  <2>2. \A n \in {0, 1, 2} : n % step = 0 <=> (step = 1 \/ n # 1)
    OBVIOUS
  <2>3. QED
    BY <2>1, <2>2
<1>3. IsFiniteSet(buckets)
  <2>1. buckets \subseteq {bucket(0), bucket(1), bucket(2)}
    BY <1>1, <1>2
  <2> HIDE DEF buckets, bucket
  <2>2. IsFiniteSet({bucket(0), bucket(1), bucket(2)})
    BY SmallSetsFinite
  <2>3. QED
    BY <2>1, <2>2, FS_Subset
<1>4. \A i \in starts : BucketRows(bucket(i)) = i..(IF i + step > 3 THEN 3 ELSE i + step) - 1
  BY DEF BucketRows
<1>5. CountFits(F, <<buckets, 0..3 - 1>>)
  <2>1. DOMAIN F = buckets /\ \A b \in buckets : F[b] = BucketRows(b)
    OBVIOUS
  <2>2. \A f, g \in buckets : f # g => F[f] \cap F[g] = {}
    <3>1. SUFFICES ASSUME NEW i \in starts, NEW j \in starts, i # j
                   PROVE  BucketRows(bucket(i)) \cap BucketRows(bucket(j)) = {}
      BY <1>1, <2>1
    <3>2. i + step <= j \/ j + step <= i
      BY <1>2, <3>1
    <3>3. i \in 0..2 /\ j \in 0..2 /\ step \in Nat
      BY <1>2
    <3>4. QED
      BY <1>4, <3>2, <3>3
  <2>3. Inside(F, buckets, 0..3 - 1)
    <3>1. \A i \in starts : BucketRows(bucket(i)) \subseteq 0..2
      BY <1>2, <1>4
    <3>2. QED
      BY <1>1, <2>1, <3>1 DEF Inside
  <2>4. Exhaust(F, buckets, 0..3 - 1)
    <3>1. \A s \in 0..2 : \E i \in starts : s \in BucketRows(bucket(i))
      <4>1. \A s \in 0..2 : s = 0 \/ s = 1 \/ s = 2
        OBVIOUS
      <4>2. 0 \in BucketRows(bucket(0)) /\ 2 \in BucketRows(bucket(2))
        BY <1>2, <1>4
      <4>3. 1 \in BucketRows(bucket(IF step = 1 THEN 1 ELSE 0))
        BY <1>2, <1>4
      <4>4. 0 \in starts /\ 2 \in starts /\ (IF step = 1 THEN 1 ELSE 0) \in starts
        BY <1>2
      <4>5. QED
        BY <4>1, <4>2, <4>3, <4>4
    <3>2. \A i \in starts : bucket(i) \in buckets /\ F[bucket(i)] = BucketRows(bucket(i))
      BY <1>1, <2>1
    <3> HIDE DEF F, buckets, bucket, starts
    <3>3. QED
      BY <3>1, <3>2 DEF Exhaust
  <2>5. QED
    BY <1>3, <2>1, <2>2, <2>3, <2>4 DEF CountFits, Apart
<1>6. QED
  BY <1>5, OneCount DEF Usage

LEMMA ReportsLawful == ASSUME NEW r \in AllReports PROVE LawsFit(r)
BY MerchantDashboardFits, AdminDashboardFits, AdminCouriersFits,
   FinancialSummaryFits, DailyReportFits, MerchantDeliveryReportFits, PlatformShipmentsFits,
   TenantStatusCountsFits, SubscriptionStatusCountsFits, ManualInvoiceTotalsFits,
   BillingOverviewFits, TenantInvoiceTotalsFits, TenantHealthFits, ListingFits, UsageFits
DEF AllReports

----------------------------------------------------------------------------
(* The rows in certain states can be counted, and counted apart.                      *)
LEMMA CountIsNat ==
  ASSUME IsFiniteSet(DOMAIN row), NEW S
  PROVE  IsFiniteSet({i \in DOMAIN row : row[i] \in S}) /\ Count(S) \in Nat
<1> DEFINE T == {i \in DOMAIN row : row[i] \in S}
<1>1. T \subseteq DOMAIN row
  OBVIOUS
<1> HIDE DEF T
<1>2. IsFiniteSet(T)
  BY <1>1, FS_Subset
<1>3. Cardinality(T) \in Nat
  BY <1>2, FS_CardinalityType
<1>4. QED
  BY <1>2, <1>3 DEF T, Count

LEMMA CountSplits ==
  ASSUME IsFiniteSet(DOMAIN row), NEW S, NEW T \in SUBSET S
  PROVE  Count(S) = Count(T) + Count(S \ T)
<1> DEFINE In(X) == {i \in DOMAIN row : row[i] \in X}
<1>1. /\ In(S) = In(T) \cup In(S \ T) /\ In(T) \cap In(S \ T) = {}
  OBVIOUS
<1>2. /\ IsFiniteSet(In(T)) /\ IsFiniteSet(In(S \ T))
  BY CountIsNat
<1>3. Count(S) = Cardinality(In(S)) /\ Count(T) = Cardinality(In(T))
      /\ Count(S \ T) = Cardinality(In(S \ T))
  BY DEF Count
<1>4. Count(T) \in Nat /\ Count(S \ T) \in Nat
  BY CountIsNat
<1> HIDE DEF In
<1>5. Cardinality(In(T) \cup In(S \ T)) =
        Cardinality(In(T)) + Cardinality(In(S \ T)) - Cardinality(In(T) \cap In(S \ T))
  BY <1>2, FS_Union
<1>6. Cardinality(In(T) \cap In(S \ T)) = 0
  BY <1>1, FS_EmptySet
<1>7. Cardinality(In(S)) = Cardinality(In(T)) + Cardinality(In(S \ T)) - 0
  BY <1>1, <1>5, <1>6
<1>8. QED
  BY <1>3, <1>4, <1>7

LEMMA CountSplitsNext ==
  ASSUME NEW S, NEW T \in SUBSET S
  PROVE  (IsFiniteSet(DOMAIN row) => Count(S) = Count(T) + Count(S \ T))'
<1>1. IsFiniteSet(DOMAIN row) => Count(S) = Count(T) + Count(S \ T)
  BY CountSplits
<1>2. QED
  BY <1>1, PTL

LEMMA CountOfNone == Count({}) = 0
BY FS_EmptySet DEF Count

(* A write moves one row: any count changes by one at the most.                     *)
LEMMA WriteMovesOne ==
  ASSUME IsFiniteSet(DOMAIN row), InsertsRow \/ ChangesRow, NEW S
  PROVE  /\ IsFiniteSet(DOMAIN row') /\ Count(S)' \in Nat
         /\ Count(S)' <= Count(S) + 1 /\ Count(S) <= Count(S)' + 1
<1> DEFINE A == {j \in DOMAIN row : row[j] \in S}
           B == {j \in DOMAIN row' : row'[j] \in S}
<1>1. PICK i : /\ DOMAIN row' = DOMAIN row \cup {i}
               /\ \A j \in DOMAIN row : j # i => row'[j] = row[j]
  <2>1. CASE InsertsRow
    <3>1. PICK i, state : row' = [j \in DOMAIN row \cup {i} |-> IF j = i THEN state ELSE row[j]]
      BY <2>1 DEF InsertsRow
    <3>2. QED
      BY <3>1
  <2>2. CASE ChangesRow
    <3>1. PICK i \in DOMAIN row : \E state : row' = [row EXCEPT ![i] = state]
      BY <2>2 DEF ChangesRow
    <3>2. QED
      BY <3>1
  <2>3. QED
    BY <2>1, <2>2
<1>2. IsFiniteSet(DOMAIN row')
  BY <1>1, FS_AddElement
<1>3. B \in SUBSET (A \cup {i}) /\ A \in SUBSET (B \cup {i})
  BY <1>1
<1>4. Count(S) = Cardinality(A) /\ Count(S)' = Cardinality(B)
  BY DEF Count
<1>5. IsFiniteSet(A)
  BY CountIsNat
<1>6. B \subseteq DOMAIN row'
  OBVIOUS
<1> HIDE DEF A, B
<1>7. IsFiniteSet(B)
  BY <1>2, <1>6, FS_Subset
<1>8. Cardinality(B) \in Nat /\ Cardinality(B) <= Cardinality(A) + 1
  BY <1>3, <1>5, GainsOne
<1>9. Cardinality(A) <= Cardinality(B) + 1
  BY <1>3, <1>7, GainsOne
<1>10. QED
  BY <1>2, <1>4, <1>8, <1>9

----------------------------------------------------------------------------
(* The states of the parts that are still to be read, what the parts come to if     *)
(* those are read now, and what a figure says or would say now.                     *)
Unseen(F, parts) == UNION {F[f] : f \in parts \ DOMAIN said}

Reach(F, parts) ==
  SumFunctionOnSet(said, parts \cap DOMAIN said) + Count(Unseen(F, parts))

ReadsAs(F, g) == IF g \in DOMAIN said THEN said[g] ELSE Count(F[g])

SaidTyped == \A f \in DOMAIN said : said[f] \in Nat

LEMMA ReachIsInt ==
  ASSUME IsFiniteSet(DOMAIN row), SaidTyped, NEW F, NEW parts, IsFiniteSet(parts)
  PROVE  Reach(F, parts) \in Int
<1>1. IsFiniteSet(parts \cap DOMAIN said)
  BY FS_Subset
<1>2. SumFunctionOnSet(said, parts \cap DOMAIN said) \in Int
  <2>1. \A x \in parts \cap DOMAIN said : said[x] \in Int
    BY DEF SaidTyped
  <2>2. QED
    BY <1>1, <2>1, SumIsInt
<1>3. Count(Unseen(F, parts)) \in Nat
  BY CountIsNat
<1>4. QED
  BY <1>2, <1>3 DEF Reach

LEMMA ReadingKeepsReach ==
  ASSUME IsFiniteSet(DOMAIN row), UNCHANGED row, SaidTyped,
         NEW F, NEW parts, Apart(F, parts), NEW f, f \notin DOMAIN said,
         said' = [g \in DOMAIN said \cup {f} |-> IF g = f THEN Count(F[f]) ELSE said[g]]
  PROVE  Reach(F, parts)' = Reach(F, parts)
<1> DEFINE D == parts \cap DOMAIN said
<1>0. PICK c : c = Count(F[f]) /\ c \in Nat
  BY CountIsNat
<1>1. PICK s1 : s1 = [g \in DOMAIN said \cup {f} |-> IF g = f THEN c ELSE said[g]] /\ said' = s1
  BY <1>0
<1>2. /\ DOMAIN s1 = DOMAIN said \cup {f} /\ s1[f] = c
      /\ \A g \in DOMAIN said : s1[g] = said[g]
  BY <1>1
<1>3. PICK U : U = Unseen(F, parts)
  OBVIOUS
<1>4. PICK U1 : U1 = Unseen(F, parts)'
  OBVIOUS
<1>5. Reach(F, parts)' = SumFunctionOnSet(s1, parts \cap DOMAIN s1) + Count(U1)
  BY <1>1, <1>4 DEF Reach, Count
<1>6. Reach(F, parts) = SumFunctionOnSet(said, D) + Count(U)
  BY <1>3 DEF Reach
<1>7. IsFiniteSet(D)
  BY FS_Subset DEF Apart
<1>8. \A x \in D : said[x] \in Int /\ s1[x] = said[x]
  BY <1>2 DEF SaidTyped
<1>u. /\ U = UNION {F[g] : g \in parts \ DOMAIN said}
      /\ U1 = UNION {F[g] : g \in parts \ DOMAIN s1}
  BY <1>1, <1>3, <1>4 DEF Unseen
<1>9. CASE f \notin parts
  <2>1. parts \cap DOMAIN s1 = D /\ parts \ DOMAIN s1 = parts \ DOMAIN said
    BY <1>2, <1>9
  <2>2. U1 = U
    BY <1>u, <2>1
  <2>3. SumFunctionOnSet(s1, D) = SumFunctionOnSet(said, D)
    BY <1>7, <1>8, SumSame
  <2>4. QED
    BY <1>5, <1>6, <2>1, <2>2, <2>3
<1>10. CASE f \in parts
  <2> DEFINE E == D \cup {f}
  <2>1. parts \cap DOMAIN s1 = E
    BY <1>2, <1>10
  <2>2. E \ {f} = D /\ f \in E
    OBVIOUS
  <2>3. IsFiniteSet(E)
    BY <1>7, FS_AddElement
  <2>4. \A x \in E : s1[x] \in Int
    BY <1>0, <1>2, <1>8
  <2> HIDE DEF E
  <2>5. SumFunctionOnSet(s1, E) = c + SumFunctionOnSet(s1, D)
    BY <1>2, <2>2, <2>3, <2>4, SumRemove
  <2>6. SumFunctionOnSet(s1, D) = SumFunctionOnSet(said, D)
    BY <1>7, <1>8, SumSame
  <2>7. SumFunctionOnSet(said, D) \in Int
    BY <1>7, <1>8, SumIsInt
  <2>8. F[f] \in SUBSET U /\ U \ F[f] = U1
    <3>1. \A x : x \in U1 => x \in U /\ x \notin F[f]
      BY <1>u, <1>2, <1>10 DEF Apart
    <3>2. \A x : x \in U /\ x \notin F[f] => x \in U1
      BY <1>u, <1>2
    <3>3. F[f] \subseteq U
      BY <1>u, <1>10
    <3>4. QED
      BY <3>1, <3>2, <3>3
  <2>9. Count(U) = Count(F[f]) + Count(U1)
    BY <2>8, CountSplits
  <2>10. Count(U) \in Nat /\ Count(U1) \in Nat
    BY CountIsNat
  <2>11. QED
    BY <1>0, <1>5, <1>6, <2>1, <2>5, <2>6, <2>7, <2>9, <2>10
<1>11. QED
  BY <1>9, <1>10

LEMMA WritingMovesReach ==
  ASSUME IsFiniteSet(DOMAIN row), InsertsRow \/ ChangesRow, SaidTyped,
         NEW F, NEW parts, IsFiniteSet(parts)
  PROVE  /\ Reach(F, parts)' \in Int
         /\ Reach(F, parts)' <= Reach(F, parts) + 1 /\ Reach(F, parts) <= Reach(F, parts)' + 1
<1>1. PICK U : U = Unseen(F, parts)
  OBVIOUS
<1>2. UNCHANGED said
  BY DEF InsertsRow, ChangesRow, Writes
<1>3. Unseen(F, parts)' = U
  BY <1>1, <1>2 DEF Unseen
<1>4. PICK sum : sum = SumFunctionOnSet(said, parts \cap DOMAIN said)
  OBVIOUS
<1>5. sum \in Int
  <2>1. IsFiniteSet(parts \cap DOMAIN said)
    BY FS_Subset
  <2>2. \A x \in parts \cap DOMAIN said : said[x] \in Int
    BY DEF SaidTyped
  <2>3. QED
    BY <1>4, <2>1, <2>2, SumIsInt
<1>6. Reach(F, parts) = sum + Count(U)
  BY <1>1, <1>4 DEF Reach
<1>7. Reach(F, parts)' = sum + Count(U)'
  BY <1>2, <1>3, <1>4 DEF Reach, Count
<1>8. /\ Count(U) \in Nat /\ Count(U)' \in Nat
      /\ Count(U)' <= Count(U) + 1 /\ Count(U) <= Count(U)' + 1
  BY CountIsNat, WriteMovesOne
<1>9. QED
  BY <1>5, <1>6, <1>7, <1>8

(* The same of the rows of the whole that no part will count.                       *)
LEMMA WritingMovesRest ==
  ASSUME IsFiniteSet(DOMAIN row), InsertsRow \/ ChangesRow, SaidTyped,
         NEW F, NEW parts, IsFiniteSet(parts), NEW whole, Inside(F, parts, whole)
  PROVE  LET d == Reach(F, parts) - Count(whole) IN
         d' \in Int /\ d' <= d + 1 /\ d <= d' + 1
<1>1. PICK U : U = Unseen(F, parts)
  OBVIOUS
<1>2. UNCHANGED said
  BY DEF InsertsRow, ChangesRow, Writes
<1>3. Unseen(F, parts)' = U
  BY <1>1, <1>2 DEF Unseen
<1>4. PICK sum : sum = SumFunctionOnSet(said, parts \cap DOMAIN said)
  OBVIOUS
<1>5. sum \in Int
  <2>1. IsFiniteSet(parts \cap DOMAIN said)
    BY FS_Subset
  <2>2. \A x \in parts \cap DOMAIN said : said[x] \in Int
    BY DEF SaidTyped
  <2>3. QED
    BY <1>4, <2>1, <2>2, SumIsInt
<1>6. Reach(F, parts) = sum + Count(U)
  BY <1>1, <1>4 DEF Reach
<1>7. Reach(F, parts)' = sum + Count(U)'
  BY <1>2, <1>3, <1>4 DEF Reach, Count
<1>8. U \in SUBSET whole
  BY <1>1 DEF Unseen, Inside
<1>9. PICK rest : rest = whole \ U
  OBVIOUS
<1>10. Count(whole) = Count(U) + Count(rest)
  BY <1>8, <1>9, CountSplits
<1>11. Count(whole)' = Count(U)' + Count(rest)'
  <2>1. IsFiniteSet(DOMAIN row')
    BY WriteMovesOne
  <2>2. QED
    BY <1>8, <1>9, <2>1, CountSplitsNext
<1>12. /\ Count(U) \in Nat /\ Count(U)' \in Nat /\ Count(rest) \in Nat /\ Count(rest)' \in Nat
       /\ Count(rest)' <= Count(rest) + 1 /\ Count(rest) <= Count(rest)' + 1
  BY CountIsNat, WriteMovesOne
<1>13. QED
  BY <1>5, <1>6, <1>7, <1>10, <1>11, <1>12

----------------------------------------------------------------------------
Near(d) == d \in Int /\ 0 - writes <= d /\ d <= writes
Under(d) == d \in Int /\ d <= writes

SumStands(F, law) == Near(Reach(F, law[1]) - ReadsAs(F, law[2]))
WithinStands(F, law) == Under(Reach(F, law[1]) - ReadsAs(F, law[2]))
CountStands(F, law) == Near(Reach(F, law[1]) - Count(law[2]))

Standing(r) ==
  /\ \A law \in r.sums : SumStands(r.figures, law)
  /\ \A law \in r.within : WithinStands(r.figures, law)
  /\ \A law \in r.counts : CountStands(r.figures, law)

ReadAtOnce(r) ==
  \A law \in r.sums : Said(law[1]) = said[law[2]]

ReportsInv ==
  /\ IsFiniteSet(DOMAIN row) /\ SaidTyped /\ writes \in Nat
  /\ report \in AllReports
  /\ Unread => writes = 0
  /\ ~report.atOnce => Standing(report)
  /\ report.atOnce => Unread \/ ReadAtOnce(report)

(* Before anything is read, the parts reach what they count.                        *)
LEMMA NothingRead ==
  ASSUME IsFiniteSet(DOMAIN row), Unread, writes = 0, NEW r, LawsFit(r)
  PROVE  Standing(r)
<1>1. ASSUME NEW F, NEW parts, NEW whole, Apart(F, parts), Inside(F, parts, whole)
      PROVE  LET d == Reach(F, parts) - Count(whole) IN
             d \in Int /\ d <= 0 /\ (Exhaust(F, parts, whole) => d = 0)
  <2> DEFINE U == UNION {F[f] : f \in parts}
  <2>1. Unseen(F, parts) = U /\ parts \cap DOMAIN said = {}
    BY DEF Unseen, Unread
  <2>2. Reach(F, parts) = 0 + Count(U)
    BY <2>1, SumEmpty DEF Reach
  <2>3. U \in SUBSET whole
    BY <1>1 DEF Inside
  <2>4. Exhaust(F, parts, whole) => U = whole
    BY <2>3 DEF Exhaust
  <2> HIDE DEF U
  <2>5. Count(whole) = Count(U) + Count(whole \ U)
    BY <2>3, CountSplits
  <2>6. Count(U) \in Nat /\ Count(whole \ U) \in Nat
    BY CountIsNat
  <2>7. QED
    BY <2>2, <2>4, <2>5, <2>6
<1>2. \A F, g : ReadsAs(F, g) = Count(F[g])
  BY DEF ReadsAs, Unread
<1>3. ASSUME NEW law \in r.sums PROVE SumStands(r.figures, law)
  <2>1. SumFits(r.figures, law)
    BY DEF LawsFit
  <2>2. Reach(r.figures, law[1]) - Count(r.figures[law[2]]) = 0
    BY <1>1, <2>1 DEF SumFits
  <2>3. QED
    BY <1>2, <2>2 DEF SumStands, Near
<1>4. ASSUME NEW law \in r.within PROVE WithinStands(r.figures, law)
  <2>1. WithinFits(r.figures, law)
    BY DEF LawsFit
  <2>2. PICK d : /\ d = Reach(r.figures, law[1]) - Count(r.figures[law[2]])
                 /\ d \in Int /\ d <= 0
    <3>1. PICK parts, whole : parts = law[1] /\ whole = r.figures[law[2]]
      OBVIOUS
    <3>2. LET d == Reach(r.figures, parts) - Count(whole) IN d \in Int /\ d <= 0
      BY <1>1, <2>1, <3>1 DEF WithinFits
    <3>3. QED
      BY <3>1, <3>2
  <2>3. d = Reach(r.figures, law[1]) - ReadsAs(r.figures, law[2]) /\ d <= writes
    BY <1>2, <2>2
  <2>4. QED
    BY <2>2, <2>3 DEF WithinStands, Under
<1>5. ASSUME NEW law \in r.counts PROVE CountStands(r.figures, law)
  <2>1. CountFits(r.figures, law)
    BY DEF LawsFit
  <2>2. Reach(r.figures, law[1]) - Count(law[2]) = 0
    BY <1>1, <2>1 DEF CountFits
  <2>3. QED
    BY <2>2 DEF CountStands, Near
<1>6. QED
  BY <1>3, <1>4, <1>5 DEF Standing

LEMMA NothingReadNext ==
  ASSUME NEW r, LawsFit(r)
  PROVE  (IsFiniteSet(DOMAIN row) /\ Unread /\ writes = 0 => Standing(r))'
<1>1. IsFiniteSet(DOMAIN row) /\ Unread /\ writes = 0 => Standing(r)
  BY NothingRead
<1>2. QED
  BY <1>1, PTL

(* A figure is read: nothing moves.                                               *)
LEMMA ReadingStands ==
  ASSUME IsFiniteSet(DOMAIN row), SaidTyped, writes \in Nat, UNCHANGED <<row, writes>>,
         NEW r, LawsFit(r), Standing(r), NEW f, f \notin DOMAIN said,
         said' = [g \in DOMAIN said \cup {f} |->
                    IF g = f THEN Count(r.figures[f]) ELSE said[g]]
  PROVE  Standing(r)'
<1> DEFINE F == r.figures
<1>1. \A parts : Apart(F, parts) => Reach(F, parts)' = Reach(F, parts)
  BY ReadingKeepsReach
<1>2. ASSUME NEW g PROVE ReadsAs(F, g)' = ReadsAs(F, g)
  <2>1. PICK c : c = Count(F[f])
    OBVIOUS
  <2>2. /\ DOMAIN said' = DOMAIN said \cup {f} /\ said'[f] = c
        /\ \A h \in DOMAIN said : said'[h] = said[h]
    BY <2>1
  <2>3. Count(F[g])' = Count(F[g])
    BY DEF Count
  <2>4. QED
    BY <2>1, <2>2, <2>3 DEF ReadsAs
<1>3. \A S : Count(S)' = Count(S)
  BY DEF Count
<1>4. ASSUME NEW law \in r.sums PROVE SumStands(F, law)'
  <2>1. SumStands(F, law) /\ Apart(F, law[1])
    BY DEF Standing, LawsFit, SumFits
  <2>2. Reach(F, law[1])' = Reach(F, law[1]) /\ ReadsAs(F, law[2])' = ReadsAs(F, law[2])
    BY <1>1, <1>2, <2>1
  <2>3. QED
    BY <2>1, <2>2 DEF SumStands, Near
<1>5. ASSUME NEW law \in r.within PROVE WithinStands(F, law)'
  <2>1. WithinStands(F, law) /\ Apart(F, law[1])
    BY DEF Standing, LawsFit, WithinFits
  <2>2. Reach(F, law[1])' = Reach(F, law[1]) /\ ReadsAs(F, law[2])' = ReadsAs(F, law[2])
    BY <1>1, <1>2, <2>1
  <2>3. QED
    BY <2>1, <2>2 DEF WithinStands, Under
<1>6. ASSUME NEW law \in r.counts PROVE CountStands(F, law)'
  <2>1. CountStands(F, law) /\ Apart(F, law[1])
    BY DEF Standing, LawsFit, CountFits
  <2>2. Reach(F, law[1])' = Reach(F, law[1]) /\ Count(law[2])' = Count(law[2])
    BY <1>1, <1>3, <2>1
  <2>3. QED
    BY <2>1, <2>2 DEF CountStands, Near
<1>7. QED
  BY <1>4, <1>5, <1>6 DEF Standing

(* A write in between: every sum moves by one at the most, and the slack by one.       *)
LEMMA StepWithin ==
  ASSUME NEW w \in Nat, NEW d \in Int, NEW e \in Int, e <= d + 1, d <= e + 1
  PROVE  /\ (0 - w <= d /\ d <= w) => (0 - (w + 1) <= e /\ e <= w + 1)
         /\ d <= w => e <= w + 1
OBVIOUS

LEMMA WritingStands ==
  ASSUME IsFiniteSet(DOMAIN row), SaidTyped, writes \in Nat, InsertsRow \/ ChangesRow,
         writes' = writes + 1, NEW r, LawsFit(r), Standing(r)
  PROVE  Standing(r)'
<1> DEFINE F == r.figures
<1>0. UNCHANGED said
  BY DEF InsertsRow, ChangesRow, Writes
<1>1. ASSUME NEW parts, NEW g, IsFiniteSet(parts), Inside(F, parts, F[g])
      PROVE  LET d == Reach(F, parts) - ReadsAs(F, g) IN
             d' \in Int /\ d \in Int /\ d' <= d + 1 /\ d <= d' + 1
  <2>1. CASE g \in DOMAIN said
    <3>1. ReadsAs(F, g) = said[g] /\ ReadsAs(F, g)' = said[g] /\ said[g] \in Nat
      BY <1>0, <2>1 DEF ReadsAs, SaidTyped
    <3>2. /\ Reach(F, parts) \in Int /\ Reach(F, parts)' \in Int
          /\ Reach(F, parts)' <= Reach(F, parts) + 1 /\ Reach(F, parts) <= Reach(F, parts)' + 1
      BY <1>1, ReachIsInt, WritingMovesReach
    <3>3. QED
      BY <3>1, <3>2
  <2>2. CASE g \notin DOMAIN said
    <3>1. PICK whole : whole = F[g]
      OBVIOUS
    <3>2. ReadsAs(F, g) = Count(whole) /\ ReadsAs(F, g)' = Count(whole)'
      BY <1>0, <2>2, <3>1 DEF ReadsAs, Count
    <3>3. Inside(F, parts, whole)
      BY <1>1, <3>1
    <3>4. LET d == Reach(F, parts) - Count(whole) IN
          d' \in Int /\ d' <= d + 1 /\ d <= d' + 1
      BY <1>1, <3>3, WritingMovesRest
    <3>5. Reach(F, parts) \in Int /\ Count(whole) \in Nat
      BY <1>1, ReachIsInt, CountIsNat
    <3>6. QED
      BY <3>2, <3>4, <3>5
  <2>3. QED
    BY <2>1, <2>2
<1> HIDE DEF F
<1>2. ASSUME NEW law \in r.sums PROVE SumStands(F, law)'
  <2>1. SumStands(F, law) /\ IsFiniteSet(law[1]) /\ Inside(F, law[1], F[law[2]])
    BY DEF Standing, LawsFit, SumFits, Apart, F
  <2>2. PICK d : d = Reach(F, law[1]) - ReadsAs(F, law[2])
    OBVIOUS
  <2>3. PICK e : e = Reach(F, law[1])' - ReadsAs(F, law[2])'
    OBVIOUS
  <2>4. d \in Int /\ e \in Int /\ e <= d + 1 /\ d <= e + 1
    BY <1>1, <2>1, <2>2, <2>3
  <2>5. 0 - writes <= d /\ d <= writes
    BY <2>1, <2>2 DEF SumStands, Near
  <2>6. 0 - writes' <= e /\ e <= writes'
    BY <2>4, <2>5, StepWithin
  <2>7. QED
    BY <2>3, <2>4, <2>6 DEF SumStands, Near
<1>3. ASSUME NEW law \in r.within PROVE WithinStands(F, law)'
  <2>1. WithinStands(F, law) /\ IsFiniteSet(law[1]) /\ Inside(F, law[1], F[law[2]])
    BY DEF Standing, LawsFit, WithinFits, Apart, F
  <2>2. PICK d : d = Reach(F, law[1]) - ReadsAs(F, law[2])
    OBVIOUS
  <2>3. PICK e : e = Reach(F, law[1])' - ReadsAs(F, law[2])'
    OBVIOUS
  <2>4. d \in Int /\ e \in Int /\ e <= d + 1 /\ d <= e + 1
    BY <1>1, <2>1, <2>2, <2>3
  <2>5. d <= writes
    BY <2>1, <2>2 DEF WithinStands, Under
  <2>6. e <= writes'
    BY <2>4, <2>5, StepWithin
  <2>7. QED
    BY <2>3, <2>4, <2>6 DEF WithinStands, Under
<1>4. ASSUME NEW law \in r.counts PROVE CountStands(F, law)'
  <2>1. CountStands(F, law) /\ IsFiniteSet(law[1]) /\ Inside(F, law[1], law[2])
    BY DEF Standing, LawsFit, CountFits, Apart, F
  <2>2. PICK d : d = Reach(F, law[1]) - Count(law[2])
    OBVIOUS
  <2>3. PICK e : e = Reach(F, law[1])' - Count(law[2])'
    OBVIOUS
  <2>4. d \in Int /\ e \in Int /\ e <= d + 1 /\ d <= e + 1
    <3>1. PICK parts, whole : parts = law[1] /\ whole = law[2]
      OBVIOUS
    <3>2. LET x == Reach(F, parts) - Count(whole) IN
          x' \in Int /\ x' <= x + 1 /\ x <= x' + 1
      BY <2>1, <3>1, WritingMovesRest
    <3>3. d \in Int
      BY <2>1, <2>2 DEF CountStands, Near
    <3>4. QED
      BY <2>2, <2>3, <3>1, <3>2, <3>3
  <2>5. 0 - writes <= d /\ d <= writes
    BY <2>1, <2>2 DEF CountStands, Near
  <2>6. 0 - writes' <= e /\ e <= writes'
    BY <2>4, <2>5, StepWithin
  <2>7. QED
    BY <2>3, <2>4, <2>6 DEF CountStands, Near
<1>5. QED
  BY <1>2, <1>3, <1>4 DEF Standing, F

(* Parts that are read by one statement count each row of the whole once.             *)
LEMMA PartsSum ==
  ASSUME IsFiniteSet(DOMAIN row), NEW F, NEW parts, Apart(F, parts), NEW h,
         \A f \in parts : h[f] = Count(F[f])
  PROVE  SumFunctionOnSet(h, parts) = Count(UNION {F[f] : f \in parts})
<1> DEFINE All(s) == UNION {F[f] : f \in s}
           T == {s \in SUBSET parts : SumFunctionOnSet(h, s) # Count(All(s))}
<1> SUFFICES ASSUME T # {} PROVE FALSE
  OBVIOUS
<1>1. PICK t \in T : \A u \in T : u \subseteq t => u = t
  <2>1. T \in SUBSET SUBSET parts
    OBVIOUS
  <2> HIDE DEF T
  <2>2. QED
    BY <2>1, SmallestSubset DEF Apart
<1>2. IsFiniteSet(t) /\ t \subseteq parts /\ SumFunctionOnSet(h, t) # Count(All(t))
  BY FS_Subset DEF Apart
<1>3. \A f \in t : h[f] \in Int
  <2>1. ASSUME NEW f \in t PROVE h[f] \in Int
    <3>1. Count(F[f]) \in Nat
      BY CountIsNat
    <3>2. QED
      BY <1>2, <3>1
  <2>2. QED
    BY <2>1
<1>4. CASE t = {}
  <2>1. All(t) = {}
    BY <1>4
  <2>2. QED
    BY <1>2, <1>4, <2>1, SumEmpty, CountOfNone
<1>5. CASE t # {}
  <2>1. PICK f \in t : TRUE
    BY <1>5
  <2>2. PICK u : u = t \ {f}
    OBVIOUS
  <2>3. u \notin T
    BY <1>1, <2>1, <2>2
  <2>4. SumFunctionOnSet(h, u) = Count(All(u))
    BY <1>2, <2>2, <2>3
  <2>5. SumFunctionOnSet(h, t) = h[f] + SumFunctionOnSet(h, u)
    BY <1>2, <1>3, <2>1, <2>2, SumRemove
  <2>6. F[f] \in SUBSET All(t) /\ All(t) \ F[f] = All(u)
    BY <1>2, <2>1, <2>2 DEF Apart
  <2> HIDE DEF All, T
  <2>7. Count(All(t)) = Count(F[f]) + Count(All(u))
    BY <2>6, CountSplits
  <2>8. QED
    BY <1>2, <2>1, <2>4, <2>5, <2>7
<1>6. QED
  BY <1>4, <1>5

LEMMA ReportsInductive == ReportsSpec => []ReportsInv
<1>1. ReportsInit => ReportsInv
  <2>1. SUFFICES ASSUME ReportsInit PROVE ReportsInv
    OBVIOUS
  <2>2. DOMAIN row = {} /\ DOMAIN said = {} /\ writes = 0 /\ report \in AllReports
    BY <2>1 DEF ReportsInit, NoFigures
  <2>3. IsFiniteSet(DOMAIN row)
    BY <2>2, FS_EmptySet
  <2>4. Unread /\ SaidTyped
    BY <2>2 DEF Unread, SaidTyped
  <2>5. Standing(report)
    BY <2>2, <2>3, <2>4, ReportsLawful, NothingRead
  <2>6. QED
    BY <2>2, <2>3, <2>4, <2>5 DEF ReportsInv
<1>2. ReportsInv /\ [ReportsNext]_reportsVars => ReportsInv'
  <2>1. SUFFICES ASSUME ReportsInv, [ReportsNext]_reportsVars
                 PROVE  ReportsInv'
    OBVIOUS
  <2>0. /\ IsFiniteSet(DOMAIN row) /\ SaidTyped /\ writes \in Nat /\ report \in AllReports
        /\ LawsFit(report)
    BY <2>1, ReportsLawful DEF ReportsInv
  <2>2. UNCHANGED report
    BY <2>1 DEF reportsVars, ReportsNext, InsertsRow, ChangesRow, Writes, ReadsFigure,
                ReadsAllFigures, AnswersReport
  <2>3. PICK r : r = report /\ report' = r /\ LawsFit(r) /\ r \in AllReports
    BY <2>0, <2>2
  <2>4. ASSUME IsFiniteSet(DOMAIN row'), Unread', writes' = 0
        PROVE  Standing(r)'
    BY <2>3, <2>4, NothingReadNext
  <2>5. CASE InsertsRow \/ ChangesRow
    <3>1. /\ UNCHANGED said /\ writes' = IF Unread THEN 0 ELSE writes + 1
      BY <2>5 DEF InsertsRow, ChangesRow, Writes
    <3>2. IsFiniteSet(DOMAIN row') /\ SaidTyped' /\ writes' \in Nat /\ Unread' = Unread
      BY <2>0, <2>5, <3>1, WriteMovesOne DEF SaidTyped, Unread
    <3>3. ~r.atOnce => Standing(r)'
      <4>1. CASE Unread
        BY <2>4, <3>1, <3>2, <4>1
      <4>2. ASSUME ~Unread, ~r.atOnce PROVE Standing(r)'
        <5>1. Standing(r)
          BY <2>1, <2>3, <4>2 DEF ReportsInv
        <5>2. QED
          BY <2>0, <2>3, <2>5, <3>1, <4>2, <5>1, WritingStands
      <4>3. QED
        BY <4>1, <4>2
    <3>4. ReadAtOnce(r) => ReadAtOnce(r)'
      BY <3>1 DEF ReadAtOnce, Said
    <3>5. QED
      BY <2>1, <2>3, <3>1, <3>2, <3>3, <3>4 DEF ReportsInv
  <2>6. CASE ReadsFigure
    <3>1. PICK f \in DOMAIN r.figures \ DOMAIN said :
            said' = [g \in DOMAIN said \cup {f} |->
                       IF g = f THEN Count(r.figures[f]) ELSE said[g]]
      BY <2>3, <2>6 DEF ReadsFigure
    <3>2. ~r.atOnce /\ UNCHANGED <<row, writes>>
      BY <2>3, <2>6 DEF ReadsFigure
    <3>3. SaidTyped'
      <4>1. PICK c : c = Count(r.figures[f]) /\ c \in Nat
        BY <2>0, CountIsNat
      <4>2. said' = [g \in DOMAIN said \cup {f} |-> IF g = f THEN c ELSE said[g]]
        BY <3>1, <4>1
      <4>3. QED
        BY <2>0, <4>1, <4>2 DEF SaidTyped
    <3>4. ~Unread'
      BY <3>1 DEF Unread
    <3>5. Standing(r)
      BY <2>1, <2>3, <3>2 DEF ReportsInv
    <3>6. Standing(r)'
      BY <2>0, <2>3, <3>1, <3>2, <3>5, ReadingStands
    <3>7. QED
      BY <2>0, <2>3, <3>2, <3>3, <3>4, <3>6 DEF ReportsInv
  <2>7. CASE ReadsAllFigures
    <3>1. r.atOnce /\ UNCHANGED <<row, writes>> /\ writes = 0
      BY <2>1, <2>3, <2>7 DEF ReadsAllFigures, ReportsInv
    <3>2. PICK h : h = [f \in DOMAIN r.figures |-> Count(r.figures[f])] /\ said' = h
      BY <2>3, <2>7 DEF ReadsAllFigures
    <3>3. SaidTyped'
      <4>1. \A S : Count(S) \in Nat
        BY <2>0, CountIsNat
      <4>2. QED
        BY <3>2, <4>1 DEF SaidTyped
    <3>4. ReadAtOnce(r)'
      <4>1. ASSUME NEW law \in r.sums PROVE SumFunctionOnSet(h, law[1]) = h[law[2]]
        <5>1. SumFits(r.figures, law)
          BY <2>3 DEF LawsFit
        <5>2. PICK F, parts, whole : /\ F = r.figures /\ parts = law[1] /\ whole = F[law[2]]
                                     /\ Apart(F, parts) /\ Inside(F, parts, whole)
                                     /\ Exhaust(F, parts, whole)
          BY <5>1 DEF SumFits
        <5>3. \A f \in parts : h[f] = Count(F[f])
          BY <3>2, <5>2 DEF Apart
        <5>4. SumFunctionOnSet(h, parts) = Count(UNION {F[f] : f \in parts})
          BY <2>0, <5>2, <5>3, PartsSum
        <5>5. UNION {F[f] : f \in parts} = whole
          BY <5>2 DEF Inside, Exhaust
        <5>6. h[law[2]] = Count(whole)
          BY <3>2, <5>1, <5>2 DEF SumFits
        <5>7. QED
          BY <5>2, <5>4, <5>5, <5>6
      <4>2. QED
        BY <3>2, <4>1 DEF ReadAtOnce, Said
    <3>5. QED
      BY <2>0, <2>3, <3>1, <3>3, <3>4 DEF ReportsInv
  <2>8. CASE AnswersReport
    <3>1. DOMAIN said' = {} /\ writes' = 0 /\ UNCHANGED row
      BY <2>8 DEF AnswersReport, NoFigures
    <3>2. Unread' /\ SaidTyped' /\ IsFiniteSet(DOMAIN row')
      BY <2>0, <3>1 DEF Unread, SaidTyped
    <3>3. QED
      BY <2>3, <2>4, <3>1, <3>2 DEF ReportsInv
  <2>9. CASE UNCHANGED reportsVars
    <3>1. UNCHANGED row /\ UNCHANGED said /\ UNCHANGED writes
      BY <2>9 DEF reportsVars
    <3>2. Standing(r)' <=> Standing(r)
      BY <3>1 DEF Standing, SumStands, WithinStands, CountStands, Near, Under, Reach, ReadsAs,
                  Unseen, Count
    <3>3. /\ SaidTyped' = SaidTyped /\ Unread' = Unread /\ ReadAtOnce(r)' = ReadAtOnce(r)
      BY <3>1 DEF SaidTyped, Unread, ReadAtOnce, Said
    <3>4. QED
      BY <2>1, <2>3, <3>1, <3>2, <3>3 DEF ReportsInv
  <2>10. QED
    BY <2>1, <2>5, <2>6, <2>7, <2>8, <2>9 DEF ReportsNext
<1>3. QED
  BY <1>1, <1>2, PTL DEF ReportsSpec

THEOREM FiguresFit == ReportsSpec => []FiguresAddUp
<1>1. ReportsInv => FiguresAddUp
  <2>1. SUFFICES ASSUME ReportsInv, Complete
                 PROVE  /\ \A law \in report.sums :
                             /\ Said(law[1]) - said[law[2]] <= Slack
                             /\ said[law[2]] - Said(law[1]) <= Slack
                        /\ \A law \in report.within : Said(law[1]) - said[law[2]] <= Slack
                        /\ \A law \in report.counts :
                             /\ Said(law[1]) - Count(law[2]) <= Slack
                             /\ Count(law[2]) - Said(law[1]) <= Slack
    BY DEF FiguresAddUp
  <2>2. LawsFit(report) /\ writes \in Nat
    BY <2>1, ReportsLawful DEF ReportsInv
  <2>3. CASE report.atOnce
    <3>1. Slack = 0 /\ report.within = {} /\ report.counts = {}
      BY <2>2, <2>3 DEF Slack, LawsFit
    <3>2. CASE Unread
      <4>1. DOMAIN report.figures = {}
        BY <2>1, <3>2 DEF Complete, Unread
      <4>2. report.sums = {}
        BY <2>2, <4>1 DEF LawsFit, SumFits
      <4>3. QED
        BY <3>1, <4>2
    <3>3. CASE ReadAtOnce(report)
      <4>1. ASSUME NEW law \in report.sums
            PROVE  /\ Said(law[1]) - said[law[2]] <= 0
                   /\ said[law[2]] - Said(law[1]) <= 0
        <5>1. law[2] \in DOMAIN said
          BY <2>1, <2>2 DEF Complete, LawsFit, SumFits
        <5>2. said[law[2]] \in Nat
          BY <2>1, <5>1 DEF ReportsInv, SaidTyped
        <5>3. Said(law[1]) = said[law[2]]
          BY <3>3 DEF ReadAtOnce
        <5>4. QED
          BY <5>2, <5>3
      <4>2. QED
        BY <3>1, <4>1
    <3>4. QED
      BY <2>1, <2>3, <3>2, <3>3 DEF ReportsInv
  <2>4. CASE ~report.atOnce
    <3>1. Slack = writes /\ Standing(report)
      BY <2>1, <2>4 DEF Slack, ReportsInv
    <3>2. ASSUME NEW parts, Apart(report.figures, parts)
          PROVE  Reach(report.figures, parts) = Said(parts)
      <4>1. parts \cap DOMAIN said = parts /\ parts \ DOMAIN said = {}
        BY <2>1, <3>2 DEF Complete, Apart
      <4>2. Unseen(report.figures, parts) = {}
        BY <4>1 DEF Unseen
      <4>3. SumFunctionOnSet(said, parts) \in Int
        <5>1. IsFiniteSet(parts) /\ \A x \in parts : said[x] \in Int
          BY <2>1, <3>2, <4>1 DEF ReportsInv, SaidTyped, Apart
        <5>2. QED
          BY <5>1, SumIsInt
      <4>4. QED
        BY <4>1, <4>2, <4>3, CountOfNone DEF Reach, Said
    <3>3. \A g \in DOMAIN report.figures :
            ReadsAs(report.figures, g) = said[g] /\ said[g] \in Nat
      BY <2>1 DEF ReadsAs, Complete, ReportsInv, SaidTyped
    <3>4. ASSUME NEW parts, Apart(report.figures, parts) PROVE Said(parts) \in Int
      <4>1. Reach(report.figures, parts) \in Int
        BY <2>1, <3>4, ReachIsInt DEF ReportsInv, Apart
      <4>2. QED
        BY <3>2, <3>4, <4>1
    <3>5. ASSUME NEW law \in report.sums
          PROVE  /\ Said(law[1]) - said[law[2]] <= Slack
                 /\ said[law[2]] - Said(law[1]) <= Slack
      <4>1. law[2] \in DOMAIN report.figures /\ Apart(report.figures, law[1])
        BY <2>2 DEF LawsFit, SumFits
      <4>2. PICK x, y : x = Said(law[1]) /\ y = said[law[2]]
        OBVIOUS
      <4>3. x \in Int /\ y \in Int
        BY <3>3, <3>4, <4>1, <4>2
      <4>4. 0 - writes <= x - y /\ x - y <= writes
        BY <3>1, <3>2, <3>3, <4>1, <4>2 DEF Standing, SumStands, Near
      <4>5. QED
        BY <2>2, <3>1, <4>2, <4>3, <4>4
    <3>6. ASSUME NEW law \in report.within
          PROVE  Said(law[1]) - said[law[2]] <= Slack
      <4>1. law[2] \in DOMAIN report.figures /\ Apart(report.figures, law[1])
        BY <2>2 DEF LawsFit, WithinFits
      <4>2. QED
        BY <3>1, <3>2, <3>3, <4>1 DEF Standing, WithinStands, Under
    <3>7. ASSUME NEW law \in report.counts
          PROVE  /\ Said(law[1]) - Count(law[2]) <= Slack
                 /\ Count(law[2]) - Said(law[1]) <= Slack
      <4>1. Apart(report.figures, law[1])
        BY <2>2 DEF LawsFit, CountFits
      <4>2. PICK x, y : x = Said(law[1]) /\ y = Count(law[2])
        OBVIOUS
      <4>3. x \in Int /\ y \in Int
        <5>1. IsFiniteSet(DOMAIN row)
          BY <2>1 DEF ReportsInv
        <5>2. Count(law[2]) \in Nat
          BY <5>1, CountIsNat
        <5>3. QED
          BY <3>4, <4>1, <4>2, <5>2
      <4>4. 0 - writes <= x - y /\ x - y <= writes
        BY <3>1, <3>2, <4>1, <4>2 DEF Standing, CountStands, Near
      <4>5. QED
        BY <2>2, <3>1, <4>2, <4>3, <4>4
    <3>8. QED
      BY <3>5, <3>6, <3>7
  <2>5. QED
    BY <2>3, <2>4
<1>2. QED
  BY <1>1, ReportsInductive, PTL

=============================================================================
