---------------------------- MODULE MCOperations ----------------------------
(* Subscriptions, intake, merchants and the delivery network, entitlements,     *)
(* invoices and reports share tables only in ways that are stated in their       *)
(* modules: a behaviour follows one of them, chosen at the start, so that their   *)
(* state spaces add up instead of multiplying.                                *)
EXTENDS Subscriptions, Intake, Parties, Entitlements, Billing, Reports, TLC

VARIABLE focus

operationsVars == <<focus, subscriptionsVars, intakeVars, partiesVars,
                    entitlementsVars, billingVars, reportsVars>>

(* Rows of a file: one with a COD amount above what a signal tolerates and an    *)
(* address, one without either, and one that is refused for its weight.          *)
Good == [customerName |-> "text", customerPhone |-> "mobile", addressText |-> "landmark",
         productDescription |-> "text", type |-> "PREPAID", codAmount |-> Blank,
         productValue |-> Blank, weight |-> Blank, pieces |-> Blank,
         preferredDeliveryDate |-> Blank, zone |-> Blank]
Cod == [Good EXCEPT !.type = "COD", !.codAmount = 600000, !.zone = "z1", !.addressText = "text"]
Bad == [Good EXCEPT !.weight = 0]
MCFiles == {<<Good, Bad, Cod, Good>>, <<Cod>>, <<Bad>>}

MCWorksOn == [a \in Staff |-> {"plans", "tenants", "subscriptions"}]
MCSymmetry == Permutations(Numbers) \cup Permutations(Staff)

(* Overlapping subscriptions of a tenant that signed up; or plans and tenants   *)
(* that one of the two platform users looks after at a time, with at most two    *)
(* subscriptions that run or are cancelled meanwhile.                         *)
SellingStep ==
  /\ SubscriptionsNext
  /\ UNCHANGED plan
  /\ \A t \in Tenants :
       tenant'[t] # NoTenant => tenant'[t].plan # NoPlan /\ tenant'[t].status # "CANCELLED"
  /\ \A a \in Staff : request'[a].at \notin {"archives", "deletes", "signs up"}

LookingAfter == {a \in Staff : request'[a].at \in {"archives", "deletes", "signs up"}}

PlansStep ==
  /\ SubscriptionsNext
  /\ Len(subscription') <= 2
  /\ \A i \in DOMAIN subscription' :
       subscription'[i].status \in {"TRIALING", "ACTIVE", "CANCELLED"}
  /\ \A a \in Staff :
       request'[a].at = "updates" => request'[a].status = "CANCELLED"
  /\ Cardinality(LookingAfter) <= 1

MCInit ==
  /\ focus \in {"subscriptions", "plans", "intake", "merchants",
                "network", "entitlements", "billing", "reports"}
  /\ SubscriptionsInit /\ IntakeInit /\ PartiesInit
  /\ EntitlementsInit /\ BillingInit /\ row = << >> /\ said = NoFigures /\ writes = 0
  /\ IF focus = "reports" THEN report \in AllReports ELSE report = Listing

MCNext ==
  /\ UNCHANGED focus
  /\ \/ focus = "subscriptions" /\ SellingStep
          /\ UNCHANGED <<intakeVars, partiesVars, entitlementsVars, billingVars, reportsVars>>
     \/ focus = "plans" /\ PlansStep
          /\ UNCHANGED <<intakeVars, partiesVars, entitlementsVars, billingVars, reportsVars>>
     \/ focus = "intake" /\ IntakeNext
          /\ UNCHANGED <<subscriptionsVars, partiesVars, entitlementsVars, billingVars,
                         reportsVars>>
     \/ focus = "merchants" /\ (\E a \in Admins : MerchantStep(a))
          /\ UNCHANGED <<subscriptionsVars, intakeVars, entitlementsVars, billingVars,
                         reportsVars>>
     \/ focus = "network" /\ (\E a \in Admins : CourierStep(a))
          /\ UNCHANGED <<subscriptionsVars, intakeVars, entitlementsVars, billingVars,
                         reportsVars>>
     \/ focus = "entitlements" /\ EntitlementsNext
          /\ UNCHANGED <<subscriptionsVars, intakeVars, partiesVars, billingVars, reportsVars>>
     \/ focus = "billing" /\ BillingNext
          /\ UNCHANGED <<subscriptionsVars, intakeVars, partiesVars, entitlementsVars,
                         reportsVars>>
     \/ focus = "reports" /\ ReportsNext
          /\ UNCHANGED <<subscriptionsVars, intakeVars, partiesVars, entitlementsVars,
                         billingVars>>

MCSpec == MCInit /\ [][MCNext]_operationsVars
=============================================================================
