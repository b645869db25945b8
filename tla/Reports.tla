------------------------------ MODULE Reports ------------------------------
(* Dashboards, summaries and listings.  A report is a handful of figures, each  *)
(* the number of rows of a table in certain states and most of them read by a   *)
(* statement of their own (Promise.all, without a transaction), while other      *)
(* requests write.  A report here is the sets of states its figures count; sums  *)
(* of money over the same rows behave like the counts.                        *)
EXTENDS Integers, FiniteSets, Functions, ShipmentStates

CONSTANTS
  Ids,         \* rows there may be in the table a report is about
  MaxWrites    \* bound on the writes while a report is being made

ASSUME ReportsAssumption == MaxWrites \in Nat

VARIABLES
  row,         \* the rows that are in the table: [a subset of Ids -> the row's state]
  report,      \* the report that is being made, or NoReport
  said,        \* the figures it has read
  writes       \* writes since it began

reportsVars == <<row, report, said, writes>>

(* The tables, as far as reports tell rows apart.                             *)
PaymentStatuses == {"NOT_REQUIRED", "PENDING", "PAID", "FAILED", "PAST_DUE"}
TenantStates == {"TRIAL", "ACTIVE", "PAST_DUE", "SUSPENDED", "CANCELLED"}
SubscriptionStates == {"TRIALING", "ACTIVE", "PAST_DUE", "PAUSED", "CANCELLED", "EXPIRED"}
CourierStates == {"online", "offline", "inactive"}
Instants == 0..3   \* when a row was created

States(table) ==
  CASE table = "shipments" -> Statuses
    [] table = "invoices" -> PaymentStatuses
    [] table = "tenants" -> TenantStates
    [] table = "subscriptions" -> SubscriptionStates
    [] table = "couriers" -> CourierStates
    [] table = "arrivals" -> Instants

(* What a row is inserted as, and what a write may make of it.  An arrival      *)
(* stays when it was.                                                        *)
Inserted(table) ==
  IF table \in {"shipments", "invoices"} THEN {"PENDING"} ELSE States(table)

Successors(table, state) ==
  CASE table = "shipments" -> TRANSITION_MATRIX[state]
    [] table = "arrivals" -> {}
    [] OTHER -> States(table)

----------------------------------------------------------------------------
(* Reports.  sums: these figures together are that one; within: these together  *)
(* are no more than that one; counts: these together are the rows in those       *)
(* states.  atOnce: all figures are taken from one statement's rows.           *)
Report(table, figures) ==
  [table |-> table, figures |-> figures, atOnce |-> FALSE,
   sums |-> {}, within |-> {}, counts |-> {}]

(* MerchantDashboardService.getDashboard *)
MerchantDashboard ==
  [Report("shipments",
     [total |-> Statuses, pending |-> {"PENDING"},
      inTransit |-> {"PICKED_UP", "IN_WAREHOUSE", "OUT_FOR_DELIVERY"},
      delivered |-> {"DELIVERED"}, returned |-> {"RETURNED"}])
   EXCEPT !.within = {<<{"pending", "inTransit", "delivered", "returned"}, "total">>}]

(* AdminDashboardService.getDashboard, and the couriers it counts.  The figures  *)
(* go by different dates (created, delivered and last changed today; pending and  *)
(* unassigned on any day), so the law is about a table of today's shipments only: *)
(* a day that also delivers yesterday's may report more delivered than created.  *)
AdminDashboard ==
  [Report("shipments",
     [shipmentsCreated |-> Statuses, shipmentsDelivered |-> {"DELIVERED"},
      shipmentsFailed |-> {"FAILED"}, pendingAssignments |-> {"PENDING"}])
   EXCEPT !.within = {<<{"shipmentsDelivered", "shipmentsFailed", "pendingAssignments"},
                        "shipmentsCreated">>}]

AdminCouriers ==
  [Report("couriers", [couriersOnline |-> {"online"}, couriersOffline |-> {"offline"}])
   EXCEPT !.counts = {<<{"couriersOnline", "couriersOffline"}, {"online", "offline"}>>}]

(* getFinancialSummary: the COD shipments whose codAmount is expected, and those   *)
(* of them whose collectedCash is counted.  The law is about which shipments are  *)
(* summed, not about the two columns.                                        *)
FinancialSummary ==
  [Report("shipments", [expected |-> {"DELIVERED", "PICKED_UP", "OUT_FOR_DELIVERY"},
                        dailyCodCollected |-> {"DELIVERED"}])
   EXCEPT !.within = {<<{"dailyCodCollected"}, "expected">>}]

(* ReportsService.generateDailyReport; byStatus has a figure per status.       *)
DailyReport ==
  [Report("shipments", [f \in Statuses \cup {"totalShipments"} |->
                          IF f = "totalShipments" THEN Statuses ELSE {f}])
   EXCEPT !.atOnce = TRUE, !.sums = {<<Statuses, "totalShipments">>}]

(* generateMerchantDeliveryReport *)
MerchantDeliveryReport ==
  [Report("shipments", [totalShipments |-> {"DELIVERED", "RETURNED"},
                        delivered |-> {"DELIVERED"}, returned |-> {"RETURNED"}])
   EXCEPT !.atOnce = TRUE, !.sums = {<<{"delivered", "returned"}, "totalShipments">>}]

(* PlatformAnalyticsService.getShipments without a status asked for; with one,   *)
(* the four counts replace it and total keeps it.                            *)
PlatformShipments ==
  [Report("shipments",
     [totalShipments |-> Statuses, deliveredShipments |-> {"DELIVERED"},
      failedShipments |-> {"FAILED"}, returnedShipments |-> {"RETURNED"},
      pendingShipments |-> {"PENDING"}])
   EXCEPT !.within = {<<{"deliveredShipments", "failedShipments", "returnedShipments",
                         "pendingShipments"}, "totalShipments">>}]

(* getUsage: buckets follow one another from from to to, the last one cut off.  *)
BuildBuckets(from, to, step) ==
  {[from |-> i, to |-> IF i + step > to THEN to ELSE i + step] :
     i \in {n \in from..to - 1 : (n - from) % step = 0}}

BucketRows(b) == b.from..b.to - 1

Usage(from, to, step) ==
  LET buckets == BuildBuckets(from, to, step) IN
  [Report("arrivals", [b \in buckets |-> BucketRows(b)])
   EXCEPT !.counts = {<<buckets, from..to - 1>>}]

(* PlatformAnalyticsRepository.getTenantStatusCounts *)
TenantStatusCounts ==
  [Report("tenants", [total |-> TenantStates, active |-> {"ACTIVE"}, trial |-> {"TRIAL"},
                      suspended |-> {"SUSPENDED"}, cancelled |-> {"CANCELLED"}])
   EXCEPT !.within = {<<{"active", "trial", "suspended", "cancelled"}, "total">>}]

(* getSubscriptionStatusCounts and getEstimatedMrrByPlan                       *)
SubscriptionStatusCounts ==
  [Report("subscriptions", [active |-> {"ACTIVE"}, trial |-> {"TRIALING"},
                            pastDue |-> {"PAST_DUE"}, cancelled |-> {"CANCELLED"},
                            earning |-> {"ACTIVE"}])
   EXCEPT !.sums = {<<{"earning"}, "active">>},
          !.counts = {<<{"active", "trial", "pastDue", "cancelled"},
                        SubscriptionStates \ {"PAUSED", "EXPIRED"}>>}]

(* getManualInvoiceTotals *)
ManualInvoiceTotals ==
  [Report("invoices", [paid |-> {"PAID"}, unpaid |-> PaymentStatuses \ {"PAID"}])
   EXCEPT !.counts = {<<{"paid", "unpaid"}, PaymentStatuses>>}]

(* Mutant: unpaid is what is pending. *)
Unpaid_Pending == {"PENDING"}

Unpaid == PaymentStatuses \ {"PAID"}

(* PlatformBillingRepository.getOverviewAggregates *)
BillingOverview ==
  [Report("invoices", [total |-> PaymentStatuses, paid |-> {"PAID"}, unpaid |-> Unpaid,
                       pastDue |-> {"PAST_DUE"}])
   EXCEPT !.sums = {<<{"paid", "unpaid"}, "total">>}, !.within = {<<{"pastDue"}, "unpaid">>}]

(* getTenantInvoiceTotals: a groupBy for the summary, the totals on their own.   *)
TenantInvoiceTotals ==
  [Report("invoices", [summary |-> Unpaid, unpaid |-> Unpaid, pastDue |-> {"PAST_DUE"}])
   EXCEPT !.sums = {<<{"summary"}, "unpaid">>}, !.within = {<<{"pastDue"}, "unpaid">>}]

(* PlatformSupportRepository.getTenantHealthCounts *)
TenantHealth ==
  [Report("invoices", [unpaidInvoices |-> Unpaid, pastDueInvoices |-> {"PAST_DUE"}])
   EXCEPT !.within = {<<{"pastDueInvoices"}, "unpaidInvoices">>}]

(* findInvoices, and every other listing: a page and the total beside it.       *)
Listing ==
  [Report("invoices", [data |-> PaymentStatuses, total |-> PaymentStatuses])
   EXCEPT !.sums = {<<{"data"}, "total">>}]

AllReports ==
  {MerchantDashboard, AdminDashboard, AdminCouriers, FinancialSummary, DailyReport,
   MerchantDeliveryReport, PlatformShipments, TenantStatusCounts, SubscriptionStatusCounts,
   ManualInvoiceTotals, BillingOverview, TenantInvoiceTotals, TenantHealth, Listing}
    \cup {Usage(0, 3, step) : step \in {1, 2}}

----------------------------------------------------------------------------
NoFigures == << >>
Count(states) == Cardinality({i \in DOMAIN row : row[i] \in states})
Unread == DOMAIN said = {}
Complete == DOMAIN said = DOMAIN report.figures

(* A behaviour makes one report over and over.                               *)
ReportsInit ==
  /\ row = << >>
  /\ report \in AllReports
  /\ said = NoFigures /\ writes = 0

(* Elsewhere a row is inserted or changed.                                    *)
Writes ==
  /\ ~Unread => writes < MaxWrites
  /\ writes' = IF Unread THEN 0 ELSE writes + 1
  /\ UNCHANGED <<report, said>>

InsertsRow ==
  /\ \E i \in Ids \ DOMAIN row : \E state \in Inserted(report.table) :
       row' = [j \in DOMAIN row \cup {i} |-> IF j = i THEN state ELSE row[j]]
  /\ Writes

ChangesRow ==
  /\ \E i \in DOMAIN row : \E state \in Successors(report.table, row[i]) :
       row' = [row EXCEPT ![i] = state]
  /\ Writes

(* One statement answers.                                                    *)
ReadsFigure ==
  /\ ~report.atOnce
  /\ \E f \in DOMAIN report.figures \ DOMAIN said :
       said' = [g \in DOMAIN said \cup {f} |->
                  IF g = f THEN Count(report.figures[f]) ELSE said[g]]
  /\ UNCHANGED <<row, report, writes>>

ReadsAllFigures ==
  /\ report.atOnce /\ Unread
  /\ said' = [f \in DOMAIN report.figures |-> Count(report.figures[f])]
  /\ UNCHANGED <<row, report, writes>>

AnswersReport ==
  /\ Complete
  /\ said' = NoFigures /\ writes' = 0
  /\ UNCHANGED <<row, report>>

ReportsNext == InsertsRow \/ ChangesRow \/ ReadsFigure \/ ReadsAllFigures \/ AnswersReport

ReportsSpec == ReportsInit /\ [][ReportsNext]_reportsVars

----------------------------------------------------------------------------
Said(parts) == SumFunctionOnSet(said, parts)

(* Figures may miss each other by the writes that came between their reads.     *)
Slack == IF report.atOnce THEN 0 ELSE writes

(* The figures of a report add up, but for one per write since the first was     *)
(* read: exactly on a quiet table, or if one statement reads them all.  Nothing   *)
(* is counted twice, and nothing falls between two figures.                   *)
FiguresAddUp ==
  Complete =>
    /\ \A law \in report.sums :
         /\ Said(law[1]) - said[law[2]] <= Slack
         /\ said[law[2]] - Said(law[1]) <= Slack
    /\ \A law \in report.within : Said(law[1]) - said[law[2]] <= Slack
    /\ \A law \in report.counts :
         /\ Said(law[1]) - Count(law[2]) <= Slack
         /\ Count(law[2]) - Said(law[1]) <= Slack

=============================================================================
