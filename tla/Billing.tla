------------------------------ MODULE Billing ------------------------------
(* Manual invoices (PlatformBillingService) and their audit trail               *)
(* (PlatformAuditLogService.writeAuditLog).  The invoice is written in a         *)
(* transaction; what it was is read before, and the entry in the trail follows    *)
(* after, each a statement of its own.  The other platform services leave their   *)
(* trails the same way.                                                      *)
EXTENDS Integers, Sequences, FiniteSets

CONSTANTS
  Invoices,
  Accountants,   \* platform users, one request at a time each
  PaidStates,    \* members of PaymentStatus, PENDING among them
  MaxEntries     \* bound on the entries of the trail

ASSUME BillingAssumption ==
  "PENDING" \in PaidStates /\ "none" \notin PaidStates /\ MaxEntries \in Nat

VARIABLES
  invoice,    \* [Invoices -> its status, or "none"]
  trail,      \* audit_logs: the entries about invoices, in order
  posting,    \* [Accountants -> what the request has got to]
  crossed     \* invoices with two requests at a time, or one that died unlogged

billingVars == <<invoice, trail, posting, crossed>>

NoPosting == [at |-> "idle"]
Posts(a, r) == posting' = [posting EXCEPT ![a] = r]
Busy(i) == \E a \in Accountants : posting[a].at # "idle" /\ posting[a].i = i
Crossing(i) == crossed' = IF Busy(i) THEN crossed \cup {i} ELSE crossed

Open == {a \in Accountants : posting[a].at # "idle"}
RoomInTrail == Len(trail) + Cardinality(Open) < MaxEntries

BillingInit ==
  /\ invoice = [i \in Invoices |-> "none"]
  /\ trail = << >>
  /\ posting = [a \in Accountants |-> NoPosting]
  /\ crossed = {}

(* createInvoice: the row, PENDING by default.                                *)
CreatesInvoice(a) ==
  /\ posting[a].at = "idle" /\ RoomInTrail
  /\ \E i \in Invoices :
       /\ invoice[i] = "none"
       /\ invoice' = [invoice EXCEPT ![i] = "PENDING"]
       /\ Posts(a, [at |-> "logs", i |-> i, before |-> "none", after |-> "PENDING"])
  /\ UNCHANGED <<trail, crossed>>

(* updateInvoice: findById ...                                               *)
ReadsInvoice(a) ==
  /\ posting[a].at = "idle" /\ RoomInTrail
  /\ \E i \in Invoices :
       /\ invoice[i] # "none"
       /\ Posts(a, [at |-> "writes", i |-> i, before |-> invoice[i]])
       /\ Crossing(i)
  /\ UNCHANGED <<invoice, trail>>

(* ... and the transaction, which takes any status the request names, or none.  *)
UpdatesInvoice(a) ==
  LET p == posting[a] IN
  /\ p.at = "writes"
  /\ \E status \in PaidStates :
       /\ invoice' = [invoice EXCEPT ![p.i] = status]
       /\ Posts(a, [at |-> "logs", i |-> p.i, before |-> p.before, after |-> status])
  /\ UNCHANGED <<trail, crossed>>

(* Mutant: the old value is read when the entry is made. *)
OldValue_Fresh(p) == invoice[p.i]

OldValue(p) == p.before

WritesAuditLog(a) ==
  LET p == posting[a] IN
  /\ p.at = "logs"
  /\ trail' = Append(trail, [i |-> p.i, old |-> OldValue(p), new |-> p.after])
  /\ Posts(a, NoPosting)
  /\ UNCHANGED <<invoice, crossed>>

(* The database refuses or the process dies.                                 *)
PostingDies(a) ==
  LET p == posting[a] IN
  /\ p.at # "idle"
  /\ crossed' = IF p.at = "logs" THEN crossed \cup {p.i} ELSE crossed
  /\ Posts(a, NoPosting)
  /\ UNCHANGED <<invoice, trail>>

BillingNext ==
  \E a \in Accountants :
    \/ CreatesInvoice(a) \/ ReadsInvoice(a) \/ UpdatesInvoice(a)
    \/ WritesAuditLog(a) \/ PostingDies(a)

BillingSpec == BillingInit /\ [][BillingNext]_billingVars

----------------------------------------------------------------------------
(* The first n entries leave an invoice with this status.                     *)
Tells(i, n, status) ==
  \/ status = "none" /\ \A k \in 1..n : trail[k].i # i
  \/ \E k \in 1..n : /\ trail[k].i = i /\ trail[k].new = status
                    /\ \A j \in (k + 1)..n : trail[j].i # i

(* The trail tells an invoice's history: its entries begin with none, each goes   *)
(* on where the one before it ended, and the last is the status it has now.       *)
(* That holds for an invoice whose requests came one after the other and were     *)
(* all logged; requests that overlap can enter the trail in the other order.      *)
TrailTellsHistory ==
  \A i \in Invoices \ crossed :
    /\ \A k \in DOMAIN trail : trail[k].i = i => Tells(i, k - 1, trail[k].old)
    /\ ~Busy(i) => Tells(i, Len(trail), invoice[i])

=============================================================================
