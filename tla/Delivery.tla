------------------------------ MODULE Delivery ------------------------------
(***************************************************************************)
(* ShipmentsService.updateStatus, called by couriers and operations        *)
(* managers at the same time, and CourierAppService.logDeposit.            *)
(*                                                                         *)
(* A call reads the shipment, validates the request against what it read,  *)
(* talks to Redis about the delivery OTP, commits one transaction on the   *)
(* shipment and its courier, then writes the status log and emits          *)
(* 'shipment.delivered'.  Each await in between lets other calls run, and  *)
(* the process may die there.                                              *)
(***************************************************************************)
EXTENDS ShipmentStates, Integers, FiniteSets, Functions

CONSTANTS
  Shipments,
  CodShipments,       \* the shipments of type COD
  CodAmount,          \* [CodShipments -> Nat]
  Couriers,
  NoCourier,          \* assignedCourierId = null
  AssignedTo,         \* [Shipments -> Couriers \cup {NoCourier}]
  Callers,            \* clients that send status updates, one at a time each
  CollectedCash,      \* amounts a client may report; 0 stands for none
  OnePound,           \* the smallest tolerance, 1 EGP in the unit of the amounts
  Codes,              \* delivery OTPs
  NoCode,
  OTP_MAX_ATTEMPTS,
  Depositors,         \* clients that log cash deposits
  DepositAmounts,
  MaxCalls            \* bound on the calls of a behaviour

ASSUME DeliveryAssumption ==
  /\ CodShipments \subseteq Shipments
  /\ CodAmount \in [CodShipments -> Nat]
  /\ AssignedTo \in [Shipments -> Couriers \cup {NoCourier}]
  /\ NoCourier \notin Couriers
  /\ CollectedCash \subseteq Nat
  /\ DepositAmounts \subseteq Nat \ {0}
  /\ NoCode \notin Codes
  /\ OTP_MAX_ATTEMPTS \in Nat \ {0}
  /\ MaxCalls \in Nat
  /\ IsFiniteSet(Callers) /\ IsFiniteSet(Shipments) /\ IsFiniteSet(Couriers)
  /\ IsFiniteSet(Depositors)
  /\ OnePound \in Nat

VARIABLES
  shipment,     \* shipments table
  courier,      \* couriers table: counters and cash held
  deposits,     \* [Couriers -> Nat], sum of courier_cash_deposits
  attempts,     \* Redis shipment_otp_attempts:<id>, 0 when absent
  timeline,     \* newStatus of the latest row of shipment_status_logs
  announced,    \* 'shipment.delivered' events emitted per shipment
  overtaken,    \* history: shipments an update of which was committed over a status
                \* that is not the one it had read
  call,         \* the update each caller is making
  depositing,   \* the deposit each depositor is making
  calls         \* how many updates were begun, capped by MaxCalls

vars == <<shipment, courier, deposits, attempts, timeline, announced, overtaken,
          call, depositing, calls>>

Idle == [at |-> "idle"]

NewShipment(s) ==
  [status |-> "PENDING", courier |-> AssignedTo[s], otp |-> NoCode,
   cash |-> 0, deliveryAttempts |-> 0]

NewCourier == [totalDelivered |-> 0, totalFailed |-> 0, totalReturned |-> 0, cashHeld |-> 0]

Init ==
  /\ shipment = [s \in Shipments |-> NewShipment(s)]
  /\ courier = [k \in Couriers |-> NewCourier]
  /\ deposits = [k \in Couriers |-> 0]
  /\ attempts = [s \in Shipments |-> 0]
  /\ timeline = [s \in Shipments |-> "PENDING"]
  /\ announced = [s \in Shipments |-> 0]
  /\ overtaken = {}
  /\ call = [c \in Callers |-> Idle]
  /\ depositing = [d \in Depositors |-> Idle]
  /\ calls = 0

----------------------------------------------------------------------------
(* |cash - codAmount| <= max(5 % of codAmount, 1 EGP)                        *)
WithinTolerance(s, cash) ==
  LET gap == IF cash > CodAmount[s] THEN cash - CodAmount[s] ELSE CodAmount[s] - cash
  IN  gap <= OnePound \/ 20 * gap <= CodAmount[s]

(* The customer's code is asked for on COD deliveries, and drawn anew when   *)
(* a COD shipment goes out.                                                  *)
NeedsOtp(s, new) == s \in CodShipments /\ new = "DELIVERED"
DrawsOtp(s, new) == s \in CodShipments /\ new = "OUT_FOR_DELIVERY"

(* findById and the checks that need nothing but the row.  A request that    *)
(* fails one of them is refused and changes nothing.  (Cash reported with    *)
(* any other update is left out: a COD delivery overwrites it.)              *)
ReadsShipment(c) ==
  /\ call[c].at = "idle"
  /\ calls < MaxCalls
  /\ calls' = calls + 1
  /\ \E s \in Shipments, new \in Statuses, cash \in CollectedCash \cup {0},
        code \in Codes \cup {NoCode} :
       /\ IsValidTransition(shipment[s].status, new)
       /\ (code # NoCode) = (NeedsOtp(s, new) \/ DrawsOtp(s, new))
       /\ (cash # 0) = NeedsOtp(s, new)
       /\ NeedsOtp(s, new) => /\ WithinTolerance(s, cash)
                              /\ shipment[s].otp # NoCode
       /\ call' = [call EXCEPT ![c] =
                     [at |-> IF NeedsOtp(s, new) THEN "otp" ELSE "checked",
                      s |-> s, new |-> new, cash |-> cash, code |-> code,
                      row |-> shipment[s]]]
  /\ UNCHANGED <<shipment, courier, deposits, attempts, timeline, announced, overtaken,
                 depositing>>

Leaves(c, at) == call' = [call EXCEPT ![c].at = at]
Ends(c) == call' = [call EXCEPT ![c] = Idle]

(* Mutant: the limit is off by one. *)
OtpAllowed_OneMore(s) == attempts[s] <= OTP_MAX_ATTEMPTS

OtpAllowed(s) == attempts[s] < OTP_MAX_ATTEMPTS

(* verifyDeliveryOtp reads the counter, and only then increments it.         *)
ReadsAttempts(c) ==
  /\ call[c].at = "otp"
  /\ IF OtpAllowed(call[c].s) THEN Leaves(c, "guess") ELSE Ends(c)
  /\ UNCHANGED <<shipment, courier, deposits, attempts, timeline, announced, overtaken,
                 depositing, calls>>

ComparesOtp(c) ==
  /\ call[c].at = "guess"
  /\ attempts' = [attempts EXCEPT ![call[c].s] = @ + 1]
  /\ IF call[c].code = call[c].row.otp THEN Leaves(c, "checked") ELSE Ends(c)
  /\ UNCHANGED <<shipment, courier, deposits, timeline, announced, overtaken, depositing, calls>>

(* OTP_ATTEMPT_TTL, a day after the last attempt: also while a call is between *)
(* reading the counter and incrementing it.                                  *)
AttemptsExpire(s) ==
  /\ attempts[s] > 0
  /\ attempts' = [attempts EXCEPT ![s] = 0]
  /\ UNCHANGED <<shipment, courier, deposits, timeline, announced, overtaken, call,
                 depositing, calls>>

(* Mutant: the cash booked is the row's, as it was read. *)
CashBooked_FromRow(r) == IF r.s \in CodShipments THEN r.row.cash ELSE 0

(* The cash the courier answers for: what the call reports.                  *)
CashBooked(r) == IF r.s \in CodShipments THEN r.cash ELSE 0

(* Mutant: a repeated FAILED is not counted against the courier. *)
CourierUpdate_OnceFailed(r, k) ==
  CASE r.new = "DELIVERED" -> [k EXCEPT !.totalDelivered = @ + 1, !.cashHeld = @ + CashBooked(r)]
    [] r.new = "FAILED" /\ r.row.status # "FAILED" -> [k EXCEPT !.totalFailed = @ + 1]
    [] r.new = "RETURNED"  -> [k EXCEPT !.totalReturned = @ + 1]
    [] OTHER               -> k

(* All of it relative updates.                                               *)
CourierUpdate(r, k) ==
  CASE r.new = "DELIVERED" -> [k EXCEPT !.totalDelivered = @ + 1, !.cashHeld = @ + CashBooked(r)]
    [] r.new = "FAILED"    -> [k EXCEPT !.totalFailed = @ + 1]
    [] r.new = "RETURNED"  -> [k EXCEPT !.totalReturned = @ + 1]
    [] OTHER               -> k

ShipmentUpdate(r, row) ==
  [row EXCEPT
     !.status = r.new,
     !.cash = IF r.cash # 0 THEN r.cash ELSE @,
     !.otp = IF DrawsOtp(r.s, r.new) THEN r.code ELSE @,
     !.deliveryAttempts = IF r.new = "FAILED" THEN @ + 1 ELSE @]

(* The transaction: the shipment by its id, whatever its status is now, and  *)
(* the courier it was assigned to when it was read.                          *)
Commits(c) ==
  LET r == call[c] IN
  /\ r.at = "checked"
  /\ shipment' = [shipment EXCEPT ![r.s] = ShipmentUpdate(r, @)]
  /\ courier' = [k \in Couriers |-> IF k = r.row.courier THEN CourierUpdate(r, courier[k])
                                                        ELSE courier[k]]
  /\ overtaken' = IF shipment[r.s].status = r.row.status THEN overtaken
                                                        ELSE overtaken \cup {r.s}
  /\ Leaves(c, "committed")
  /\ UNCHANGED <<deposits, attempts, timeline, announced, depositing, calls>>

WritesLog(c) ==
  /\ call[c].at = "committed"
  /\ timeline' = [timeline EXCEPT ![call[c].s] = call[c].new]
  /\ Leaves(c, "logged")
  /\ UNCHANGED <<shipment, courier, deposits, attempts, announced, overtaken, depositing, calls>>

(* Mutant: every terminal status is announced as a delivery. *)
EmitsEvents_AnyTerminal(c) ==
  /\ call[c].at = "logged"
  /\ announced' = [announced EXCEPT ![call[c].s] =
                     IF call[c].new \in TERMINAL_STATUSES THEN @ + 1 ELSE @]
  /\ Ends(c)
  /\ UNCHANGED <<shipment, courier, deposits, attempts, timeline, overtaken, depositing, calls>>

EmitsEvents(c) ==
  /\ call[c].at = "logged"
  /\ announced' = [announced EXCEPT ![call[c].s] =
                     IF call[c].new = "DELIVERED" THEN @ + 1 ELSE @]
  /\ Ends(c)
  /\ UNCHANGED <<shipment, courier, deposits, attempts, timeline, overtaken, depositing, calls>>

(* A database or Redis error, or the process dying.                          *)
Dies(c) ==
  /\ call[c].at # "idle"
  /\ Ends(c)
  /\ UNCHANGED <<shipment, courier, deposits, attempts, timeline, announced, overtaken,
                 depositing, calls>>

----------------------------------------------------------------------------
(* logDeposit                                                                *)

(* Mutant: the amount is not compared with the cash held. *)
Covers_Anything(k, amount) == TRUE

(* The refusal of a deposit of more than the courier holds.                  *)
Covers(k, amount) == amount <= courier[k].cashHeld

ReadsCashHeld(d) ==
  /\ depositing[d].at = "idle"
  /\ \E k \in Couriers, amount \in DepositAmounts :
       /\ Covers(k, amount)
       /\ depositing' = [depositing EXCEPT ![d] = [at |-> "checked", k |-> k, amount |-> amount]]
  /\ UNCHANGED <<shipment, courier, deposits, attempts, timeline, announced, overtaken, call,
                 calls>>

Deposits(d) ==
  LET r == depositing[d] IN
  /\ r.at = "checked"
  /\ deposits' = [deposits EXCEPT ![r.k] = @ + r.amount]
  /\ courier' = [courier EXCEPT ![r.k].cashHeld = @ - r.amount]
  /\ depositing' = [depositing EXCEPT ![d] = Idle]
  /\ UNCHANGED <<shipment, attempts, timeline, announced, overtaken, call, calls>>

DepositFails(d) ==
  /\ depositing[d].at = "checked"
  /\ depositing' = [depositing EXCEPT ![d] = Idle]
  /\ UNCHANGED <<shipment, courier, deposits, attempts, timeline, announced, overtaken, call,
                 calls>>

----------------------------------------------------------------------------
CallStep(c) ==
  \/ ReadsShipment(c) \/ ReadsAttempts(c) \/ ComparesOtp(c) \/ Commits(c)
  \/ WritesLog(c) \/ EmitsEvents(c) \/ Dies(c)

DepositStep(d) == ReadsCashHeld(d) \/ Deposits(d) \/ DepositFails(d)

Next ==
  \/ \E c \in Callers : CallStep(c)
  \/ \E d \in Depositors : DepositStep(d)
  \/ \E s \in Shipments : AttemptsExpire(s)

Spec == Init /\ [][Next]_vars

----------------------------------------------------------------------------
ShipmentRow == [status : Statuses, courier : Couriers \cup {NoCourier},
                otp : Codes \cup {NoCode}, cash : CollectedCash \cup {0},
                deliveryAttempts : Nat]

UpdateCall == [at : {"otp", "guess", "checked", "committed", "logged"},
               s : Shipments, new : Statuses, cash : CollectedCash \cup {0},
               code : Codes \cup {NoCode}, row : ShipmentRow]

DepositCall == [at : {"checked"}, k : Couriers, amount : DepositAmounts]

TypeOK ==
  /\ shipment \in [Shipments -> ShipmentRow]
  /\ courier \in [Couriers -> [totalDelivered : Nat, totalFailed : Nat,
                               totalReturned : Nat, cashHeld : Int]]
  /\ deposits \in [Couriers -> Nat]
  /\ attempts \in [Shipments -> Nat]
  /\ timeline \in [Shipments -> Statuses]
  /\ announced \in [Shipments -> Nat]
  /\ overtaken \subseteq Shipments
  /\ call \in [Callers -> UpdateCall \cup {Idle}]
  /\ depositing \in [Depositors -> DepositCall \cup {Idle}]
  /\ calls \in 0..MaxCalls

Collected(s) == IF shipment[s].status = "DELIVERED" THEN shipment[s].cash ELSE 0

CollectedOnDeliveries == SumFunction([s \in CodShipments |-> Collected(s)])

CashAnsweredFor == SumFunction([k \in Couriers |-> courier[k].cashHeld + deposits[k]])

AllAssigned == \A s \in Shipments : shipment[s].courier # NoCourier

(* However calls and deposits interleave, the cash recorded on delivered     *)
(* shipments never exceeds what couriers hold and have deposited: no update  *)
(* of cashHeld is lost, and no stale call takes one back.                    *)
CashIsAnsweredFor == AllAssigned => CollectedOnDeliveries <= CashAnsweredFor

LargestDeposits == {m \in DepositAmounts : \A amount \in DepositAmounts : amount <= m}

(* A deposit is compared with a cashHeld that overlapping deposits of the same *)
(* cash were compared with too: together they overdraw the courier, by at most *)
(* one deposit for each depositor beyond the first.  One at a time, never.    *)
OverdrawnByOverlapsOnly ==
  Depositors # {} =>
    \A k \in Couriers, most \in LargestDeposits :
      courier[k].cashHeld + (Cardinality(Depositors) - 1) * most >= 0

Announcing == {c \in Callers : call[c].at \in {"committed", "logged"} /\ call[c].new = "DELIVERED"}

(* A wallet credit is announced only for a delivery that was committed and   *)
(* counted, at most once for each commit, whoever dies on the way.           *)
EventsFollowCommits ==
  AllAssigned => SumFunction(announced) + Cardinality(Announcing)
                   <= SumFunction([k \in Couriers |-> courier[k].totalDelivered])

(* Failed attempts are counted on the shipment and on its courier: the two    *)
(* tables agree whichever calls overlap or die.                              *)
FailureCountersAgree ==
  AllAssigned => SumFunction([s \in Shipments |-> shipment[s].deliveryAttempts])
                   = SumFunction([k \in Couriers |-> courier[k].totalFailed])

Guessing(s) == {c \in Callers : call[c].at = "guess" /\ call[c].s = s}

(* The counter is read before it is incremented, so overlapping calls get    *)
(* more guesses than OTP_MAX_ATTEMPTS, but never more than one extra each.   *)
OtpGuessesBounded ==
  \A s \in Shipments :
    attempts[s] + Cardinality(Guessing(s)) <= OTP_MAX_ATTEMPTS + Cardinality(Callers) - 1

(* A shipment whose delivery was announced (and so credited to the merchant)  *)
(* is and stays delivered, with the cash of a COD on record, however many      *)
(* callers update it: unless one of them wrote over a status it had not read.  *)
AnnouncedMeansDelivered ==
  \A s \in Shipments :
    announced[s] > 0 /\ s \notin overtaken
      => /\ shipment[s].status = "DELIVERED"
         /\ s \in CodShipments => shipment[s].cash # 0

(* docs/BUSINESS_FLOWS.md:160, the row DELIVERED of the transition matrix: No   *)
(* to every other status.                                                    *)
DeliveredIsFinal ==
  \A s \in Shipments : announced[s] > 0 => shipment[s].status = "DELIVERED"

(* docs/WALLET_LEDGER.md:560, "COD collections should equal deposits +       *)
(* courier cash held".                                                       *)
CodCollectionsReconcile == CollectedOnDeliveries = CashAnsweredFor

=============================================================================
