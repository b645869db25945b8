------------------------------- MODULE Wallet -------------------------------
(***************************************************************************)
(* One merchant's wallet row and the code that writes it under the         *)
(* optimistic version check: ShipmentDeliveredListener (one handler per    *)
(* 'shipment.delivered' event) and TransactionsService.createTransaction.  *)
(*                                                                         *)
(* A handler's transaction runs at READ COMMITTED.  It reads the wallet    *)
(* (no row lock), computes the new values from what it read, and issues    *)
(* UPDATE ... WHERE version = <read version>; from that statement to the   *)
(* commit it holds the row, so read and commit are the two steps that      *)
(* other handlers can come between.                                        *)
(***************************************************************************)
EXTENDS FeeCalculator

CONSTANTS
  Deliveries,         \* COD 'shipment.delivered' events of the merchant
  Adjustments,        \* calls of createCredit and createDebit
  CodAmount,          \* [Deliveries -> Nat], in piastres
  AdjustmentAmount,   \* [Adjustments -> Int], negative for a debit
  FeeStructures,      \* the values the merchant's fee columns may hold
  MaxRetries          \* MAX_RETRIES, 3 in both services

ASSUME WalletAssumption ==
  /\ Deliveries \cap Adjustments = {}
  /\ CodAmount \in [Deliveries -> Nat]
  /\ AdjustmentAmount \in [Adjustments -> Int]
  /\ FeeStructures \subseteq FeeStructure
  /\ MaxRetries \in Nat \ {0}

VARIABLES
  wallet,       \* the row: open (does it exist), balance, totals, version
  statement,    \* SUM(amount) over the wallet's transaction rows
  stage,        \* where each handler is
  attempt,      \* its loop counter
  snap          \* the wallet row its transaction read

walletVars == <<wallet, statement, stage, attempt, snap>>

Handlers == Deliveries \cup Adjustments

Stages == {"pending", "read", "posted", "failed", "exhausted"}

WalletRow == [open : BOOLEAN, balance : Int, totalCredited : Int,
              totalDebited : Int, version : Nat]

NoWallet == [open |-> FALSE, balance |-> 0, totalCredited |-> 0,
             totalDebited |-> 0, version |-> 0]

NewWallet == [open |-> TRUE, balance |-> 0, totalCredited |-> 0,
              totalDebited |-> 0, version |-> 0]

WalletInit ==
  /\ wallet \in {NoWallet, NewWallet}
  /\ statement = 0
  /\ stage = [h \in Handlers |-> "pending"]
  /\ attempt = [h \in Handlers |-> 0]
  /\ snap = [h \in Handlers |-> NoWallet]

(* A handler's transaction ends, and what it read goes out of scope.         *)
End(h, next) ==
  /\ stage' = [stage EXCEPT ![h] = next]
  /\ snap' = [snap EXCEPT ![h] = NoWallet]

----------------------------------------------------------------------------
(* WalletsService.create, called when KYC is approved: it reads first and   *)
(* inserts only if there is no wallet, and merchantId is unique.            *)
CreateWallet ==
  /\ ~wallet.open
  /\ wallet' = NewWallet
  /\ UNCHANGED <<statement, stage, attempt, snap>>

(* The first statements of a transaction: createTransaction throws          *)
(* NotFoundException without a wallet, the listener goes on to create one.  *)
ReadWallet(h) ==
  /\ stage[h] = "pending"
  /\ h \in Adjustments => wallet.open
  /\ snap' = [snap EXCEPT ![h] = wallet]
  /\ stage' = [stage EXCEPT ![h] = "read"]
  /\ UNCHANGED <<wallet, statement, attempt>>

WalletNotFound(a) ==
  /\ stage[a] = "pending"
  /\ ~wallet.open
  /\ End(a, "failed")
  /\ UNCHANGED <<wallet, statement, attempt>>

(* Mutant: the update is keyed by the wallet's id alone. *)
VersionMatches_ById(h) == snap[h].open = wallet.open

(* UPDATE ... WHERE id = .. AND version = <version read> finds the row.  A  *)
(* listener that read no wallet has just inserted it in its transaction.    *)
VersionMatches(h) ==
  /\ snap[h].open = wallet.open
  /\ snap[h].version = wallet.version

(* Mutant: the version is not bumped. *)
WriteFromSnapshot_SameVersion(h, net, credited, debited) ==
  wallet' = [open |-> TRUE,
             balance |-> snap[h].balance + net,
             totalCredited |-> snap[h].totalCredited + credited,
             totalDebited |-> snap[h].totalDebited + debited,
             version |-> snap[h].version]

(* The row update of updateMany: every column from the row that was read.   *)
WriteFromSnapshot(h, net, credited, debited) ==
  wallet' = [open |-> TRUE,
             balance |-> snap[h].balance + net,
             totalCredited |-> snap[h].totalCredited + credited,
             totalDebited |-> snap[h].totalDebited + debited,
             version |-> snap[h].version + 1]

PostCredit(d) ==
  /\ stage[d] = "read"
  /\ VersionMatches(d)
  /\ \E fees \in FeeStructures : \E b \in NetCreditBreakdowns(CodAmount[d], fees) :
       /\ WriteFromSnapshot(d, b.netCredit, b.grossCod, b.commission + b.fee)
       /\ statement' = statement + PostedAmount(b)
  /\ End(d, "posted")
  /\ UNCHANGED attempt

(* Mutant: the boundary of the check is off by one. *)
InsufficientFor_OffByOne(a) ==
  AdjustmentAmount[a] < 0 /\ snap[a].balance + AdjustmentAmount[a] < -1

(* A debit that the balance read does not cover throws before the update.   *)
InsufficientFor(a) ==
  AdjustmentAmount[a] < 0 /\ snap[a].balance + AdjustmentAmount[a] < 0

PostAdjustment(a) ==
  LET amount == AdjustmentAmount[a] IN
  /\ stage[a] = "read"
  /\ ~InsufficientFor(a)
  /\ VersionMatches(a)
  /\ IF amount < 0 THEN WriteFromSnapshot(a, amount, 0, -amount)
                   ELSE WriteFromSnapshot(a, amount, amount, 0)
  /\ statement' = statement + amount
  /\ End(a, "posted")
  /\ UNCHANGED attempt

RefuseDebit(a) ==
  /\ stage[a] = "read"
  /\ InsufficientFor(a)
  /\ End(a, "failed")
  /\ UNCHANGED <<wallet, statement, attempt>>

(* Mutant: the wallet is read once, outside the loop, and the counter wraps. *)
Conflict_KeepsSnapshot(h) ==
  /\ stage[h] = "read"
  /\ snap[h].open
  /\ ~VersionMatches(h)
  /\ attempt' = [attempt EXCEPT ![h] = (@ + 1) % MaxRetries]
  /\ UNCHANGED <<wallet, statement, stage, snap>>

(* Mutant: one attempt too many. *)
Conflict_OneMore(h) ==
  /\ stage[h] = "read"
  /\ snap[h].open
  /\ ~VersionMatches(h)
  /\ attempt' = [attempt EXCEPT ![h] = @ + 1]
  /\ End(h, IF attempt[h] < MaxRetries THEN "pending" ELSE "exhausted")
  /\ UNCHANGED <<wallet, statement>>

(* updated.count = 0: VERSION_CONFLICT, retried up to MAX_RETRIES attempts. *)
Conflict(h) ==
  /\ stage[h] = "read"
  /\ h \in Adjustments => ~InsufficientFor(h)
  /\ snap[h].open
  /\ ~VersionMatches(h)
  /\ attempt' = [attempt EXCEPT ![h] = @ + 1]
  /\ End(h, IF attempt[h] < MaxRetries - 1 THEN "pending" ELSE "exhausted")
  /\ UNCHANGED <<wallet, statement>>

(* The listener's INSERT of a wallet that someone else has inserted since   *)
(* it looked: a unique violation is not a VERSION_CONFLICT, no retry.       *)
CreateCollision(d) ==
  /\ stage[d] = "read"
  /\ ~snap[d].open
  /\ wallet.open
  /\ End(d, "failed")
  /\ UNCHANGED <<wallet, statement, attempt>>

(* Any other error of the transaction, its timeout, or the process dying:   *)
(* it rolls back and the in-memory event is gone.                           *)
Abort(h) ==
  /\ stage[h] \in {"pending", "read"}
  /\ End(h, "failed")
  /\ UNCHANGED <<wallet, statement, attempt>>

DeliveryStep(d) ==
  ReadWallet(d) \/ PostCredit(d) \/ Conflict(d) \/ CreateCollision(d)

AdjustmentStep(a) ==
  ReadWallet(a) \/ WalletNotFound(a) \/ RefuseDebit(a) \/ PostAdjustment(a) \/ Conflict(a)

WalletNext ==
  \/ CreateWallet
  \/ \E d \in Deliveries : DeliveryStep(d)
  \/ \E a \in Adjustments : AdjustmentStep(a)
  \/ \E h \in Handlers : Abort(h)

WalletSpec == WalletInit /\ [][WalletNext]_walletVars

(* The event loop keeps running every handler that can go on: the database   *)
(* answers, or the transaction times out and the handler aborts.            *)
WalletFairSpec ==
  /\ WalletSpec
  /\ \A d \in Deliveries : WF_walletVars(DeliveryStep(d))
  /\ \A a \in Adjustments : WF_walletVars(AdjustmentStep(a))

----------------------------------------------------------------------------
WalletTypeOK ==
  /\ wallet \in WalletRow
  /\ statement \in Int
  /\ stage \in [Handlers -> Stages]
  /\ attempt \in [Handlers -> 0..MaxRetries]
  /\ snap \in [Handlers -> WalletRow]

(* The version number identifies the row's contents: a handler that will     *)
(* pass the WHERE version = .. test has read exactly what is there now.      *)
(* This is what the optimistic lock has to give every writer, whoever else   *)
(* writes the row.                                                           *)
VersionIdentifiesRow ==
  \A h \in Handlers :
    /\ snap[h].open => wallet.open
    /\ snap[h].version <= wallet.version
    /\ (stage[h] = "read" /\ snap[h].open = wallet.open
                          /\ snap[h].version = wallet.version) => snap[h] = wallet

(* A handler has lost at most as many races as the row has been written, so  *)
(* a delivery's credit is dropped for contention only when MAX_RETRIES       *)
(* other writes were committed meanwhile.                                    *)
RetryBudget ==
  \A h \in Handlers :
    /\ attempt[h] <= wallet.version
    /\ stage[h] = "read" => attempt[h] <= snap[h].version
    /\ stage[h] = "exhausted" => attempt[h] = MaxRetries

(* No order of credits, debits and retries drives a balance below zero,     *)
(* although debits are checked against a balance read earlier.              *)
BalanceNeverNegative == wallet.balance >= 0

(* The totals of the row and the transaction table tell the same story.     *)
TotalsMatchStatement ==
  wallet.totalCredited - wallet.totalDebited = statement

FeesCovered ==
  \A d \in Deliveries, fees \in FeeStructures : ExactNet(CodAmount[d], fees) >= 0

(* Commission and net are rounded apart, so balance and rows may part by a  *)
(* piastre per posting; they part by more only when a fee exceeds the cash  *)
(* (the net is clamped, the rows are not).                                  *)
DriftIsRounding ==
  /\ statement - wallet.balance <= wallet.version
  /\ FeesCovered => wallet.balance - statement <= wallet.version

(* Optimistic locking makes the handlers look like atomic updates.          *)
Ledger == INSTANCE WalletLedger WITH
            balance <- wallet.balance,
            applied <- {h \in Handlers : stage[h] = "posted"}

ImplementsLedger == Ledger!Spec

(* Every delivered event and every call comes to an end.                    *)
EveryHandlerSettles ==
  \A h \in Handlers : <>(stage[h] \in {"posted", "failed", "exhausted"})

=============================================================================
