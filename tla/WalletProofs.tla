---------------------------- MODULE WalletProofs ----------------------------
(***************************************************************************)
(* Proofs about Wallet, for any number of deliveries, adjustments, fee     *)
(* structures and retries.                                                 *)
(***************************************************************************)
EXTENDS Wallet, TLAPS

----------------------------------------------------------------------------
(* Rounding *)

(* toFixed(2) yields integers within half a unit of the exact value.         *)
LEMMA ToFixed2Nearest ==
  ASSUME NEW num \in Int, NEW den \in Nat \ {0}, NEW q \in ToFixed2(num, den)
  PROVE  /\ q \in Int
         /\ 2 * (q * den - num) <= den
         /\ 2 * (num - q * den) <= den
BY DEF ToFixed2

(* Rounding a non-negative value never gives a negative one.                 *)
LEMMA ToFixed2NonNegative ==
  ASSUME NEW num \in Nat, NEW den \in Nat \ {0}, NEW q \in ToFixed2(num, den)
  PROVE  q \in Nat
<1>1. q \in Int /\ 2 * (num - q * den) <= den
  BY ToFixed2Nearest
<1>2. ASSUME q < 0 PROVE FALSE
  <2>1. q * den <= -den
    BY <1>1, <1>2
  <2>2. QED
    BY <1>1, <2>1
<1>3. QED
  BY <1>1, <1>2

(* A credit adds a natural number to the balance and its rows are integers.  *)
LEMMA BreakdownType ==
  ASSUME NEW cod \in Nat, NEW fees \in FeeStructure,
         NEW b \in NetCreditBreakdowns(cod, fees)
  PROVE  /\ b.grossCod \in Nat /\ b.commission \in Nat /\ b.fee \in Nat
         /\ b.netCredit \in Nat
         /\ PostedAmount(b) \in Int
<1> DEFINE exact == ExactNet(cod, fees)
           net == IF exact > 0 THEN exact ELSE 0
<1>1. fees.commissionRate \in Nat /\ fees.feePerShipment \in Nat /\ RateScale \in Nat \ {0}
  BY RateScaleAssumption DEF FeeStructure
<1>2. cod * fees.commissionRate \in Nat
  BY <1>1
<1>3. exact \in Int /\ net \in Nat
  BY <1>1, <1>2 DEF ExactNet
<1>4. (IF cod > 0 THEN cod ELSE 0) = cod
  OBVIOUS
<1>5. PICK c \in ToFixed2(cod * fees.commissionRate, RateScale),
           n \in ToFixed2(net, RateScale) :
        b = [grossCod |-> cod, commission |-> c, fee |-> fees.feePerShipment,
             netCredit |-> n]
  BY <1>4 DEF NetCreditBreakdowns
<1>6. c \in Nat
  BY <1>1, <1>2, ToFixed2NonNegative
<1>7. n \in Nat
  <2> HIDE DEF net
  <2> QED BY <1>1, <1>3, ToFixed2NonNegative
<1> QED
  BY <1>1, <1>5, <1>6, <1>7 DEF PostedAmount

----------------------------------------------------------------------------
(* Types *)

LEMMA NoWalletType == NoWallet \in WalletRow /\ NewWallet \in WalletRow
BY DEF NoWallet, NewWallet, WalletRow

(* A handler that can still go on has an attempt left: what makes the type of *)
(* the attempt counters inductive.                                            *)
AttemptsLeft ==
  \A h \in Handlers : stage[h] \in {"pending", "read"} => attempt[h] < MaxRetries

(* What End does to the two variables it changes, and keeps of the rest.      *)
LEMMA EndEffect ==
  ASSUME WalletTypeOK, NEW h \in Handlers, NEW s \in Stages, End(h, s)
  PROVE  /\ stage' \in [Handlers -> Stages]
         /\ snap' \in [Handlers -> WalletRow]
         /\ stage'[h] = s /\ snap'[h] = NoWallet
         /\ \A k \in Handlers \ {h} : stage'[k] = stage[k] /\ snap'[k] = snap[k]
BY NoWalletType DEF WalletTypeOK, End

(* The new row is a row, whatever was read.                                   *)
LEMMA WriteType ==
  ASSUME WalletTypeOK, NEW h \in Handlers, NEW net \in Int, NEW credited \in Int,
         NEW debited \in Int, WriteFromSnapshot(h, net, credited, debited)
  PROVE  wallet' \in WalletRow
BY DEF WalletTypeOK, WriteFromSnapshot, WalletRow

TypeInv == WalletTypeOK /\ AttemptsLeft

LEMMA TypeInit == WalletInit => TypeInv
BY WalletAssumption, NoWalletType
   DEF WalletInit, TypeInv, WalletTypeOK, AttemptsLeft, Stages

LEMMA ReadWalletType ==
  ASSUME TypeInv, NEW h \in Handlers, ReadWallet(h)
  PROVE  TypeInv'
BY DEF ReadWallet, TypeInv, WalletTypeOK, AttemptsLeft, Stages

LEMMA ConflictType ==
  ASSUME TypeInv, NEW h \in Handlers, Conflict(h)
  PROVE  TypeInv'
<1> DEFINE s == IF attempt[h] < MaxRetries - 1 THEN "pending" ELSE "exhausted"
<1>1. attempt[h] \in 0..(MaxRetries - 1) /\ MaxRetries \in Nat
  BY WalletAssumption DEF Conflict, TypeInv, WalletTypeOK, AttemptsLeft
<1>2. s \in Stages /\ End(h, s)
  BY DEF Conflict, Stages
<1>3. attempt' \in [Handlers -> 0..MaxRetries]
  BY <1>1 DEF Conflict, TypeInv, WalletTypeOK
<1> HIDE DEF s
<1>4. /\ stage' \in [Handlers -> Stages] /\ snap' \in [Handlers -> WalletRow]
      /\ stage'[h] = s
      /\ \A k \in Handlers \ {h} : stage'[k] = stage[k]
  BY <1>2, EndEffect DEF TypeInv
<1>5. WalletTypeOK'
  BY <1>3, <1>4 DEF Conflict, TypeInv, WalletTypeOK
<1>6. ASSUME NEW k \in Handlers, stage'[k] \in {"pending", "read"}
      PROVE  attempt'[k] < MaxRetries
  <2>1. CASE k = h
    BY <1>1, <1>4, <1>6, <2>1 DEF Conflict, TypeInv, WalletTypeOK, s
  <2>2. CASE k # h
    BY <1>4, <1>6, <2>2 DEF Conflict, TypeInv, WalletTypeOK, AttemptsLeft
  <2>3. QED
    BY <2>1, <2>2
<1>7. QED
  BY <1>5, <1>6 DEF TypeInv, AttemptsLeft

(* A step that ends a handler for good and leaves the counters alone.         *)
LEMMA LeaveType ==
  ASSUME TypeInv, NEW h \in Handlers, NEW s \in {"posted", "failed"}, End(h, s),
         wallet' \in WalletRow, statement' \in Int, attempt' = attempt
  PROVE  TypeInv'
<1>1. /\ stage' \in [Handlers -> Stages] /\ snap' \in [Handlers -> WalletRow]
      /\ stage'[h] = s
      /\ \A k \in Handlers \ {h} : stage'[k] = stage[k]
  BY EndEffect DEF TypeInv, Stages
<1>2. QED
  BY <1>1 DEF TypeInv, WalletTypeOK, AttemptsLeft

LEMMA PostCreditType ==
  ASSUME TypeInv, NEW d \in Deliveries, PostCredit(d)
  PROVE  TypeInv'
<1>1. PICK fees \in FeeStructures : \E b \in NetCreditBreakdowns(CodAmount[d], fees) :
        /\ WriteFromSnapshot(d, b.netCredit, b.grossCod, b.commission + b.fee)
        /\ statement' = statement + PostedAmount(b)
  BY DEF PostCredit
<1>2. PICK b \in NetCreditBreakdowns(CodAmount[d], fees) :
        /\ WriteFromSnapshot(d, b.netCredit, b.grossCod, b.commission + b.fee)
        /\ statement' = statement + PostedAmount(b)
  BY <1>1
<1>3. d \in Handlers /\ fees \in FeeStructure /\ CodAmount[d] \in Nat
  BY WalletAssumption DEF Handlers
<1>4. /\ b.grossCod \in Nat /\ b.commission \in Nat /\ b.fee \in Nat
      /\ b.netCredit \in Nat /\ PostedAmount(b) \in Int
  BY <1>3, BreakdownType
<1>5. wallet' \in WalletRow /\ statement' \in Int
  BY <1>2, <1>3, <1>4, WriteType DEF TypeInv, WalletTypeOK
<1>6. End(d, "posted") /\ attempt' = attempt
  BY DEF PostCredit
<1> QED
  BY <1>3, <1>5, <1>6, LeaveType

LEMMA PostAdjustmentType ==
  ASSUME TypeInv, NEW a \in Adjustments, PostAdjustment(a)
  PROVE  TypeInv'
<1>1. a \in Handlers /\ AdjustmentAmount[a] \in Int
  BY WalletAssumption DEF Handlers
<1>2. wallet' \in WalletRow
  <2>1. CASE AdjustmentAmount[a] < 0
    BY <1>1, <2>1, WriteType DEF PostAdjustment, TypeInv
  <2>2. CASE ~(AdjustmentAmount[a] < 0)
    BY <1>1, <2>2, WriteType DEF PostAdjustment, TypeInv
  <2>3. QED
    BY <2>1, <2>2
<1>3. statement' \in Int /\ End(a, "posted") /\ attempt' = attempt
  BY <1>1 DEF PostAdjustment, TypeInv, WalletTypeOK
<1>4. QED
  BY <1>1, <1>2, <1>3, LeaveType

LEMMA FailType ==
  ASSUME TypeInv, NEW h \in Handlers, End(h, "failed"),
         UNCHANGED <<wallet, statement, attempt>>
  PROVE  TypeInv'
<1>1. wallet' \in WalletRow /\ statement' \in Int /\ attempt' = attempt
  BY DEF TypeInv, WalletTypeOK
<1>2. QED
  BY <1>1, LeaveType

LEMMA TypeStep == TypeInv /\ [WalletNext]_walletVars => TypeInv'
<1> SUFFICES ASSUME TypeInv, [WalletNext]_walletVars PROVE TypeInv'
  OBVIOUS
<1>1. CASE CreateWallet
  BY <1>1, NoWalletType DEF CreateWallet, TypeInv, WalletTypeOK, AttemptsLeft
<1>2. ASSUME NEW d \in Deliveries, DeliveryStep(d) PROVE TypeInv'
  <2>1. d \in Handlers
    BY DEF Handlers
  <2>2. CASE CreateCollision(d)
    BY <2>1, <2>2, FailType DEF CreateCollision
  <2>3. QED
    BY <1>2, <2>1, <2>2, ReadWalletType, PostCreditType, ConflictType DEF DeliveryStep
<1>3. ASSUME NEW a \in Adjustments, AdjustmentStep(a) PROVE TypeInv'
  <2>1. a \in Handlers
    BY DEF Handlers
  <2>2. CASE WalletNotFound(a)
    BY <2>1, <2>2, FailType DEF WalletNotFound
  <2>3. CASE RefuseDebit(a)
    BY <2>1, <2>3, FailType DEF RefuseDebit
  <2>4. QED
    BY <1>3, <2>1, <2>2, <2>3, ReadWalletType, PostAdjustmentType, ConflictType
       DEF AdjustmentStep
<1>4. ASSUME NEW h \in Handlers, Abort(h) PROVE TypeInv'
  BY <1>4, FailType DEF Abort
<1>5. CASE UNCHANGED walletVars
  BY <1>5 DEF walletVars, TypeInv, WalletTypeOK, AttemptsLeft
<1>6. QED
  BY <1>1, <1>2, <1>3, <1>4, <1>5 DEF WalletNext

(* Every variable keeps its type in every behaviour: in particular no         *)
(* handler's attempt counter leaves 0..MAX_RETRIES.                           *)
THEOREM WalletTypeCorrect == WalletSpec => []WalletTypeOK
<1>1. WalletSpec => []TypeInv
  BY TypeInit, TypeStep, PTL DEF WalletSpec
<1>2. TypeInv => WalletTypeOK
  BY DEF TypeInv
<1>3. QED
  BY <1>1, <1>2, PTL

----------------------------------------------------------------------------
(* The optimistic lock *)

(* A row or a snapshot that does not exist holds nothing.                     *)
AbsentIsEmpty ==
  /\ ~wallet.open => wallet = NoWallet
  /\ \A h \in Handlers : ~snap[h].open => snap[h] = NoWallet

LockInv == TypeInv /\ AbsentIsEmpty /\ VersionIdentifiesRow /\ RetryBudget

LEMMA LockInit == WalletInit => LockInv
<1> SUFFICES ASSUME WalletInit PROVE LockInv
  OBVIOUS
<1>1. /\ wallet \in {NoWallet, NewWallet}
      /\ \A h \in Handlers : stage[h] = "pending" /\ attempt[h] = 0 /\ snap[h] = NoWallet
  BY DEF WalletInit
<1>2. /\ NoWallet.open = FALSE /\ NewWallet.open = TRUE
      /\ NoWallet.version = 0 /\ NewWallet.version = 0
  BY DEF NoWallet, NewWallet
<1>3. AbsentIsEmpty
  BY <1>1, <1>2 DEF AbsentIsEmpty
<1>4. VersionIdentifiesRow /\ RetryBudget
  BY <1>1, <1>2 DEF VersionIdentifiesRow, RetryBudget
<1>5. QED
  BY <1>3, <1>4, TypeInit DEF LockInv

(* A handler that passes the version test has read the row it overwrites,     *)
(* created or not.                                                            *)
LEMMA ReadIsCurrent ==
  ASSUME LockInv, NEW h \in Handlers, stage[h] = "read", VersionMatches(h)
  PROVE  snap[h] = wallet
BY DEF LockInv, VersionIdentifiesRow, VersionMatches

(* Steps that end a handler and keep the row keep the lock.                   *)
LEMMA LockAfterLeave ==
  ASSUME LockInv, TypeInv', NEW h \in Handlers, NEW s \in {"failed", "posted"}, End(h, s),
         attempt' = attempt, wallet' = wallet
  PROVE  LockInv'
<1>1. /\ stage'[h] = s /\ snap'[h] = NoWallet
      /\ \A k \in Handlers \ {h} : stage'[k] = stage[k] /\ snap'[k] = snap[k]
  BY EndEffect DEF LockInv, TypeInv, Stages
<1>2. AbsentIsEmpty'
  BY <1>1 DEF LockInv, AbsentIsEmpty
<1>3. wallet.version \in Nat /\ NoWallet.version = 0 /\ NoWallet.open = FALSE
  BY DEF LockInv, TypeInv, WalletTypeOK, WalletRow, NoWallet
<1>4. VersionIdentifiesRow'
  <2> SUFFICES ASSUME NEW k \in Handlers
               PROVE  /\ snap'[k].open => wallet'.open
                      /\ snap'[k].version <= wallet'.version
                      /\ (stage'[k] = "read" /\ snap'[k].open = wallet'.open
                          /\ snap'[k].version = wallet'.version) => snap'[k] = wallet'
    BY DEF VersionIdentifiesRow
  <2>1. CASE k = h
    BY <1>1, <1>3, <2>1
  <2>2. CASE k # h
    BY <1>1, <2>2 DEF LockInv, VersionIdentifiesRow
  <2>3. QED
    BY <2>1, <2>2
<1>5. RetryBudget'
  <2> SUFFICES ASSUME NEW k \in Handlers
               PROVE  /\ attempt'[k] <= wallet'.version
                      /\ stage'[k] = "read" => attempt'[k] <= snap'[k].version
                      /\ stage'[k] = "exhausted" => attempt'[k] = MaxRetries
    BY DEF RetryBudget
  <2>1. CASE k = h
    BY <1>1, <2>1 DEF LockInv, RetryBudget
  <2>2. CASE k # h
    BY <1>1, <2>2 DEF LockInv, RetryBudget
  <2>3. QED
    BY <2>1, <2>2
<1>6. QED
  BY <1>2, <1>4, <1>5 DEF LockInv

(* Writing the row and bumping its version makes every older snapshot stale.  *)
LEMMA LockAfterWrite ==
  ASSUME LockInv, TypeInv', NEW h \in Handlers, End(h, "posted"), attempt' = attempt,
         wallet'.open, wallet'.version = wallet.version + 1
  PROVE  LockInv'
<1>1. /\ stage'[h] = "posted" /\ snap'[h] = NoWallet
      /\ \A k \in Handlers \ {h} : stage'[k] = stage[k] /\ snap'[k] = snap[k]
  BY EndEffect DEF LockInv, TypeInv, Stages
<1>2. /\ wallet.version \in Nat /\ NoWallet.version = 0 /\ NoWallet.open = FALSE
      /\ \A k \in Handlers : snap[k].version \in Nat /\ attempt[k] \in Nat
  BY WalletAssumption DEF LockInv, TypeInv, WalletTypeOK, WalletRow, NoWallet
<1>3. AbsentIsEmpty'
  BY <1>1 DEF LockInv, AbsentIsEmpty
<1>4. VersionIdentifiesRow'
  <2>1. ASSUME NEW k \in Handlers PROVE snap'[k].version < wallet'.version
    <3>1. CASE k = h
      BY <1>1, <1>2, <3>1
    <3>2. CASE k # h
      BY <1>1, <1>2, <3>2 DEF LockInv, VersionIdentifiesRow
    <3>3. QED
      BY <3>1, <3>2
  <2>2. wallet'.version \in Nat /\ \A k \in Handlers : snap'[k].version \in Nat
    BY <1>2 DEF TypeInv, WalletTypeOK, WalletRow
  <2>3. \A k \in Handlers : /\ snap'[k].version <= wallet'.version
                           /\ snap'[k].version # wallet'.version
    BY <2>1, <2>2
  <2>4. QED
    BY <2>3 DEF VersionIdentifiesRow
<1>5. RetryBudget'
  <2> SUFFICES ASSUME NEW k \in Handlers
               PROVE  /\ attempt'[k] <= wallet'.version
                      /\ stage'[k] = "read" => attempt'[k] <= snap'[k].version
                      /\ stage'[k] = "exhausted" => attempt'[k] = MaxRetries
    BY DEF RetryBudget
  <2>1. CASE k = h
    BY <1>1, <1>2, <2>1 DEF LockInv, RetryBudget
  <2>2. CASE k # h
    BY <1>1, <1>2, <2>2 DEF LockInv, RetryBudget
  <2>3. QED
    BY <2>1, <2>2
<1>6. QED
  BY <1>3, <1>4, <1>5 DEF LockInv

(* What a credit does to the row: it is applied to the row of the moment.     *)
LEMMA PostCreditEffect ==
  ASSUME LockInv, NEW d \in Deliveries, PostCredit(d)
  PROVE  \E fees \in FeeStructures : \E b \in NetCreditBreakdowns(CodAmount[d], fees) :
           /\ wallet' = [open |-> TRUE,
                         balance |-> wallet.balance + b.netCredit,
                         totalCredited |-> wallet.totalCredited + b.grossCod,
                         totalDebited |-> wallet.totalDebited + (b.commission + b.fee),
                         version |-> wallet.version + 1]
           /\ statement' = statement + PostedAmount(b)
<1>1. snap[d] = wallet
  BY ReadIsCurrent DEF PostCredit, Handlers
<1>2. QED
  BY <1>1 DEF PostCredit, WriteFromSnapshot

(* And an adjustment; a debit is covered by the balance it is taken from.     *)
LEMMA PostAdjustmentEffect ==
  ASSUME LockInv, NEW a \in Adjustments, PostAdjustment(a)
  PROVE  /\ wallet'.open
         /\ wallet'.balance = wallet.balance + AdjustmentAmount[a]
         /\ wallet'.version = wallet.version + 1
         /\ wallet'.totalCredited - wallet'.totalDebited
              = wallet.totalCredited - wallet.totalDebited + AdjustmentAmount[a]
         /\ statement' = statement + AdjustmentAmount[a]
         /\ AdjustmentAmount[a] < 0 => wallet.balance + AdjustmentAmount[a] >= 0
<1>1. snap[a] = wallet
  BY ReadIsCurrent DEF PostAdjustment, Handlers
<1>2. /\ AdjustmentAmount[a] \in Int
      /\ wallet.balance \in Int /\ wallet.totalCredited \in Int /\ wallet.totalDebited \in Int
  BY WalletAssumption DEF LockInv, TypeInv, WalletTypeOK, WalletRow
<1>3. AdjustmentAmount[a] < 0 => wallet.balance + AdjustmentAmount[a] >= 0
  BY <1>1, <1>2 DEF PostAdjustment, InsufficientFor
<1>4. CASE AdjustmentAmount[a] < 0
  <2>1. WriteFromSnapshot(a, AdjustmentAmount[a], 0, -AdjustmentAmount[a])
    BY <1>4 DEF PostAdjustment
  <2>2. QED
    BY <1>1, <1>2, <1>3, <2>1 DEF WriteFromSnapshot, PostAdjustment
<1>5. CASE ~(AdjustmentAmount[a] < 0)
  <2>1. WriteFromSnapshot(a, AdjustmentAmount[a], AdjustmentAmount[a], 0)
    BY <1>5 DEF PostAdjustment
  <2>2. QED
    BY <1>1, <1>2, <1>3, <2>1 DEF WriteFromSnapshot, PostAdjustment
<1>6. QED
  BY <1>4, <1>5

LEMMA LockStep ==
  ASSUME LockInv, [WalletNext]_walletVars
  PROVE  LockInv'
<1>0. TypeInv'
  BY TypeStep DEF LockInv
<1>1. CASE CreateWallet
  <2>1. /\ NewWallet.open = TRUE /\ NewWallet.version = 0
        /\ NoWallet.open = FALSE /\ NoWallet.version = 0
    BY DEF NoWallet, NewWallet
  <2>2. wallet = NoWallet /\ \A h \in Handlers : snap[h] = NoWallet
    BY <1>1 DEF CreateWallet, LockInv, AbsentIsEmpty, VersionIdentifiesRow
  <2>3. AbsentIsEmpty' /\ VersionIdentifiesRow' /\ RetryBudget'
    BY <1>1, <2>1, <2>2
       DEF CreateWallet, LockInv, AbsentIsEmpty, VersionIdentifiesRow, RetryBudget
  <2>4. QED
    BY <1>0, <2>3 DEF LockInv
<1>2. ASSUME NEW h \in Handlers, ReadWallet(h) PROVE LockInv'
  <2>1. /\ stage'[h] = "read" /\ snap'[h] = wallet
        /\ \A k \in Handlers \ {h} : stage'[k] = stage[k] /\ snap'[k] = snap[k]
        /\ wallet' = wallet /\ attempt' = attempt
    BY <1>2 DEF ReadWallet, LockInv, TypeInv, WalletTypeOK
  <2>2. AbsentIsEmpty'
    BY <2>1 DEF LockInv, AbsentIsEmpty
  <2>3. wallet.version \in Nat /\ wallet.open \in BOOLEAN
    BY DEF LockInv, TypeInv, WalletTypeOK, WalletRow
  <2>4. VersionIdentifiesRow'
    BY <2>1, <2>3 DEF LockInv, VersionIdentifiesRow
  <2>5. RetryBudget'
    BY <2>1, <2>3 DEF LockInv, RetryBudget
  <2>6. QED
    BY <1>0, <2>2, <2>4, <2>5 DEF LockInv
<1>3. ASSUME NEW h \in Handlers, Conflict(h) PROVE LockInv'
  <2> DEFINE s == IF attempt[h] < MaxRetries - 1 THEN "pending" ELSE "exhausted"
  <2>1. s \in Stages /\ End(h, s) /\ wallet' = wallet
    BY <1>3 DEF Conflict, Stages
  <2>2. /\ attempt[h] \in Nat /\ attempt'[h] = attempt[h] + 1
        /\ \A k \in Handlers \ {h} : attempt'[k] = attempt[k]
        /\ MaxRetries \in Nat \ {0} /\ attempt[h] < MaxRetries
        /\ s = "exhausted" => attempt[h] + 1 = MaxRetries
    BY <1>3, WalletAssumption DEF Conflict, LockInv, TypeInv, WalletTypeOK, AttemptsLeft
  <2>3. /\ snap[h].version \in Nat /\ wallet.version \in Nat
        /\ NoWallet.version = 0 /\ NoWallet.open = FALSE
    BY DEF LockInv, TypeInv, WalletTypeOK, WalletRow, NoWallet
  <2>4. snap[h].version < wallet.version
    <3>1. snap[h].open /\ wallet.open
      BY <1>3 DEF Conflict, LockInv, VersionIdentifiesRow
    <3>2. snap[h].open \in BOOLEAN /\ wallet.open \in BOOLEAN
      BY DEF LockInv, TypeInv, WalletTypeOK, WalletRow
    <3>3. snap[h].version # wallet.version
      BY <1>3, <3>1, <3>2 DEF Conflict, VersionMatches
    <3>4. QED
      BY <2>3, <3>3 DEF LockInv, VersionIdentifiesRow
  <2>5. attempt[h] <= snap[h].version
    BY <1>3 DEF Conflict, LockInv, RetryBudget
  <2> HIDE DEF s
  <2>6. /\ stage'[h] = s /\ snap'[h] = NoWallet
        /\ \A k \in Handlers \ {h} : stage'[k] = stage[k] /\ snap'[k] = snap[k]
    BY <2>1, EndEffect DEF LockInv, TypeInv
  <2>7. AbsentIsEmpty'
    BY <2>1, <2>6 DEF LockInv, AbsentIsEmpty
  <2>8. VersionIdentifiesRow' /\ RetryBudget'
    <3>1. s # "read"
      BY DEF s
    <3>2. ASSUME NEW k \in Handlers
          PROVE  /\ snap'[k].open => wallet'.open
                 /\ snap'[k].version <= wallet'.version
                 /\ (stage'[k] = "read" /\ snap'[k].open = wallet'.open
                     /\ snap'[k].version = wallet'.version) => snap'[k] = wallet'
                 /\ attempt'[k] <= wallet'.version
                 /\ stage'[k] = "read" => attempt'[k] <= snap'[k].version
                 /\ stage'[k] = "exhausted" => attempt'[k] = MaxRetries
      <4>1. CASE k = h
        BY <2>1, <2>2, <2>3, <2>4, <2>5, <2>6, <3>1, <4>1
      <4>2. CASE k # h
        BY <2>1, <2>2, <2>6, <4>2 DEF LockInv, VersionIdentifiesRow, RetryBudget
      <4>3. QED
        BY <4>1, <4>2
    <3>3. QED
      BY <3>2 DEF VersionIdentifiesRow, RetryBudget
  <2>9. QED
    BY <1>0, <2>7, <2>8 DEF LockInv
<1>4. ASSUME NEW d \in Deliveries, PostCredit(d) PROVE LockInv'
  <2>1. wallet'.open /\ wallet'.version = wallet.version + 1
    BY <1>4, PostCreditEffect
  <2>2. d \in Handlers /\ End(d, "posted") /\ attempt' = attempt
    BY <1>4 DEF PostCredit, Handlers
  <2>3. QED
    BY <1>0, <2>1, <2>2, LockAfterWrite
<1>5. ASSUME NEW a \in Adjustments, PostAdjustment(a) PROVE LockInv'
  <2>1. wallet'.open /\ wallet'.version = wallet.version + 1
    BY <1>5, PostAdjustmentEffect
  <2>2. a \in Handlers /\ End(a, "posted") /\ attempt' = attempt
    BY <1>5 DEF PostAdjustment, Handlers
  <2>3. QED
    BY <1>0, <2>1, <2>2, LockAfterWrite
<1>6. ASSUME NEW h \in Handlers, End(h, "failed"), UNCHANGED <<wallet, statement, attempt>>
      PROVE  LockInv'
  BY <1>0, <1>6, LockAfterLeave
<1>7. CASE UNCHANGED walletVars
  BY <1>0, <1>7 DEF walletVars, LockInv, AbsentIsEmpty, VersionIdentifiesRow, RetryBudget
<1>8. ASSUME NEW d \in Deliveries, DeliveryStep(d) PROVE LockInv'
  <2>1. d \in Handlers
    BY DEF Handlers
  <2>2. CASE CreateCollision(d)
    BY <1>6, <2>1, <2>2 DEF CreateCollision
  <2>3. QED
    BY <1>2, <1>3, <1>4, <1>8, <2>1, <2>2 DEF DeliveryStep
<1>9. ASSUME NEW a \in Adjustments, AdjustmentStep(a) PROVE LockInv'
  <2>1. a \in Handlers
    BY DEF Handlers
  <2>2. CASE WalletNotFound(a) \/ RefuseDebit(a)
    BY <1>6, <2>1, <2>2 DEF WalletNotFound, RefuseDebit
  <2>3. QED
    BY <1>2, <1>3, <1>5, <1>9, <2>1, <2>2 DEF AdjustmentStep
<1>10. ASSUME NEW h \in Handlers, Abort(h) PROVE LockInv'
  BY <1>6, <1>10 DEF Abort
<1>11. QED
  BY <1>1, <1>7, <1>8, <1>9, <1>10 DEF WalletNext

(* No handler overwrites what it has not read: the version identifies the     *)
(* row for every reader, at any number of concurrent handlers.                *)
THEOREM OptimisticLockHolds == WalletSpec => []VersionIdentifiesRow
<1>1. LockInv /\ [WalletNext]_walletVars => LockInv'
  BY LockStep
<1>2. LockInv => VersionIdentifiesRow
  BY DEF LockInv
<1>3. QED
  BY <1>1, <1>2, LockInit, PTL DEF WalletSpec

(* A handler gives up only after losing MAX_RETRIES races, each to a          *)
(* committed write.                                                           *)
THEOREM RetriesAreBounded == WalletSpec => []RetryBudget
<1>1. LockInv /\ [WalletNext]_walletVars => LockInv'
  BY LockStep
<1>2. LockInv => RetryBudget
  BY DEF LockInv
<1>3. QED
  BY <1>1, <1>2, LockInit, PTL DEF WalletSpec

----------------------------------------------------------------------------
(* The money *)

(* A multiple of a positive integer that stays within it is 0 or 1.           *)
LEMMA AtMostOne ==
  ASSUME NEW k \in Int, NEW d \in Nat \ {0}, k * d <= d
  PROVE  k <= 1
<1>1. ASSUME k >= 2 PROVE FALSE
  <2>1. k * d >= 2 * d
    BY <1>1
  <2>2. QED
    BY <2>1
<1>2. QED
  BY <1>1

(* Rounding commission and net apart moves the balance and the rows apart by  *)
(* a piastre at most; only a clamped net moves them further, and then up.     *)
LEMMA BreakdownDrift ==
  ASSUME NEW cod \in Nat, NEW fees \in FeeStructure,
         NEW b \in NetCreditBreakdowns(cod, fees)
  PROVE  /\ PostedAmount(b) - b.netCredit <= 1
         /\ ExactNet(cod, fees) >= 0 => b.netCredit - PostedAmount(b) <= 1
<1> DEFINE S == RateScale
           f == fees.feePerShipment
           X == cod * fees.commissionRate
           E == ExactNet(cod, fees)
           net == IF E > 0 THEN E ELSE 0
<1>1. S \in Nat \ {0} /\ f \in Nat /\ X \in Nat
  BY RateScaleAssumption DEF FeeStructure
<1>2. E \in Int /\ E = S * (cod - f) - X
  BY <1>1 DEF ExactNet
<1>3. PICK c \in ToFixed2(X, S), n \in ToFixed2(net, S) :
        b = [grossCod |-> cod, commission |-> c, fee |-> f, netCredit |-> n]
  <2>1. (IF cod > 0 THEN cod ELSE 0) = cod
    OBVIOUS
  <2>2. QED
    BY <2>1 DEF NetCreditBreakdowns
<1>4. PostedAmount(b) = cod - c - f /\ b.netCredit = n
  BY <1>3 DEF PostedAmount
<1> HIDE DEF S, f, X, E, net
<1>5. c \in Int /\ 2 * (c * S - X) <= S /\ 2 * (X - c * S) <= S
  BY <1>1, ToFixed2Nearest
<1>6. net \in Int /\ (E >= 0 => net = E) /\ net >= 0 /\ net >= E
  BY <1>2 DEF net
<1>7. n \in Int /\ 2 * (n * S - net) <= S /\ 2 * (net - n * S) <= S
  BY <1>1, <1>6, ToFixed2Nearest
<1>8. S * (cod - f) \in Int /\ c * S \in Int /\ n * S \in Int
  BY <1>1, <1>5, <1>7
<1>9. cod - c - f - n <= 1
  <2> DEFINE k == cod - c - f - n
  <2>1. k \in Int /\ k * S = S * (cod - f) - c * S - n * S
    BY <1>1, <1>5, <1>7
  <2>2. k * S <= S
    BY <1>1, <1>2, <1>5, <1>6, <1>7, <1>8, <2>1
  <2> HIDE DEF k
  <2>3. k <= 1
    BY <1>1, <2>1, <2>2, AtMostOne
  <2>4. QED
    BY <2>3 DEF k
<1>10. ASSUME E >= 0 PROVE n - (cod - c - f) <= 1
  <2> DEFINE k == n - (cod - c - f)
  <2>1. k \in Int /\ k * S = n * S + c * S - S * (cod - f)
    BY <1>1, <1>5, <1>7
  <2>2. k * S <= S
    BY <1>1, <1>2, <1>5, <1>6, <1>7, <1>8, <1>10, <2>1
  <2> HIDE DEF k
  <2>3. k <= 1
    BY <1>1, <2>1, <2>2, AtMostOne
  <2>4. QED
    BY <2>3 DEF k
<1>11. QED
  BY <1>4, <1>9, <1>10 DEF E

MoneyInv == BalanceNeverNegative /\ TotalsMatchStatement /\ DriftIsRounding

WalletInv == LockInv /\ MoneyInv

LEMMA MoneyInit == WalletInit => MoneyInv
BY DEF WalletInit, NoWallet, NewWallet, MoneyInv, BalanceNeverNegative,
       TotalsMatchStatement, DriftIsRounding

LEMMA MoneyAfterCredit ==
  ASSUME WalletInv, NEW d \in Deliveries, PostCredit(d)
  PROVE  MoneyInv'
<1>1. PICK fees \in FeeStructures : \E b \in NetCreditBreakdowns(CodAmount[d], fees) :
        /\ wallet' = [open |-> TRUE,
                      balance |-> wallet.balance + b.netCredit,
                      totalCredited |-> wallet.totalCredited + b.grossCod,
                      totalDebited |-> wallet.totalDebited + (b.commission + b.fee),
                      version |-> wallet.version + 1]
        /\ statement' = statement + PostedAmount(b)
  BY PostCreditEffect DEF WalletInv
<1>2. PICK b \in NetCreditBreakdowns(CodAmount[d], fees) :
        /\ wallet' = [open |-> TRUE,
                      balance |-> wallet.balance + b.netCredit,
                      totalCredited |-> wallet.totalCredited + b.grossCod,
                      totalDebited |-> wallet.totalDebited + (b.commission + b.fee),
                      version |-> wallet.version + 1]
        /\ statement' = statement + PostedAmount(b)
  BY <1>1
<1>3. fees \in FeeStructure /\ CodAmount[d] \in Nat
  BY WalletAssumption
<1>4. /\ b.grossCod \in Nat /\ b.commission \in Nat /\ b.fee \in Nat
      /\ b.netCredit \in Nat /\ PostedAmount(b) \in Int
  BY <1>3, BreakdownType
<1>5. PostedAmount(b) = b.grossCod - (b.commission + b.fee)
  BY <1>4 DEF PostedAmount
<1>6. /\ PostedAmount(b) - b.netCredit <= 1
      /\ FeesCovered => b.netCredit - PostedAmount(b) <= 1
  BY <1>3, BreakdownDrift DEF FeesCovered
<1>7. /\ wallet.balance \in Int /\ wallet.totalCredited \in Int
      /\ wallet.totalDebited \in Int /\ wallet.version \in Nat /\ statement \in Int
  BY DEF WalletInv, LockInv, TypeInv, WalletTypeOK, WalletRow
<1>8. /\ wallet'.balance = wallet.balance + b.netCredit
      /\ wallet'.totalCredited = wallet.totalCredited + b.grossCod
      /\ wallet'.totalDebited = wallet.totalDebited + (b.commission + b.fee)
      /\ wallet'.version = wallet.version + 1
      /\ statement' = statement + PostedAmount(b)
  BY <1>2
<1>9. BalanceNeverNegative'
  BY <1>4, <1>7, <1>8 DEF WalletInv, MoneyInv, BalanceNeverNegative
<1>10. TotalsMatchStatement'
  BY <1>4, <1>5, <1>7, <1>8 DEF WalletInv, MoneyInv, TotalsMatchStatement
<1>11. DriftIsRounding'
  BY <1>4, <1>6, <1>7, <1>8 DEF WalletInv, MoneyInv, DriftIsRounding, FeesCovered
<1>12. QED
  BY <1>9, <1>10, <1>11 DEF MoneyInv

LEMMA MoneyAfterAdjustment ==
  ASSUME WalletInv, NEW a \in Adjustments, PostAdjustment(a)
  PROVE  MoneyInv'
<1>1. /\ wallet'.balance = wallet.balance + AdjustmentAmount[a]
      /\ wallet'.version = wallet.version + 1
      /\ wallet'.totalCredited - wallet'.totalDebited
           = wallet.totalCredited - wallet.totalDebited + AdjustmentAmount[a]
      /\ statement' = statement + AdjustmentAmount[a]
      /\ AdjustmentAmount[a] < 0 => wallet.balance + AdjustmentAmount[a] >= 0
  BY PostAdjustmentEffect DEF WalletInv
<1>2. /\ AdjustmentAmount[a] \in Int /\ wallet.balance \in Int
      /\ wallet.totalCredited \in Int /\ wallet.totalDebited \in Int
      /\ wallet.version \in Nat /\ statement \in Int
  BY WalletAssumption DEF WalletInv, LockInv, TypeInv, WalletTypeOK, WalletRow
<1>3. BalanceNeverNegative'
  BY <1>1, <1>2 DEF WalletInv, MoneyInv, BalanceNeverNegative
<1>4. TotalsMatchStatement'
  BY <1>1, <1>2 DEF WalletInv, MoneyInv, TotalsMatchStatement
<1>5. DriftIsRounding'
  BY <1>1, <1>2 DEF WalletInv, MoneyInv, DriftIsRounding, FeesCovered
<1>6. QED
  BY <1>3, <1>4, <1>5 DEF MoneyInv

(* Every other step leaves the row's money and the rows alone, or creates an  *)
(* empty wallet.                                                              *)
LEMMA MoneyStep ==
  ASSUME WalletInv, [WalletNext]_walletVars
  PROVE  MoneyInv'
<1>1. CASE CreateWallet
  BY <1>1 DEF CreateWallet, NewWallet, NoWallet, WalletInv, LockInv, AbsentIsEmpty,
     MoneyInv, BalanceNeverNegative, TotalsMatchStatement, DriftIsRounding, FeesCovered
<1>2. ASSUME UNCHANGED <<wallet, statement>> PROVE MoneyInv'
  BY <1>2 DEF WalletInv, MoneyInv, BalanceNeverNegative, TotalsMatchStatement,
     DriftIsRounding, FeesCovered
<1>3. ASSUME NEW d \in Deliveries, DeliveryStep(d) PROVE MoneyInv'
  BY <1>2, <1>3, MoneyAfterCredit DEF DeliveryStep, ReadWallet, Conflict, CreateCollision
<1>4. ASSUME NEW a \in Adjustments, AdjustmentStep(a) PROVE MoneyInv'
  BY <1>2, <1>4, MoneyAfterAdjustment
     DEF AdjustmentStep, ReadWallet, WalletNotFound, RefuseDebit, Conflict
<1>5. ASSUME NEW h \in Handlers, Abort(h) PROVE MoneyInv'
  BY <1>2, <1>5 DEF Abort
<1>6. CASE UNCHANGED walletVars
  BY <1>2, <1>6 DEF walletVars
<1>7. QED
  BY <1>1, <1>3, <1>4, <1>5, <1>6 DEF WalletNext

LEMMA WalletInvariant == WalletSpec => []WalletInv
<1>1. WalletInit => WalletInv
  BY LockInit, MoneyInit DEF WalletInv
<1>2. WalletInv /\ [WalletNext]_walletVars => WalletInv'
  BY LockStep, MoneyStep DEF WalletInv
<1>3. QED
  BY <1>1, <1>2, PTL DEF WalletSpec

(* However credits, debits and retries interleave, no balance is overdrawn.   *)
THEOREM NeverOverdrawn == WalletSpec => []BalanceNeverNegative
<1>1. WalletInv => BalanceNeverNegative
  BY DEF WalletInv, MoneyInv
<1>2. QED
  BY <1>1, WalletInvariant, PTL

(* The row's totals and the transaction table never disagree.                 *)
THEOREM TotalsAreTheStatement == WalletSpec => []TotalsMatchStatement
<1>1. WalletInv => TotalsMatchStatement
  BY DEF WalletInv, MoneyInv
<1>2. QED
  BY <1>1, WalletInvariant, PTL

(* No update is lost: the balance and the transaction table differ by at most *)
(* a piastre of rounding per posting when fees never exceed the cash.         *)
THEOREM NoLostUpdate == WalletSpec => []DriftIsRounding
<1>1. WalletInv => DriftIsRounding
  BY DEF WalletInv, MoneyInv
<1>2. QED
  BY <1>1, WalletInvariant, PTL
----------------------------------------------------------------------------
(* Refinement *)

Posted == {h \in Handlers : stage[h] = "posted"}

(* A handler that ends moves into the posted ones exactly when it posts.      *)
LEMMA EndPosts ==
  ASSUME LockInv, NEW h \in Handlers, NEW s \in Stages, End(h, s), stage[h] # "posted"
  PROVE  /\ h \notin Posted
         /\ s = "posted" => Posted' = Posted \cup {h}
         /\ s # "posted" => Posted' = Posted
<1>1. stage'[h] = s /\ \A k \in Handlers \ {h} : stage'[k] = stage[k]
  BY EndEffect DEF LockInv, TypeInv
<1>2. QED
  BY <1>1 DEF Posted

(* Reading, losing a race and failing are stutters of the ledger.             *)
LEMMA QuietStep ==
  ASSUME LockInv, NEW h \in Handlers,
         ReadWallet(h) \/ WalletNotFound(h) \/ RefuseDebit(h) \/ Conflict(h)
           \/ CreateCollision(h) \/ Abort(h)
  PROVE  wallet'.balance = wallet.balance /\ statement' = statement /\ Posted' = Posted
<1>1. CASE ReadWallet(h)
  BY <1>1 DEF ReadWallet, Posted, LockInv, TypeInv, WalletTypeOK
<1>2. CASE Conflict(h)
  <2> DEFINE s == IF attempt[h] < MaxRetries - 1 THEN "pending" ELSE "exhausted"
  <2>1. s \in Stages /\ s # "posted" /\ End(h, s) /\ stage[h] # "posted"
    BY <1>2 DEF Conflict, Stages
  <2> HIDE DEF s
  <2>2. Posted' = Posted
    BY <2>1, EndPosts
  <2>3. QED
    BY <1>2, <2>2 DEF Conflict
<1>3. CASE WalletNotFound(h) \/ RefuseDebit(h) \/ CreateCollision(h) \/ Abort(h)
  <2>1. End(h, "failed") /\ stage[h] # "posted" /\ wallet' = wallet /\ statement' = statement
    BY <1>3 DEF WalletNotFound, RefuseDebit, CreateCollision, Abort
  <2>2. Posted' = Posted
    BY <2>1, EndPosts DEF Stages
  <2>3. QED
    BY <2>1, <2>2
<1>4. QED
  BY <1>1, <1>2, <1>3

(* The ledger computes fees as the handlers do.                               *)
LEMMA SameRows == ASSUME NEW b PROVE Ledger!PostedAmount(b) = PostedAmount(b)
BY DEF Ledger!PostedAmount, PostedAmount

LEMMA SameFees ==
  ASSUME NEW cod, NEW fees
  PROVE  Ledger!NetCreditBreakdowns(cod, fees) = NetCreditBreakdowns(cod, fees)
<1>1. ASSUME NEW n, NEW m PROVE Ledger!ToFixed2(n, m) = ToFixed2(n, m)
  BY DEF Ledger!ToFixed2, ToFixed2
<1>2. ASSUME NEW g PROVE Ledger!ExactNet(g, fees) = ExactNet(g, fees)
  BY DEF Ledger!ExactNet, ExactNet
<1>3. QED
  BY <1>1, <1>2 DEF Ledger!NetCreditBreakdowns, NetCreditBreakdowns

LEMMA LedgerStep ==
  ASSUME LockInv, [WalletNext]_walletVars
  PROVE  Ledger!Next \/ (wallet'.balance = wallet.balance /\ statement' = statement
                         /\ Posted' = Posted)
<1>1. CASE CreateWallet
  <2>1. wallet.balance = 0 /\ wallet'.balance = 0
    BY <1>1 DEF CreateWallet, LockInv, AbsentIsEmpty, NoWallet, NewWallet
  <2>2. QED
    BY <1>1, <2>1 DEF CreateWallet, Posted
<1>2. ASSUME NEW d \in Deliveries, PostCredit(d) PROVE Ledger!Credit(d)
  <2>1. d \notin Posted /\ Posted' = Posted \cup {d}
    BY <1>2, EndPosts DEF PostCredit, Handlers, Stages
  <2>2. \E fees \in FeeStructures : \E b \in NetCreditBreakdowns(CodAmount[d], fees) :
          /\ wallet'.balance = wallet.balance + b.netCredit
          /\ statement' = statement + PostedAmount(b)
    BY <1>2, PostCreditEffect
  <2>3. \E fees \in FeeStructures : \E b \in Ledger!NetCreditBreakdowns(CodAmount[d], fees) :
          /\ wallet'.balance = wallet.balance + b.netCredit
          /\ statement' = statement + Ledger!PostedAmount(b)
    BY <2>2, SameFees, SameRows
  <2>4. QED
    BY <2>1, <2>3 DEF Ledger!Credit, Posted
<1>3. ASSUME NEW a \in Adjustments, PostAdjustment(a) PROVE Ledger!Adjust(a)
  <2>1. a \notin Posted /\ Posted' = Posted \cup {a}
    BY <1>3, EndPosts DEF PostAdjustment, Handlers, Stages
  <2>2. QED
    BY <1>3, <2>1, PostAdjustmentEffect DEF Ledger!Adjust, Posted
<1>4. ASSUME NEW h \in Handlers,
             ReadWallet(h) \/ WalletNotFound(h) \/ RefuseDebit(h) \/ Conflict(h)
               \/ CreateCollision(h) \/ Abort(h)
      PROVE  wallet'.balance = wallet.balance /\ statement' = statement /\ Posted' = Posted
  BY <1>4, QuietStep
<1>5. CASE UNCHANGED walletVars
  BY <1>5 DEF walletVars, Posted
<1>6. CASE \E d \in Deliveries : DeliveryStep(d)
  BY <1>2, <1>4, <1>6 DEF DeliveryStep, Ledger!Next, Handlers
<1>7. CASE \E a \in Adjustments : AdjustmentStep(a)
  BY <1>3, <1>4, <1>7 DEF AdjustmentStep, Ledger!Next, Handlers
<1>8. CASE \E h \in Handlers : Abort(h)
  BY <1>4, <1>8
<1>9. QED
  BY <1>1, <1>5, <1>6, <1>7, <1>8 DEF WalletNext

(* Any number of handlers under the version check behave like a ledger that  *)
(* applies each delivery and each adjustment at most once, in one step.      *)
THEOREM HandlersAreAtomic == WalletSpec => ImplementsLedger
<1>1. WalletInit => Ledger!Init
  BY DEF WalletInit, Ledger!Init, NoWallet, NewWallet
<1>2. LockInv /\ [WalletNext]_walletVars => [Ledger!Next]_(Ledger!ledgerVars)
  BY LedgerStep DEF Ledger!ledgerVars, Posted
<1>3. WalletInv => LockInv
  BY DEF WalletInv
<1>4. QED
  BY <1>1, <1>2, <1>3, WalletInvariant, PTL DEF WalletSpec, ImplementsLedger, Ledger!Spec

=============================================================================
