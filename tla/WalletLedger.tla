---------------------------- MODULE WalletLedger ----------------------------
(***************************************************************************)
(* What a merchant's wallet promises: every COD delivery and every         *)
(* adjustment is applied to the balance at most once and as one            *)
(* indivisible step, together with its rows in the transaction table.      *)
(***************************************************************************)
EXTENDS FeeCalculator

CONSTANTS
  Deliveries,         \* delivered COD shipments of the merchant
  Adjustments,        \* manual credits and debits
  CodAmount,          \* [Deliveries -> Nat], in piastres
  AdjustmentAmount,   \* [Adjustments -> Int], negative for a debit
  FeeStructures       \* the fee structures the merchant may have had

VARIABLES
  balance,      \* what the merchant may withdraw
  statement,    \* the sum of the transaction rows
  applied       \* the deliveries and adjustments already posted

ledgerVars == <<balance, statement, applied>>

Init ==
  /\ balance = 0
  /\ statement = 0
  /\ applied = {}

Credit(d) ==
  /\ d \notin applied
  /\ applied' = applied \cup {d}
  /\ \E fees \in FeeStructures : \E b \in NetCreditBreakdowns(CodAmount[d], fees) :
       /\ balance' = balance + b.netCredit
       /\ statement' = statement + PostedAmount(b)

Adjust(a) ==
  /\ a \notin applied
  /\ applied' = applied \cup {a}
  /\ AdjustmentAmount[a] < 0 => balance + AdjustmentAmount[a] >= 0
  /\ balance' = balance + AdjustmentAmount[a]
  /\ statement' = statement + AdjustmentAmount[a]

Next ==
  \/ \E d \in Deliveries : Credit(d)
  \/ \E a \in Adjustments : Adjust(a)

Spec == Init /\ [][Next]_ledgerVars

=============================================================================
