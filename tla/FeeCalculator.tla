--------------------------- MODULE FeeCalculator ---------------------------
(***************************************************************************)
(* The fee arithmetic of wallets/services/fee-calculator.service.ts.       *)
(*                                                                         *)
(* Money is an integer number of piastres (the database keeps              *)
(* Decimal(10,2)) and a commission rate an integer number of               *)
(* 1/RateScale (Decimal(5,4), so RateScale is 10000 in production).        *)
(***************************************************************************)
EXTENDS Integers

CONSTANT RateScale

ASSUME RateScaleAssumption == RateScale \in Nat \ {0}

FeeStructure == [commissionRate : Nat, feePerShipment : Nat]

(***************************************************************************)
(* parseFloat(x.toFixed(2)) for x = num / den piastres: the nearest        *)
(* integer.  x is a double, so when the exact quotient is a tie the        *)
(* product may sit on either side of it and both neighbours are possible.  *)
(***************************************************************************)
ToFixed2(num, den) ==
  {q \in {num \div den, num \div den + 1} :
     /\ 2 * (q * den - num) <= den
     /\ 2 * (num - q * den) <= den}

(* Mutant: the fee per shipment is forgotten. *)
ExactNet_NoFee(gross, fees) == RateScale * gross - gross * fees.commissionRate

(* What is left of the cash after fees, in units of 1/RateScale, unrounded. *)
ExactNet(gross, fees) ==
  RateScale * (gross - fees.feePerShipment) - gross * fees.commissionRate

(***************************************************************************)
(* calculateNetCredit: the commission and the net are rounded              *)
(* independently of one another, and only the net is clamped at zero.      *)
(***************************************************************************)
NetCreditBreakdowns(codAmount, fees) ==
  LET gross == IF codAmount > 0 THEN codAmount ELSE 0
      exact == ExactNet(gross, fees)
  IN  {[grossCod |-> gross, commission |-> c, fee |-> fees.feePerShipment,
        netCredit |-> n] :
         c \in ToFixed2(gross * fees.commissionRate, RateScale),
         n \in ToFixed2(IF exact > 0 THEN exact ELSE 0, RateScale)}

(* Mutant: no FEE_DEBIT row. *)
PostedAmount_NoFeeRow(b) == b.grossCod - b.commission

(* The transaction rows of one credit: + gross, - commission, - fee.        *)
PostedAmount(b) == b.grossCod - b.commission - b.fee

=============================================================================
