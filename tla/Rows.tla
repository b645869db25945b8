-------------------------------- MODULE Rows --------------------------------
(* One line of an uploaded file: BulkUploadService.validateRow and what it     *)
(* calls, and FraudDetectionService.                                         *)
(*                                                                         *)
(* A cell is Blank or holds something: a text cell "text" or "landmark" (an    *)
(* address with one of the words the score looks for) or "ab" (a name of less  *)
(* than three letters), a phone "mobile" (01[0-25] and eight digits) or        *)
(* "digits", a date "date" or "text", an amount a number of hundredths or      *)
(* NotANumber.                                                             *)
EXTENDS Integers, FiniteSets, FiniteSetsExt

CONSTANTS Blank, NotANumber

ShipmentTypes == {"COD", "PREPAID", "RETURN"}

HasCell(cell) == cell # Blank

(* parseDecimal of a cell that is given, `default` when it is blank.          *)
NumberIn(cell, default) == IF HasCell(cell) THEN cell ELSE default

IsNumber(n) == n # NotANumber
NonNegative(n) == IsNumber(n) /\ n >= 0
Positive(n) == IsNumber(n) /\ n > 0
Whole(n) == IsNumber(n) /\ n % 100 = 0

CodAmountValid(row) ==
  /\ row.type = "COD" => HasCell(row.codAmount)
  /\ HasCell(row.codAmount) => NonNegative(row.codAmount)

(* By code or by Arabic name, among the zones that are active.                *)
ZoneResolved(row, zones) == HasCell(row.zone) => row.zone \in zones

(* validateRow: a row with an error is not stored.                           *)
RowValid(row, zones) ==
  /\ HasCell(row.customerName) /\ HasCell(row.addressText)
  /\ HasCell(row.productDescription)
  /\ row.customerPhone = "mobile"
  /\ row.type \in ShipmentTypes
  /\ CodAmountValid(row)
  /\ NonNegative(NumberIn(row.productValue, 0))
  /\ Positive(NumberIn(row.weight, 100))
  /\ LET pieces == NumberIn(row.pieces, 100) IN Whole(pieces) /\ pieces > 0
  /\ row.preferredDeliveryDate \in {Blank, "date"}
  /\ ZoneResolved(row, zones)

(* An amount on a row that is not COD is accepted and dropped.                *)
StoredCodAmount(row) == IF row.type = "COD" THEN row.codAmount ELSE 0

----------------------------------------------------------------------------
(* The signals of evaluateSignals that count against a shipment.              *)
Signals(row) ==
  {s \in {"phone", "address", "amount", "name"} :
     CASE s = "phone"   -> row.customerPhone # "mobile"
       [] s = "address" -> row.addressText # "landmark"
       [] s = "amount"  -> StoredCodAmount(row) > 500000
       [] s = "name"    -> row.customerName \in {Blank, "ab"}}

SignalScore == [phone |-> 30, address |-> 20, amount |-> 25, name |-> 15]

CalculateRiskScore(row) ==
  LET score == MapThenSumSet(LAMBDA s : SignalScore[s], Signals(row)) IN
  IF score > 100 THEN 100 ELSE score

(* What a valid row becomes.                                                *)
StoredRow(row) ==
  [type |-> row.type, codAmount |-> StoredCodAmount(row),
   weight |-> NumberIn(row.weight, 100), pieces |-> NumberIn(row.pieces, 100) \div 100,
   zone |-> row.zone, riskScore |-> CalculateRiskScore(row)]

=============================================================================
