------------------------------ MODULE MCWallet ------------------------------
(* Two deliveries, one credit and one debit racing on one wallet, each tried *)
(* at most twice.                                                            *)
EXTENDS Wallet

CONSTANTS d1, d2, up, down

MCDeliveries == {d1, d2}
MCAdjustments == {up, down}
MCCodAmount == [d \in MCDeliveries |-> IF d = d1 THEN 10 ELSE 7]
MCAdjustmentAmount == [a \in MCAdjustments |-> IF a = up THEN 2 ELSE -5]
\* 25 % of 10 is a tie between two piastres
MCFeeStructures == {[commissionRate |-> 1, feePerShipment |-> 1]}
=============================================================================
