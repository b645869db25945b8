----------------------------- MODULE MCDelivery -----------------------------
(* One COD shipment and one prepaid one, carried by one courier.             *)
EXTENDS Delivery, TLC

CONSTANTS cod1, pre1, k1

MCShipments == {cod1, pre1}
MCOneShipment == {cod1}
MCCodShipments == {cod1}
MCCodAmount == [s \in MCCodShipments |-> 40]
MCAssignedTo == [s \in Shipments |-> k1]
\* 5 % of 40 is 2: 42 is accepted, 43 would be refused
MCCollectedCash == {40, 42, 43}
MCDepositAmounts == {40}

MCSymmetry == Permutations(Callers) \cup Permutations(Codes) \cup Permutations(Depositors)
=============================================================================
