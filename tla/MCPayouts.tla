----------------------------- MODULE MCPayouts -----------------------------
(* Payouts of one wallet are requested and decided while deliveries credit it.  *)
(* A behaviour has one of three crews, so that their state spaces add up: a      *)
(* "pair", one session and one administrator that race two deliveries;          *)
(* "requests", where both sessions overlap; or "decisions", where both           *)
(* administrators do.  In the last two one delivery has filled the wallet.       *)
(* The fee structure exceeds no delivery's cash.                                *)
EXTENDS Payouts, TLC

CONSTANTS d1, d2

VARIABLE crew

crewVars == <<crew, vars>>

MCDeliveries == {d1, d2}
MCAdjustments == {}
MCCodAmount == [d \in MCDeliveries |-> IF d = d1 THEN 11 ELSE 4]
MCAdjustmentAmount == [a \in MCAdjustments |-> 0]
MCFeeStructures == {[commissionRate |-> 1, feePerShipment |-> 0]}
MCNoFees == {[commissionRate |-> 0, feePerShipment |-> 0]}
MCPayoutAmounts == {1, 2, 3}

MCSymmetry == Permutations(Sessions) \cup Permutations(Admins)

MCInit == Init /\ crew \in {"pair", "requests", "decisions"}

AtMost(sessions, admins, payouts) ==
  /\ Cardinality({s \in Sessions : session'[s].at # "idle"}) <= sessions
  /\ Cardinality({a \in Admins : admin'[a].at # "idle"}) <= admins
  /\ \A p \in PayoutIds : p > payouts => payout'[p].status = "NONE"

CreditFirst ==
  /\ stage'[d2] = "pending"
  /\ \A s \in Sessions :
       /\ session'[s].amount \in {0, 2}
       /\ session'[s].at # "idle" => stage[d1] = "posted"

MCNext ==
  /\ Next /\ UNCHANGED crew
  /\ crew = "pair" => AtMost(1, 1, 2)
  /\ crew = "requests" => AtMost(2, 1, 3) /\ CreditFirst
  /\ crew = "decisions" => AtMost(1, 2, 2) /\ CreditFirst
  /\ \A p \in PayoutIds :
       payout'[p].status # "NONE" => \A q \in 1..(p - 1) : payout'[q].status # "NONE"

MCSpec == MCInit /\ [][MCNext]_crewVars
=============================================================================
