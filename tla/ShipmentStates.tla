--------------------------- MODULE ShipmentStates ---------------------------
(***************************************************************************)
(* A shipment's statuses and the transition matrix of                      *)
(* shipments/services/state-machine.service.ts.                            *)
(***************************************************************************)

TRANSITION_MATRIX ==
  [PENDING          |-> {"PICKED_UP", "CANCELLED"},
   PICKED_UP        |-> {"IN_WAREHOUSE", "OUT_FOR_DELIVERY", "FAILED", "CANCELLED"},
   IN_WAREHOUSE     |-> {"OUT_FOR_DELIVERY", "FAILED"},
   OUT_FOR_DELIVERY |-> {"DELIVERED", "FAILED", "POSTPONED", "RETURNED"},
   DELIVERED        |-> {},
   FAILED           |-> {"OUT_FOR_DELIVERY", "RETURNED"},
   POSTPONED        |-> {"OUT_FOR_DELIVERY", "FAILED"},
   RETURNED         |-> {},
   CANCELLED        |-> {}]

Statuses == DOMAIN TRANSITION_MATRIX

TERMINAL_STATUSES == {"DELIVERED", "RETURNED", "CANCELLED"}

(* Mutant: any status may follow any other, as with allowOverride. *)
IsValidTransition_Override(current, new) == new \in Statuses

(* validateTransition returns: a repeated status is always accepted.         *)
IsValidTransition(current, new) ==
  current = new \/ new \in TRANSITION_MATRIX[current]

=============================================================================
