----------------------------- MODULE MCDispatch -----------------------------
(* Two shipments and two couriers, one of whom uses the app; a manager may     *)
(* update shipments directly.  A behaviour is about one of three desks, so that *)
(* their state spaces add up: "batches", where two shipments are assigned,     *)
(* moved and cancelled while the manager updates them; "tasks", where one is,   *)
(* while its courier works on it; or "overlaps", where the courier's updates    *)
(* and the manager's meet on a shipment that stays assigned.                   *)
EXTENDS Dispatch, TLC

CONSTANTS s1, s2, k1, k2, app1, m1

VARIABLE desk

deskVars == <<desk, dispatchVars>>

MCAssignedTo == [s \in Shipments |-> NoCourier]
MCCodAmount == [s \in CodShipments |-> 40]
MCCourierOf == [c \in {app1} |-> k1]
\* 90 % of 2 is 1: k2 has room for one task, k1 for two
MCMaxDailyCapacity == [k \in {k1, k2} |-> IF k = k1 THEN 3 ELSE 2]
MCBatches == {Shipments} \cup {{s} : s \in Shipments}

MCInit == DispatchInit /\ desk \in {"batches", "tasks", "overlaps"}

BatchDesk ==
  /\ desk = "batches"
  /\ \/ \E d \in Dispatchers : DispatcherStep(d)
     \/ \E c \in Managers : ManagerStep(c)
  /\ calls' <= 2

TaskDesk ==
  /\ desk = "tasks"
  /\ \/ \E d \in Dispatchers :
          /\ DispatcherStep(d)
          /\ dispatcher'[d].at = "batch" => dispatcher'[d].left = {s1}
     \/ \E c \in Callers \ Managers : TaskStep(c)
  /\ Len(assignment') <= 2

\* what both sides set at the "overlaps" desk
MetStatuses == {"PICKED_UP", "OUT_FOR_DELIVERY", "DELIVERED", "FAILED"}

OverlapDesk ==
  /\ desk = "overlaps"
  /\ \/ \E d \in Dispatchers :
          /\ StartsBatch(d) \/ TakesShipment(d) \/ LooksForActive(d) \/ Assigns(d)
          /\ dispatcher'[d].at = "batch" => dispatcher'[d].left = {s1}
     \/ \E c \in Callers \ Managers :
          /\ TaskStep(c)
          /\ task'[c].at \in {"synced", "mine"} => task'[c].new \in MetStatuses
     \/ \E c \in Managers :
          /\ assignment # << >> /\ ManagerStep(c)
          /\ call'[c].at # "idle" => call'[c].s = s1 /\ call'[c].new \in MetStatuses
  /\ Len(assignment') <= 1 /\ calls' <= 4

MCNext == (BatchDesk \/ TaskDesk \/ OverlapDesk) /\ UNCHANGED desk

MCSpec == MCInit /\ [][MCNext]_deskVars
=============================================================================
