--------------------------- MODULE DispatchProofs ---------------------------
(* Proofs about Dispatch: types, completions, announced deliveries and synced    *)
(* updates for any actors; assignments, capacity and the courier column for one  *)
(* dispatcher and any callers.                                               *)
EXTENDS Dispatch, DeliveryProofs

LEMMA RowFields ==
  ASSUME NEW q \in Seq(AssignmentRow), NEW a \in DOMAIN q
  PROVE  /\ q[a] \in AssignmentRow
         /\ q[a].s \in Shipments /\ q[a].k \in Couriers
         /\ q[a].status \in {"ACTIVE", "COMPLETED", "CANCELLED"}
<1>1. q[a] \in AssignmentRow
  OBVIOUS
<1>2. QED
  BY <1>1 DEF AssignmentRow

(* Closing an assignment changes its status and nothing else.                    *)
LEMMA CloseEffect ==
  ASSUME NEW q \in Seq(AssignmentRow), NEW a \in DOMAIN q,
         NEW st \in {"COMPLETED", "CANCELLED"}, NEW p, p = [q EXCEPT ![a].status = st]
  PROVE  /\ p \in Seq(AssignmentRow) /\ Len(p) = Len(q) /\ DOMAIN p = DOMAIN q
         /\ \A b \in DOMAIN q :
              /\ p[b].s = q[b].s /\ p[b].k = q[b].k
              /\ p[b].status = IF b = a THEN st ELSE q[b].status
<1> DEFINE row == [q[a] EXCEPT !.status = st]
<1>1. q[a] \in AssignmentRow
  OBVIOUS
<1>2. /\ row \in AssignmentRow /\ row.s = q[a].s /\ row.k = q[a].k /\ row.status = st
  BY <1>1 DEF AssignmentRow
<1>3. p = [q EXCEPT ![a] = row]
  OBVIOUS
<1> HIDE DEF row
<1>4. p \in Seq(AssignmentRow) /\ Len(p) = Len(q) /\ DOMAIN p = DOMAIN q
  BY <1>2, <1>3
<1>5. \A b \in DOMAIN q : p[b] = IF b = a THEN row ELSE q[b]
  BY <1>3
<1>6. QED
  BY <1>2, <1>4, <1>5

(* Opening one adds a row at the end.                                             *)
LEMMA OpenEffect ==
  ASSUME NEW q \in Seq(AssignmentRow), NEW s \in Shipments, NEW k \in Couriers
  PROVE  LET p == Append(q, NewAssignment(s, k)) IN
         /\ p \in Seq(AssignmentRow) /\ Len(q) \in Nat
         /\ DOMAIN p = DOMAIN q \cup {Len(q) + 1} /\ Len(q) + 1 \notin DOMAIN q
         /\ p[Len(q) + 1].s = s /\ p[Len(q) + 1].k = k /\ p[Len(q) + 1].status = "ACTIVE"
         /\ \A b \in DOMAIN q : p[b] = q[b]
<1>1. NewAssignment(s, k) \in AssignmentRow
  BY DEF NewAssignment, AssignmentRow
<1>2. /\ NewAssignment(s, k).s = s /\ NewAssignment(s, k).k = k
      /\ NewAssignment(s, k).status = "ACTIVE"
  BY DEF NewAssignment
<1> DEFINE p == Append(q, NewAssignment(s, k))
<1>3. /\ p \in Seq(AssignmentRow) /\ Len(q) \in Nat /\ Len(p) = Len(q) + 1
      /\ DOMAIN p = 1..(Len(q) + 1) /\ DOMAIN q = 1..Len(q)
      /\ p[Len(q) + 1] = NewAssignment(s, k)
      /\ \A b \in 1..Len(q) : p[b] = q[b]
  BY <1>1
<1>4. QED
  BY <1>2, <1>3

(* A request under way carries what its stage needs.                              *)
LEMMA RequestFields ==
  ASSUME DispatchTypeOK, NEW d \in Dispatchers
  PROVE  LET r == dispatcher[d] IN
         /\ r.at \in {"idle", "batch", "taken", "free", "cancelling", "moving", "moves"}
         /\ r.at = "idle" => r = Idle
         /\ r.at = "batch" => r \in [at : {"batch"}, k : Couriers, left : SUBSET Shipments]
         /\ r.at \in {"taken", "free"} =>
              /\ r \in [at : {"taken", "free"}, k : Couriers, left : SUBSET Shipments, s : Shipments]
              /\ r.s \in r.left
         /\ r.at = "cancelling" => r \in [at : {"cancelling"}, a : DOMAIN assignment]
         /\ r.at \in {"moving", "moves"} =>
              r \in [at : {"moving", "moves"}, a : DOMAIN assignment, k : Couriers]
<1> DEFINE r == dispatcher[d]
<1>1. r \in Request /\ (r.at \in {"taken", "free"} => r.s \in r.left)
  BY DEF DispatchTypeOK
<1>2. Idle.at = "idle"
  BY DEF Idle
<1> HIDE DEF r
<1>3. QED
  BY <1>1, <1>2 DEF Request, r

LEMMA TaskFields ==
  ASSUME DispatchTypeOK, NEW c \in Callers \ Managers
  PROVE  LET t == task[c] IN
         /\ t.at \in {"idle", "synced", "mine", "updating", "ending", "found", "completing"}
         /\ t.at = "idle" => t = Idle
         /\ t.at \in {"synced", "mine", "updating", "ending"} =>
              t \in [at : {"synced", "mine", "updating", "ending"}, s : Shipments,
                     new : Statuses, synced : BOOLEAN, was : Statuses]
         /\ t.at \in {"found", "completing"} =>
              t \in [at : {"found", "completing"}, a : DOMAIN assignment]
<1> DEFINE t == task[c]
<1>1. t \in TaskCall
  BY DEF DispatchTypeOK
<1>2. Idle.at = "idle"
  BY DEF Idle
<1> HIDE DEF t
<1>3. QED
  BY <1>1, <1>2 DEF TaskCall, t

LEMMA AskKeepsTypes ==
  ASSUME DispatchTypeOK, TypeOK', assignment' \in Seq(AssignmentRow),
         DOMAIN assignment \subseteq DOMAIN assignment', UNCHANGED task,
         NEW d \in Dispatchers, NEW r \in Request, Ask(d, r),
         r.at \in {"taken", "free"} => r.s \in r.left
  PROVE  DispatchTypeOK'
<1>1. Request \subseteq Request' /\ TaskCall \subseteq TaskCall'
  BY DEF Request, TaskCall
<1>2. dispatcher' = [dispatcher EXCEPT ![d] = r] /\ dispatcher \in [Dispatchers -> Request]
  BY DEF Ask, DispatchTypeOK
<1>3. dispatcher' \in [Dispatchers -> Request']
  BY <1>1, <1>2
<1>4. task' \in [Callers \ Managers -> TaskCall']
  BY <1>1 DEF DispatchTypeOK
<1>5. \A e \in Dispatchers :
        dispatcher'[e].at \in {"taken", "free"} => dispatcher'[e].s \in dispatcher'[e].left
  BY <1>2 DEF DispatchTypeOK
<1>6. QED
  BY <1>3, <1>4, <1>5 DEF DispatchTypeOK

LEMMA WorkKeepsTypes ==
  ASSUME DispatchTypeOK, TypeOK', assignment' \in Seq(AssignmentRow),
         DOMAIN assignment \subseteq DOMAIN assignment', UNCHANGED dispatcher,
         NEW c \in Callers \ Managers, NEW t \in TaskCall, Work(c, t)
  PROVE  DispatchTypeOK'
<1>1. Request \subseteq Request' /\ TaskCall \subseteq TaskCall'
  BY DEF Request, TaskCall
<1>2. task' \in [Callers \ Managers -> TaskCall']
  BY <1>1 DEF Work, DispatchTypeOK
<1>3. dispatcher' \in [Dispatchers -> Request']
  BY <1>1 DEF DispatchTypeOK
<1>4. QED
  BY <1>2, <1>3 DEF DispatchTypeOK

(* A dispatcher writes the courier column of the shipment and no other.           *)
LEMMA ColumnKeepsTypes ==
  ASSUME TypeOK, NEW s \in Shipments, NEW k \in Couriers \cup {NoCourier},
         shipment' = [shipment EXCEPT ![s].courier = k],
         UNCHANGED <<courier, deposits, attempts, timeline, announced, overtaken, call,
                     depositing, calls>>
  PROVE  /\ TypeOK'
         /\ shipment'[s].courier = k
         /\ \A u \in Shipments \ {s} : shipment'[u] = shipment[u]
         /\ \A u \in Shipments : /\ shipment'[u].status = shipment[u].status
                                  /\ shipment'[u].cash = shipment[u].cash
<1> DEFINE row == [shipment[s] EXCEPT !.courier = k]
<1>1. shipment \in [Shipments -> ShipmentRow]
  BY DEF TypeOK
<1>2. /\ row \in ShipmentRow /\ row.courier = k
      /\ row.status = shipment[s].status /\ row.cash = shipment[s].cash
  BY <1>1 DEF ShipmentRow
<1>3. shipment' = [shipment EXCEPT ![s] = row]
  OBVIOUS
<1> HIDE DEF row
<1>4. shipment' \in [Shipments -> ShipmentRow]
  BY <1>1, <1>2, <1>3
<1>5. TypeOK'
  BY <1>4 DEF TypeOK
<1>6. QED
  BY <1>1, <1>2, <1>3, <1>5

(* A batch without one of its shipments is a batch or nothing.                      *)
LEMMA WithoutIsRequest ==
  ASSUME NEW r, r.k \in Couriers, r.left \in SUBSET Shipments, NEW s
  PROVE  Without(r, s) \in Request /\ Without(r, s).at \in {"idle", "batch"}
BY DEF Without, Request, Idle

LEMMA DispatcherKeepsTypes ==
  ASSUME DispatchTypeOK, NEW d \in Dispatchers, DispatcherStep(d)
  PROVE  DispatchTypeOK'
<1> DEFINE r == dispatcher[d]
<1>types. TypeOK /\ assignment \in Seq(AssignmentRow)
  BY DEF DispatchTypeOK
<1>quiet. ASSUME UNCHANGED <<vars, assignment, task>>, NEW q \in Request, Ask(d, q),
                 q.at \in {"taken", "free"} => q.s \in q.left
          PROVE  DispatchTypeOK'
  <2>1. TypeOK'
    BY <1>quiet, <1>types DEF vars, TypeOK
  <2>2. QED
    BY <1>quiet, <1>types, <2>1, AskKeepsTypes
<1>idle. Idle \in Request /\ Idle.at \notin {"taken", "free"}
  BY DEF Request, Idle
<1>1. CASE StartsBatch(d)
  <2>1. PICK k \in Couriers, batch \in Batches : Ask(d, [at |-> "batch", k |-> k, left |-> batch])
    BY <1>1 DEF StartsBatch
  <2>2. [at |-> "batch", k |-> k, left |-> batch] \in Request
    BY DispatchAssumption DEF Request
  <2>3. QED
    BY <1>1, <1>quiet, <2>1, <2>2 DEF StartsBatch
<1>2. CASE TakesShipment(d)
  <2>1. r \in [at : {"batch"}, k : Couriers, left : SUBSET Shipments]
    BY <1>2, RequestFields DEF TakesShipment
  <2>2. PICK s \in r.left :
          Ask(d, IF shipment[s].status = "PENDING"
                   THEN [at |-> "taken", k |-> r.k, left |-> r.left, s |-> s]
                   ELSE Without(r, s))
    BY <1>2 DEF TakesShipment
  <2>3. [at |-> "taken", k |-> r.k, left |-> r.left, s |-> s] \in Request
    BY <2>1 DEF Request
  <2>4. Without(r, s) \in Request /\ Without(r, s).at \in {"idle", "batch"}
    BY <2>1, WithoutIsRequest
  <2>5. QED
    BY <1>2, <1>quiet, <2>2, <2>3, <2>4 DEF TakesShipment
<1>3. CASE LooksForActive(d)
  <2>1. r \in [at : {"taken", "free"}, k : Couriers, left : SUBSET Shipments, s : Shipments]
        /\ r.s \in r.left
    BY <1>3, RequestFields DEF LooksForActive
  <2> DEFINE q == [r EXCEPT !.at = "free"]
  <2>2. q \in Request /\ q.s \in q.left
    BY <2>1 DEF Request
  <2>3. Without(r, r.s) \in Request /\ Without(r, r.s).at \in {"idle", "batch"}
    BY <2>1, WithoutIsRequest
  <2>4. Ask(d, Without(r, r.s)) \/ Ask(d, q)
    BY <1>3 DEF LooksForActive
  <2> HIDE DEF q
  <2>5. QED
    BY <1>3, <1>quiet, <2>2, <2>3, <2>4 DEF LooksForActive
<1>4. CASE Assigns(d)
  <2>1. r \in [at : {"taken", "free"}, k : Couriers, left : SUBSET Shipments, s : Shipments]
    BY <1>4, RequestFields DEF Assigns
  <2>2. r.k \in Couriers /\ r.s \in Shipments /\ r.left \in SUBSET Shipments
    BY <2>1
  <2>3. Without(r, r.s) \in Request /\ Without(r, r.s).at \in {"idle", "batch"}
    BY <2>2, WithoutIsRequest
  <2>4. TypeOK'
    BY <1>4, <1>types, <2>2, ColumnKeepsTypes DEF Assigns
  <2>5. assignment' \in Seq(AssignmentRow) /\ DOMAIN assignment \subseteq DOMAIN assignment'
    BY <1>4, <1>types, <2>2, OpenEffect DEF Assigns
  <2>6. QED
    BY <1>4, <2>3, <2>4, <2>5, AskKeepsTypes DEF Assigns
<1>5. CASE AssignFails(d)
  <2>1. r \in [at : {"taken", "free"}, k : Couriers, left : SUBSET Shipments, s : Shipments]
    BY <1>5, RequestFields DEF AssignFails
  <2>2. Without(r, r.s) \in Request /\ Without(r, r.s).at \in {"idle", "batch"}
    BY <2>1, WithoutIsRequest
  <2>3. QED
    BY <1>5, <1>quiet, <2>2 DEF AssignFails
<1>6. CASE ReadsAssignment(d)
  <2>1. PICK a \in Active :
          \/ Ask(d, [at |-> "cancelling", a |-> a])
          \/ \E k \in Couriers : Ask(d, [at |-> "moving", a |-> a, k |-> k])
    BY <1>6 DEF ReadsAssignment
  <2>2. /\ [at |-> "cancelling", a |-> a] \in Request
        /\ \A k \in Couriers : [at |-> "moving", a |-> a, k |-> k] \in Request
    BY DEF Active, Request
  <2>3. CASE Ask(d, [at |-> "cancelling", a |-> a])
    BY <1>6, <1>quiet, <2>2, <2>3 DEF ReadsAssignment
  <2>4. ASSUME NEW k \in Couriers, Ask(d, [at |-> "moving", a |-> a, k |-> k]) PROVE DispatchTypeOK'
    BY <1>6, <1>quiet, <2>2, <2>4 DEF ReadsAssignment
  <2>5. QED
    BY <2>1, <2>3, <2>4
<1>7. CASE ChecksCapacity(d)
  <2>1. r \in [at : {"moving", "moves"}, a : DOMAIN assignment, k : Couriers]
    BY <1>7, RequestFields DEF ChecksCapacity
  <2> DEFINE q == [r EXCEPT !.at = "moves"]
  <2>2. q \in Request /\ q.at = "moves"
    BY <2>1 DEF Request
  <2>3. Ask(d, q) \/ Ask(d, Idle)
    BY <1>7 DEF ChecksCapacity
  <2> HIDE DEF q
  <2>4. QED
    BY <1>7, <1>quiet, <1>idle, <2>2, <2>3 DEF ChecksCapacity
<1>8. CASE Reassigns(d)
  <2>1. r \in [at : {"moving", "moves"}, a : DOMAIN assignment, k : Couriers]
    BY <1>8, RequestFields DEF Reassigns
  <2>2. r.k \in Couriers /\ r.a \in DOMAIN assignment
    BY <2>1
  <2>3. PICK s : s = assignment[r.a].s /\ s \in Shipments
    BY <1>types, <2>2, RowFields
  <2>p. PICK p : p = [assignment EXCEPT ![r.a].status = "CANCELLED"]
    OBVIOUS
  <2>4. p \in Seq(AssignmentRow) /\ DOMAIN p = DOMAIN assignment
    BY <1>types, <2>2, <2>p, CloseEffect
  <2>5. /\ assignment' = Append(p, NewAssignment(s, r.k))
        /\ shipment' = [shipment EXCEPT ![s].courier = r.k] /\ Ask(d, Idle)
    BY <1>8, <2>3, <2>p DEF Reassigns
  <2>6. TypeOK'
    BY <1>8, <1>types, <2>2, <2>3, <2>5, ColumnKeepsTypes DEF Reassigns
  <2>7. assignment' \in Seq(AssignmentRow) /\ DOMAIN assignment \subseteq DOMAIN assignment'
    BY <2>2, <2>3, <2>4, <2>5, OpenEffect
  <2>8. QED
    BY <1>8, <1>idle, <2>5, <2>6, <2>7, AskKeepsTypes DEF Reassigns
<1>9. CASE Cancels(d)
  <2>1. r \in [at : {"cancelling"}, a : DOMAIN assignment]
    BY <1>9, RequestFields DEF Cancels
  <2>2. r.a \in DOMAIN assignment
    BY <2>1
  <2>3. assignment[r.a].s \in Shipments
    BY <1>types, <2>2, RowFields
  <2>4. TypeOK'
    BY <1>9, <1>types, <2>3, ColumnKeepsTypes DEF Cancels
  <2>5. assignment' \in Seq(AssignmentRow) /\ DOMAIN assignment \subseteq DOMAIN assignment'
    BY <1>9, <1>types, <2>2, CloseEffect DEF Cancels
  <2>6. QED
    BY <1>9, <1>idle, <2>4, <2>5, AskKeepsTypes DEF Cancels
<1>10. CASE DispatchDies(d)
  BY <1>10, <1>quiet, <1>idle DEF DispatchDies
<1>11. QED
  BY <1>1, <1>2, <1>3, <1>4, <1>5, <1>6, <1>7, <1>8, <1>9, <1>10 DEF DispatcherStep

LEMMA TaskKeepsTypes ==
  ASSUME DispatchTypeOK, NEW c \in Callers \ Managers, TaskStep(c)
  PROVE  DispatchTypeOK'
<1> DEFINE t == task[c]
           Updates == [at : {"synced", "mine", "updating", "ending"}, s : Shipments,
                       new : Statuses, synced : BOOLEAN, was : Statuses]
<1>types. TypeOK /\ assignment \in Seq(AssignmentRow)
  BY DEF DispatchTypeOK
<1>quiet. ASSUME TypeOK', UNCHANGED <<assignment, dispatcher>>, NEW q \in TaskCall, Work(c, q)
          PROVE  DispatchTypeOK'
  BY <1>quiet, <1>types, WorkKeepsTypes
<1>calls. CallStep(c) => TypeOK'
  BY <1>types, CallStepKeepsTypes
<1>idle. Idle \in TaskCall
  BY DEF TaskCall
<1>vars. UNCHANGED vars => TypeOK'
  BY <1>types DEF vars, TypeOK
<1>1. CASE ReadsTask(c)
  <2>1. PICK s \in Shipments, new \in Statuses, synced \in BOOLEAN :
          Work(c, [at |-> IF synced THEN "synced" ELSE "mine", s |-> s, new |-> new,
                   synced |-> synced, was |-> shipment[s].status])
    BY <1>1 DEF ReadsTask
  <2>2. [at |-> IF synced THEN "synced" ELSE "mine", s |-> s, new |-> new,
         synced |-> synced, was |-> shipment[s].status] \in TaskCall
    BY <1>types DEF TaskCall, TypeOK, ShipmentRow
  <2>3. QED
    BY <1>1, <1>quiet, <1>vars, <2>1, <2>2 DEF ReadsTask
<1>2. ASSUME t \in Updates, NEW at \in {"mine", "updating", "ending"}
      PROVE  [t EXCEPT !.at = at] \in TaskCall
  BY <1>2 DEF TaskCall
<1>updates. t.at \in {"synced", "mine", "updating", "ending"} => t \in Updates
  BY TaskFields
<1>3. CASE RereadsTask(c)
  <2>1. Work(c, [t EXCEPT !.at = "mine"]) \/ Work(c, Idle)
    BY <1>3 DEF RereadsTask
  <2>2. QED
    BY <1>2, <1>3, <1>quiet, <1>vars, <1>idle, <1>updates, <2>1 DEF RereadsTask
<1>4. CASE UpdateBegins(c)
  <2>1. TypeOK'
    BY <1>4, <1>calls DEF UpdateBegins, CallStep
  <2>2. QED
    BY <1>2, <1>4, <1>quiet, <1>updates, <2>1 DEF UpdateBegins
<1>5. CASE UpdateContinues(c)
  <2>1. TypeOK'
    BY <1>5, <1>calls DEF UpdateContinues, CallStep
  <2>2. t \in TaskCall
    BY DEF DispatchTypeOK
  <2>3. Work(c, t) \/ Work(c, Idle)
    BY <1>5 DEF UpdateContinues
  <2>4. QED
    BY <1>5, <1>quiet, <1>idle, <2>1, <2>2, <2>3 DEF UpdateContinues
<1>6. CASE UpdateReturns(c)
  <2>1. TypeOK'
    BY <1>6, <1>calls DEF UpdateReturns, CallStep
  <2>2. Work(c, [t EXCEPT !.at = "ending"]) \/ Work(c, Idle)
    BY <1>6 DEF UpdateReturns
  <2>3. QED
    BY <1>2, <1>6, <1>quiet, <1>idle, <1>updates, <2>1, <2>2 DEF UpdateReturns
<1>7. CASE FindsAssignment(c)
  <2>1. Work(c, Idle) \/ \E a \in ActiveFor(t.s) : Work(c, [at |-> "found", a |-> a])
    BY <1>7 DEF FindsAssignment
  <2>2. \A a \in ActiveFor(t.s) : [at |-> "found", a |-> a] \in TaskCall
    BY DEF ActiveFor, Active, TaskCall
  <2>3. QED
    BY <1>7, <1>quiet, <1>vars, <1>idle, <2>1, <2>2 DEF FindsAssignment
<1>8. CASE RereadsAssignment(c)
  <2>1. t \in [at : {"found", "completing"}, a : DOMAIN assignment]
    BY <1>8, TaskFields DEF RereadsAssignment
  <2>2. [t EXCEPT !.at = "completing"] \in TaskCall
    BY <2>1 DEF TaskCall
  <2>3. Work(c, [t EXCEPT !.at = "completing"]) \/ Work(c, Idle)
    BY <1>8 DEF RereadsAssignment
  <2>4. QED
    BY <1>8, <1>quiet, <1>vars, <1>idle, <2>2, <2>3 DEF RereadsAssignment
<1>9. CASE Completes(c)
  <2>1. t \in [at : {"found", "completing"}, a : DOMAIN assignment]
    BY <1>9, TaskFields DEF Completes
  <2>2. t.a \in DOMAIN assignment
    BY <2>1
  <2>3. assignment' \in Seq(AssignmentRow) /\ DOMAIN assignment \subseteq DOMAIN assignment'
    BY <1>9, <1>types, <2>2, CloseEffect DEF Completes
  <2>4. QED
    BY <1>9, <1>idle, <1>vars, <2>3, WorkKeepsTypes DEF Completes
<1>10. CASE TaskFails(c)
  BY <1>10, <1>quiet, <1>vars, <1>idle DEF TaskFails
<1>11. QED
  BY <1>1, <1>3, <1>4, <1>5, <1>6, <1>7, <1>8, <1>9, <1>10 DEF TaskStep

LEMMA DispatchTypesInductive == DispatchTypeOK /\ [DispatchNext]_dispatchVars => DispatchTypeOK'
<1> SUFFICES ASSUME DispatchTypeOK, [DispatchNext]_dispatchVars PROVE DispatchTypeOK'
  OBVIOUS
<1>1. ASSUME NEW c \in Managers, ManagerStep(c) PROVE DispatchTypeOK'
  <2>1. TypeOK'
    BY <1>1, DispatchAssumption, CallStepKeepsTypes DEF ManagerStep, DispatchTypeOK
  <2>2. Request' = Request /\ TaskCall' = TaskCall
    BY <1>1 DEF ManagerStep, Request, TaskCall
  <2>3. QED
    BY <1>1, <2>1, <2>2 DEF ManagerStep, DispatchTypeOK
<1>2. ASSUME UNCHANGED dispatchVars PROVE DispatchTypeOK'
  <2>1. TypeOK'
    BY <1>2 DEF dispatchVars, vars, DispatchTypeOK, TypeOK
  <2>2. Request' = Request /\ TaskCall' = TaskCall
    BY <1>2 DEF dispatchVars, Request, TaskCall
  <2>3. QED
    BY <1>2, <2>1, <2>2 DEF dispatchVars, DispatchTypeOK
<1>3. QED
  BY <1>1, <1>2, DispatcherKeepsTypes, TaskKeepsTypes DEF DispatchNext

LEMMA DispatchTypesInitially == DispatchInit => DispatchTypeOK
<1> SUFFICES ASSUME DispatchInit PROVE DispatchTypeOK
  OBVIOUS
<1>1. TypeOK
  BY TypesInitially DEF DispatchInit
<1>2. Idle \in Request /\ Idle \in TaskCall /\ Idle.at = "idle"
  BY DEF Idle, Request, TaskCall
<1>3. assignment \in Seq(AssignmentRow)
  BY DEF DispatchInit
<1>4. QED
  BY <1>1, <1>2, <1>3 DEF DispatchInit, DispatchTypeOK

(* Assignments, requests and tasks have their types, and what a request names       *)
(* exists.                                                                        *)
THEOREM DispatchTypeCorrect == DispatchSpec => []DispatchTypeOK
BY DispatchTypesInitially, DispatchTypesInductive, PTL DEF DispatchSpec

----------------------------------------------------------------------------
(* One dispatcher, any callers *)

OneDispatcher == \A d, e \in Dispatchers : d = e

LoneActive == \A a, b \in Active : assignment[a].s = assignment[b].s => a = b

(* What the dispatcher has looked up is still so: nothing else opens assignments.   *)
LookupsHold ==
  \A d \in Dispatchers :
    /\ dispatcher[d].at = "free" => \A b \in Active : assignment[b].s # dispatcher[d].s
    /\ dispatcher[d].at \in {"cancelling", "moving", "moves"} =>
         \A b \in Active :
           assignment[b].s = assignment[dispatcher[d].a].s => b = dispatcher[d].a

(* There is room for all that is left of a batch, and for a move that was checked.  *)
RoomLeft ==
  \A d \in Dispatchers :
    /\ dispatcher[d].at \in {"batch", "taken", "free"} =>
         HasRoomFor(dispatcher[d].k, Cardinality(dispatcher[d].left))
    /\ dispatcher[d].at = "moves" => HasRoomFor(dispatcher[d].k, 1)

Books == LoneActive /\ CapacityRespected /\ CourierFollowsAssignment

AssignInv == DispatchTypeOK /\ Books /\ LookupsHold /\ RoomLeft

LEMMA CapacityIsNat == ASSUME NEW k \in Couriers PROVE EffectiveCapacity(k) \in Nat
<1>1. MaxDailyCapacity[k] \in Nat
  BY DispatchAssumption
<1>2. QED
  BY <1>1 DEF EffectiveCapacity

LEMMA ActiveIsFinite ==
  ASSUME assignment \in Seq(AssignmentRow), NEW k
  PROVE  IsFiniteSet(Active) /\ IsFiniteSet(ActiveOf(k)) /\ Cardinality(ActiveOf(k)) \in Nat
<1>1. Len(assignment) \in Nat /\ DOMAIN assignment = 1..Len(assignment)
  OBVIOUS
<1>2. IsFiniteSet(DOMAIN assignment)
  BY <1>1, FS_Interval
<1>3. Active \subseteq DOMAIN assignment /\ ActiveOf(k) \subseteq Active
  BY DEF Active, ActiveOf
<1>4. QED
  BY <1>2, <1>3, FS_Subset, FS_CardinalityType

LEMMA ActiveIsFiniteNext ==
  DispatchTypeOK' => (\A k : IsFiniteSet(ActiveOf(k)) /\ Cardinality(ActiveOf(k)) \in Nat)'
<1>1. DispatchTypeOK => \A k : IsFiniteSet(ActiveOf(k)) /\ Cardinality(ActiveOf(k)) \in Nat
  BY ActiveIsFinite DEF DispatchTypeOK
<1>2. QED
  BY <1>1, PTL

(* Fewer open assignments, the columns as they were: the books stay in order.      *)
LEMMA ClosingKeepsBooks ==
  ASSUME DispatchTypeOK, DispatchTypeOK', Books, Active' \subseteq Active,
         \A a \in DOMAIN assignment : /\ assignment'[a].s = assignment[a].s
                                      /\ assignment'[a].k = assignment[a].k,
         \A a \in Active' : shipment'[assignment[a].s].courier = shipment[assignment[a].s].courier
  PROVE  /\ Books'
         /\ \A k \in Couriers, n \in Nat : HasRoomFor(k, n) => HasRoomFor(k, n)'
<1>1. Active \subseteq DOMAIN assignment
  BY DEF Active
<1>2. LoneActive'
  BY <1>1 DEF Books, LoneActive
<1>3. CourierFollowsAssignment'
  BY <1>1 DEF Books, CourierFollowsAssignment
<1>5. ASSUME NEW k \in Couriers
      PROVE  /\ Cardinality(ActiveOf(k))' <= Cardinality(ActiveOf(k))
             /\ Cardinality(ActiveOf(k))' \in Nat /\ Cardinality(ActiveOf(k)) \in Nat
             /\ EffectiveCapacity(k) \in Nat
  <2>1. ActiveOf(k)' \subseteq ActiveOf(k)
    BY <1>1 DEF ActiveOf
  <2>2. IsFiniteSet(ActiveOf(k)) /\ Cardinality(ActiveOf(k)) \in Nat
    BY ActiveIsFinite DEF DispatchTypeOK
  <2>3. Cardinality(ActiveOf(k)') <= Cardinality(ActiveOf(k)) /\ Cardinality(ActiveOf(k)') \in Nat
    BY <2>1, <2>2, FS_Subset, FS_CardinalityType
  <2>4. QED
    BY <2>2, <2>3, CapacityIsNat
<1>6. CapacityRespected'
  BY <1>5 DEF Books, CapacityRespected, EffectiveCapacity
<1>7. \A k \in Couriers, n \in Nat : HasRoomFor(k, n) => HasRoomFor(k, n)'
  BY <1>5 DEF HasRoomFor, EffectiveCapacity
<1>8. QED
  BY <1>2, <1>3, <1>6, <1>7 DEF Books

(* One more open assignment, for a shipment that has none, of a courier with room.  *)
LEMMA OpeningKeepsBooks ==
  ASSUME DispatchTypeOK, DispatchTypeOK', Books,
         NEW s \in Shipments, NEW k \in Couriers, NEW n, n \notin DOMAIN assignment,
         Active' \subseteq Active \cup {n},
         \A a \in Active' : a # n => assignment[a].s # s,
         assignment'[n].s = s, assignment'[n].k = k,
         \A a \in DOMAIN assignment : /\ assignment'[a].s = assignment[a].s
                                      /\ assignment'[a].k = assignment[a].k,
         shipment'[s].courier = k,
         \A u \in Shipments \ {s} : shipment'[u].courier = shipment[u].courier,
         HasRoomFor(k, 1)
  PROVE  /\ Books'
         /\ \A m \in Nat : HasRoomFor(k, m + 1) => HasRoomFor(k, m)'
<1>1. Active \subseteq DOMAIN assignment
  BY DEF Active
<1>2. LoneActive'
  BY <1>1 DEF Books, LoneActive
<1>3. ASSUME NEW a \in Active' PROVE shipment'[assignment'[a].s].courier = assignment'[a].k
  <2>1. CASE a = n
    BY <2>1
  <2>2. CASE a # n
    <3>1. a \in Active /\ a \in DOMAIN assignment /\ assignment[a].s # s
      BY <1>1, <2>2
    <3>2. assignment[a].s \in Shipments
      BY <3>1, RowFields DEF DispatchTypeOK
    <3>3. QED
      BY <3>1, <3>2 DEF Books, CourierFollowsAssignment
  <2>3. QED
    BY <2>1, <2>2
<1>4. CourierFollowsAssignment'
  BY <1>3 DEF CourierFollowsAssignment
<1>5. ASSUME NEW j \in Couriers
      PROVE  /\ Cardinality(ActiveOf(j))' <= IF j = k THEN Cardinality(ActiveOf(j)) + 1
                                                      ELSE Cardinality(ActiveOf(j))
             /\ Cardinality(ActiveOf(j))' \in Nat /\ Cardinality(ActiveOf(j)) \in Nat
             /\ EffectiveCapacity(j) \in Nat
  <2>1. IsFiniteSet(ActiveOf(j)) /\ Cardinality(ActiveOf(j)) \in Nat /\ n \notin ActiveOf(j)
    BY <1>1, ActiveIsFinite DEF DispatchTypeOK, ActiveOf
  <2>2. IsFiniteSet(ActiveOf(j)') /\ Cardinality(ActiveOf(j)') \in Nat
    BY ActiveIsFiniteNext
  <2>3. CASE j = k
    <3>1. ActiveOf(j)' \subseteq ActiveOf(j) \cup {n}
      BY <1>1 DEF ActiveOf
    <3>2. /\ IsFiniteSet(ActiveOf(j) \cup {n})
          /\ Cardinality(ActiveOf(j) \cup {n}) = Cardinality(ActiveOf(j)) + 1
      BY <2>1, FS_AddElement
    <3>3. Cardinality(ActiveOf(j)') <= Cardinality(ActiveOf(j) \cup {n})
      BY <3>1, <3>2, FS_Subset
    <3>4. QED
      BY <2>1, <2>2, <2>3, <3>2, <3>3, CapacityIsNat
  <2>4. CASE j # k
    <3>1. ActiveOf(j)' \subseteq ActiveOf(j)
      BY <1>1, <2>4 DEF ActiveOf
    <3>2. Cardinality(ActiveOf(j)') <= Cardinality(ActiveOf(j))
      BY <2>1, <3>1, FS_Subset
    <3>3. QED
      BY <2>1, <2>2, <2>4, <3>2, CapacityIsNat
  <2>5. QED
    BY <2>3, <2>4
<1>6. CapacityRespected'
  <2>1. Cardinality(ActiveOf(k)) + 1 <= EffectiveCapacity(k)
    BY DEF HasRoomFor
  <2>2. \A j \in Couriers : Cardinality(ActiveOf(j))' <= EffectiveCapacity(j)
    BY <1>5, <2>1 DEF Books, CapacityRespected
  <2>3. QED
    BY <2>2 DEF CapacityRespected, EffectiveCapacity
<1>7. \A m \in Nat : HasRoomFor(k, m + 1) => HasRoomFor(k, m)'
  BY <1>5 DEF HasRoomFor, EffectiveCapacity
<1>8. QED
  BY <1>2, <1>4, <1>6, <1>7 DEF Books

(* The steps of calls and tasks leave the books and the request as they are.       *)
LEMMA OthersKeepAssignInv ==
  ASSUME AssignInv, DispatchTypeOK', UNCHANGED dispatcher, Active' \subseteq Active,
         \A a \in DOMAIN assignment : /\ assignment'[a].s = assignment[a].s
                                      /\ assignment'[a].k = assignment[a].k,
         \A s \in Shipments : shipment'[s].courier = shipment[s].courier
  PROVE  AssignInv'
<1>1. \A a \in Active' : shipment'[assignment[a].s].courier = shipment[assignment[a].s].courier
  <2>1. ASSUME NEW a \in Active PROVE assignment[a].s \in Shipments
    <3>1. a \in DOMAIN assignment
      BY <2>1 DEF Active
    <3>2. QED
      BY <3>1, RowFields DEF AssignInv, DispatchTypeOK
  <2>2. QED
    BY <2>1
<1>2. /\ Books'
      /\ \A k \in Couriers, n \in Nat : HasRoomFor(k, n) => HasRoomFor(k, n)'
  BY <1>1, ClosingKeepsBooks DEF AssignInv
<1>3. LookupsHold'
  <2>1. \A d \in Dispatchers :
          dispatcher[d].at \in {"cancelling", "moving", "moves"} =>
            dispatcher[d].a \in DOMAIN assignment
    BY RequestFields DEF AssignInv
  <2>2. Active \subseteq DOMAIN assignment
    BY DEF Active
  <2>3. QED
    BY <2>1, <2>2 DEF AssignInv, LookupsHold
<1>4. RoomLeft'
  <2> SUFFICES ASSUME NEW d \in Dispatchers
               PROVE  /\ dispatcher[d].at \in {"batch", "taken", "free"} =>
                           HasRoomFor(dispatcher[d].k, Cardinality(dispatcher[d].left))'
                      /\ dispatcher[d].at = "moves" => HasRoomFor(dispatcher[d].k, 1)'
    BY DEF RoomLeft
  <2>1. dispatcher[d].at \in {"batch", "taken", "free", "moves"} => dispatcher[d].k \in Couriers
    BY RequestFields DEF AssignInv
  <2>2. dispatcher[d].at \in {"batch", "taken", "free"} =>
          Cardinality(dispatcher[d].left) \in Nat
    <3>1. dispatcher[d].at \in {"batch", "taken", "free"} => dispatcher[d].left \in SUBSET Shipments
      BY RequestFields DEF AssignInv
    <3>2. \A S \in SUBSET Shipments : Cardinality(S) \in Nat
      BY TablesAreFinite, FS_Subset, FS_CardinalityType
    <3>3. QED
      BY <3>1, <3>2
  <2>3. QED
    BY <1>2, <2>1, <2>2 DEF AssignInv, RoomLeft, HasRoomFor
<1>5. QED
  BY <1>2, <1>3, <1>4 DEF AssignInv

(* What a request must know for the dispatcher to go on with it.                    *)
Ready(q) ==
  /\ q.at = "free" => \A b \in Active : assignment[b].s # q.s
  /\ q.at \in {"cancelling", "moving", "moves"} =>
       \A b \in Active : assignment[b].s = assignment[q.a].s => b = q.a
  /\ q.at \in {"batch", "taken", "free"} => HasRoomFor(q.k, Cardinality(q.left))
  /\ q.at = "moves" => HasRoomFor(q.k, 1)

LEMMA ReadyIsAll == LookupsHold /\ RoomLeft <=> \A d \in Dispatchers : Ready(dispatcher[d])
BY DEF LookupsHold, RoomLeft, Ready

LEMMA ReadyIsAllNext ==
  (\A d \in Dispatchers : Ready(dispatcher[d]))' => LookupsHold' /\ RoomLeft'
BY ReadyIsAll, PTL

LEMMA AskIsAll ==
  ASSUME OneDispatcher, DispatchTypeOK, NEW d \in Dispatchers, NEW q, Ask(d, q), Ready(q)'
  PROVE  LookupsHold' /\ RoomLeft'
<1>1. \A e \in Dispatchers : dispatcher'[e] = q
  BY DEF Ask, DispatchTypeOK, OneDispatcher
<1>2. (\A e \in Dispatchers : Ready(dispatcher[e]))'
  BY <1>1
<1>3. QED
  BY <1>2, ReadyIsAllNext

LEMMA IdleIsReady == Ready(Idle)
BY DEF Ready, Idle

LEMMA IdleIsReadyNext == Ready(Idle)'
BY IdleIsReady, PTL

(* Requests that write nothing but the request.                                    *)
LEMMA LookingKeepsAssignInv ==
  ASSUME OneDispatcher, AssignInv, DispatchTypeOK', UNCHANGED <<vars, assignment>>,
         NEW d \in Dispatchers, NEW q, Ask(d, q), Ready(q)
  PROVE  AssignInv'
<1>1. UNCHANGED <<assignment, shipment>>
  BY DEF vars
<1>2. Books'
  BY <1>1
  DEF AssignInv, Books, LoneActive, CapacityRespected, CourierFollowsAssignment, Active,
      ActiveOf, EffectiveCapacity
<1>3. Ready(q)'
  BY <1>1 DEF Ready, Active, HasRoomFor, ActiveOf, EffectiveCapacity
<1>4. QED
  BY <1>2, <1>3, AskIsAll DEF AssignInv

(* A batch goes on without a shipment it is done with.                             *)
LEMMA WithoutIsReady ==
  ASSUME DispatchTypeOK, NEW r, r.k \in Couriers, r.left \in SUBSET Shipments, NEW s \in r.left,
         HasRoomFor(r.k, Cardinality(r.left))
  PROVE  Ready(Without(r, s))
<1>1. CASE r.left = {s}
  BY <1>1, IdleIsReady DEF Without
<1>2. CASE r.left # {s}
  <2>1. /\ IsFiniteSet(r.left) /\ Cardinality(r.left) \in Nat
        /\ Cardinality(r.left \ {s}) = Cardinality(r.left) - 1
    BY TablesAreFinite, FS_Subset, FS_CardinalityType, FS_RemoveElement
  <2>2. Cardinality(ActiveOf(r.k)) \in Nat /\ EffectiveCapacity(r.k) \in Nat
    BY ActiveIsFinite, CapacityIsNat DEF DispatchTypeOK
  <2>3. HasRoomFor(r.k, Cardinality(r.left \ {s}))
    BY <2>1, <2>2 DEF HasRoomFor
  <2>4. Without(r, s) = [at |-> "batch", k |-> r.k, left |-> r.left \ {s}]
    BY <1>2 DEF Without
  <2>5. QED
    BY <2>3, <2>4 DEF Ready
<1>3. QED
  BY <1>1, <1>2

LEMMA AssignsKeepsAssignInv ==
  ASSUME OneDispatcher, AssignInv, DispatchTypeOK', NEW d \in Dispatchers, Assigns(d)
  PROVE  AssignInv'
<1>1. PICK r : r = dispatcher[d]
  OBVIOUS
<1>2. /\ r \in [at : {"taken", "free"}, k : Couriers, left : SUBSET Shipments, s : Shipments]
      /\ r.s \in r.left /\ r.at = "free" /\ Ready(r)
  BY <1>1, RequestFields, ReadyIsAll DEF AssignInv, Assigns
<1>3. r.k \in Couriers /\ r.s \in Shipments /\ r.left \in SUBSET Shipments
  BY <1>2
<1>4. PICK n : n = Len(assignment) + 1
  OBVIOUS
<1>5. /\ assignment' = Append(assignment, NewAssignment(r.s, r.k))
      /\ shipment' = [shipment EXCEPT ![r.s].courier = r.k]
      /\ Ask(d, Without(r, r.s))
      /\ UNCHANGED <<courier, deposits, attempts, timeline, announced, overtaken, call,
                     depositing, calls>>
  BY <1>1 DEF Assigns
<1>6. /\ DOMAIN assignment' = DOMAIN assignment \cup {n} /\ n \notin DOMAIN assignment
      /\ assignment'[n].s = r.s /\ assignment'[n].k = r.k
      /\ \A b \in DOMAIN assignment : assignment'[b] = assignment[b]
  BY <1>3, <1>4, <1>5, OpenEffect DEF AssignInv, DispatchTypeOK
<1>7. /\ shipment'[r.s].courier = r.k
      /\ \A u \in Shipments \ {r.s} : shipment'[u].courier = shipment[u].courier
  BY <1>3, <1>5, ColumnKeepsTypes DEF AssignInv, DispatchTypeOK
<1>8. Active' \subseteq Active \cup {n}
  BY <1>6 DEF Active
<1>9. \A a \in Active' : a # n => assignment[a].s # r.s
  BY <1>2, <1>8 DEF Ready
<1>10. PICK m \in Nat : m + 1 = Cardinality(r.left) /\ Cardinality(r.left \ {r.s}) = m
  <2>1. /\ IsFiniteSet(r.left) /\ Cardinality(r.left) \in Nat
        /\ Cardinality(r.left \ {r.s}) = Cardinality(r.left) - 1
        /\ Cardinality(r.left \ {r.s}) \in Nat
    BY <1>2, <1>3, TablesAreFinite, FS_Subset, FS_CardinalityType, FS_RemoveElement
  <2>2. QED
    BY <2>1
<1>11. HasRoomFor(r.k, m + 1)
  BY <1>2, <1>10 DEF Ready
<1>12. HasRoomFor(r.k, 1)
  <2>1. Cardinality(ActiveOf(r.k)) \in Nat /\ EffectiveCapacity(r.k) \in Nat
    BY <1>3, ActiveIsFinite, CapacityIsNat DEF AssignInv, DispatchTypeOK
  <2>2. QED
    BY <1>10, <1>11, <2>1 DEF HasRoomFor
<1>13. Books' /\ HasRoomFor(r.k, m)'
  BY <1>3, <1>6, <1>7, <1>8, <1>9, <1>10, <1>11, <1>12, OpeningKeepsBooks DEF AssignInv
<1>14. PICK q : q = Without(r, r.s)
  OBVIOUS
<1>15. Ready(q)'
  <2>1. CASE r.left = {r.s}
    BY <1>14, <2>1, IdleIsReadyNext DEF Without
  <2>2. CASE r.left # {r.s}
    <3>1. q = [at |-> "batch", k |-> r.k, left |-> r.left \ {r.s}]
      BY <1>14, <2>2 DEF Without
    <3>2. HasRoomFor(q.k, Cardinality(q.left))'
      BY <1>10, <1>13, <3>1
    <3>3. QED
      BY <3>1, <3>2 DEF Ready
  <2>3. QED
    BY <2>1, <2>2
<1>16. QED
  BY <1>5, <1>13, <1>14, <1>15, AskIsAll DEF AssignInv

LEMMA ReassignsKeepsAssignInv ==
  ASSUME OneDispatcher, AssignInv, DispatchTypeOK', NEW d \in Dispatchers, Reassigns(d)
  PROVE  AssignInv'
<1>1. PICK r : r = dispatcher[d]
  OBVIOUS
<1>2. /\ r \in [at : {"moving", "moves"}, a : DOMAIN assignment, k : Couriers]
      /\ r.at = "moves" /\ Ready(r)
  BY <1>1, RequestFields, ReadyIsAll DEF AssignInv, Reassigns
<1>3. PICK s : s = assignment[r.a].s
  OBVIOUS
<1>4. r.k \in Couriers /\ r.a \in DOMAIN assignment /\ s \in Shipments
  <2>1. r.k \in Couriers /\ r.a \in DOMAIN assignment
    BY <1>2
  <2>2. QED
    BY <1>3, <2>1, RowFields DEF AssignInv, DispatchTypeOK
<1>5. PICK p : p = [assignment EXCEPT ![r.a].status = "CANCELLED"]
  OBVIOUS
<1>6. PICK n : n = Len(p) + 1
  OBVIOUS
<1>7. /\ assignment' = Append(p, NewAssignment(s, r.k))
      /\ shipment' = [shipment EXCEPT ![s].courier = r.k]
      /\ Ask(d, Idle)
      /\ UNCHANGED <<courier, deposits, attempts, timeline, announced, overtaken, call,
                     depositing, calls>>
  BY <1>1, <1>3, <1>5 DEF Reassigns
<1>8. /\ p \in Seq(AssignmentRow) /\ DOMAIN p = DOMAIN assignment
      /\ \A b \in DOMAIN assignment :
           /\ p[b].s = assignment[b].s /\ p[b].k = assignment[b].k
           /\ p[b].status = IF b = r.a THEN "CANCELLED" ELSE assignment[b].status
  <2>1. assignment \in Seq(AssignmentRow)
    BY DEF AssignInv, DispatchTypeOK
  <2>2. "CANCELLED" \in {"COMPLETED", "CANCELLED"}
    OBVIOUS
  <2>3. QED
    BY <1>4, <1>5, <2>1, <2>2, CloseEffect
<1>9. /\ DOMAIN assignment' = DOMAIN assignment \cup {n} /\ n \notin DOMAIN assignment
      /\ assignment'[n].s = s /\ assignment'[n].k = r.k
      /\ \A b \in DOMAIN assignment : assignment'[b] = p[b]
  BY <1>4, <1>6, <1>7, <1>8, OpenEffect
<1>10. /\ shipment'[s].courier = r.k
       /\ \A u \in Shipments \ {s} : shipment'[u].courier = shipment[u].courier
  BY <1>4, <1>7, ColumnKeepsTypes DEF AssignInv, DispatchTypeOK
<1>11. Active' \subseteq (Active \ {r.a}) \cup {n}
  BY <1>8, <1>9 DEF Active
<1>12. \A a \in Active' : a # n => assignment[a].s # s
  BY <1>2, <1>3, <1>11 DEF Ready
<1>13. HasRoomFor(r.k, 1)
  BY <1>2 DEF Ready
<1>14. \A a \in DOMAIN assignment : /\ assignment'[a].s = assignment[a].s
                                    /\ assignment'[a].k = assignment[a].k
  BY <1>8, <1>9
<1>15. Active' \subseteq Active \cup {n}
  BY <1>11
<1>16. Books'
  BY <1>4, <1>9, <1>10, <1>12, <1>13, <1>14, <1>15, OpeningKeepsBooks DEF AssignInv
<1>17. QED
  BY <1>7, <1>16, IdleIsReadyNext, AskIsAll DEF AssignInv

LEMMA CancelsKeepsAssignInv ==
  ASSUME OneDispatcher, AssignInv, DispatchTypeOK', NEW d \in Dispatchers, Cancels(d)
  PROVE  AssignInv'
<1>1. PICK r : r = dispatcher[d]
  OBVIOUS
<1>2. /\ r \in [at : {"cancelling"}, a : DOMAIN assignment] /\ Ready(r)
  BY <1>1, RequestFields, ReadyIsAll DEF AssignInv, Cancels
<1>3. PICK s : s = assignment[r.a].s
  OBVIOUS
<1>4. r.a \in DOMAIN assignment /\ r.at = "cancelling"
  BY <1>2
<1>5. s \in Shipments
  BY <1>3, <1>4, RowFields DEF AssignInv, DispatchTypeOK
<1>6. /\ assignment' = [assignment EXCEPT ![r.a].status = "CANCELLED"]
      /\ shipment' = [shipment EXCEPT ![s].courier = NoCourier]
      /\ Ask(d, Idle)
      /\ UNCHANGED <<courier, deposits, attempts, timeline, announced, overtaken, call,
                     depositing, calls>>
  BY <1>1, <1>3 DEF Cancels
<1>7. /\ DOMAIN assignment' = DOMAIN assignment
      /\ \A b \in DOMAIN assignment :
           /\ assignment'[b].s = assignment[b].s /\ assignment'[b].k = assignment[b].k
           /\ assignment'[b].status = IF b = r.a THEN "CANCELLED" ELSE assignment[b].status
  BY <1>4, <1>6, CloseEffect DEF AssignInv, DispatchTypeOK
<1>8. \A u \in Shipments \ {s} : shipment'[u].courier = shipment[u].courier
  BY <1>5, <1>6, ColumnKeepsTypes DEF AssignInv, DispatchTypeOK
<1>9. Active' \subseteq Active \ {r.a}
  BY <1>7 DEF Active
<1>10. \A a \in Active' : assignment[a].s \in Shipments \ {s}
  <2>1. ASSUME NEW a \in Active' PROVE assignment[a].s \in Shipments /\ assignment[a].s # s
    <3>1. a \in Active /\ a # r.a
      BY <1>9
    <3>2. a \in DOMAIN assignment
      BY <3>1 DEF Active
    <3>3. assignment[a].s # s
      BY <1>2, <1>3, <1>4, <3>1 DEF Ready
    <3>4. QED
      BY <3>2, <3>3, RowFields DEF AssignInv, DispatchTypeOK
  <2>2. QED
    BY <2>1
<1>11. \A a \in Active' : shipment'[assignment[a].s].courier = shipment[assignment[a].s].courier
  BY <1>8, <1>10
<1>12. Active' \subseteq Active
  BY <1>9
<1>13. Books'
  BY <1>7, <1>11, <1>12, ClosingKeepsBooks DEF AssignInv
<1>14. QED
  BY <1>6, <1>13, IdleIsReadyNext, AskIsAll DEF AssignInv

LEMMA DispatcherKeepsAssignInv ==
  ASSUME OneDispatcher, AssignInv, NEW d \in Dispatchers, DispatcherStep(d)
  PROVE  AssignInv'
<1>types. DispatchTypeOK /\ DispatchTypeOK' /\ assignment \in Seq(AssignmentRow)
  BY DispatcherKeepsTypes DEF AssignInv, DispatchTypeOK
<1>1. PICK r : r = dispatcher[d]
  OBVIOUS
<1>ready. Ready(r)
  BY <1>1, ReadyIsAll DEF AssignInv
<1>2. CASE StartsBatch(d)
  <2>1. PICK k \in Couriers, batch \in Batches :
          /\ HasRoomFor(k, Cardinality(batch))
          /\ Ask(d, [at |-> "batch", k |-> k, left |-> batch])
    BY <1>2 DEF StartsBatch
  <2>2. Ready([at |-> "batch", k |-> k, left |-> batch])
    BY <2>1 DEF Ready
  <2>3. QED
    BY <1>2, <1>types, <2>1, <2>2, LookingKeepsAssignInv DEF StartsBatch
<1>3. CASE TakesShipment(d)
  <2>1. r \in [at : {"batch"}, k : Couriers, left : SUBSET Shipments]
    BY <1>1, <1>3, <1>types, RequestFields DEF TakesShipment
  <2>2. PICK s \in r.left :
          Ask(d, IF shipment[s].status = "PENDING"
                   THEN [at |-> "taken", k |-> r.k, left |-> r.left, s |-> s]
                   ELSE Without(r, s))
    BY <1>1, <1>3 DEF TakesShipment
  <2>3. HasRoomFor(r.k, Cardinality(r.left))
    BY <1>ready, <2>1 DEF Ready
  <2>4. Ready([at |-> "taken", k |-> r.k, left |-> r.left, s |-> s])
    BY <2>3 DEF Ready
  <2>5. Ready(Without(r, s))
    BY <1>types, <2>1, <2>3, WithoutIsReady
  <2>6. QED
    BY <1>3, <1>types, <2>2, <2>4, <2>5, LookingKeepsAssignInv DEF TakesShipment
<1>4. CASE LooksForActive(d)
  <2>1. /\ r \in [at : {"taken", "free"}, k : Couriers, left : SUBSET Shipments, s : Shipments]
        /\ r.s \in r.left
    BY <1>1, <1>4, <1>types, RequestFields DEF LooksForActive
  <2>2. HasRoomFor(r.k, Cardinality(r.left))
    BY <1>ready, <2>1 DEF Ready
  <2>3. Ready(Without(r, r.s))
    BY <1>types, <2>1, <2>2, WithoutIsReady
  <2> DEFINE q == [r EXCEPT !.at = "free"]
  <2>4. q.at = "free" /\ q.k = r.k /\ q.left = r.left /\ q.s = r.s
    BY <2>1
  <2>5. CASE IsTaken(r.s, r.k)
    <3>1. Ask(d, Without(r, r.s))
      BY <1>1, <1>4, <2>5 DEF LooksForActive
    <3>2. QED
      BY <1>4, <1>types, <2>3, <3>1, LookingKeepsAssignInv DEF LooksForActive
  <2>6. CASE ~IsTaken(r.s, r.k)
    <3>1. Ask(d, q)
      BY <1>1, <1>4, <2>6 DEF LooksForActive
    <3>2. \A b \in Active : assignment[b].s # r.s
      BY <2>6 DEF IsTaken, ActiveFor
    <3> HIDE DEF q
    <3>3. Ready(q)
      BY <2>2, <2>4, <3>2 DEF Ready
    <3>4. QED
      BY <1>4, <1>types, <3>1, <3>3, LookingKeepsAssignInv DEF LooksForActive
  <2>7. QED
    BY <2>5, <2>6
<1>5. CASE AssignFails(d)
  <2>1. /\ r \in [at : {"taken", "free"}, k : Couriers, left : SUBSET Shipments, s : Shipments]
        /\ r.s \in r.left
    BY <1>1, <1>5, <1>types, RequestFields DEF AssignFails
  <2>2. HasRoomFor(r.k, Cardinality(r.left))
    BY <1>ready, <2>1 DEF Ready
  <2>3. Ready(Without(r, r.s)) /\ Ask(d, Without(r, r.s))
    BY <1>1, <1>5, <1>types, <2>1, <2>2, WithoutIsReady DEF AssignFails
  <2>4. QED
    BY <1>5, <1>types, <2>3, LookingKeepsAssignInv DEF AssignFails
<1>6. CASE ReadsAssignment(d)
  <2>1. PICK a \in Active :
          \/ Ask(d, [at |-> "cancelling", a |-> a])
          \/ \E k \in Couriers : Ask(d, [at |-> "moving", a |-> a, k |-> k])
    BY <1>6 DEF ReadsAssignment
  <2>2. \A b \in Active : assignment[b].s = assignment[a].s => b = a
    BY DEF AssignInv, Books, LoneActive
  <2>3. CASE Ask(d, [at |-> "cancelling", a |-> a])
    <3>1. Ready([at |-> "cancelling", a |-> a])
      BY <2>2 DEF Ready
    <3>2. QED
      BY <1>6, <1>types, <2>3, <3>1, LookingKeepsAssignInv DEF ReadsAssignment
  <2>4. ASSUME NEW k \in Couriers, Ask(d, [at |-> "moving", a |-> a, k |-> k]) PROVE AssignInv'
    <3>1. Ready([at |-> "moving", a |-> a, k |-> k])
      BY <2>2 DEF Ready
    <3>2. QED
      BY <1>6, <1>types, <2>4, <3>1, LookingKeepsAssignInv DEF ReadsAssignment
  <2>5. QED
    BY <2>1, <2>3, <2>4
<1>7. CASE ChecksCapacity(d)
  <2>1. r \in [at : {"moving", "moves"}, a : DOMAIN assignment, k : Couriers]
    BY <1>1, <1>7, <1>types, RequestFields DEF ChecksCapacity
  <2> DEFINE q == [r EXCEPT !.at = "moves"]
  <2>2. q.at = "moves" /\ q.k = r.k /\ q.a = r.a
    BY <2>1
  <2>3. CASE HasRoomFor(r.k, 1)
    <3>1. Ask(d, q)
      BY <1>1, <1>7, <2>3 DEF ChecksCapacity
    <3> HIDE DEF q
    <3>2. Ready(q)
      BY <1>ready, <2>1, <2>2, <2>3 DEF Ready
    <3>3. QED
      BY <1>7, <1>types, <3>1, <3>2, LookingKeepsAssignInv DEF ChecksCapacity
  <2>4. CASE ~HasRoomFor(r.k, 1)
    <3>1. Ask(d, Idle)
      BY <1>1, <1>7, <2>4 DEF ChecksCapacity
    <3>2. QED
      BY <1>7, <1>types, <3>1, IdleIsReady, LookingKeepsAssignInv DEF ChecksCapacity
  <2>5. QED
    BY <2>3, <2>4
<1>8. CASE DispatchDies(d)
  BY <1>8, <1>types, IdleIsReady, LookingKeepsAssignInv DEF DispatchDies
<1>9. QED
  BY <1>types, <1>2, <1>3, <1>4, <1>5, <1>6, <1>7, <1>8, AssignsKeepsAssignInv,
     ReassignsKeepsAssignInv, CancelsKeepsAssignInv DEF DispatcherStep

(* What the steps of calls and tasks do to the assignments.                          *)
LEMMA TaskTouches ==
  ASSUME DispatchTypeOK, NEW c \in Callers \ Managers, TaskStep(c)
  PROVE  /\ UNCHANGED dispatcher
         /\ \/ UNCHANGED assignment /\ [Next]_vars
            \/ UNCHANGED vars /\ Completes(c)
<1>1. CASE Completes(c)
  BY <1>1 DEF Completes
<1>2. CASE UpdateBegins(c) \/ UpdateContinues(c) \/ UpdateReturns(c)
  <2>1. CallStep(c) /\ UNCHANGED <<assignment, dispatcher>>
    BY <1>2 DEF UpdateBegins, UpdateContinues, UpdateReturns, CallStep
  <2>2. QED
    BY <2>1 DEF Next
<1>3. QED
  BY <1>1, <1>2
  DEF TaskStep, ReadsTask, RereadsTask, FindsAssignment, RereadsAssignment, TaskFails

LEMMA CompletesEffect ==
  ASSUME DispatchTypeOK, NEW c \in Callers \ Managers, Completes(c)
  PROVE  /\ task[c].a \in DOMAIN assignment /\ DOMAIN assignment' = DOMAIN assignment
         /\ \A b \in DOMAIN assignment :
              /\ assignment'[b].s = assignment[b].s /\ assignment'[b].k = assignment[b].k
              /\ assignment'[b].status = IF b = task[c].a THEN "COMPLETED"
                                                          ELSE assignment[b].status
<1>1. PICK a : a = task[c].a
  OBVIOUS
<1>2. a \in DOMAIN assignment
  <2>1. task[c] \in [at : {"found", "completing"}, a : DOMAIN assignment]
    BY TaskFields DEF Completes
  <2>2. QED
    BY <1>1, <2>1
<1>3. assignment' = [assignment EXCEPT ![a].status = "COMPLETED"]
  BY <1>1 DEF Completes
<1>4. assignment \in Seq(AssignmentRow)
  BY DEF DispatchTypeOK
<1>5. QED
  BY <1>1, <1>2, <1>3, <1>4, CloseEffect

LEMMA AssignStep ==
  ASSUME OneDispatcher, AssignInv, [DispatchNext]_dispatchVars
  PROVE  AssignInv'
<1>types. TypeOK /\ DispatchTypeOK /\ DispatchTypeOK'
  BY DispatchTypesInductive DEF AssignInv, DispatchTypeOK
<1>1. ASSUME UNCHANGED <<assignment, dispatcher>>, [Next]_vars PROVE AssignInv'
  <2>1. \A s \in Shipments : shipment'[s].courier = shipment[s].courier
    BY <1>1, <1>types, CouriersStand
  <2>2. Active' \subseteq Active
    BY <1>1 DEF Active
  <2>3. QED
    BY <1>1, <1>types, <2>1, <2>2, OthersKeepAssignInv
<1>2. ASSUME NEW c \in Callers \ Managers, Completes(c) PROVE AssignInv'
  <2>1. Active' \subseteq Active
    BY <1>2, <1>types, CompletesEffect DEF Active
  <2>2. \A a \in DOMAIN assignment : /\ assignment'[a].s = assignment[a].s
                                     /\ assignment'[a].k = assignment[a].k
    BY <1>2, <1>types, CompletesEffect
  <2>3. UNCHANGED <<shipment, dispatcher>>
    BY <1>2 DEF Completes, vars
  <2>4. QED
    BY <1>types, <2>1, <2>2, <2>3, OthersKeepAssignInv
<1>3. ASSUME NEW c \in Managers, ManagerStep(c) PROVE AssignInv'
  BY <1>1, <1>3, DispatchAssumption DEF ManagerStep, Next
<1>4. CASE UNCHANGED dispatchVars
  BY <1>1, <1>4 DEF dispatchVars
<1>5. QED
  BY <1>1, <1>2, <1>3, <1>4, <1>types, TaskTouches, DispatcherKeepsAssignInv DEF DispatchNext

LEMMA AssignInitially == DispatchInit => AssignInv
<1> SUFFICES ASSUME DispatchInit PROVE AssignInv
  OBVIOUS
<1>1. Active = {}
  BY DEF DispatchInit, Active
<1>2. ASSUME NEW k \in Couriers PROVE Cardinality(ActiveOf(k)) <= EffectiveCapacity(k)
  <2>1. ActiveOf(k) = {}
    BY <1>1 DEF ActiveOf
  <2>2. QED
    BY <2>1, FS_EmptySet, CapacityIsNat
<1>3. \A d \in Dispatchers : dispatcher[d].at = "idle"
  BY DEF DispatchInit, Idle
<1>4. QED
  BY <1>1, <1>2, <1>3, DispatchTypesInitially
  DEF AssignInv, Books, LoneActive, CapacityRespected, CourierFollowsAssignment, LookupsHold,
      RoomLeft

LEMMA AssignHolds == ASSUME OneDispatcher PROVE DispatchSpec => []AssignInv
<1>1. AssignInv /\ [DispatchNext]_dispatchVars => AssignInv'
  BY AssignStep
<1>2. QED
  BY <1>1, AssignInitially, PTL DEF DispatchSpec

(* With one dispatcher a shipment has at most one ACTIVE assignment, whatever calls  *)
(* and tasks run meanwhile: the two reads of assignShipment are still true when it    *)
(* writes.                                                                       *)
THEOREM OneIsActive == ASSUME OneDispatcher PROVE DispatchSpec => []OneActiveAssignment
<1>1. AssignInv => OneActiveAssignment
  <2> SUFFICES ASSUME AssignInv, NEW s \in Shipments PROVE Cardinality(ActiveFor(s)) <= 1
    BY DEF OneActiveAssignment
  <2>1. CASE ActiveFor(s) = {}
    BY <2>1, FS_EmptySet
  <2>2. CASE ActiveFor(s) # {}
    <3>1. PICK a : a \in ActiveFor(s)
      BY <2>2
    <3>2. ActiveFor(s) = {a}
      BY <3>1 DEF AssignInv, Books, LoneActive, ActiveFor
    <3>3. Cardinality({a}) = 1
      BY FS_Singleton
    <3>4. QED
      BY <3>2, <3>3
  <2>3. QED
    BY <2>1, <2>2
<1>2. QED
  BY <1>1, AssignHolds, PTL

(* With one dispatcher no batch, move or completion takes a courier past 90 % of the  *)
(* maximum: there is still room for what was counted.                              *)
THEOREM CapacityStands == ASSUME OneDispatcher PROVE DispatchSpec => []CapacityRespected
<1>1. AssignInv => CapacityRespected
  BY DEF AssignInv, Books
<1>2. QED
  BY <1>1, AssignHolds, PTL

(* With one dispatcher the courier of an ACTIVE assignment is the shipment's.        *)
THEOREM TablesAgree == ASSUME OneDispatcher PROVE DispatchSpec => []CourierFollowsAssignment
<1>1. AssignInv => CourierFollowsAssignment
  BY DEF AssignInv, Books
<1>2. QED
  BY <1>1, AssignHolds, PTL

----------------------------------------------------------------------------
(* Completions and synced updates, for any actors *)

(* While a task updates, its call is the update; else there is no call.              *)
FollowsCall(c) ==
  IF task[c].at = "updating"
    THEN call[c].at # "idle" /\ call[c].s = task[c].s /\ call[c].new = task[c].new
    ELSE call[c].at = "idle"

(* A synced update is not behind the status it was compared with.                    *)
ComparedFirst(c) ==
  task[c].at \in {"synced", "mine", "updating"} /\ task[c].synced
    => ~ServerIsAhead(task[c].was, task[c].new)

IsDone(s) == s \in overtaken \/ shipment[s].status \in TERMINAL_STATUSES

(* A task that looks for the assignment to complete is of a shipment that is done.   *)
EndsDone(c) ==
  /\ task[c].at = "ending" => IsDone(task[c].s)
  /\ task[c].at \in {"found", "completing"} => IsDone(assignment[task[c].a].s)

Fits(c) == FollowsCall(c) /\ ComparedFirst(c) /\ EndsDone(c)

TasksFit == \A c \in Callers \ Managers : Fits(c)

TaskInv == DispatchTypeOK /\ AnnouncedInv /\ TasksFit /\ CompletedMeansDone

LEMMA IndexIsInt == ASSUME NEW st \in Statuses PROVE IndexOf(st) \in 1..9
<1>1. DOMAIN statusOrder = 1..9
  BY DEF statusOrder
<1>2. \E i \in DOMAIN statusOrder : statusOrder[i] = st
  <2>1. /\ statusOrder[1] = "PENDING" /\ statusOrder[2] = "PICKED_UP"
        /\ statusOrder[3] = "IN_WAREHOUSE" /\ statusOrder[4] = "OUT_FOR_DELIVERY"
        /\ statusOrder[5] = "DELIVERED" /\ statusOrder[6] = "FAILED"
        /\ statusOrder[7] = "POSTPONED" /\ statusOrder[8] = "RETURNED"
        /\ statusOrder[9] = "CANCELLED"
    BY DEF statusOrder
  <2>2. 1 \in 1..9 /\ 2 \in 1..9 /\ 3 \in 1..9 /\ 4 \in 1..9 /\ 5 \in 1..9 /\ 6 \in 1..9
        /\ 7 \in 1..9 /\ 8 \in 1..9 /\ 9 \in 1..9
    OBVIOUS
  <2>3. QED
    BY <1>1, <2>1, <2>2, StatusesAre
<1>3. QED
  BY <1>1, <1>2, Zenon DEF IndexOf

(* A repeated status is no step back.                                               *)
LEMMA SameIsNotAhead == ASSUME NEW st \in Statuses PROVE ~ServerIsAhead(st, st)
<1>1. IndexOf(st) \in 1..9
  BY IndexIsInt
<1>2. QED
  BY <1>1 DEF ServerIsAhead

(* A step of an update that has begun.                                              *)
LEMMA UpdateEffect ==
  ASSUME TypeOK, NEW c \in Callers, call[c].at # "idle", CallStep(c)
  PROVE  /\ call'[c] = Idle \/ /\ call'[c].at # "idle"
                               /\ call'[c].s = call[c].s /\ call'[c].new = call[c].new
         /\ call'[c].at \in {"otp", "guess", "checked"} =>
              call[c].at \in {"otp", "guess"} /\ UNCHANGED shipment
         /\ \A s \in Shipments :
              \/ shipment'[s].status = shipment[s].status
              \/ call[c].at = "checked" /\ s = call[c].s /\ shipment'[s].status = call[c].new
<1>types. call \in [Callers -> UpdateCall \cup {Idle}] /\ call[c] \in UpdateCall /\ Idle.at = "idle"
  BY CallFields, IdleIsNoUpdate DEF TypeOK
<1>goes. ASSUME NEW at \in {"guess", "checked", "committed", "logged"}, Leaves(c, at)
         PROVE  call'[c].at = at /\ call'[c].s = call[c].s /\ call'[c].new = call[c].new
  BY <1>goes, <1>types DEF Leaves, UpdateCall
<1>ends. Ends(c) => call'[c] = Idle
  BY <1>types DEF Ends
<1>1. CASE ReadsAttempts(c) \/ ComparesOtp(c) \/ WritesLog(c) \/ EmitsEvents(c) \/ Dies(c)
  <2>1. UNCHANGED shipment
    BY <1>1 DEF ReadsAttempts, ComparesOtp, WritesLog, EmitsEvents, Dies
  <2>2. \/ Ends(c)
        \/ Leaves(c, "guess") /\ call[c].at = "otp"
        \/ Leaves(c, "checked") /\ call[c].at = "guess"
        \/ Leaves(c, "logged")
    BY <1>1 DEF ReadsAttempts, ComparesOtp, WritesLog, EmitsEvents, Dies
  <2>3. QED
    BY <1>types, <1>goes, <1>ends, <2>1, <2>2
<1>2. CASE Commits(c)
  <2>1. /\ Leaves(c, "committed") /\ call[c].at = "checked"
        /\ shipment' = [shipment EXCEPT ![call[c].s] =
                          ShipmentUpdate(call[c], shipment[call[c].s])]
    BY <1>2 DEF Commits
  <2>2. shipment \in [Shipments -> ShipmentRow] /\ call[c].s \in Shipments
    BY <1>types DEF TypeOK, UpdateCall
  <2>3. ShipmentUpdate(call[c], shipment[call[c].s]).status = call[c].new
    BY <2>2 DEF ShipmentUpdate, ShipmentRow
  <2>4. QED
    BY <1>goes, <2>1, <2>2, <2>3
<1>3. QED
  BY <1>1, <1>2 DEF CallStep, ReadsShipment

(* A dispatcher moves the courier column, opens assignments and cancels them.         *)
LEMMA DispatcherTouches ==
  ASSUME DispatchTypeOK, NEW d \in Dispatchers, DispatcherStep(d)
  PROVE  /\ UNCHANGED <<call, announced, overtaken, task>>
         /\ \A s \in Shipments : /\ shipment'[s].status = shipment[s].status
                                 /\ shipment'[s].cash = shipment[s].cash
         /\ \A b \in DOMAIN assignment : /\ b \in DOMAIN assignment'
                                         /\ assignment'[b].s = assignment[b].s
         /\ \A b \in DOMAIN assignment' :
              assignment'[b].status = "COMPLETED" =>
                b \in DOMAIN assignment /\ assignment[b].status = "COMPLETED"
<1>types. TypeOK /\ assignment \in Seq(AssignmentRow)
  BY DEF DispatchTypeOK
<1>1. PICK r : r = dispatcher[d]
  OBVIOUS
<1>2. CASE Assigns(d)
  <2>1. r \in [at : {"taken", "free"}, k : Couriers, left : SUBSET Shipments, s : Shipments]
    BY <1>1, <1>2, RequestFields DEF Assigns
  <2>2. r.k \in Couriers /\ r.s \in Shipments
    BY <2>1
  <2>3. /\ assignment' = Append(assignment, NewAssignment(r.s, r.k))
        /\ shipment' = [shipment EXCEPT ![r.s].courier = r.k]
        /\ UNCHANGED <<courier, deposits, attempts, timeline, announced, overtaken, call,
                       depositing, calls, task>>
    BY <1>1, <1>2 DEF Assigns
  <2>4. QED
    BY <1>types, <2>2, <2>3, OpenEffect, ColumnKeepsTypes
<1>3. CASE Reassigns(d)
  <2>1. r \in [at : {"moving", "moves"}, a : DOMAIN assignment, k : Couriers]
    BY <1>1, <1>3, RequestFields DEF Reassigns
  <2>2. PICK a : a = r.a /\ a \in DOMAIN assignment
    BY <2>1
  <2>3. PICK s : s = assignment[a].s /\ s \in Shipments
    BY <1>types, <2>2, RowFields
  <2>4. PICK p : p = [assignment EXCEPT ![a].status = "CANCELLED"]
    OBVIOUS
  <2>5. /\ assignment' = Append(p, NewAssignment(s, r.k)) /\ r.k \in Couriers
        /\ shipment' = [shipment EXCEPT ![s].courier = r.k]
        /\ UNCHANGED <<courier, deposits, attempts, timeline, announced, overtaken, call,
                       depositing, calls, task>>
    BY <1>1, <1>3, <2>1, <2>2, <2>3, <2>4 DEF Reassigns
  <2>6. /\ p \in Seq(AssignmentRow) /\ DOMAIN p = DOMAIN assignment
        /\ \A b \in DOMAIN assignment :
             /\ p[b].s = assignment[b].s
             /\ p[b].status = IF b = a THEN "CANCELLED" ELSE assignment[b].status
    BY <1>types, <2>2, <2>4, CloseEffect
  <2>7. /\ DOMAIN assignment' = DOMAIN p \cup {Len(p) + 1}
        /\ assignment'[Len(p) + 1].status = "ACTIVE"
        /\ \A b \in DOMAIN p : assignment'[b] = p[b]
    BY <2>3, <2>5, <2>6, OpenEffect
  <2>8. QED
    BY <1>types, <2>3, <2>5, <2>6, <2>7, ColumnKeepsTypes
<1>4. CASE Cancels(d)
  <2>1. r \in [at : {"cancelling"}, a : DOMAIN assignment]
    BY <1>1, <1>4, RequestFields DEF Cancels
  <2>2. PICK a : a = r.a /\ a \in DOMAIN assignment
    BY <2>1
  <2>3. PICK s : s = assignment[a].s /\ s \in Shipments
    BY <1>types, <2>2, RowFields
  <2>4. /\ assignment' = [assignment EXCEPT ![a].status = "CANCELLED"]
        /\ shipment' = [shipment EXCEPT ![s].courier = NoCourier]
        /\ UNCHANGED <<courier, deposits, attempts, timeline, announced, overtaken, call,
                       depositing, calls, task>>
    BY <1>1, <1>4, <2>2, <2>3 DEF Cancels
  <2>5. QED
    BY <1>types, <2>2, <2>3, <2>4, CloseEffect, ColumnKeepsTypes
<1>5. CASE UNCHANGED <<vars, assignment, task>>
  BY <1>5 DEF vars
<1>6. QED
  BY <1>2, <1>3, <1>4, <1>5
  DEF DispatcherStep, StartsBatch, TakesShipment, LooksForActive, AssignFails, ReadsAssignment,
      ChecksCapacity, DispatchDies

(* What is done stays done, whoever updates the shipment.                           *)
LEMMA DoneStays ==
  ASSUME TypeOK, CallIsChecked, NEW c \in Callers, CallStep(c), NEW s \in Shipments, IsDone(s)
  PROVE  IsDone(s)'
<1>1. CASE Commits(c)
  BY <1>1, TerminalStands DEF IsDone
<1>2. CASE ~Commits(c)
  BY <1>2
  DEF CallStep, ReadsShipment, ReadsAttempts, ComparesOtp, WritesLog, EmitsEvents, Dies, IsDone
<1>3. QED
  BY <1>1, <1>2

LEMMA CallsOfOthers ==
  ASSUME TypeOK, NEW c \in Callers, CallStep(c)
  PROVE  \A e \in Callers \ {c} : call'[e] = call[e]
BY DEF TypeOK, CallStep, ReadsShipment, ReadsAttempts, ComparesOtp, Commits, WritesLog,
       EmitsEvents, Dies, Leaves, Ends

(* A task nobody touches fits after a step that leaves done what is.                  *)
LEMMA UntouchedFits ==
  ASSUME TaskInv, NEW e \in Callers \ Managers, task'[e] = task[e], call'[e] = call[e],
         \A s \in Shipments : IsDone(s) => IsDone(s)',
         \A b \in DOMAIN assignment : assignment'[b].s = assignment[b].s
  PROVE  Fits(e)'
<1>1. DispatchTypeOK /\ FollowsCall(e) /\ ComparedFirst(e) /\ EndsDone(e)
  BY DEF TaskInv, TasksFit, Fits
<1>2. /\ task[e].at = "ending" => task[e].s \in Shipments
      /\ task[e].at \in {"found", "completing"} =>
           task[e].a \in DOMAIN assignment /\ assignment[task[e].a].s \in Shipments
  <2>1. assignment \in Seq(AssignmentRow)
    BY <1>1 DEF DispatchTypeOK
  <2>2. /\ task[e].at = "ending" => task[e].s \in Shipments
        /\ task[e].at \in {"found", "completing"} => task[e].a \in DOMAIN assignment
    BY <1>1, TaskFields
  <2>3. QED
    BY <2>1, <2>2, RowFields
<1>3. FollowsCall(e)'
  BY <1>1 DEF FollowsCall
<1>4. ComparedFirst(e)'
  BY <1>1 DEF ComparedFirst, ServerIsAhead, IndexOf
<1>5. EndsDone(e)'
  <2>1. task[e].at = "ending" => IsDone(task[e].s)'
    BY <1>1, <1>2 DEF EndsDone
  <2>2. task[e].at \in {"found", "completing"} => IsDone(assignment[task[e].a].s)'
    <3> SUFFICES ASSUME task[e].at \in {"found", "completing"}
                 PROVE  IsDone(assignment[task[e].a].s)'
      OBVIOUS
    <3>1. PICK s : s = assignment[task[e].a].s /\ s \in Shipments
      BY <1>2
    <3>2. IsDone(s)
      BY <1>1, <3>1 DEF EndsDone
    <3>3. (s \in overtaken)' \/ (shipment[s].status \in TERMINAL_STATUSES)'
      BY <3>1, <3>2 DEF IsDone
    <3>4. assignment'[task[e].a].s = s
      BY <1>2, <3>1
    <3>5. QED
      BY <3>3, <3>4 DEF IsDone
  <2>3. QED
    BY <1>2, <2>1, <2>2 DEF EndsDone, IsDone
<1>6. QED
  BY <1>3, <1>4, <1>5 DEF Fits

(* The task that moves fits, and the others are untouched: all tasks fit.              *)
LEMMA AllFit ==
  ASSUME TaskInv, NEW c \in Callers, NEW t, Fits(c)' \/ c \in Managers,
         Work(c, t) \/ UNCHANGED task,
         CallStep(c) \/ UNCHANGED vars,
         \A b \in DOMAIN assignment : assignment'[b].s = assignment[b].s
  PROVE  TasksFit'
<1>types. TypeOK /\ task \in [Callers \ Managers -> TaskCall] /\ CallIsChecked
  BY DEF TaskInv, AnnouncedInv, DispatchTypeOK
<1>1. \A s \in Shipments : IsDone(s) => IsDone(s)'
  <2>1. CASE CallStep(c)
    BY <1>types, <2>1, DoneStays
  <2>2. CASE UNCHANGED vars
    BY <2>2 DEF vars, IsDone
  <2>3. QED
    BY <2>1, <2>2
<1>2. \A e \in Callers \ {c} : call'[e] = call[e]
  BY <1>types, CallsOfOthers DEF vars
<1>3. \A e \in (Callers \ Managers) \ {c} : task'[e] = task[e]
  BY <1>types DEF Work
<1>4. \A e \in (Callers \ Managers) \ {c} : Fits(e)'
  BY <1>1, <1>2, <1>3, UntouchedFits
<1>5. \A e \in Callers \ Managers : Fits(e)'
  BY <1>4
<1>6. QED
  BY <1>5 DEF TasksFit

LEMMA DispatcherKeepsTaskInv ==
  ASSUME TaskInv, NEW d \in Dispatchers, DispatcherStep(d)
  PROVE  TaskInv'
<1>types. DispatchTypeOK /\ DispatchTypeOK' /\ TypeOK' /\ assignment \in Seq(AssignmentRow)
  BY DispatcherKeepsTypes DEF TaskInv, DispatchTypeOK
<1>1. /\ UNCHANGED <<call, announced, overtaken, task>>
      /\ \A s \in Shipments : /\ shipment'[s].status = shipment[s].status
                              /\ shipment'[s].cash = shipment[s].cash
      /\ \A b \in DOMAIN assignment : assignment'[b].s = assignment[b].s
      /\ \A b \in DOMAIN assignment' :
           assignment'[b].status = "COMPLETED" =>
             b \in DOMAIN assignment /\ assignment[b].status = "COMPLETED"
  BY <1>types, DispatcherTouches
<1>2. \A b \in DOMAIN assignment : assignment[b].s \in Shipments
  BY <1>types, RowFields
<1>3. AnnouncedInv'
  <2>1. \A c \in Callers : call[c].at # "idle" => call[c].s \in Shipments
    BY CallFields DEF TaskInv, AnnouncedInv
  <2>2. CallIsChecked' /\ CommittedStands'
    BY <1>1, <2>1 DEF TaskInv, AnnouncedInv, CallIsChecked, CommittedStands, NeedsOtp
  <2>3. DeliveredHasCash' /\ AnnouncedMeansDelivered'
    BY <1>1, DeliveryAssumption
    DEF TaskInv, AnnouncedInv, DeliveredHasCash, AnnouncedMeansDelivered
  <2>4. QED
    BY <1>types, <2>2, <2>3 DEF AnnouncedInv
<1>4. CompletedMeansDone'
  BY <1>1, <1>2 DEF TaskInv, CompletedMeansDone
<1>5. \A s \in Shipments : IsDone(s) => IsDone(s)'
  BY <1>1 DEF IsDone
<1>6. \A e \in Callers \ Managers : Fits(e)'
  BY <1>1, <1>5, UntouchedFits
<1>7. TasksFit'
  BY <1>6 DEF TasksFit
<1>8. QED
  BY <1>types, <1>3, <1>4, <1>7 DEF TaskInv

LEMMA WorkEffect ==
  ASSUME DispatchTypeOK, NEW c \in Callers \ Managers, NEW t, Work(c, t)
  PROVE  task'[c] = t
BY DEF Work, DispatchTypeOK

(* A step of an update leaves completed what is done.                               *)
LEMMA CallKeepsDone ==
  ASSUME TaskInv, NEW c \in Callers, CallStep(c), UNCHANGED assignment
  PROVE  AnnouncedInv' /\ CompletedMeansDone'
<1>1. TypeOK /\ TypeOK' /\ CallIsChecked
  BY CallStepKeepsTypes DEF TaskInv, AnnouncedInv
<1>2. AnnouncedInv'
  BY <1>1, CallKeepsAnnounced DEF TaskInv, AnnouncedInv
<1>3. CompletedMeansDone'
  <2> SUFFICES ASSUME NEW a \in DOMAIN assignment, assignment[a].status = "COMPLETED",
                      assignment[a].s \notin overtaken'
               PROVE  shipment'[assignment[a].s].status \in TERMINAL_STATUSES
    BY DEF CompletedMeansDone
  <2>1. PICK s : s = assignment[a].s /\ s \in Shipments
    BY RowFields DEF TaskInv, DispatchTypeOK
  <2>2. IsDone(s)
    BY <2>1 DEF TaskInv, CompletedMeansDone, IsDone
  <2>3. IsDone(s)'
    BY <1>1, <2>1, <2>2, DoneStays
  <2>4. s \in overtaken' \/ shipment'[s].status \in TERMINAL_STATUSES
    BY <2>3 DEF IsDone
  <2>5. QED
    BY <2>1, <2>4
<1>4. QED
  BY <1>2, <1>3

LEMMA QuietKeepsDone ==
  ASSUME TaskInv, DispatchTypeOK', UNCHANGED vars
  PROVE  AnnouncedInv' /\ (UNCHANGED assignment => CompletedMeansDone')
<1>1. TypeOK'
  BY DEF DispatchTypeOK
<1>2. QED
  BY <1>1
  DEF TaskInv, AnnouncedInv, CallIsChecked, CommittedStands, DeliveredHasCash,
      AnnouncedMeansDelivered, vars, NeedsOtp, CompletedMeansDone

(* Steps of a task that leave calls and shipments alone.                             *)
LEMMA QuietTask ==
  ASSUME TaskInv, DispatchTypeOK', NEW c \in Callers \ Managers, NEW t, Work(c, t),
         UNCHANGED <<vars, assignment>>, task[c].at # "updating", task'[c].at # "updating",
         ComparedFirst(c)', EndsDone(c)'
  PROVE  TaskInv'
<1>1. AnnouncedInv' /\ CompletedMeansDone'
  BY QuietKeepsDone
<1>2. FollowsCall(c)'
  BY DEF TaskInv, TasksFit, Fits, FollowsCall, vars
<1>3. Fits(c)'
  BY <1>2 DEF Fits
<1>4. TasksFit'
  BY <1>3, AllFit
<1>5. QED
  BY <1>1, <1>4 DEF TaskInv

(* The update under way, from its first step to the event.                          *)
LEMMA UpdateKeepsTaskInv ==
  ASSUME TaskInv, DispatchTypeOK', NEW c \in Callers \ Managers,
         UpdateBegins(c) \/ UpdateContinues(c) \/ UpdateReturns(c)
  PROVE  TaskInv'
<1>types. /\ DispatchTypeOK /\ TypeOK /\ call \in [Callers -> UpdateCall \cup {Idle}]
          /\ Idle.at = "idle"
  BY IdleIsNoUpdate DEF TaskInv, DispatchTypeOK, TypeOK
<1>1. CallStep(c) /\ UNCHANGED assignment
  BY DEF UpdateBegins, UpdateContinues, UpdateReturns, CallStep
<1>2. AnnouncedInv' /\ CompletedMeansDone'
  BY <1>1, CallKeepsDone
<1>fits. FollowsCall(c) /\ ComparedFirst(c)
  BY DEF TaskInv, TasksFit, Fits
<1>ends. ASSUME NEW t, Work(c, t), FollowsCall(c)', ComparedFirst(c)', EndsDone(c)'
         PROVE  TaskInv'
  <2>1. Fits(c)'
    BY <1>ends DEF Fits
  <2>2. TasksFit'
    BY <1>1, <1>ends, <2>1, AllFit
  <2>3. QED
    BY <1>2, <2>2 DEF TaskInv
<1>3. CASE UpdateBegins(c)
  <2>1. PICK t : t = task[c] /\ t.at = "mine"
    BY <1>3 DEF UpdateBegins
  <2>2. Work(c, [t EXCEPT !.at = "updating"]) /\ task'[c] = [t EXCEPT !.at = "updating"]
    BY <1>3, <1>types, <2>1, WorkEffect DEF UpdateBegins
  <2>3. t \in [at : {"synced", "mine", "updating", "ending"}, s : Shipments,
               new : Statuses, synced : BOOLEAN, was : Statuses]
    BY <1>types, <2>1, TaskFields
  <2>4. /\ task'[c].at = "updating" /\ task'[c].s = t.s /\ task'[c].new = t.new
        /\ task'[c].synced = t.synced /\ task'[c].was = t.was
    BY <2>2, <2>3
  <2>5. call'[c].at # "idle" /\ call'[c].s = t.s /\ call'[c].new = t.new
    BY <1>3, <1>types, <2>1 DEF UpdateBegins, ReadsShipment
  <2>6. FollowsCall(c)' /\ ComparedFirst(c)' /\ EndsDone(c)'
    BY <1>fits, <2>1, <2>4, <2>5 DEF FollowsCall, ComparedFirst, EndsDone, ServerIsAhead, IndexOf
  <2>7. QED
    BY <1>ends, <2>2, <2>6
<1>4. CASE UpdateContinues(c)
  <2>1. PICK t : t = task[c] /\ t.at = "updating"
    BY <1>4 DEF UpdateContinues
  <2>2. call[c].at # "idle" /\ call[c].s = t.s /\ call[c].new = t.new
    BY <1>fits, <2>1 DEF FollowsCall
  <2>3. /\ Work(c, IF call'[c] = Idle THEN Idle ELSE t)
        /\ task'[c] = IF call'[c] = Idle THEN Idle ELSE t
    BY <1>4, <1>types, <2>1, WorkEffect DEF UpdateContinues
  <2>4. CASE call'[c] = Idle
    <3>1. task'[c].at = "idle" /\ call'[c].at = "idle"
      BY <1>types, <2>3, <2>4
    <3>2. FollowsCall(c)' /\ ComparedFirst(c)' /\ EndsDone(c)'
      BY <3>1 DEF FollowsCall, ComparedFirst, EndsDone
    <3>3. QED
      BY <1>ends, <2>3, <3>2
  <2>5. CASE call'[c] # Idle
    <3>1. task'[c] = task[c]
      BY <2>1, <2>3, <2>5
    <3>2. call'[c].at # "idle" /\ call'[c].s = call[c].s /\ call'[c].new = call[c].new
      BY <1>1, <1>types, <2>2, <2>5, UpdateEffect
    <3>3. FollowsCall(c)'
      BY <2>1, <2>2, <3>1, <3>2 DEF FollowsCall
    <3>4. ComparedFirst(c)'
      BY <1>fits, <3>1 DEF ComparedFirst, ServerIsAhead, IndexOf
    <3>5. EndsDone(c)'
      BY <2>1, <3>1 DEF EndsDone
    <3>6. QED
      BY <1>ends, <2>3, <3>3, <3>4, <3>5
  <2>6. QED
    BY <2>4, <2>5
<1>5. CASE UpdateReturns(c)
  <2>1. PICK t : t = task[c] /\ t.at = "updating"
    BY <1>5 DEF UpdateReturns
  <2>2. t \in [at : {"synced", "mine", "updating", "ending"}, s : Shipments,
               new : Statuses, synced : BOOLEAN, was : Statuses]
    BY <1>types, <2>1, TaskFields
  <2>3. /\ Work(c, IF EndsTask(t.new) THEN [t EXCEPT !.at = "ending"] ELSE Idle)
        /\ task'[c] = IF EndsTask(t.new) THEN [t EXCEPT !.at = "ending"] ELSE Idle
    BY <1>5, <1>types, <2>1, WorkEffect DEF UpdateReturns
  <2>4. /\ call[c].at = "logged" /\ call[c].new = t.new /\ call[c].s = t.s
        /\ call'[c].at = "idle" /\ UNCHANGED <<shipment, overtaken>>
    BY <1>5, <1>fits, <1>types, <2>1 DEF UpdateReturns, EmitsEvents, Ends, FollowsCall
  <2>5. t.new \in TERMINAL_STATUSES => t.s \in overtaken \/ shipment[t.s].status = t.new
    BY <2>4 DEF TaskInv, AnnouncedInv, CommittedStands
  <2>6. \/ task'[c].at = "ending" /\ task'[c].s = t.s /\ EndsTask(t.new)
        \/ task'[c].at = "idle"
    BY <1>types, <2>2, <2>3
  <2>7. task'[c].at = "ending" => IsDone(t.s)'
    BY <2>4, <2>5, <2>6 DEF EndsTask, TERMINAL_STATUSES, IsDone
  <2>8. FollowsCall(c)' /\ ComparedFirst(c)' /\ EndsDone(c)'
    BY <2>4, <2>6, <2>7 DEF FollowsCall, ComparedFirst, EndsDone, IsDone
  <2>9. QED
    BY <1>ends, <2>3, <2>8
<1>6. QED
  BY <1>3, <1>4, <1>5

LEMMA TaskKeepsTaskInv ==
  ASSUME TaskInv, NEW c \in Callers \ Managers, TaskStep(c)
  PROVE  TaskInv'
<1>types. /\ DispatchTypeOK /\ DispatchTypeOK' /\ assignment \in Seq(AssignmentRow)
          /\ Idle.at = "idle"
  BY TaskKeepsTypes, IdleIsNoUpdate DEF TaskInv, DispatchTypeOK
<1>fits. FollowsCall(c) /\ ComparedFirst(c) /\ EndsDone(c)
  BY DEF TaskInv, TasksFit, Fits
<1>t. PICK t : t = task[c]
  OBVIOUS
<1>rests. ASSUME UNCHANGED <<vars, assignment>>, t.at # "updating", Work(c, Idle) PROVE TaskInv'
  <2>1. task'[c].at = "idle"
    BY <1>rests, <1>types, WorkEffect
  <2>2. ComparedFirst(c)' /\ EndsDone(c)'
    BY <2>1 DEF ComparedFirst, EndsDone
  <2>3. QED
    BY <1>rests, <1>types, <1>t, <2>1, <2>2, QuietTask
<1>1. CASE ReadsTask(c)
  <2>1. PICK s \in Shipments, new \in Statuses, synced \in BOOLEAN :
          /\ synced => ~ServerIsAhead(shipment[s].status, new)
          /\ Work(c, [at |-> IF synced THEN "synced" ELSE "mine", s |-> s, new |-> new,
                      synced |-> synced, was |-> shipment[s].status])
    BY <1>1 DEF ReadsTask
  <2>2. task'[c] = [at |-> IF synced THEN "synced" ELSE "mine", s |-> s, new |-> new,
                    synced |-> synced, was |-> shipment[s].status]
    BY <1>types, <2>1, WorkEffect
  <2>3. /\ task'[c].at \in {"synced", "mine"} /\ task'[c].s = s /\ task'[c].new = new
        /\ task'[c].synced = synced /\ task'[c].was = shipment[s].status
    BY <2>2
  <2>4. UNCHANGED <<vars, assignment>> /\ t.at = "idle"
    BY <1>1, <1>t DEF ReadsTask
  <2>5. ComparedFirst(c)' /\ EndsDone(c)'
    BY <2>1, <2>3 DEF ComparedFirst, EndsDone, ServerIsAhead, IndexOf
  <2>6. QED
    BY <1>types, <1>t, <2>1, <2>3, <2>4, <2>5, QuietTask
<1>2. CASE RereadsTask(c)
  <2>1. /\ UNCHANGED <<vars, assignment>> /\ t.at = "synced"
        /\ Work(c, [t EXCEPT !.at = "mine"]) \/ Work(c, Idle)
    BY <1>2, <1>t DEF RereadsTask
  <2>2. CASE Work(c, [t EXCEPT !.at = "mine"])
    <3>1. t \in [at : {"synced", "mine", "updating", "ending"}, s : Shipments,
                 new : Statuses, synced : BOOLEAN, was : Statuses]
      BY <1>types, <1>t, <2>1, TaskFields
    <3>2. task'[c] = [t EXCEPT !.at = "mine"]
      BY <1>types, <2>2, WorkEffect
    <3>3. /\ task'[c].at = "mine" /\ task'[c].s = t.s /\ task'[c].new = t.new
          /\ task'[c].synced = t.synced /\ task'[c].was = t.was
      BY <3>1, <3>2
    <3>4. ComparedFirst(c)' /\ EndsDone(c)'
      BY <1>fits, <1>t, <2>1, <3>3 DEF ComparedFirst, EndsDone, ServerIsAhead, IndexOf
    <3>5. QED
      BY <1>types, <1>t, <2>1, <2>2, <3>3, <3>4, QuietTask
  <2>3. QED
    BY <1>rests, <2>1, <2>2
<1>3. CASE FindsAssignment(c)
  <2>1. /\ UNCHANGED <<vars, assignment>> /\ t.at = "ending"
        /\ Work(c, Idle) \/ \E a \in ActiveFor(t.s) : Work(c, [at |-> "found", a |-> a])
    BY <1>3, <1>t DEF FindsAssignment
  <2>2. ASSUME NEW a \in ActiveFor(t.s), Work(c, [at |-> "found", a |-> a]) PROVE TaskInv'
    <3>1. assignment[a].s = t.s
      BY DEF ActiveFor
    <3>2. task'[c].at = "found" /\ task'[c].a = a
      BY <1>types, <2>2, WorkEffect
    <3>3. ComparedFirst(c)' /\ EndsDone(c)'
      BY <1>fits, <1>t, <2>1, <3>1, <3>2 DEF ComparedFirst, EndsDone, vars, IsDone
    <3>4. QED
      BY <1>types, <1>t, <2>1, <2>2, <3>2, <3>3, QuietTask
  <2>3. QED
    BY <1>rests, <2>1, <2>2
<1>4. CASE RereadsAssignment(c)
  <2>1. /\ UNCHANGED <<vars, assignment>> /\ t.at = "found"
        /\ Work(c, [t EXCEPT !.at = "completing"]) \/ Work(c, Idle)
    BY <1>4, <1>t DEF RereadsAssignment
  <2>2. CASE Work(c, [t EXCEPT !.at = "completing"])
    <3>1. t \in [at : {"found", "completing"}, a : DOMAIN assignment]
      BY <1>types, <1>t, <2>1, TaskFields
    <3>2. task'[c] = [t EXCEPT !.at = "completing"]
      BY <1>types, <2>2, WorkEffect
    <3>3. task'[c].at = "completing" /\ task'[c].a = t.a
      BY <3>1, <3>2
    <3>4. ComparedFirst(c)' /\ EndsDone(c)'
      BY <1>fits, <1>t, <2>1, <3>3 DEF ComparedFirst, EndsDone, vars, IsDone
    <3>5. QED
      BY <1>types, <1>t, <2>1, <2>2, <3>3, <3>4, QuietTask
  <2>3. QED
    BY <1>rests, <2>1, <2>2
<1>5. CASE Completes(c)
  <2>1. PICK a : a = t.a /\ a \in DOMAIN assignment
    BY <1>5, <1>types, <1>t, CompletesEffect
  <2>2. /\ DOMAIN assignment' = DOMAIN assignment
        /\ \A b \in DOMAIN assignment :
             /\ assignment'[b].s = assignment[b].s
             /\ assignment'[b].status = IF b = a THEN "COMPLETED" ELSE assignment[b].status
    BY <1>5, <1>types, <1>t, <2>1, CompletesEffect
  <2>3. UNCHANGED vars /\ t.at = "completing" /\ task'[c].at = "idle" /\ Work(c, Idle)
    BY <1>5, <1>types, <1>t, WorkEffect DEF Completes
  <2>4. IsDone(assignment[a].s)
    BY <1>fits, <1>t, <2>1, <2>3 DEF EndsDone
  <2>5. CompletedMeansDone'
    BY <2>1, <2>2, <2>3, <2>4 DEF TaskInv, CompletedMeansDone, vars, IsDone
  <2>6. Fits(c)'
    BY <1>fits, <1>t, <2>3 DEF FollowsCall, ComparedFirst, EndsDone, vars, Fits
  <2>7. AnnouncedInv'
    BY <1>types, <2>3, QuietKeepsDone
  <2>8. TasksFit'
    BY <2>2, <2>3, <2>6, AllFit
  <2>9. QED
    BY <1>types, <2>5, <2>7, <2>8 DEF TaskInv
<1>6. CASE TaskFails(c)
  BY <1>6, <1>rests, <1>t DEF TaskFails
<1>7. QED
  BY <1>types, <1>1, <1>2, <1>3, <1>4, <1>5, <1>6, UpdateKeepsTaskInv DEF TaskStep

LEMMA TaskInvStep ==
  ASSUME TaskInv, [DispatchNext]_dispatchVars
  PROVE  TaskInv'
<1>types. DispatchTypeOK'
  BY DispatchTypesInductive DEF TaskInv
<1>1. ASSUME NEW m \in Managers, ManagerStep(m) PROVE TaskInv'
  <2>1. m \in Callers /\ CallStep(m) /\ UNCHANGED <<assignment, task>>
    BY <1>1, DispatchAssumption DEF ManagerStep
  <2>2. TasksFit'
    BY <2>1, AllFit
  <2>3. QED
    BY <1>types, <2>1, <2>2, CallKeepsDone DEF TaskInv
<1>2. CASE UNCHANGED dispatchVars
  <2>1. UNCHANGED <<vars, assignment, task>>
    BY <1>2 DEF dispatchVars
  <2>2. AnnouncedInv' /\ CompletedMeansDone'
    BY <1>types, <2>1, QuietKeepsDone
  <2>3. \A e \in Callers \ Managers : Fits(e)'
    BY <2>1, UntouchedFits DEF vars, IsDone
  <2>4. TasksFit'
    BY <2>3 DEF TasksFit
  <2>5. QED
    BY <1>types, <2>2, <2>4 DEF TaskInv
<1>3. QED
  BY <1>1, <1>2, DispatcherKeepsTaskInv, TaskKeepsTaskInv DEF DispatchNext

LEMMA TaskInvInitially == DispatchInit => TaskInv
<1> SUFFICES ASSUME DispatchInit PROVE TaskInv
  OBVIOUS
<1>1. /\ \A c \in Callers \ Managers : task[c].at = "idle" /\ call[c].at = "idle"
      /\ DOMAIN assignment = {}
  BY IdleIsNoUpdate DEF DispatchInit, Init
<1>2. AnnouncedInv
  BY AnnouncedInitially DEF DispatchInit
<1>3. TasksFit /\ CompletedMeansDone
  BY <1>1 DEF TasksFit, Fits, FollowsCall, ComparedFirst, EndsDone, CompletedMeansDone
<1>4. QED
  BY <1>2, <1>3, DispatchTypesInitially DEF TaskInv

LEMMA TaskInvHolds == DispatchSpec => []TaskInv
<1>1. TaskInv /\ [DispatchNext]_dispatchVars => TaskInv'
  BY TaskInvStep
<1>2. QED
  BY <1>1, TaskInvInitially, PTL DEF DispatchSpec

(* An assignment is COMPLETED only for a shipment that is done, whatever any           *)
(* dispatchers moved or cancelled between the update and its completion, and whoever   *)
(* else updates the shipment: unless one wrote over a status it had not read.          *)
THEOREM CompletedIsDone == DispatchSpec => []CompletedMeansDone
<1>1. TaskInv => CompletedMeansDone
  BY DEF TaskInv
<1>2. QED
  BY <1>1, TaskInvHolds, PTL

(* A delivery that was announced stays, with its cash, while any couriers and managers *)
(* update it and any dispatchers assign, move and cancel: unless an update was          *)
(* written over a status it had not read.                                           *)
THEOREM AnnouncedStaysWithTasks == DispatchSpec => []AnnouncedMeansDelivered
<1>1. TaskInv => AnnouncedMeansDelivered
  BY DEF TaskInv, AnnouncedInv
<1>2. QED
  BY <1>1, TaskInvHolds, PTL

SyncStep ==
  \A c \in Callers \ Managers :
    LET s == task[c].s IN
    task[c].at = "updating" /\ task[c].synced
      /\ call[c].at = "checked" /\ call'[c].at = "committed"
      /\ ServerIsAhead(shipment[s].status, shipment'[s].status)
      => shipment[s].status # task[c].was

LEMMA StepsKeepOrder ==
  ASSUME TaskInv, [DispatchNext]_dispatchVars
  PROVE  SyncStep
<1> SUFFICES ASSUME NEW c \in Callers \ Managers, NEW s, s = task[c].s,
                    task[c].at = "updating", task[c].synced,
                    call[c].at = "checked", call'[c].at = "committed",
                    shipment[s].status = task[c].was
             PROVE  ~ServerIsAhead(shipment[s].status, shipment'[s].status)
  BY DEF SyncStep
<1>types. /\ DispatchTypeOK /\ TypeOK /\ s \in Shipments /\ shipment[s].status \in Statuses
          /\ call[c].s = s /\ call[c].new = task[c].new
          /\ ~ServerIsAhead(task[c].was, task[c].new)
  <2>1. DispatchTypeOK /\ TypeOK /\ FollowsCall(c) /\ ComparedFirst(c)
    BY DEF TaskInv, TasksFit, Fits, DispatchTypeOK
  <2>2. call[c].s = s /\ call[c].new = task[c].new /\ ~ServerIsAhead(task[c].was, task[c].new)
    BY <2>1 DEF FollowsCall, ComparedFirst
  <2>3. s \in Shipments
    BY <2>1, <2>2, CallFields
  <2>4. QED
    BY <2>1, <2>2, <2>3 DEF TypeOK, ShipmentRow
<1>1. CASE CallStep(c)
  <2>1. shipment'[s].status = shipment[s].status \/ shipment'[s].status = call[c].new
    BY <1>1, <1>types, UpdateEffect
  <2>2. QED
    BY <1>types, <2>1, SameIsNotAhead
<1>2. ASSUME NEW d \in Dispatchers, DispatcherStep(d) PROVE UNCHANGED call
  BY <1>2, <1>types, DispatcherTouches
<1>3. ASSUME NEW e \in Callers, CallStep(e), e # c PROVE call'[c] = call[c]
  BY <1>3, <1>types, CallsOfOthers
<1>4. ASSUME NEW e \in Callers \ Managers, TaskStep(e) PROVE CallStep(e) \/ UNCHANGED call
  BY <1>4
  DEF TaskStep, ReadsTask, RereadsTask, UpdateBegins, UpdateContinues, UpdateReturns, CallStep,
      FindsAssignment, RereadsAssignment, Completes, TaskFails, vars
<1>5. CallStep(c) \/ call'[c] = call[c]
  BY <1>2, <1>3, <1>4, DispatchAssumption DEF DispatchNext, dispatchVars, vars, ManagerStep
<1>6. QED
  BY <1>1, <1>5

(* However many managers and dispatchers meet the couriers, a synced update takes a     *)
(* shipment back in statusOrder only when somebody has written the status after it was  *)
(* compared: what the entry was compared with is never undone.                        *)
THEOREM SyncedStaysAhead == DispatchSpec => SyncUndoesNothingSeen
<1>1. TaskInv /\ [DispatchNext]_dispatchVars => [SyncStep]_dispatchVars
  BY StepsKeepOrder
<1>2. DispatchSpec => [][SyncStep]_dispatchVars
  BY <1>1, TaskInvHolds, PTL DEF DispatchSpec
<1>3. QED
  BY <1>2 DEF SyncUndoesNothingSeen, SyncStep
=============================================================================
