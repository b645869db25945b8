------------------------------ MODULE Dispatch ------------------------------
(***************************************************************************)
(* AssignmentsService and the task updates of CourierAppService, on top of *)
(* the status updates of Delivery.                                         *)
(*                                                                         *)
(* Dispatchers hand shipments to couriers, move and cancel assignments;    *)
(* couriers work on the shipments they are assigned, online or through     *)
(* syncUpdates, and complete the assignment when the shipment is done;     *)
(* managers update shipments directly.  Every read that a later write      *)
(* rests on is a step of its own: findFirst takes no lock.                 *)
(***************************************************************************)
EXTENDS Delivery, Sequences

CONSTANTS
  Dispatchers,        \* users who assign, one request at a time each
  Managers,           \* callers of PATCH /shipments/:id/status
  CourierOf,          \* [Callers \ Managers -> Couriers], the app's users
  MaxDailyCapacity,   \* [Couriers -> Nat]
  Batches,            \* the shipmentIds a request may carry
  UniqueShipment,     \* the unique index of the migrations is in force
  MaxAssignments      \* bound on the rows of the assignments table

ASSUME DispatchAssumption ==
  /\ Managers \subseteq Callers
  /\ CourierOf \in [Callers \ Managers -> Couriers]
  /\ MaxDailyCapacity \in [Couriers -> Nat]
  /\ Batches \subseteq SUBSET Shipments
  /\ UniqueShipment \in BOOLEAN
  /\ MaxAssignments \in Nat

VARIABLES
  assignment,   \* assignments table, in the order of creation
  dispatcher,   \* the request each dispatcher is making
  task          \* the task update each courier is making

dispatchVars == <<vars, assignment, dispatcher, task>>

DispatchInit ==
  /\ Init
  /\ assignment = << >>
  /\ dispatcher = [d \in Dispatchers |-> Idle]
  /\ task = [c \in Callers \ Managers |-> Idle]

NewAssignment(s, k) == [status |-> "ACTIVE", s |-> s, k |-> k]

Active == {a \in DOMAIN assignment : assignment[a].status = "ACTIVE"}
ActiveFor(s) == {a \in Active : assignment[a].s = s}
ActiveOf(k) == {a \in Active : assignment[a].k = k}

(* Assignment_shipmentId_key, which the first migration creates and no later  *)
(* one drops; schema.prisma has no such constraint.                          *)
Insertable(s) == UniqueShipment => \A a \in DOMAIN assignment : assignment[a].s # s

EffectiveCapacity(k) == (9 * MaxDailyCapacity[k]) \div 10

Ask(d, request) == dispatcher' = [dispatcher EXCEPT ![d] = request]

----------------------------------------------------------------------------
(* createManualAssignments: the courier's free slots are counted once, then *)
(* each shipment has a transaction of its own.                              *)

(* Mutant: the capacity test looks at full couriers only. *)
HasRoomFor_AnyBatch(k, n) == Cardinality(ActiveOf(k)) < EffectiveCapacity(k)

HasRoomFor(k, n) == Cardinality(ActiveOf(k)) + n <= EffectiveCapacity(k)

StartsBatch(d) ==
  /\ dispatcher[d].at = "idle"
  /\ \E k \in Couriers, batch \in Batches :
       /\ batch # {} /\ HasRoomFor(k, Cardinality(batch))
       /\ Ask(d, [at |-> "batch", k |-> k, left |-> batch])
  /\ UNCHANGED <<vars, assignment, task>>

(* What is left of a batch when one of its shipments is done with.           *)
Without(r, s) ==
  IF r.left = {s} THEN Idle ELSE [at |-> "batch", k |-> r.k, left |-> r.left \ {s}]

TakesShipment(d) ==
  LET r == dispatcher[d] IN
  /\ r.at = "batch"
  /\ \E s \in r.left :
       Ask(d, IF shipment[s].status = "PENDING"
                THEN [at |-> "taken", k |-> r.k, left |-> r.left, s |-> s]
                ELSE Without(r, s))
  /\ UNCHANGED <<vars, assignment, task>>

(* Mutant: the shipment's courier is looked at, not its assignments. *)
IsTaken_ByThisCourier(s, k) == \E a \in ActiveFor(s) : assignment[a].k = k

IsTaken(s, k) == ActiveFor(s) # {}

LooksForActive(d) ==
  LET r == dispatcher[d] IN
  /\ r.at = "taken"
  /\ Ask(d, IF IsTaken(r.s, r.k) THEN Without(r, r.s) ELSE [r EXCEPT !.at = "free"])
  /\ UNCHANGED <<vars, assignment, task>>

Assigns(d) ==
  LET r == dispatcher[d] IN
  /\ r.at = "free" /\ Insertable(r.s)
  /\ Len(assignment) < MaxAssignments
  /\ assignment' = Append(assignment, NewAssignment(r.s, r.k))
  /\ shipment' = [shipment EXCEPT ![r.s].courier = r.k]
  /\ Ask(d, Without(r, r.s))
  /\ UNCHANGED <<courier, deposits, attempts, timeline, announced, overtaken, call,
                 depositing, calls, task>>

(* The transaction of one shipment rolls back; the loop goes on.             *)
AssignFails(d) ==
  /\ dispatcher[d].at \in {"taken", "free"}
  /\ Ask(d, Without(dispatcher[d], dispatcher[d].s))
  /\ UNCHANGED <<vars, assignment, task>>

----------------------------------------------------------------------------
(* reassign and cancel: the assignment is read outside the transaction that  *)
(* cancels it by its id.                                                     *)

ReadsAssignment(d) ==
  /\ dispatcher[d].at = "idle"
  /\ \E a \in Active :
       \/ Ask(d, [at |-> "cancelling", a |-> a])
       \/ \E k \in Couriers : Ask(d, [at |-> "moving", a |-> a, k |-> k])
  /\ UNCHANGED <<vars, assignment, task>>

ChecksCapacity(d) ==
  LET r == dispatcher[d] IN
  /\ r.at = "moving"
  /\ Ask(d, IF HasRoomFor(r.k, 1) THEN [r EXCEPT !.at = "moves"] ELSE Idle)
  /\ UNCHANGED <<vars, assignment, task>>

Reassigns(d) ==
  LET r == dispatcher[d]
      s == assignment[r.a].s
  IN
  /\ r.at = "moves" /\ Insertable(s)
  /\ Len(assignment) < MaxAssignments
  /\ assignment' = Append([assignment EXCEPT ![r.a].status = "CANCELLED"],
                          NewAssignment(s, r.k))
  /\ shipment' = [shipment EXCEPT ![s].courier = r.k]
  /\ Ask(d, Idle)
  /\ UNCHANGED <<courier, deposits, attempts, timeline, announced, overtaken, call,
                 depositing, calls, task>>

(* Mutant: cancelling frees the shipment and leaves the assignment open. *)
Cancels_ShipmentOnly(d) ==
  LET r == dispatcher[d] IN
  /\ r.at = "cancelling"
  /\ shipment' = [shipment EXCEPT ![assignment[r.a].s].courier = NoCourier]
  /\ Ask(d, Idle)
  /\ UNCHANGED <<courier, deposits, attempts, timeline, announced, overtaken, call,
                 depositing, calls, task, assignment>>

Cancels(d) ==
  LET r == dispatcher[d] IN
  /\ r.at = "cancelling"
  /\ assignment' = [assignment EXCEPT ![r.a].status = "CANCELLED"]
  /\ shipment' = [shipment EXCEPT ![assignment[r.a].s].courier = NoCourier]
  /\ Ask(d, Idle)
  /\ UNCHANGED <<courier, deposits, attempts, timeline, announced, overtaken, call,
                 depositing, calls, task>>

(* A database error outside the loop, or the process dying.                  *)
DispatchDies(d) ==
  /\ dispatcher[d].at # "idle"
  /\ Ask(d, Idle)
  /\ UNCHANGED <<vars, assignment, task>>

----------------------------------------------------------------------------
(* updateTaskStatus and, per update, syncUpdates.                            *)

Work(c, t) == task' = [task EXCEPT ![c] = t]

(* syncUpdates' statusOrder: an update the server is past is a conflict.     *)
statusOrder == <<"PENDING", "PICKED_UP", "IN_WAREHOUSE", "OUT_FOR_DELIVERY",
                 "DELIVERED", "FAILED", "POSTPONED", "RETURNED", "CANCELLED">>

IndexOf(status) == CHOOSE i \in DOMAIN statusOrder : statusOrder[i] = status

ServerIsAhead(server, local) == IndexOf(server) > IndexOf(local)

(* Mutant: only a shipment that is done is a conflict for a synced update. *)
ReadsTask_UnlessDone(c) ==
  /\ task[c].at = "idle"
  /\ \E s \in Shipments, new \in Statuses, synced \in BOOLEAN :
       /\ shipment[s].courier = CourierOf[c]
       /\ synced => shipment[s].status \notin TERMINAL_STATUSES
       /\ Work(c, [at |-> IF synced THEN "synced" ELSE "mine", s |-> s, new |-> new,
                   synced |-> synced, was |-> shipment[s].status])
  /\ calls < MaxCalls
  /\ UNCHANGED <<vars, assignment, dispatcher>>

(* The shipment must be assigned to the courier; a synced update must also    *)
(* not be behind it (was keeps the status it was compared with).              *)
(* updateTaskStatus then reads the shipment again, as the online path does.   *)
ReadsTask(c) ==
  /\ task[c].at = "idle"
  /\ \E s \in Shipments, new \in Statuses, synced \in BOOLEAN :
       /\ shipment[s].courier = CourierOf[c]
       /\ synced => ~ServerIsAhead(shipment[s].status, new)
       /\ Work(c, [at |-> IF synced THEN "synced" ELSE "mine", s |-> s, new |-> new,
                   synced |-> synced, was |-> shipment[s].status])
  /\ calls < MaxCalls
  /\ UNCHANGED <<vars, assignment, dispatcher>>

RereadsTask(c) ==
  LET t == task[c] IN
  /\ t.at = "synced"
  /\ Work(c, IF shipment[t.s].courier = CourierOf[c] THEN [t EXCEPT !.at = "mine"] ELSE Idle)
  /\ UNCHANGED <<vars, assignment, dispatcher>>

UpdateBegins(c) ==
  LET t == task[c] IN
  /\ t.at = "mine"
  /\ ReadsShipment(c)
  /\ call'[c].s = t.s /\ call'[c].new = t.new
  /\ Work(c, [t EXCEPT !.at = "updating"])
  /\ UNCHANGED <<assignment, dispatcher>>

(* The steps of updateStatus; a call that ends before its last one has thrown.*)
UpdateContinues(c) ==
  /\ task[c].at = "updating"
  /\ ReadsAttempts(c) \/ ComparesOtp(c) \/ Commits(c) \/ WritesLog(c) \/ Dies(c)
  /\ Work(c, IF call'[c] = Idle THEN Idle ELSE task[c])
  /\ UNCHANGED <<assignment, dispatcher>>

(* Mutant: a failed delivery also completes the assignment. *)
EndsTask_OnFailure(new) == new \in TERMINAL_STATUSES \cup {"FAILED"}

EndsTask(new) == new \in {"DELIVERED", "RETURNED", "CANCELLED"}

UpdateReturns(c) ==
  /\ task[c].at = "updating"
  /\ EmitsEvents(c)
  /\ Work(c, IF EndsTask(task[c].new) THEN [task[c] EXCEPT !.at = "ending"] ELSE Idle)
  /\ UNCHANGED <<assignment, dispatcher>>

FindsAssignment(c) ==
  LET t == task[c] IN
  /\ t.at = "ending"
  /\ IF ActiveFor(t.s) = {}
       THEN Work(c, Idle)
       ELSE \E a \in ActiveFor(t.s) : Work(c, [at |-> "found", a |-> a])
  /\ UNCHANGED <<vars, assignment, dispatcher>>

(* completeAssignment reads it once more.                                    *)
RereadsAssignment(c) ==
  LET t == task[c] IN
  /\ t.at = "found"
  /\ Work(c, IF t.a \in Active THEN [t EXCEPT !.at = "completing"] ELSE Idle)
  /\ UNCHANGED <<vars, assignment, dispatcher>>

Completes(c) ==
  /\ task[c].at = "completing"
  /\ assignment' = [assignment EXCEPT ![task[c].a].status = "COMPLETED"]
  /\ Work(c, Idle)
  /\ UNCHANGED <<vars, dispatcher>>

TaskFails(c) ==
  /\ task[c].at \notin {"idle", "updating"}
  /\ Work(c, Idle)
  /\ UNCHANGED <<vars, assignment, dispatcher>>

----------------------------------------------------------------------------
DispatcherStep(d) ==
  \/ StartsBatch(d) \/ TakesShipment(d) \/ LooksForActive(d) \/ Assigns(d)
  \/ AssignFails(d) \/ ReadsAssignment(d) \/ ChecksCapacity(d) \/ Reassigns(d)
  \/ Cancels(d) \/ DispatchDies(d)

TaskStep(c) ==
  \/ ReadsTask(c) \/ RereadsTask(c) \/ UpdateBegins(c) \/ UpdateContinues(c)
  \/ UpdateReturns(c) \/ FindsAssignment(c) \/ RereadsAssignment(c)
  \/ Completes(c) \/ TaskFails(c)

ManagerStep(c) == CallStep(c) /\ UNCHANGED <<assignment, dispatcher, task>>

DispatchNext ==
  \/ \E d \in Dispatchers : DispatcherStep(d)
  \/ \E c \in Callers \ Managers : TaskStep(c)
  \/ \E c \in Managers : ManagerStep(c)

DispatchSpec == DispatchInit /\ [][DispatchNext]_dispatchVars

----------------------------------------------------------------------------
AssignmentRow == [status : {"ACTIVE", "COMPLETED", "CANCELLED"},
                  s : Shipments, k : Couriers]

Request ==
  {Idle}
    \cup [at : {"batch"}, k : Couriers, left : SUBSET Shipments]
    \cup [at : {"taken", "free"}, k : Couriers, left : SUBSET Shipments, s : Shipments]
    \cup [at : {"cancelling"}, a : DOMAIN assignment]
    \cup [at : {"moving", "moves"}, a : DOMAIN assignment, k : Couriers]

TaskCall ==
  {Idle}
    \cup [at : {"synced", "mine", "updating", "ending"}, s : Shipments,
          new : Statuses, synced : BOOLEAN, was : Statuses]
    \cup [at : {"found", "completing"}, a : DOMAIN assignment]

(* The tables and requests have their types, and a request of a batch names   *)
(* the shipment it works on among those it has left.                         *)
DispatchTypeOK ==
  /\ TypeOK
  /\ assignment \in Seq(AssignmentRow)
  /\ dispatcher \in [Dispatchers -> Request]
  /\ \A d \in Dispatchers :
       dispatcher[d].at \in {"taken", "free"} => dispatcher[d].s \in dispatcher[d].left
  /\ task \in [Callers \ Managers -> TaskCall]

(* docs/PRISMA_SCHEMA.md:419: a shipment has at most one ACTIVE assignment.   *)
(* It rests on the two reads of assignShipment (with one dispatcher).         *)
OneActiveAssignment == \A s \in Shipments : Cardinality(ActiveFor(s)) <= 1

(* docs/PRISMA_SCHEMA.md:420: a reassignment creates a new row, so the insert  *)
(* of a move that has passed its checks is one the table accepts.            *)
MovesAreInsertable ==
  \A d \in Dispatchers :
    dispatcher[d].at = "moves" => Insertable(assignment[dispatcher[d].a].s)

(* docs/DISPATCH_ALGORITHM.md, the hard limit: batches, moves, and the        *)
(* completions that race them leave a courier within 90 % of the maximum.     *)
CapacityRespected ==
  \A k \in Couriers : Cardinality(ActiveOf(k)) <= EffectiveCapacity(k)

(* The two tables agree on who has an open task: the courier of an ACTIVE     *)
(* assignment can read the shipment as theirs.                                *)
CourierFollowsAssignment ==
  \A a \in Active : shipment[assignment[a].s].courier = assignment[a].k

(* An assignment is COMPLETED only when its shipment is done with, whatever   *)
(* was moved or cancelled between the update and the completion, and whoever   *)
(* else updates the shipment; one that was written over a status its writer    *)
(* had not read is excepted.                                                 *)
CompletedMeansDone ==
  \A a \in DOMAIN assignment :
    assignment[a].status = "COMPLETED" /\ assignment[a].s \notin overtaken
      => shipment[assignment[a].s].status \in TERMINAL_STATUSES

(* syncUpdates: an update queued offline takes a shipment back in statusOrder  *)
(* only if somebody wrote the status after it was compared; the courier's own  *)
(* earlier entries, and managers who wrote before, are never undone.          *)
SyncUndoesNothingSeen ==
  [][\A c \in Callers \ Managers :
       LET s == task[c].s IN
       task[c].at = "updating" /\ task[c].synced
         /\ call[c].at = "checked" /\ call'[c].at = "committed"
         /\ ServerIsAhead(shipment[s].status, shipment'[s].status)
         => shipment[s].status # task[c].was]_dispatchVars

=============================================================================
