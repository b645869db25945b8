------------------------------- MODULE Intake -------------------------------
(* Shipments come in one by one (ShipmentsService.create) or by file          *)
(* (BulkUploadService), under tracking numbers from TrackingNumberService.     *)
(*                                                                         *)
(* An upload reads the merchant, the zones and the free numbers once and then   *)
(* stores its valid rows a batch at a time, each in a transaction of its own    *)
(* that reads the merchant again.  Transactions are READ COMMITTED: the read    *)
(* and the commit are two steps.                                             *)
EXTENDS Rows, Sequences

CONSTANTS
  Numbers,      \* tracking numbers of the day
  Sellers,      \* merchants
  Zones,        \* zone codes
  Uploaders,    \* uploads, and
  Clerks,       \* single creations; each makes one request
  Files,        \* files that may be uploaded: sequences of rows
  BatchSize

ASSUME IntakeAssumption ==
  /\ BatchSize \in Nat \ {0}
  /\ \A f \in Files : f \in Seq({f[i] : i \in DOMAIN f})
  /\ Uploaders \cap Clerks = {}

VARIABLES
  shipment,    \* [Numbers -> the stored shipment, or Nowhere]
  selling,     \* merchants that are active
  zoned,       \* zones that are active
  announced,   \* numbers whose shipment.created was emitted
  entry        \* [Uploaders \cup Clerks -> what the request has got to]

intakeVars == <<shipment, selling, zoned, announced, entry>>

Nowhere == [by |-> "nobody"]

IntakeInit ==
  /\ shipment = [n \in Numbers |-> Nowhere]
  /\ selling = Sellers
  /\ zoned = Zones
  /\ announced = {}
  /\ entry = [a \in Uploaders \cup Clerks |-> [at |-> "idle"]]

Enters(a, r) == entry' = [entry EXCEPT ![a] = r]
Free == {n \in Numbers : shipment[n] = Nowhere}

(* What the row a request stores under a number looks like.  `late` says, for  *)
(* the properties, that its merchant was no longer active at the commit.       *)
NewShipment(a, seller, row, data, logged) ==
  [by |-> a, seller |-> seller, row |-> row, data |-> data, logged |-> logged,
   late |-> seller \notin selling]

----------------------------------------------------------------------------
(* create: the merchant, then generateUnique, which looks up to ten random     *)
(* candidates; then the shipment, its log and the event, one after the other.  *)
ChoosesNumber(a) ==
  /\ entry[a].at = "idle"
  /\ \E s \in selling, n \in Free : Enters(a, [at |-> "inserts", seller |-> s, number |-> n])
  /\ UNCHANGED <<shipment, selling, zoned, announced>>

StoresOne(a) ==
  LET e == entry[a] IN
  /\ e.at = "inserts" /\ e.number \in Free
  /\ shipment' = [shipment EXCEPT ![e.number] =
                    NewShipment(a, e.seller, 1, [type |-> "PREPAID"], FALSE)]
  /\ Enters(a, [e EXCEPT !.at = "logs"])
  /\ UNCHANGED <<selling, zoned, announced>>

LogsCreation(a) ==
  LET e == entry[a] IN
  /\ e.at = "logs"
  /\ shipment' = [shipment EXCEPT ![e.number].logged = TRUE]
  /\ Enters(a, [e EXCEPT !.at = "announces"])
  /\ UNCHANGED <<selling, zoned, announced>>

Announces(a) ==
  LET e == entry[a] IN
  /\ e.at = "announces"
  /\ announced' = announced \cup {e.number}
  /\ Enters(a, [at |-> "answered"])
  /\ UNCHANGED <<shipment, selling, zoned>>

----------------------------------------------------------------------------
(* The rows of a file that are stored, by their places in the file.           *)
ValidPlaces(file) == {i \in DOMAIN file : RowValid(file[i], zoned)}

(* processFile, and processRows up to the validation.  A file without a valid  *)
(* row is answered as it is.                                                *)
ReadsFile(a) ==
  /\ entry[a].at = "idle"
  /\ \E s \in selling, f \in Files :
       /\ f # << >>
       /\ Enters(a, IF ValidPlaces(f) = {} THEN [at |-> "answered"]
                    ELSE [at |-> "numbers", seller |-> s, file |-> f,
                          places |-> ValidPlaces(f)])
  /\ UNCHANGED <<shipment, selling, zoned, announced>>

(* generateBatch: random candidates are collected, those in use dropped, and    *)
(* the gaps filled by generateUnique, which does not know what is already in    *)
(* the list: any free numbers, also one of them twice.  (It looks again for     *)
(* each gap; what is taken by then is refused at the insert in any case.)      *)
TakesNumbers(a) ==
  LET e == entry[a] IN
  /\ e.at = "numbers"
  /\ \E numbers \in [e.places -> Free] :
       Enters(a, [at |-> "checks", seller |-> e.seller, file |-> e.file,
                  places |-> e.places, numbers |-> numbers, done |-> 0])
  /\ UNCHANGED <<shipment, selling, zoned, announced>>

(* Mutant: the merchant is looked up before the first batch only. *)
StillSelling_Once(e) == e.done > 0 \/ e.seller \in selling

StillSelling(e) == e.seller \in selling

(* The transaction's own look at the merchant.                               *)
ChecksSeller(a) ==
  /\ entry[a].at = "checks" /\ StillSelling(entry[a])
  /\ Enters(a, [entry[a] EXCEPT !.at = "stores"])
  /\ UNCHANGED <<shipment, selling, zoned, announced>>

(* Which of the valid rows a place is: the first, the second, ...              *)
Turn(e, i) == Cardinality({j \in e.places : j <= i})

(* Mutant: a batch ends one row before the next begins. *)
Batch_Short(e) == {i \in e.places : e.done < Turn(e, i) /\ Turn(e, i) < e.done + BatchSize}

(* The places of the rows of the batch that is due.                           *)
Batch(e) == {i \in e.places : e.done < Turn(e, i) /\ Turn(e, i) <= e.done + BatchSize}

Injects(numbers, S) == \A i, j \in S : numbers[i] = numbers[j] => i = j

(* createMany, the logs, and the commit.                                     *)
StoresBatch(a) ==
  LET e == entry[a]
      batch == Batch(e)
      stored(i) == NewShipment(a, e.seller, i, StoredRow(e.file[i]), TRUE)
      rest == [e EXCEPT !.at = "checks", !.done = @ + BatchSize]
  IN
  /\ e.at = "stores"
  /\ \A i \in batch : e.numbers[i] \in Free
  /\ Injects(e.numbers, batch)
  /\ shipment' = [n \in Numbers |->
                    IF \E i \in batch : e.numbers[i] = n
                      THEN stored(CHOOSE i \in batch : e.numbers[i] = n) ELSE shipment[n]]
  /\ Enters(a, IF rest.done < Cardinality(e.places) THEN rest
               ELSE [at |-> "answered", file |-> e.file, places |-> e.places])
  /\ UNCHANGED <<selling, zoned, announced>>

(* An inactive merchant, a number that is taken, no free number, a crash: the   *)
(* request ends; what was committed stays.                                   *)
Fails(a) ==
  /\ entry[a].at \notin {"idle", "answered", "failed"}
  /\ Enters(a, [at |-> "failed"])
  /\ UNCHANGED <<shipment, selling, zoned, announced>>

----------------------------------------------------------------------------
(* Elsewhere a merchant or a zone is removed: a soft deletion.                *)
RemovesSeller ==
  /\ \E s \in selling : selling' = selling \ {s}
  /\ UNCHANGED <<shipment, zoned, announced, entry>>

RemovesZone ==
  /\ \E z \in zoned : zoned' = zoned \ {z}
  /\ UNCHANGED <<shipment, selling, announced, entry>>

ClerkStep(a) == ChoosesNumber(a) \/ StoresOne(a) \/ LogsCreation(a) \/ Announces(a)

UploadStep(a) ==
  \/ ReadsFile(a) \/ TakesNumbers(a) \/ ChecksSeller(a) \/ StoresBatch(a)

IntakeNext ==
  \/ \E a \in Clerks : ClerkStep(a)
  \/ \E a \in Uploaders : UploadStep(a)
  \/ \E a \in Clerks \cup Uploaders : Fails(a)
  \/ RemovesSeller \/ RemovesZone

IntakeSpec == IntakeInit /\ [][IntakeNext]_intakeVars

----------------------------------------------------------------------------
By(a) == {n \in Numbers : shipment[n] # Nowhere /\ shipment[n].by = a}
PlacesBy(a) == {shipment[n].row : n \in By(a)}

(* An upload stores each row at most once, with its log, and in whole batches   *)
(* from the front: what a failed one leaves behind is the first so many valid   *)
(* rows.  One that is answered has stored all of them.  What was announced, from  *)
(* a single creation, is stored and logged.                                  *)
UploadsAreWhole ==
  /\ \A n \in announced : shipment[n] # Nowhere /\ shipment[n].logged
  /\ \A a \in Uploaders :
       /\ Cardinality(By(a)) = Cardinality(PlacesBy(a))
       /\ \A n \in By(a) : shipment[n].logged
       /\ entry[a].at \in {"checks", "stores"} =>
            PlacesBy(a) = {i \in entry[a].places : Turn(entry[a], i) <= entry[a].done}
       /\ entry[a].at = "failed" => Cardinality(By(a)) % BatchSize = 0
       /\ entry[a].at = "answered" =>
            PlacesBy(a) = IF "places" \in DOMAIN entry[a] THEN entry[a].places ELSE {}

(* A merchant that is removed while its files are coming in gets at most the    *)
(* batch of each upload that had passed the transaction's check.              *)
RemovalStopsUploads ==
  \A a \in Uploaders : Cardinality({n \in By(a) : shipment[n].late}) <= BatchSize

=============================================================================
