--------------------------- MODULE DeliveryProofs ---------------------------
(* Proofs about Delivery, for any number of callers and depositors: types, the    *)
(* OTP limit, announced deliveries, the sums over the tables and overdrawn cash.   *)
EXTENDS Delivery, SumLemmas

LEMMA StatusesAre ==
  Statuses = {"PENDING", "PICKED_UP", "IN_WAREHOUSE", "OUT_FOR_DELIVERY", "DELIVERED",
              "FAILED", "POSTPONED", "RETURNED", "CANCELLED"}
BY DEF Statuses, TRANSITION_MATRIX

CourierRow == [totalDelivered : Nat, totalFailed : Nat, totalReturned : Nat, cashHeld : Int]

LEMMA IdleIsNoUpdate == Idle \notin UpdateCall /\ Idle \notin DepositCall /\ Idle.at = "idle"
BY DEF Idle, UpdateCall, DepositCall

(* A call under way carries what it has read.                                    *)
LEMMA CallFields ==
  ASSUME TypeOK, NEW c \in Callers, call[c].at # "idle"
  PROVE  /\ call[c] \in UpdateCall
         /\ call[c].at \in {"otp", "guess", "checked", "committed", "logged"}
         /\ call[c].s \in Shipments /\ call[c].new \in Statuses
         /\ call[c].cash \in CollectedCash \cup {0} /\ call[c].cash \in Nat
         /\ call[c].code \in Codes \cup {NoCode} /\ call[c].row \in ShipmentRow
<1>1. call[c] \in UpdateCall
  BY IdleIsNoUpdate DEF TypeOK
<1>2. /\ call[c].at \in {"otp", "guess", "checked", "committed", "logged"}
      /\ call[c].s \in Shipments /\ call[c].new \in Statuses
      /\ call[c].cash \in CollectedCash \cup {0}
      /\ call[c].code \in Codes \cup {NoCode} /\ call[c].row \in ShipmentRow
  BY <1>1 DEF UpdateCall
<1>3. call[c].cash \in Nat
  <2>1. CollectedCash \cup {0} \subseteq Nat
    BY DeliveryAssumption
  <2>2. QED
    BY <1>2, <2>1
<1>4. QED
  BY <1>1, <1>2, <1>3

LEMMA TypesInitially == Init => TypeOK
BY StatusesAre, DeliveryAssumption
DEF Init, TypeOK, NewShipment, NewCourier, ShipmentRow

(* The transaction writes rows of the tables' types.                             *)
LEMMA CommitTypes ==
  ASSUME TypeOK, NEW c \in Callers, Commits(c)
  PROVE  /\ shipment' \in [Shipments -> ShipmentRow]
         /\ courier' \in [Couriers -> CourierRow]
<1> DEFINE r == call[c]
<1>1. /\ r.at = "checked"
      /\ shipment' = [shipment EXCEPT ![r.s] = ShipmentUpdate(r, shipment[r.s])]
      /\ courier' = [k \in Couriers |-> IF k = r.row.courier THEN CourierUpdate(r, courier[k])
                                                             ELSE courier[k]]
  BY DEF Commits
<1>2. /\ r.s \in Shipments /\ r.new \in Statuses /\ r.cash \in CollectedCash \cup {0}
      /\ r.cash \in Nat /\ r.code \in Codes \cup {NoCode}
  BY <1>1, CallFields
<1> HIDE DEF r
<1>3. ShipmentUpdate(r, shipment[r.s]) \in ShipmentRow
  <2>1. shipment[r.s] \in ShipmentRow
    BY <1>2 DEF TypeOK
  <2> DEFINE row == shipment[r.s]
             cash == IF r.cash # 0 THEN r.cash ELSE row.cash
             otp == IF DrawsOtp(r.s, r.new) THEN r.code ELSE row.otp
             n == IF r.new = "FAILED" THEN row.deliveryAttempts + 1 ELSE row.deliveryAttempts
  <2>2. /\ cash \in CollectedCash \cup {0} /\ otp \in Codes \cup {NoCode} /\ n \in Nat
    BY <1>2, <2>1 DEF ShipmentRow
  <2>3. ShipmentUpdate(r, row) = [row EXCEPT !.status = r.new, !.cash = cash, !.otp = otp,
                                             !.deliveryAttempts = n]
    BY DEF ShipmentUpdate
  <2> HIDE DEF cash, otp, n
  <2>4. QED
    BY <1>2, <2>1, <2>2, <2>3 DEF ShipmentRow
<1>4. ASSUME NEW k \in Couriers PROVE CourierUpdate(r, courier[k]) \in CourierRow
  <2>1. courier[k] \in CourierRow
    BY DEF TypeOK, CourierRow
  <2>2. CashBooked(r) \in Nat
    BY <1>2 DEF CashBooked
  <2>3. CASE r.new = "DELIVERED"
    <3>1. CourierUpdate(r, courier[k]) =
            [courier[k] EXCEPT !.totalDelivered = courier[k].totalDelivered + 1,
                               !.cashHeld = courier[k].cashHeld + CashBooked(r)]
      BY <2>3 DEF CourierUpdate
    <3>2. /\ courier[k].totalDelivered + 1 \in Nat
          /\ courier[k].cashHeld + CashBooked(r) \in Int
      BY <2>1, <2>2 DEF CourierRow
    <3>3. QED
      BY <2>1, <3>1, <3>2 DEF CourierRow
  <2>4. CASE r.new = "FAILED"
    BY <2>1, <2>4 DEF CourierUpdate, CourierRow
  <2>5. CASE r.new = "RETURNED"
    BY <2>1, <2>5 DEF CourierUpdate, CourierRow
  <2>6. CASE r.new \notin {"DELIVERED", "FAILED", "RETURNED"}
    BY <2>1, <2>6 DEF CourierUpdate
  <2>7. QED
    BY <2>3, <2>4, <2>5, <2>6
<1>5. QED
  BY <1>1, <1>3, <1>4 DEF TypeOK, CourierRow

LEMMA CallStepKeepsTypes ==
  ASSUME TypeOK, NEW c \in Callers, CallStep(c)
  PROVE  TypeOK'
<1>types. call \in [Callers -> UpdateCall \cup {Idle}]
  BY DEF TypeOK
<1>1. CASE ReadsShipment(c)
  <2>1. PICK s \in Shipments, new \in Statuses, cash \in CollectedCash \cup {0},
             code \in Codes \cup {NoCode} :
          call' = [call EXCEPT ![c] =
                     [at |-> IF NeedsOtp(s, new) THEN "otp" ELSE "checked",
                      s |-> s, new |-> new, cash |-> cash, code |-> code, row |-> shipment[s]]]
    BY <1>1 DEF ReadsShipment
  <2>2. [at |-> IF NeedsOtp(s, new) THEN "otp" ELSE "checked",
         s |-> s, new |-> new, cash |-> cash, code |-> code, row |-> shipment[s]] \in UpdateCall
    BY DEF TypeOK, UpdateCall
  <2>3. calls' \in 0..MaxCalls
    BY <1>1, DeliveryAssumption DEF ReadsShipment, TypeOK
  <2>4. QED
    BY <1>1, <2>1, <2>2, <2>3 DEF ReadsShipment, TypeOK
<1>2. ASSUME NEW at \in {"guess", "checked", "committed", "logged"}, call[c].at # "idle",
             Leaves(c, at) \/ Ends(c)
      PROVE  call' \in [Callers -> UpdateCall \cup {Idle}]
  <2>1. [call[c] EXCEPT !.at = at] \in UpdateCall
    BY <1>2, CallFields DEF UpdateCall
  <2>2. call' = [call EXCEPT ![c] = [call[c] EXCEPT !.at = at]] \/ call' = [call EXCEPT ![c] = Idle]
    BY <1>2 DEF Leaves, Ends
  <2>3. QED
    BY <1>types, <2>1, <2>2
<1>3. CASE ReadsAttempts(c)
  BY <1>2, <1>3 DEF ReadsAttempts, TypeOK
<1>4. CASE ComparesOtp(c)
  <2>1. attempts' \in [Shipments -> Nat]
    <3>1. \A n \in Nat : n + 1 \in Nat
      OBVIOUS
    <3>2. QED
      BY <1>4, <3>1, CallFields DEF ComparesOtp, TypeOK
  <2>2. call' \in [Callers -> UpdateCall \cup {Idle}]
    BY <1>2, <1>4 DEF ComparesOtp
  <2>3. QED
    BY <1>4, <2>1, <2>2 DEF ComparesOtp, TypeOK
<1>5. CASE Commits(c)
  <2>1. call' \in [Callers -> UpdateCall \cup {Idle}]
    BY <1>2, <1>5 DEF Commits
  <2>2. overtaken' \subseteq Shipments
    BY <1>5, CallFields DEF Commits, TypeOK
  <2>3. QED
    BY <1>5, <2>1, <2>2, CommitTypes DEF Commits, TypeOK, CourierRow
<1>6. CASE WritesLog(c)
  <2>1. call' \in [Callers -> UpdateCall \cup {Idle}]
    BY <1>2, <1>6 DEF WritesLog
  <2>2. timeline' \in [Shipments -> Statuses]
    BY <1>6, CallFields DEF WritesLog, TypeOK
  <2>3. QED
    BY <1>6, <2>1, <2>2 DEF WritesLog, TypeOK
<1>7. CASE EmitsEvents(c)
  <2>1. call' \in [Callers -> UpdateCall \cup {Idle}]
    BY <1>2, <1>7 DEF EmitsEvents
  <2>2. announced' \in [Shipments -> Nat]
    <3>1. \A n \in Nat : n + 1 \in Nat
      OBVIOUS
    <3>2. QED
      BY <1>7, <3>1, CallFields DEF EmitsEvents, TypeOK
  <2>3. QED
    BY <1>7, <2>1, <2>2 DEF EmitsEvents, TypeOK
<1>8. CASE Dies(c)
  <2>1. call' \in [Callers -> UpdateCall \cup {Idle}]
    BY <1>2, <1>8 DEF Dies
  <2>2. QED
    BY <1>8, <2>1 DEF Dies, TypeOK
<1>9. QED
  BY <1>1, <1>3, <1>4, <1>5, <1>6, <1>7, <1>8 DEF CallStep

LEMMA DepositStepKeepsTypes ==
  ASSUME TypeOK, NEW d \in Depositors, DepositStep(d)
  PROVE  TypeOK'
<1>1. CASE ReadsCashHeld(d)
  <2>1. PICK k \in Couriers, amount \in DepositAmounts :
          depositing' = [depositing EXCEPT ![d] = [at |-> "checked", k |-> k, amount |-> amount]]
    BY <1>1 DEF ReadsCashHeld
  <2>2. [at |-> "checked", k |-> k, amount |-> amount] \in DepositCall
    BY DEF DepositCall
  <2>3. QED
    BY <1>1, <2>1, <2>2 DEF ReadsCashHeld, TypeOK
<1>2. CASE Deposits(d)
  <2> DEFINE k == depositing[d].k
             amount == depositing[d].amount
  <2>1. depositing[d] \in DepositCall
    BY <1>2, IdleIsNoUpdate DEF Deposits, TypeOK
  <2>2. k \in Couriers /\ amount \in Nat
    BY <2>1, DeliveryAssumption DEF DepositCall
  <2>3. /\ deposits' = [deposits EXCEPT ![k] = @ + amount]
        /\ courier' = [courier EXCEPT ![k] = [courier[k] EXCEPT !.cashHeld = courier[k].cashHeld - amount]]
        /\ depositing' = [depositing EXCEPT ![d] = Idle]
    BY <1>2 DEF Deposits
  <2> HIDE DEF k, amount
  <2>4. deposits' \in [Couriers -> Nat]
    BY <2>2, <2>3 DEF TypeOK
  <2>5. [courier[k] EXCEPT !.cashHeld = courier[k].cashHeld - amount] \in CourierRow
    <3>1. courier[k] \in CourierRow
      BY <2>2 DEF TypeOK, CourierRow
    <3>2. QED
      BY <2>2, <3>1 DEF CourierRow
  <2>6. courier' \in [Couriers -> CourierRow]
    BY <2>3, <2>5 DEF TypeOK, CourierRow
  <2>7. QED
    BY <1>2, <2>3, <2>4, <2>6 DEF Deposits, TypeOK, CourierRow
<1>3. CASE DepositFails(d)
  BY <1>3 DEF DepositFails, TypeOK
<1>4. QED
  BY <1>1, <1>2, <1>3 DEF DepositStep

LEMMA TypesInductive == TypeOK /\ [Next]_vars => TypeOK'
<1>1. ASSUME TypeOK, UNCHANGED vars PROVE TypeOK'
  BY <1>1 DEF vars, TypeOK
<1>2. ASSUME TypeOK, NEW s \in Shipments, AttemptsExpire(s) PROVE TypeOK'
  BY <1>2 DEF AttemptsExpire, TypeOK
<1>3. QED
  BY <1>1, <1>2, CallStepKeepsTypes, DepositStepKeepsTypes DEF Next

(* Every table, counter and call under way has its type.                          *)
THEOREM DeliveryTypeCorrect == Spec => []TypeOK
BY TypesInitially, TypesInductive, PTL DEF Spec
----------------------------------------------------------------------------
(* The limit on guesses *)

LEMMA GuessersAreCallers ==
  ASSUME NEW S \in SUBSET Callers
  PROVE  IsFiniteSet(S) /\ Cardinality(S) \in Nat /\ Cardinality(S) <= Cardinality(Callers)
         /\ Cardinality(Callers) \in Nat
BY FS_Subset, FS_CardinalityType, DeliveryAssumption

(* No new guess and no more attempts on record: the bound stands.                  *)
LEMMA NoMoreGuesses ==
  ASSUME TypeOK, TypeOK', OtpGuessesBounded, NEW s \in Shipments,
         attempts'[s] <= attempts[s], Guessing(s)' \subseteq Guessing(s)
  PROVE  attempts'[s] + Cardinality(Guessing(s)') <= OTP_MAX_ATTEMPTS + Cardinality(Callers) - 1
<1>1. Guessing(s) \in SUBSET Callers /\ Guessing(s)' \in SUBSET Callers
  BY DEF Guessing
<1>2. Cardinality(Guessing(s)') <= Cardinality(Guessing(s))
  BY <1>1, GuessersAreCallers, FS_Subset
<1>3. /\ Cardinality(Guessing(s)') \in Nat /\ Cardinality(Guessing(s)) \in Nat
      /\ Cardinality(Callers) \in Nat /\ attempts[s] \in Nat /\ attempts'[s] \in Nat
      /\ OTP_MAX_ATTEMPTS \in Nat
  BY <1>1, GuessersAreCallers, DeliveryAssumption DEF TypeOK
<1>4. attempts[s] + Cardinality(Guessing(s)) <= OTP_MAX_ATTEMPTS + Cardinality(Callers) - 1
  BY DEF OtpGuessesBounded
<1>5. QED
  BY <1>2, <1>3, <1>4

LEMMA GuessesInitially == Init => OtpGuessesBounded
<1> SUFFICES ASSUME Init, NEW s \in Shipments
             PROVE  attempts[s] + Cardinality(Guessing(s))
                      <= OTP_MAX_ATTEMPTS + Cardinality(Callers) - 1
  BY DEF OtpGuessesBounded
<1>1. Guessing(s) = {} /\ attempts[s] = 0
  BY IdleIsNoUpdate DEF Init, Guessing
<1>2. Cardinality(Guessing(s)) = 0 /\ Cardinality(Callers) \in Nat
  BY <1>1, FS_EmptySet, GuessersAreCallers
<1>3. OTP_MAX_ATTEMPTS \in Nat \ {0}
  BY DeliveryAssumption
<1>4. QED
  BY <1>1, <1>2, <1>3

LEMMA GuessesStep ==
  ASSUME TypeOK, OtpGuessesBounded, [Next]_vars
  PROVE  OtpGuessesBounded'
<1>0. TypeOK'
  BY TypesInductive
<1> SUFFICES ASSUME NEW s \in Shipments
             PROVE  attempts'[s] + Cardinality(Guessing(s)')
                      <= OTP_MAX_ATTEMPTS + Cardinality(Callers) - 1
  BY DEF OtpGuessesBounded
<1>types. /\ call \in [Callers -> UpdateCall \cup {Idle}]
          /\ attempts \in [Shipments -> Nat] /\ attempts[s] \in Nat
          /\ OTP_MAX_ATTEMPTS \in Nat /\ Cardinality(Callers) \in Nat
  BY GuessersAreCallers, DeliveryAssumption DEF TypeOK
<1>quiet. ASSUME attempts'[s] <= attempts[s],
                 \A c \in Callers : call'[c] = call[c] \/ call'[c].at # "guess"
          PROVE  attempts'[s] + Cardinality(Guessing(s)')
                   <= OTP_MAX_ATTEMPTS + Cardinality(Callers) - 1
  <2>1. Guessing(s)' \subseteq Guessing(s)
    BY <1>quiet DEF Guessing
  <2>2. QED
    BY <1>0, <1>quiet, <2>1, NoMoreGuesses
<1>1. ASSUME NEW c \in Callers, ReadsAttempts(c), OtpAllowed(call[c].s), call[c].s = s
      PROVE  attempts'[s] + Cardinality(Guessing(s)')
               <= OTP_MAX_ATTEMPTS + Cardinality(Callers) - 1
  <2>1. attempts'[s] <= OTP_MAX_ATTEMPTS - 1 /\ attempts'[s] \in Nat
    BY <1>1, <1>types DEF ReadsAttempts, OtpAllowed
  <2>2. Guessing(s)' \in SUBSET Callers
    BY DEF Guessing
  <2>3. Cardinality(Guessing(s)') \in Nat /\ Cardinality(Guessing(s)') <= Cardinality(Callers)
    BY <2>2, GuessersAreCallers
  <2>4. QED
    BY <1>types, <2>1, <2>3
<1>2. ASSUME NEW c \in Callers, ReadsAttempts(c), ~(OtpAllowed(call[c].s) /\ call[c].s = s)
      PROVE  attempts'[s] + Cardinality(Guessing(s)')
               <= OTP_MAX_ATTEMPTS + Cardinality(Callers) - 1
  <2>1. Guessing(s)' \subseteq Guessing(s)
    <3>1. CASE OtpAllowed(call[c].s)
      <4>1. call' = [call EXCEPT ![c].at = "guess"] /\ call[c].s # s
        BY <1>2, <3>1 DEF ReadsAttempts, Leaves
      <4>2. call[c] \in UpdateCall
        BY <1>2, CallFields DEF ReadsAttempts
      <4>3. call'[c].s = call[c].s
        BY <1>types, <4>1, <4>2 DEF UpdateCall
      <4>4. \A b \in Callers \ {c} : call'[b] = call[b]
        BY <1>types, <4>1
      <4>5. QED
        BY <4>1, <4>3, <4>4 DEF Guessing
    <3>2. CASE ~OtpAllowed(call[c].s)
      <4>1. call' = [call EXCEPT ![c] = Idle]
        BY <1>2, <3>2 DEF ReadsAttempts, Ends
      <4>2. QED
        BY <1>types, <4>1, IdleIsNoUpdate DEF Guessing
    <3>3. QED
      BY <3>1, <3>2
  <2>2. attempts'[s] <= attempts[s]
    BY <1>2, <1>types DEF ReadsAttempts
  <2>3. QED
    BY <1>0, <2>1, <2>2, NoMoreGuesses
<1>3. ASSUME NEW c \in Callers, ComparesOtp(c)
      PROVE  attempts'[s] + Cardinality(Guessing(s)')
               <= OTP_MAX_ATTEMPTS + Cardinality(Callers) - 1
  <2>1. call'[c].at # "guess" /\ \A b \in Callers \ {c} : call'[b] = call[b]
    <3>1. call[c] \in UpdateCall
      BY <1>3, CallFields DEF ComparesOtp
    <3>2. call' = [call EXCEPT ![c].at = "checked"] \/ call' = [call EXCEPT ![c] = Idle]
      BY <1>3 DEF ComparesOtp, Leaves, Ends
    <3>3. QED
      BY <1>types, <3>1, <3>2, IdleIsNoUpdate DEF UpdateCall
  <2>2. CASE call[c].s = s
    <3>1. c \in Guessing(s) /\ Guessing(s)' = Guessing(s) \ {c}
      BY <1>3, <2>1, <2>2 DEF ComparesOtp, Guessing
    <3>2. Guessing(s) \in SUBSET Callers
      BY DEF Guessing
    <3>3. /\ Cardinality(Guessing(s)') = Cardinality(Guessing(s)) - 1
          /\ Cardinality(Guessing(s)) \in Nat
      BY <3>1, <3>2, GuessersAreCallers, FS_RemoveElement
    <3>4. attempts'[s] = attempts[s] + 1
      BY <1>3, <1>types, <2>2 DEF ComparesOtp
    <3>5. attempts[s] + Cardinality(Guessing(s)) <= OTP_MAX_ATTEMPTS + Cardinality(Callers) - 1
      BY DEF OtpGuessesBounded
    <3>6. QED
      BY <1>types, <3>3, <3>4, <3>5
  <2>3. CASE call[c].s # s
    <3>1. attempts'[s] <= attempts[s]
      BY <1>3, <1>types, <2>3 DEF ComparesOtp
    <3>2. QED
      BY <2>1, <3>1, <1>quiet
  <2>4. QED
    BY <2>2, <2>3
<1>4. ASSUME NEW c \in Callers, NEW at \in {"committed", "logged"},
             UNCHANGED attempts, call[c].at # "idle", Leaves(c, at) \/ Ends(c)
      PROVE  attempts'[s] + Cardinality(Guessing(s)')
               <= OTP_MAX_ATTEMPTS + Cardinality(Callers) - 1
  <2>1. call[c] \in UpdateCall
    BY <1>4, CallFields
  <2>2. call'[c].at # "guess" /\ \A b \in Callers \ {c} : call'[b] = call[b]
    BY <1>4, <1>types, <2>1, IdleIsNoUpdate DEF Leaves, Ends, UpdateCall
  <2>3. attempts'[s] <= attempts[s]
    BY <1>4, <1>types
  <2>4. QED
    BY <2>2, <2>3, <1>quiet
<1>5. ASSUME NEW c \in Callers, ReadsShipment(c)
      PROVE  attempts'[s] + Cardinality(Guessing(s)')
               <= OTP_MAX_ATTEMPTS + Cardinality(Callers) - 1
  <2>1. call'[c].at # "guess" /\ \A b \in Callers \ {c} : call'[b] = call[b]
    BY <1>5, <1>types DEF ReadsShipment
  <2>2. attempts'[s] <= attempts[s]
    BY <1>5, <1>types DEF ReadsShipment
  <2>3. QED
    BY <2>1, <2>2, <1>quiet
<1>6. ASSUME NEW t \in Shipments, AttemptsExpire(t)
      PROVE  attempts'[s] + Cardinality(Guessing(s)')
               <= OTP_MAX_ATTEMPTS + Cardinality(Callers) - 1
  BY <1>6, <1>types, <1>quiet DEF AttemptsExpire
<1>7. ASSUME UNCHANGED <<attempts, call>>
      PROVE  attempts'[s] + Cardinality(Guessing(s)')
               <= OTP_MAX_ATTEMPTS + Cardinality(Callers) - 1
  BY <1>7, <1>types, <1>quiet
<1>8. QED
  BY <1>1, <1>2, <1>3, <1>4, <1>5, <1>6, <1>7
  DEF Next, vars, CallStep, DepositStep, Commits, WritesLog, EmitsEvents, Dies,
      ReadsCashHeld, Deposits, DepositFails

(* Overlapping calls get one guess each beyond OTP_MAX_ATTEMPTS and no more, for   *)
(* any number of callers.                                                      *)
THEOREM GuessesAreLimited == Spec => []OtpGuessesBounded
<1>1. TypeOK /\ OtpGuessesBounded /\ [Next]_vars => TypeOK' /\ OtpGuessesBounded'
  BY TypesInductive, GuessesStep
<1>2. QED
  BY <1>1, TypesInitially, GuessesInitially, PTL DEF Spec

----------------------------------------------------------------------------
(* Announced deliveries *)

(* A call goes on with a transition that was valid in the row it has read.         *)
CallIsChecked ==
  \A c \in Callers :
    call[c].at \in {"otp", "guess", "checked"} =>
      /\ IsValidTransition(call[c].row.status, call[c].new)
      /\ NeedsOtp(call[c].s, call[c].new) => call[c].cash # 0

(* A terminal status that is about to be announced stands, unless it was written over. *)
CommittedStands ==
  \A c \in Callers :
    (call[c].at \in {"committed", "logged"} /\ call[c].new \in TERMINAL_STATUSES)
      => (call[c].s \in overtaken \/ shipment[call[c].s].status = call[c].new)

DeliveredHasCash ==
  \A s \in CodShipments : shipment[s].status = "DELIVERED" => shipment[s].cash # 0

AnnouncedInv ==
  TypeOK /\ CallIsChecked /\ CommittedStands /\ DeliveredHasCash /\ AnnouncedMeansDelivered

LEMMA AnnouncedInitially == Init => AnnouncedInv
<1> SUFFICES ASSUME Init PROVE AnnouncedInv
  OBVIOUS
<1>1. /\ \A c \in Callers : call[c].at = "idle"
      /\ \A s \in Shipments : shipment[s].status = "PENDING" /\ announced[s] = 0
  BY IdleIsNoUpdate DEF Init, NewShipment
<1>2. QED
  BY <1>1, TypesInitially, DeliveryAssumption
  DEF AnnouncedInv, CallIsChecked, CommittedStands, DeliveredHasCash, AnnouncedMeansDelivered

(* A terminal status can only be repeated.                                        *)
LEMMA TerminalStays ==
  ASSUME NEW st \in TERMINAL_STATUSES, NEW new, IsValidTransition(st, new)
  PROVE  new = st
BY DEF TERMINAL_STATUSES, IsValidTransition, TRANSITION_MATRIX

(* What a commit does to the status, and to the terminal one it finds.              *)
LEMMA TerminalStands ==
  ASSUME TypeOK, CallIsChecked, NEW c \in Callers, Commits(c)
  PROVE  /\ overtaken \subseteq overtaken'
         /\ \A s \in Shipments :
              \/ s \in overtaken' \/ shipment[s].status \notin TERMINAL_STATUSES
              \/ shipment'[s].status = shipment[s].status
<1> DEFINE r == call[c]
<1>1. /\ r.at = "checked" /\ r.s \in Shipments /\ IsValidTransition(r.row.status, r.new)
      /\ shipment' = [shipment EXCEPT ![r.s] = ShipmentUpdate(r, shipment[r.s])]
      /\ overtaken' = IF shipment[r.s].status = r.row.status THEN overtaken
                                                             ELSE overtaken \cup {r.s}
  BY CallFields DEF Commits, CallIsChecked
<1> HIDE DEF r
<1>2. shipment \in [Shipments -> ShipmentRow]
  BY DEF TypeOK
<1>3. ShipmentUpdate(r, shipment[r.s]).status = r.new
  BY <1>1, <1>2 DEF ShipmentUpdate, ShipmentRow
<1>4. r.s \notin overtaken' /\ shipment[r.s].status \in TERMINAL_STATUSES
        => r.new = shipment[r.s].status
  BY <1>1, TerminalStays
<1>5. QED
  BY <1>1, <1>2, <1>3, <1>4

LEMMA CommitKeepsAnnounced ==
  ASSUME AnnouncedInv, NEW c \in Callers, Commits(c)
  PROVE  CallIsChecked' /\ CommittedStands' /\ DeliveredHasCash' /\ AnnouncedMeansDelivered'
<1> DEFINE r == call[c]
<1>1. /\ r \in UpdateCall /\ r.at = "checked" /\ r.s \in Shipments
      /\ IsValidTransition(r.row.status, r.new)
      /\ NeedsOtp(r.s, r.new) => r.cash # 0
  BY CallFields DEF Commits, AnnouncedInv, CallIsChecked
<1>2. /\ call' = [call EXCEPT ![c].at = "committed"] /\ UNCHANGED announced
      /\ overtaken' = IF shipment[r.s].status = r.row.status THEN overtaken
                                                             ELSE overtaken \cup {r.s}
  BY DEF Commits, Leaves
<1>3. /\ call'[c].at = "committed" /\ call'[c].s = r.s /\ call'[c].new = r.new
      /\ \A b \in Callers \ {c} : call'[b] = call[b]
  BY <1>1, <1>2 DEF AnnouncedInv, TypeOK, UpdateCall
<1>4. /\ shipment[r.s] \in ShipmentRow
      /\ shipment' = [shipment EXCEPT ![r.s] = ShipmentUpdate(r, shipment[r.s])]
      /\ shipment \in [Shipments -> ShipmentRow]
  BY <1>1 DEF Commits, AnnouncedInv, TypeOK
<1> HIDE DEF r
<1>5. /\ ShipmentUpdate(r, shipment[r.s]).status = r.new
      /\ r.cash # 0 => ShipmentUpdate(r, shipment[r.s]).cash = r.cash
  BY <1>4 DEF ShipmentUpdate, ShipmentRow
<1>6. /\ shipment'[r.s].status = r.new
      /\ r.cash # 0 => shipment'[r.s].cash = r.cash
      /\ \A s \in Shipments \ {r.s} : shipment'[s] = shipment[s]
  BY <1>1, <1>4, <1>5
<1>7. overtaken \subseteq overtaken'
  BY <1>2
<1>8. \A s \in Shipments :
        \/ s \in overtaken' \/ shipment[s].status \notin TERMINAL_STATUSES
        \/ shipment'[s].status = shipment[s].status
  BY TerminalStands DEF AnnouncedInv
<1>terminal. "DELIVERED" \in TERMINAL_STATUSES
  BY DEF TERMINAL_STATUSES
<1>9. CallIsChecked'
  BY <1>3 DEF AnnouncedInv, CallIsChecked, NeedsOtp
<1>10. CommittedStands'
  <2> SUFFICES ASSUME NEW b \in Callers, call'[b].at \in {"committed", "logged"},
                      call'[b].new \in TERMINAL_STATUSES, call'[b].s \notin overtaken'
               PROVE  shipment'[call'[b].s].status = call'[b].new
    BY DEF CommittedStands
  <2>1. CASE b = c
    BY <1>3, <1>6, <2>1
  <2>2. CASE b # c
    <3>1. call'[b] = call[b] /\ call[b].s \in Shipments
      BY <1>3, <2>2, CallFields DEF AnnouncedInv
    <3>2. shipment[call[b].s].status = call[b].new
      BY <1>7, <3>1 DEF AnnouncedInv, CommittedStands
    <3>3. QED
      BY <1>8, <3>1, <3>2
  <2>3. QED
    BY <2>1, <2>2
<1>11. r.s \in CodShipments /\ r.new = "DELIVERED" => shipment'[r.s].cash # 0
  BY <1>1, <1>6 DEF NeedsOtp
<1>12. DeliveredHasCash'
  BY <1>6, <1>11, DeliveryAssumption DEF AnnouncedInv, DeliveredHasCash
<1>13. AnnouncedMeansDelivered'
  <2> SUFFICES ASSUME NEW s \in Shipments, announced[s] > 0, s \notin overtaken'
               PROVE  /\ shipment'[s].status = "DELIVERED"
                      /\ s \in CodShipments => shipment'[s].cash # 0
    BY <1>2 DEF AnnouncedMeansDelivered
  <2>1. shipment[s].status = "DELIVERED"
    BY <1>7 DEF AnnouncedInv, AnnouncedMeansDelivered
  <2>2. QED
    BY <1>8, <1>12, <1>terminal, <2>1 DEF DeliveredHasCash
<1>14. QED
  BY <1>9, <1>10, <1>12, <1>13

LEMMA CallKeepsAnnounced ==
  ASSUME AnnouncedInv, NEW c \in Callers, CallStep(c)
  PROVE  CallIsChecked' /\ CommittedStands' /\ DeliveredHasCash' /\ AnnouncedMeansDelivered'
<1>types. call \in [Callers -> UpdateCall \cup {Idle}] /\ announced \in [Shipments -> Nat]
          /\ shipment \in [Shipments -> ShipmentRow]
  BY DEF AnnouncedInv, TypeOK
<1>keeps. ASSUME UNCHANGED <<shipment, announced, overtaken>>
          PROVE  DeliveredHasCash' /\ AnnouncedMeansDelivered'
  BY <1>keeps DEF AnnouncedInv, DeliveredHasCash, AnnouncedMeansDelivered
<1>ends. ASSUME Ends(c), UNCHANGED <<shipment, overtaken>>
         PROVE  CallIsChecked' /\ CommittedStands'
  <2>1. call'[c].at = "idle" /\ \A b \in Callers \ {c} : call'[b] = call[b]
    BY <1>ends, <1>types, IdleIsNoUpdate DEF Ends
  <2>2. QED
    BY <1>ends, <2>1 DEF AnnouncedInv, CallIsChecked, CommittedStands, NeedsOtp
<1>goes. ASSUME NEW at, Leaves(c, at), call[c].at # "idle"
         PROVE  /\ call'[c].at = at /\ call'[c].s = call[c].s /\ call'[c].new = call[c].new
                /\ call'[c].cash = call[c].cash /\ call'[c].row = call[c].row
                /\ \A b \in Callers \ {c} : call'[b] = call[b]
  <2>1. call[c] \in UpdateCall
    BY <1>goes, CallFields DEF AnnouncedInv
  <2>2. QED
    BY <1>goes, <1>types, <2>1 DEF Leaves, UpdateCall
<1>1. CASE ReadsShipment(c)
  <2>1. PICK s \in Shipments, new \in Statuses, cash \in CollectedCash \cup {0},
             code \in Codes \cup {NoCode} :
          /\ IsValidTransition(shipment[s].status, new)
          /\ (cash # 0) = NeedsOtp(s, new)
          /\ call' = [call EXCEPT ![c] =
                        [at |-> IF NeedsOtp(s, new) THEN "otp" ELSE "checked",
                         s |-> s, new |-> new, cash |-> cash, code |-> code,
                         row |-> shipment[s]]]
    BY <1>1 DEF ReadsShipment
  <2>2. /\ call'[c].at \in {"otp", "checked"} /\ call'[c].s = s /\ call'[c].row = shipment[s]
        /\ call'[c].new = new /\ call'[c].cash = cash
        /\ \A b \in Callers \ {c} : call'[b] = call[b]
    BY <1>types, <2>1
  <2>3. UNCHANGED <<shipment, announced, overtaken>>
    BY <1>1 DEF ReadsShipment
  <2>4. CallIsChecked'
    BY <2>1, <2>2 DEF AnnouncedInv, CallIsChecked, NeedsOtp
  <2>5. CommittedStands'
    BY <2>2, <2>3 DEF AnnouncedInv, CommittedStands
  <2>6. QED
    BY <1>keeps, <2>3, <2>4, <2>5
<1>2. CASE ReadsAttempts(c) \/ ComparesOtp(c)
  <2>1. UNCHANGED <<shipment, announced, overtaken>>
    BY <1>2 DEF ReadsAttempts, ComparesOtp
  <2>2. CASE Ends(c)
    BY <1>ends, <1>keeps, <2>1, <2>2
  <2>3. ASSUME NEW at \in {"guess", "checked"}, Leaves(c, at), call[c].at \in {"otp", "guess"}
        PROVE  CallIsChecked' /\ CommittedStands'
    <3>1. /\ call'[c].at = at /\ call'[c].s = call[c].s /\ call'[c].new = call[c].new
          /\ call'[c].cash = call[c].cash /\ call'[c].row = call[c].row
          /\ \A b \in Callers \ {c} : call'[b] = call[b]
      BY <1>goes, <2>3
    <3>2. QED
      BY <2>1, <2>3, <3>1 DEF AnnouncedInv, CallIsChecked, CommittedStands, NeedsOtp
  <2>4. QED
    BY <1>2, <1>keeps, <2>1, <2>2, <2>3 DEF ReadsAttempts, ComparesOtp
<1>3. CASE WritesLog(c)
  <2>1. /\ call'[c].at = "logged" /\ call'[c].s = call[c].s /\ call'[c].new = call[c].new
        /\ call[c].at = "committed" /\ \A b \in Callers \ {c} : call'[b] = call[b]
        /\ UNCHANGED <<shipment, announced, overtaken>>
    BY <1>3, <1>goes DEF WritesLog
  <2>2. CallIsChecked' /\ CommittedStands'
    BY <2>1 DEF AnnouncedInv, CallIsChecked, CommittedStands, NeedsOtp
  <2>3. QED
    BY <1>keeps, <2>1, <2>2
<1>4. CASE EmitsEvents(c)
  <2> DEFINE s == call[c].s
  <2>1. s \in Shipments
        /\ (call[c].new = "DELIVERED" => s \in overtaken \/ shipment[s].status = "DELIVERED")
    BY <1>4, CallFields DEF EmitsEvents, AnnouncedInv, CommittedStands, TERMINAL_STATUSES
  <2>2. \A t \in Shipments :
          announced'[t] > 0 => announced[t] > 0 \/ (t = s /\ call[c].new = "DELIVERED")
    BY <1>4, <1>types DEF EmitsEvents
  <2>3. UNCHANGED <<shipment, overtaken>> /\ Ends(c)
    BY <1>4 DEF EmitsEvents
  <2> HIDE DEF s
  <2>4. AnnouncedMeansDelivered'
    BY <2>1, <2>2, <2>3 DEF AnnouncedInv, AnnouncedMeansDelivered, DeliveredHasCash
  <2>5. DeliveredHasCash'
    BY <2>3 DEF AnnouncedInv, DeliveredHasCash
  <2>6. QED
    BY <1>ends, <2>3, <2>4, <2>5
<1>5. CASE Dies(c)
  BY <1>5, <1>ends, <1>keeps DEF Dies
<1>6. QED
  BY <1>1, <1>2, <1>3, <1>4, <1>5, CommitKeepsAnnounced DEF CallStep

LEMMA AnnouncedStep ==
  ASSUME AnnouncedInv, [Next]_vars
  PROVE  AnnouncedInv'
<1>1. TypeOK'
  BY TypesInductive DEF AnnouncedInv
<1>2. ASSUME UNCHANGED <<shipment, announced, overtaken, call>>
      PROVE  CallIsChecked' /\ CommittedStands' /\ DeliveredHasCash' /\ AnnouncedMeansDelivered'
  BY <1>2
  DEF AnnouncedInv, CallIsChecked, CommittedStands, DeliveredHasCash, AnnouncedMeansDelivered,
      NeedsOtp
<1>3. CallIsChecked' /\ CommittedStands' /\ DeliveredHasCash' /\ AnnouncedMeansDelivered'
  BY <1>2, CallKeepsAnnounced
  DEF Next, vars, DepositStep, ReadsCashHeld, Deposits, DepositFails, AttemptsExpire
<1>4. QED
  BY <1>1, <1>3 DEF AnnouncedInv

(* However many callers update a shipment whose delivery was announced, and whenever *)
(* they die, it stays delivered, a COD one with its cash on record: unless one of     *)
(* them writes over a status it had not read.                                      *)
THEOREM AnnouncedStaysDelivered == Spec => []AnnouncedMeansDelivered
<1>1. AnnouncedInv /\ [Next]_vars => AnnouncedInv'
  BY AnnouncedStep
<1>2. AnnouncedInv => AnnouncedMeansDelivered
  BY DEF AnnouncedInv
<1>3. QED
  BY <1>1, <1>2, AnnouncedInitially, PTL DEF Spec

----------------------------------------------------------------------------
(* Sums over the tables: cash, announced deliveries, failed attempts *)

(* A call carries the courier its shipment has, and cash exactly when it        *)
(* delivers a COD shipment.                                                    *)
CallsKeepCourier ==
  \A c \in Callers :
    call[c].at # "idle" =>
      /\ call[c].row.courier = shipment[call[c].s].courier
      /\ (call[c].cash # 0) = NeedsOtp(call[c].s, call[c].new)

SumsInv == /\ TypeOK /\ CallsKeepCourier
           /\ CashIsAnsweredFor /\ EventsFollowCommits /\ FailureCountersAgree

(* The functions whose sums the properties compare.                             *)
Held == [k \in Couriers |-> courier[k].cashHeld + deposits[k]]
OnDeliveries == [s \in CodShipments |-> Collected(s)]
Failures == [k \in Couriers |-> courier[k].totalFailed]
Attempted == [s \in Shipments |-> shipment[s].deliveryAttempts]
Delivered == [k \in Couriers |-> courier[k].totalDelivered]

LEMMA SumsByName ==
  /\ CashIsAnsweredFor <=> (AllAssigned => SumFunction(OnDeliveries) <= SumFunction(Held))
  /\ FailureCountersAgree <=> (AllAssigned => SumFunction(Attempted) = SumFunction(Failures))
  /\ EventsFollowCommits <=>
       (AllAssigned => SumFunction(announced) + Cardinality(Announcing) <= SumFunction(Delivered))
BY DEF CashIsAnsweredFor, FailureCountersAgree, EventsFollowCommits, CollectedOnDeliveries,
       CashAnsweredFor, Held, OnDeliveries, Failures, Attempted, Delivered

SumsTyped ==
  /\ Held \in [Couriers -> Int] /\ OnDeliveries \in [CodShipments -> Int]
  /\ Failures \in [Couriers -> Int] /\ Attempted \in [Shipments -> Int]
  /\ Delivered \in [Couriers -> Int] /\ announced \in [Shipments -> Int]

LEMMA TablesAreFinite ==
  IsFiniteSet(Couriers) /\ IsFiniteSet(Shipments) /\ IsFiniteSet(CodShipments)
BY DeliveryAssumption, FS_Subset

LEMMA SumsByNameNext ==
  /\ CashIsAnsweredFor' <=> (AllAssigned => SumFunction(OnDeliveries) <= SumFunction(Held))'
  /\ FailureCountersAgree' <=>
       (AllAssigned => SumFunction(Attempted) = SumFunction(Failures))'
  /\ EventsFollowCommits' <=>
       (AllAssigned => SumFunction(announced) + Cardinality(Announcing)
                         <= SumFunction(Delivered))'
BY SumsByName, PTL

LEMMA SumTypes == TypeOK => SumsTyped
<1> SUFFICES ASSUME TypeOK PROVE SumsTyped
  OBVIOUS
<1>2. Held \in [Couriers -> Int]
  <2>1. \A k \in Couriers : courier[k].cashHeld + deposits[k] \in Int
    BY DEF TypeOK
  <2>2. QED
    BY <2>1 DEF Held
<1>3. OnDeliveries \in [CodShipments -> Int]
  <2>1. \A s \in CodShipments : Collected(s) \in Int
    <3>1. CollectedCash \cup {0} \subseteq Int /\ CodShipments \subseteq Shipments
      BY DeliveryAssumption
    <3>2. \A s \in CodShipments : shipment[s].cash \in CollectedCash \cup {0}
      BY <3>1 DEF TypeOK, ShipmentRow
    <3>3. QED
      BY <3>1, <3>2 DEF Collected
  <2>2. QED
    BY <2>1 DEF OnDeliveries
<1>4. /\ Failures \in [Couriers -> Int] /\ Attempted \in [Shipments -> Int]
      /\ Delivered \in [Couriers -> Int] /\ announced \in [Shipments -> Int]
  BY DEF TypeOK, ShipmentRow, Failures, Attempted, Delivered
<1>5. QED
  BY <1>2, <1>3, <1>4 DEF SumsTyped

LEMMA SumTypesNext == TypeOK' => SumsTyped'
BY SumTypes, PTL

LEMMA SumsInitially == Init => SumsInv
<1> SUFFICES ASSUME Init PROVE SumsInv
  OBVIOUS
<1>1. TypeOK
  BY TypesInitially
<1>2. CallsKeepCourier
  BY IdleIsNoUpdate DEF Init, CallsKeepCourier
<1>3. /\ \A k \in Couriers : Held[k] = 0 /\ Failures[k] = 0 /\ Delivered[k] = 0
      /\ \A s \in Shipments : Attempted[s] = 0 /\ announced[s] = 0
      /\ \A s \in CodShipments : OnDeliveries[s] = 0
  BY DeliveryAssumption
  DEF Init, NewCourier, NewShipment, Held, Failures, Delivered, Attempted, OnDeliveries, Collected
<1>4. /\ SumFunction(Held) = 0 /\ SumFunction(OnDeliveries) = 0
      /\ SumFunction(Failures) = 0 /\ SumFunction(Attempted) = 0
      /\ SumFunction(Delivered) = 0 /\ SumFunction(announced) = 0
  BY <1>1, <1>3, SumTypes, TablesAreFinite, TotalOfZeros DEF SumsTyped
<1>5. Announcing = {}
  BY IdleIsNoUpdate DEF Init, Announcing
<1>6. Cardinality(Announcing) = 0
  BY <1>5, FS_EmptySet
<1>7. QED
  BY <1>1, <1>2, <1>4, <1>6, SumsByName DEF SumsInv

(* What the transaction changes, in the terms the sums are made of.              *)
LEMMA CommitEffect ==
  ASSUME SumsInv, NEW c \in Callers, Commits(c), AllAssigned
  PROVE  LET r == call[c] IN
         LET k == r.row.courier IN
         /\ r.s \in Shipments /\ k \in Couriers /\ r.cash \in Nat
         /\ shipment'[r.s].status = r.new
         /\ shipment'[r.s].cash = (IF r.cash # 0 THEN r.cash ELSE shipment[r.s].cash)
         /\ shipment'[r.s].deliveryAttempts =
              (IF r.new = "FAILED" THEN shipment[r.s].deliveryAttempts + 1
                                   ELSE shipment[r.s].deliveryAttempts)
         /\ \A s \in Shipments \ {r.s} : shipment'[s] = shipment[s]
         /\ courier'[k].totalDelivered =
              (IF r.new = "DELIVERED" THEN courier[k].totalDelivered + 1
                                      ELSE courier[k].totalDelivered)
         /\ courier'[k].totalFailed =
              (IF r.new = "FAILED" THEN courier[k].totalFailed + 1 ELSE courier[k].totalFailed)
         /\ courier'[k].cashHeld =
              (IF r.new = "DELIVERED" THEN courier[k].cashHeld + CashBooked(r)
                                      ELSE courier[k].cashHeld)
         /\ \A j \in Couriers \ {k} : courier'[j] = courier[j]
         /\ (r.cash # 0) = NeedsOtp(r.s, r.new)
         /\ \A s \in Shipments : shipment'[s].courier = shipment[s].courier
<1> DEFINE r == call[c]
           k == r.row.courier
<1>1. /\ r.at = "checked" /\ r.s \in Shipments /\ r.cash \in Nat /\ r.new \in Statuses
      /\ r.row \in ShipmentRow
  BY CallFields DEF Commits, SumsInv
<1>2. /\ k = shipment[r.s].courier
      /\ (r.cash # 0) = NeedsOtp(r.s, r.new)
  BY <1>1 DEF SumsInv, CallsKeepCourier
<1>3. k \in Couriers
  BY <1>1, <1>2 DEF AllAssigned, ShipmentRow
<1>4. /\ shipment' = [shipment EXCEPT ![r.s] = ShipmentUpdate(r, shipment[r.s])]
      /\ courier' = [j \in Couriers |-> IF j = k THEN CourierUpdate(r, courier[j]) ELSE courier[j]]
      /\ shipment \in [Shipments -> ShipmentRow]
      /\ courier \in [Couriers -> CourierRow]
  BY DEF Commits, SumsInv, TypeOK, CourierRow
<1>5. shipment[r.s] \in ShipmentRow /\ courier[k] \in CourierRow
  BY <1>1, <1>3, <1>4
<1> HIDE DEF r, k
<1>6. LET row == ShipmentUpdate(r, shipment[r.s]) IN
      /\ row.status = r.new /\ row.courier = shipment[r.s].courier
      /\ row.cash = (IF r.cash # 0 THEN r.cash ELSE shipment[r.s].cash)
      /\ row.deliveryAttempts = (IF r.new = "FAILED" THEN shipment[r.s].deliveryAttempts + 1
                                                     ELSE shipment[r.s].deliveryAttempts)
  BY <1>5 DEF ShipmentUpdate, ShipmentRow
<1>7. LET row == CourierUpdate(r, courier[k]) IN
      /\ row.totalDelivered = (IF r.new = "DELIVERED" THEN courier[k].totalDelivered + 1
                                                      ELSE courier[k].totalDelivered)
      /\ row.totalFailed = (IF r.new = "FAILED" THEN courier[k].totalFailed + 1
                                                ELSE courier[k].totalFailed)
      /\ row.cashHeld = (IF r.new = "DELIVERED" THEN courier[k].cashHeld + CashBooked(r)
                                                ELSE courier[k].cashHeld)
  <2>1. CASE r.new = "DELIVERED"
    BY <1>5, <2>1 DEF CourierUpdate, CourierRow
  <2>2. CASE r.new = "FAILED"
    BY <1>5, <2>2 DEF CourierUpdate, CourierRow
  <2>3. CASE r.new = "RETURNED"
    BY <1>5, <2>3 DEF CourierUpdate, CourierRow
  <2>4. CASE r.new \notin {"DELIVERED", "FAILED", "RETURNED"}
    BY <2>4 DEF CourierUpdate
  <2>5. QED
    BY <2>1, <2>2, <2>3, <2>4
<1>8. /\ shipment'[r.s] = ShipmentUpdate(r, shipment[r.s])
      /\ \A s \in Shipments \ {r.s} : shipment'[s] = shipment[s]
      /\ courier'[k] = CourierUpdate(r, courier[k])
      /\ \A j \in Couriers \ {k} : courier'[j] = courier[j]
  BY <1>1, <1>3, <1>4
<1>9. \A s \in Shipments : shipment'[s].courier = shipment[s].courier
  BY <1>6, <1>8
<1>10. QED
  BY <1>1, <1>2, <1>3, <1>6, <1>7, <1>8, <1>9 DEF r, k

(* A failure is counted once on each side.                                       *)
LEMMA CommitCountsFailures ==
  ASSUME SumsInv, TypeOK', NEW c \in Callers, Commits(c), AllAssigned
  PROVE  SumFunction(Attempted)' = SumFunction(Failures)'
<1> DEFINE r == call[c]
           k == r.row.courier
           n == IF r.new = "FAILED" THEN 1 ELSE 0
<1>1. /\ r.s \in Shipments /\ k \in Couriers
      /\ shipment'[r.s].deliveryAttempts = shipment[r.s].deliveryAttempts + n
      /\ \A s \in Shipments \ {r.s} : shipment'[s] = shipment[s]
      /\ courier'[k].totalFailed = courier[k].totalFailed + n
      /\ \A j \in Couriers \ {k} : courier'[j] = courier[j]
  <2>1. TypeOK
    BY DEF SumsInv
  <2>2. r.s \in Shipments /\ k \in Couriers
    BY CommitEffect
  <2>3. shipment[r.s].deliveryAttempts \in Nat /\ courier[k].totalFailed \in Nat
    BY <2>1, <2>2 DEF TypeOK, ShipmentRow
  <2>4. QED
    BY <2>3, CommitEffect
<1> HIDE DEF r, k, n
<1>2. /\ Attempted'[r.s] = Attempted[r.s] + n
      /\ \A s \in Shipments \ {r.s} : Attempted'[s] = Attempted[s]
      /\ Failures'[k] = Failures[k] + n
      /\ \A j \in Couriers \ {k} : Failures'[j] = Failures[j]
  BY <1>1 DEF Attempted, Failures
<1>3. /\ Attempted \in [Shipments -> Int] /\ Failures \in [Couriers -> Int]
      /\ Attempted' \in [Shipments -> Int] /\ Failures' \in [Couriers -> Int]
      /\ IsFiniteSet(Shipments) /\ IsFiniteSet(Couriers)
  BY SumTypes, SumTypesNext, TablesAreFinite DEF SumsInv, SumsTyped
<1>4. SumFunction(Attempted') = SumFunction(Attempted) + Attempted'[r.s] - Attempted[r.s]
  BY <1>1, <1>2, <1>3, TotalUpdate
<1>5. SumFunction(Failures') = SumFunction(Failures) + Failures'[k] - Failures[k]
  BY <1>1, <1>2, <1>3, TotalUpdate
<1>6. /\ Attempted[r.s] \in Int /\ Failures[k] \in Int /\ n \in Int
      /\ SumFunction(Attempted) \in Int /\ SumFunction(Failures) \in Int
  BY <1>1, <1>3, TotalIsInt DEF n
<1>7. SumFunction(Attempted) = SumFunction(Failures)
  BY SumsByName DEF SumsInv
<1>8. QED
  BY <1>2, <1>4, <1>5, <1>6, <1>7

(* The cash of a delivery is booked to the courier who answers for it.            *)
LEMMA CommitBooksCash ==
  ASSUME SumsInv, TypeOK', NEW c \in Callers, Commits(c), AllAssigned
  PROVE  SumFunction(OnDeliveries)' <= SumFunction(Held)'
<1> DEFINE r == call[c]
           k == r.row.courier
           booked == IF r.new = "DELIVERED" THEN CashBooked(r) ELSE 0
           now == IF shipment'[r.s].status = "DELIVERED" THEN shipment'[r.s].cash ELSE 0
<1>types. TypeOK
  BY DEF SumsInv
<1>1. /\ r.s \in Shipments /\ k \in Couriers /\ r.cash \in Nat /\ booked \in Nat
      /\ \A s \in Shipments \ {r.s} : shipment'[s] = shipment[s]
      /\ \A j \in Couriers \ {k} : courier'[j] = courier[j]
      /\ UNCHANGED deposits
  BY CommitEffect DEF CashBooked, Commits
<1>2. courier'[k].cashHeld = courier[k].cashHeld + booked
  <2>1. courier[k].cashHeld \in Int
    BY <1>types, <1>1 DEF TypeOK
  <2>2. QED
    BY <2>1, CommitEffect
<1>3. r.s \in CodShipments => now <= booked
  <2>1. CASE r.s \in CodShipments /\ r.new = "DELIVERED"
    <3>1. r.cash # 0 /\ shipment'[r.s].status = "DELIVERED" /\ shipment'[r.s].cash = r.cash
      BY <2>1, CommitEffect DEF NeedsOtp
    <3>2. now = r.cash /\ booked = r.cash
      BY <2>1, <3>1 DEF CashBooked
    <3>3. QED
      BY <1>1, <3>2
  <2>2. CASE r.new # "DELIVERED"
    <3>1. shipment'[r.s].status # "DELIVERED"
      BY <2>2, CommitEffect
    <3>2. QED
      BY <2>2, <3>1
  <2>3. QED
    BY <2>1, <2>2
<1>4. r.s \in CodShipments => OnDeliveries[r.s] >= 0
  <2>1. CollectedCash \cup {0} \subseteq Nat
    BY DeliveryAssumption
  <2>2. shipment[r.s].cash \in Nat
    BY <1>types, <1>1, <2>1 DEF TypeOK, ShipmentRow
  <2>3. QED
    BY <2>2 DEF OnDeliveries, Collected
<1>now. r.s \in CodShipments => OnDeliveries'[r.s] = now
  BY DEF OnDeliveries, Collected
<1> HIDE DEF r, k, booked, now
<1>5. /\ Held'[k] = Held[k] + booked
      /\ \A j \in Couriers \ {k} : Held'[j] = Held[j]
  <2>1. courier[k].cashHeld \in Int /\ deposits[k] \in Int
    BY <1>types, <1>1 DEF TypeOK
  <2>2. QED
    BY <1>1, <1>2, <2>1 DEF Held
<1>6. /\ Held \in [Couriers -> Int] /\ Held' \in [Couriers -> Int]
      /\ OnDeliveries \in [CodShipments -> Int] /\ OnDeliveries' \in [CodShipments -> Int]
  BY <1>types, SumTypes, SumTypesNext DEF SumsTyped
<1>7. /\ SumFunction(Held') = SumFunction(Held) + Held'[k] - Held[k]
      /\ SumFunction(Held) \in Int /\ Held[k] \in Int
  BY <1>1, <1>5, <1>6, TotalUpdate, TotalIsInt, TablesAreFinite
<1>8. SumFunction(OnDeliveries) <= SumFunction(Held)
  BY SumsByName DEF SumsInv
<1>9. SumFunction(OnDeliveries) \in Int
  BY <1>6, TotalIsInt, TablesAreFinite
<1>10. \A s \in CodShipments \ {r.s} : OnDeliveries'[s] = OnDeliveries[s]
  BY <1>1, DeliveryAssumption DEF OnDeliveries, Collected
<1>11. CASE r.s \in CodShipments
  <2>1. SumFunction(OnDeliveries') =
          SumFunction(OnDeliveries) + OnDeliveries'[r.s] - OnDeliveries[r.s]
    BY <1>6, <1>10, <1>11, TotalUpdate, TablesAreFinite
  <2>2. OnDeliveries'[r.s] <= booked
    BY <1>3, <1>now, <1>11
  <2>3. OnDeliveries'[r.s] \in Int /\ OnDeliveries[r.s] \in Int /\ OnDeliveries[r.s] >= 0
    BY <1>4, <1>6, <1>11
  <2>4. QED
    BY <1>1, <1>5, <1>7, <1>8, <1>9, <2>1, <2>2, <2>3
<1>12. CASE r.s \notin CodShipments
  <2>1. OnDeliveries' = OnDeliveries
    BY <1>6, <1>10, <1>12
  <2>2. QED
    BY <1>1, <1>5, <1>7, <1>8, <1>9, <2>1
<1>13. QED
  BY <1>11, <1>12

(* A delivery is counted when it commits, before it is announced.                 *)
LEMMA CommitCountsDelivery ==
  ASSUME SumsInv, TypeOK', NEW c \in Callers, Commits(c), AllAssigned
  PROVE  SumFunction(announced)' + Cardinality(Announcing)' <= SumFunction(Delivered)'
<1> DEFINE r == call[c]
           k == r.row.courier
           n == IF r.new = "DELIVERED" THEN 1 ELSE 0
<1>types. TypeOK
  BY DEF SumsInv
<1>1. /\ k \in Couriers /\ n \in Nat
      /\ \A j \in Couriers \ {k} : courier'[j] = courier[j]
  BY CommitEffect
<1>2. courier'[k].totalDelivered = courier[k].totalDelivered + n
  <2>1. courier[k].totalDelivered \in Nat
    BY <1>types, <1>1 DEF TypeOK
  <2>2. QED
    BY <2>1, CommitEffect
<1>3. /\ r \in UpdateCall /\ r.at = "checked" /\ UNCHANGED announced
      /\ call' = [call EXCEPT ![c].at = "committed"]
      /\ call \in [Callers -> UpdateCall \cup {Idle}]
  BY <1>types, CallFields DEF Commits, Leaves, TypeOK
<1>4. /\ call'[c].at = "committed" /\ call'[c].new = r.new
      /\ \A b \in Callers \ {c} : call'[b] = call[b]
  BY <1>3 DEF UpdateCall
<1>5. Announcing \in SUBSET Callers /\ IsFiniteSet(Announcing) /\ Cardinality(Announcing) \in Nat
  <2>1. Announcing \in SUBSET Callers
    BY DEF Announcing
  <2>2. QED
    BY <2>1, GuessersAreCallers
<1>6. Cardinality(Announcing') = Cardinality(Announcing) + n
  <2>1. CASE r.new = "DELIVERED"
    <3>1. Announcing' = Announcing \cup {c} /\ c \notin Announcing
      BY <1>3, <1>4, <2>1 DEF Announcing
    <3>2. Cardinality(Announcing \cup {c}) = Cardinality(Announcing) + 1
      BY <1>5, <3>1, FS_AddElement
    <3>3. QED
      BY <2>1, <3>1, <3>2
  <2>2. CASE r.new # "DELIVERED"
    <3>1. Announcing' = Announcing
      BY <1>3, <1>4, <2>2 DEF Announcing
    <3>2. QED
      BY <1>5, <2>2, <3>1
  <2>3. QED
    BY <2>1, <2>2
<1> HIDE DEF r, k, n
<1>7. /\ Delivered \in [Couriers -> Int] /\ Delivered' \in [Couriers -> Int]
      /\ announced \in [Shipments -> Int]
  BY <1>types, SumTypes, SumTypesNext DEF SumsTyped
<1>8. /\ Delivered'[k] = Delivered[k] + n
      /\ \A j \in Couriers \ {k} : Delivered'[j] = Delivered[j]
  BY <1>1, <1>2 DEF Delivered
<1>9. /\ SumFunction(Delivered') = SumFunction(Delivered) + Delivered'[k] - Delivered[k]
      /\ SumFunction(Delivered) \in Int /\ Delivered[k] \in Int /\ SumFunction(announced) \in Int
  BY <1>1, <1>7, <1>8, TotalUpdate, TotalIsInt, TablesAreFinite
<1>10. SumFunction(announced) + Cardinality(Announcing) <= SumFunction(Delivered)
  BY SumsByName DEF SumsInv
<1>11. QED
  BY <1>1, <1>3, <1>5, <1>6, <1>8, <1>9, <1>10

(* EmitsEvents moves a delivery from the calls about to announce it to those      *)
(* announced.                                                                  *)
LEMMA EmissionKeepsCount ==
  ASSUME SumsInv, TypeOK', NEW c \in Callers, EmitsEvents(c), AllAssigned
  PROVE  SumFunction(announced)' + Cardinality(Announcing)' <= SumFunction(Delivered)'
<1> DEFINE s == call[c].s
           n == IF call[c].new = "DELIVERED" THEN 1 ELSE 0
<1>types. TypeOK
  BY DEF SumsInv
<1>1. /\ s \in Shipments /\ n \in Nat /\ call[c].at = "logged" /\ Ends(c)
      /\ announced' = [announced EXCEPT ![s] = IF call[c].new = "DELIVERED" THEN @ + 1 ELSE @]
      /\ UNCHANGED courier
  BY <1>types, CallFields DEF EmitsEvents
<1>2. /\ announced'[s] = announced[s] + n
      /\ \A t \in Shipments \ {s} : announced'[t] = announced[t]
  <2>1. announced[s] \in Nat /\ announced \in [Shipments -> Nat]
    BY <1>types, <1>1 DEF TypeOK
  <2>2. QED
    BY <1>1, <2>1
<1>3. /\ call'[c].at = "idle" /\ \A b \in Callers \ {c} : call'[b] = call[b]
  BY <1>1, <1>types, IdleIsNoUpdate DEF Ends, TypeOK
<1>4. Announcing \in SUBSET Callers /\ IsFiniteSet(Announcing) /\ Cardinality(Announcing) \in Nat
  <2>1. Announcing \in SUBSET Callers
    BY DEF Announcing
  <2>2. QED
    BY <2>1, GuessersAreCallers
<1>5. Cardinality(Announcing') = Cardinality(Announcing) - n
  <2>1. CASE call[c].new = "DELIVERED"
    <3>1. Announcing' = Announcing \ {c} /\ c \in Announcing
      BY <1>1, <1>3, <2>1 DEF Announcing
    <3>2. Cardinality(Announcing \ {c}) = Cardinality(Announcing) - 1
      BY <1>4, <3>1, FS_RemoveElement
    <3>3. QED
      BY <2>1, <3>1, <3>2
  <2>2. CASE call[c].new # "DELIVERED"
    <3>1. Announcing' = Announcing
      BY <1>1, <1>3, <2>2 DEF Announcing
    <3>2. QED
      BY <1>4, <2>2, <3>1
  <2>3. QED
    BY <2>1, <2>2
<1> HIDE DEF s, n
<1>6. /\ Delivered \in [Couriers -> Int] /\ Delivered' = Delivered
      /\ announced \in [Shipments -> Int] /\ announced' \in [Shipments -> Int]
  BY <1>1, <1>types, SumTypes, SumTypesNext DEF SumsTyped, Delivered
<1>7. /\ SumFunction(announced') = SumFunction(announced) + announced'[s] - announced[s]
      /\ SumFunction(announced) \in Int /\ announced[s] \in Int /\ SumFunction(Delivered) \in Int
  <2>1. s \in Shipments /\ \A t \in Shipments \ {s} : announced'[t] = announced[t]
    BY <1>1, <1>2
  <2>2. announced \in [Shipments -> Int] /\ announced' \in [Shipments -> Int]
    BY <1>6
  <2>3. SumFunction(announced') = SumFunction(announced) + announced'[s] - announced[s]
    BY <2>1, <2>2, TotalUpdate, TablesAreFinite
  <2>4. QED
    BY <1>1, <1>6, <2>3, TotalIsInt, TablesAreFinite
<1>8. SumFunction(announced) + Cardinality(Announcing) <= SumFunction(Delivered)
  BY SumsByName DEF SumsInv
<1>9. QED
  BY <1>1, <1>2, <1>4, <1>5, <1>6, <1>7, <1>8

(* What a call remembers of the shipment it has read.                             *)
LEMMA ReadEffect ==
  ASSUME NEW c \in Callers, ReadsShipment(c)
  PROVE  \E s \in Shipments, new \in Statuses, cash \in CollectedCash \cup {0},
            code \in Codes \cup {NoCode} :
           /\ (cash # 0) = NeedsOtp(s, new)
           /\ call' = [call EXCEPT ![c] =
                         [at |-> IF NeedsOtp(s, new) THEN "otp" ELSE "checked",
                          s |-> s, new |-> new, cash |-> cash, code |-> code,
                          row |-> shipment[s]]]
BY DEF ReadsShipment

(* No update moves a shipment to another courier.                                *)
LEMMA CouriersStand ==
  ASSUME TypeOK, [Next]_vars
  PROVE  \A s \in Shipments : shipment'[s].courier = shipment[s].courier
<1>types. call \in [Callers -> UpdateCall \cup {Idle}] /\ shipment \in [Shipments -> ShipmentRow]
  BY DEF TypeOK
<1>1. CASE \E b \in Callers : Commits(b)
  <2>1. PICK b \in Callers : Commits(b)
    BY <1>1
  <2>2. shipment' = [shipment EXCEPT ![call[b].s] = ShipmentUpdate(call[b], shipment[call[b].s])]
    BY <2>1 DEF Commits
  <2>3. ASSUME NEW s \in Shipments
        PROVE  ShipmentUpdate(call[b], shipment[s]).courier = shipment[s].courier
    BY <1>types DEF ShipmentUpdate, ShipmentRow
  <2>4. QED
    BY <1>types, <2>2, <2>3
<1>2. CASE UNCHANGED shipment
  BY <1>2
<1>3. QED
  BY <1>1, <1>2
  DEF Next, vars, CallStep, DepositStep, ReadsShipment, ReadsAttempts, ComparesOtp, WritesLog,
      EmitsEvents, Dies, ReadsCashHeld, Deposits, DepositFails, AttemptsExpire

LEMMA CallsKeepCourierStep ==
  ASSUME TypeOK, CallsKeepCourier, [Next]_vars
  PROVE  CallsKeepCourier'
<1>types. call \in [Callers -> UpdateCall \cup {Idle}] /\ shipment \in [Shipments -> ShipmentRow]
  BY DEF TypeOK
<1> SUFFICES ASSUME NEW c \in Callers, call'[c].at # "idle"
             PROVE  /\ call'[c].row.courier = shipment'[call'[c].s].courier
                    /\ (call'[c].cash # 0) = NeedsOtp(call'[c].s, call'[c].new)
  BY DEF CallsKeepCourier, NeedsOtp
<1>1. \A s \in Shipments : shipment'[s].courier = shipment[s].courier
  BY CouriersStand
<1>2. CASE call'[c] = call[c]
  <2>1. call[c].s \in Shipments
    BY <1>2, CallFields
  <2>2. QED
    BY <1>1, <1>2, <2>1 DEF CallsKeepCourier
<1>3. CASE \E at : call'[c] = [call[c] EXCEPT !.at = at] /\ call[c].at # "idle"
  <2>1. PICK at : call'[c] = [call[c] EXCEPT !.at = at] /\ call[c].at # "idle"
    BY <1>3
  <2>2. call[c] \in UpdateCall /\ call[c].s \in Shipments
    BY <2>1, CallFields
  <2>3. /\ call'[c].s = call[c].s /\ call'[c].row = call[c].row
        /\ call'[c].cash = call[c].cash /\ call'[c].new = call[c].new
    BY <2>1, <2>2 DEF UpdateCall
  <2>4. QED
    BY <1>1, <2>1, <2>2, <2>3 DEF CallsKeepCourier
<1>4. CASE ReadsShipment(c)
  <2>1. PICK s \in Shipments, new \in Statuses, cash \in CollectedCash \cup {0},
             code \in Codes \cup {NoCode} :
          /\ (cash # 0) = NeedsOtp(s, new)
          /\ call' = [call EXCEPT ![c] =
                        [at |-> IF NeedsOtp(s, new) THEN "otp" ELSE "checked",
                         s |-> s, new |-> new, cash |-> cash, code |-> code,
                         row |-> shipment[s]]]
    BY <1>4, ReadEffect
  <2>2. /\ call'[c].s = s /\ call'[c].row = shipment[s]
        /\ call'[c].new = new /\ call'[c].cash = cash
    BY <1>types, <2>1
  <2>3. QED
    BY <1>1, <2>1, <2>2
<1>5. call'[c] = call[c] \/ ReadsShipment(c)
      \/ \E at : call'[c] = [call[c] EXCEPT !.at = at] /\ call[c].at # "idle"
  <2>1. ASSUME NEW b \in Callers, CallStep(b), b # c PROVE call'[c] = call[c]
    BY <1>types, <2>1
    DEF CallStep, ReadsShipment, ReadsAttempts, ComparesOtp, Commits, WritesLog,
        EmitsEvents, Dies, Leaves, Ends
  <2>2. Ends(c) => call'[c].at = "idle"
    BY <1>types, IdleIsNoUpdate DEF Ends
  <2>3. ASSUME NEW at, Leaves(c, at) PROVE call'[c] = [call[c] EXCEPT !.at = at]
    BY <1>types, <2>3 DEF Leaves
  <2>4. CASE CallStep(c)
    BY <2>2, <2>3, <2>4
    DEF CallStep, ReadsAttempts, ComparesOtp, Commits, WritesLog, EmitsEvents, Dies
  <2>5. CASE UNCHANGED call
    BY <2>5
  <2>6. QED
    BY <2>1, <2>4, <2>5
    DEF Next, vars, DepositStep, ReadsCashHeld, Deposits, DepositFails, AttemptsExpire
<1>6. QED
  BY <1>2, <1>3, <1>4, <1>5

(* A deposit moves cash from what the courier holds to what it has deposited.     *)
LEMMA DepositKeepsHeld ==
  ASSUME TypeOK, TypeOK', NEW d \in Depositors, Deposits(d)
  PROVE  Held' = Held
<1> DEFINE k == depositing[d].k
           amount == depositing[d].amount
<1>1. depositing[d] \in DepositCall
  BY IdleIsNoUpdate DEF Deposits, TypeOK
<1>2. k \in Couriers /\ amount \in Nat
  BY <1>1, DeliveryAssumption DEF DepositCall
<1>3. /\ deposits' = [deposits EXCEPT ![k] = @ + amount]
      /\ courier' = [courier EXCEPT ![k] = [courier[k] EXCEPT !.cashHeld = courier[k].cashHeld - amount]]
      /\ deposits \in [Couriers -> Nat] /\ courier \in [Couriers -> CourierRow]
  BY DEF Deposits, TypeOK, CourierRow
<1> HIDE DEF k, amount
<1>4. courier[k] \in CourierRow /\ deposits[k] \in Nat
  BY <1>2, <1>3
<1>5. courier'[k].cashHeld = courier[k].cashHeld - amount /\ deposits'[k] = deposits[k] + amount
  BY <1>2, <1>3, <1>4 DEF CourierRow
<1>6. courier'[k].cashHeld + deposits'[k] = courier[k].cashHeld + deposits[k]
  BY <1>2, <1>4, <1>5 DEF CourierRow
<1>7. \A j \in Couriers \ {k} : courier'[j] = courier[j] /\ deposits'[j] = deposits[j]
  BY <1>2, <1>3
<1>8. \A j \in Couriers : courier'[j].cashHeld + deposits'[j] = courier[j].cashHeld + deposits[j]
  BY <1>6, <1>7
<1>9. QED
  BY <1>8 DEF Held

(* Steps that touch no sum: nothing more to announce.                             *)
LEMMA NoSumChanges ==
  ASSUME SumsInv, TypeOK', CallsKeepCourier', Announcing' \subseteq Announcing,
         AllAssigned' => AllAssigned,
         Held' = Held, UNCHANGED <<shipment, announced>>,
         Delivered' = Delivered, Failures' = Failures
  PROVE  SumsInv'
<1>1. OnDeliveries' = OnDeliveries /\ Attempted' = Attempted
  BY DEF OnDeliveries, Attempted, Collected
<1>2. Announcing \in SUBSET Callers
  BY DEF Announcing
<1>3. /\ Cardinality(Announcing') <= Cardinality(Announcing)
      /\ Cardinality(Announcing) \in Nat /\ Cardinality(Announcing') \in Nat
  <2>1. IsFiniteSet(Announcing)
    BY <1>2, GuessersAreCallers
  <2>2. QED
    BY <2>1, FS_Subset, FS_CardinalityType
<1>4. SumFunction(announced) \in Int /\ SumFunction(Delivered) \in Int
  BY SumTypes, TotalIsInt, TablesAreFinite DEF SumsTyped, SumsInv
<1>5. AllAssigned' => /\ SumFunction(OnDeliveries) <= SumFunction(Held)
                      /\ SumFunction(Attempted) = SumFunction(Failures)
                      /\ SumFunction(announced) + Cardinality(Announcing) <= SumFunction(Delivered)
  BY SumsByName DEF SumsInv
<1>6. AllAssigned' => SumFunction(announced) + Cardinality(Announcing') <= SumFunction(Delivered)
  BY <1>3, <1>4, <1>5
<1>7. CashIsAnsweredFor'
  BY <1>1, <1>5, SumsByNameNext
<1>8. FailureCountersAgree'
  BY <1>1, <1>5, SumsByNameNext
<1>9. EventsFollowCommits'
  BY <1>6, SumsByNameNext
<1>10. QED
  BY <1>7, <1>8, <1>9 DEF SumsInv

LEMMA SumsStep ==
  ASSUME SumsInv, [Next]_vars
  PROVE  SumsInv'
<1>types. TypeOK /\ TypeOK'
  BY TypesInductive DEF SumsInv
<1>1. CallsKeepCourier'
  BY <1>types, CallsKeepCourierStep DEF SumsInv
<1>assigned. AllAssigned' => AllAssigned
  BY <1>types, CouriersStand DEF AllAssigned
<1>2. CASE \E c \in Callers : Commits(c)
  <2>1. PICK c \in Callers : Commits(c)
    BY <1>2
  <2>2. CashIsAnsweredFor'
    BY <1>types, <1>assigned, <2>1, CommitBooksCash, SumsByNameNext
  <2>3. FailureCountersAgree'
    BY <1>types, <1>assigned, <2>1, CommitCountsFailures, SumsByNameNext
  <2>4. EventsFollowCommits'
    BY <1>types, <1>assigned, <2>1, CommitCountsDelivery, SumsByNameNext
  <2>5. QED
    BY <1>types, <1>1, <2>2, <2>3, <2>4 DEF SumsInv
<1>3. CASE \E c \in Callers : EmitsEvents(c)
  <2>1. PICK c \in Callers : EmitsEvents(c)
    BY <1>3
  <2>2. EventsFollowCommits'
    BY <1>types, <1>assigned, <2>1, EmissionKeepsCount, SumsByNameNext
  <2>3. /\ OnDeliveries' = OnDeliveries /\ Held' = Held
        /\ Attempted' = Attempted /\ Failures' = Failures
    BY <2>1 DEF EmitsEvents, OnDeliveries, Held, Attempted, Failures, Collected
  <2>4. CashIsAnsweredFor' /\ FailureCountersAgree'
    BY <1>assigned, <2>3, SumsByName, SumsByNameNext DEF SumsInv
  <2>5. QED
    BY <1>types, <1>1, <2>2, <2>4 DEF SumsInv
<1>4. CASE \E d \in Depositors : Deposits(d)
  <2>1. PICK d \in Depositors : Deposits(d)
    BY <1>4
  <2>2. Held' = Held
    BY <1>types, <2>1, DepositKeepsHeld
  <2>3. Delivered' = Delivered /\ Failures' = Failures
    <3> DEFINE k == depositing[d].k
               held == courier[k].cashHeld - depositing[d].amount
    <3>1. /\ courier' = [courier EXCEPT ![k] = [courier[k] EXCEPT !.cashHeld = held]]
          /\ courier \in [Couriers -> CourierRow]
      BY <1>types, <2>1 DEF Deposits, TypeOK, CourierRow
    <3> HIDE DEF k, held
    <3>2. \A j \in Couriers : /\ courier'[j].totalDelivered = courier[j].totalDelivered
                              /\ courier'[j].totalFailed = courier[j].totalFailed
      BY <3>1 DEF CourierRow
    <3>3. QED
      BY <3>2 DEF Delivered, Failures
  <2>4. UNCHANGED <<shipment, announced, call>>
    BY <2>1 DEF Deposits
  <2>5. Announcing' = Announcing
    BY <2>4 DEF Announcing
  <2>6. QED
    BY <1>types, <1>1, <1>assigned, <2>2, <2>3, <2>4, <2>5, NoSumChanges
<1>5. ASSUME UNCHANGED <<shipment, courier, deposits, announced>>,
             \A c \in Callers : call'[c].at \in {"committed", "logged"} =>
                call[c].at \in {"committed", "logged"} /\ call'[c].new = call[c].new
      PROVE  SumsInv'
  <2>1. Announcing' \subseteq Announcing
    BY <1>5 DEF Announcing
  <2>2. Held' = Held /\ Delivered' = Delivered /\ Failures' = Failures
    BY <1>5 DEF Held, Delivered, Failures
  <2>3. QED
    BY <1>types, <1>1, <1>5, <1>assigned, <2>1, <2>2, NoSumChanges
<1>calls. call \in [Callers -> UpdateCall \cup {Idle}]
  BY <1>types DEF TypeOK
<1>6. ASSUME NEW c \in Callers, ReadsShipment(c) \/ ReadsAttempts(c) \/ ComparesOtp(c) \/ Dies(c)
      PROVE  SumsInv'
  <2>1. UNCHANGED <<shipment, courier, deposits, announced>>
    BY <1>6 DEF ReadsShipment, ReadsAttempts, ComparesOtp, Dies
  <2>2. \A b \in Callers \ {c} : call'[b] = call[b]
    BY <1>6, <1>calls DEF ReadsShipment, ReadsAttempts, ComparesOtp, Dies, Leaves, Ends
  <2>3. call'[c].at \notin {"committed", "logged"}
    <3>1. CASE ReadsShipment(c)
      BY <3>1, <1>calls DEF ReadsShipment
    <3>2. CASE ReadsAttempts(c) \/ ComparesOtp(c) \/ Dies(c)
      <4>1. call[c] \in UpdateCall
        BY <1>types, <3>2, CallFields DEF ReadsAttempts, ComparesOtp, Dies
      <4>2. \/ call' = [call EXCEPT ![c].at = "guess"] \/ call' = [call EXCEPT ![c].at = "checked"]
            \/ call' = [call EXCEPT ![c] = Idle]
        BY <3>2 DEF ReadsAttempts, ComparesOtp, Dies, Leaves, Ends
      <4>3. QED
        BY <1>calls, <4>1, <4>2, IdleIsNoUpdate DEF UpdateCall
    <3>3. QED
      BY <1>6, <3>1, <3>2
  <2>4. QED
    BY <2>1, <2>2, <2>3, <1>5
<1>7. ASSUME NEW c \in Callers, WritesLog(c) PROVE SumsInv'
  <2>1. call[c] \in UpdateCall /\ call[c].at = "committed"
    BY <1>types, <1>7, CallFields DEF WritesLog
  <2>2. call' = [call EXCEPT ![c].at = "logged"]
    BY <1>7 DEF WritesLog, Leaves
  <2>3. call'[c].new = call[c].new /\ \A b \in Callers \ {c} : call'[b] = call[b]
    BY <1>calls, <2>1, <2>2 DEF UpdateCall
  <2>4. QED
    BY <1>5, <1>7, <2>1, <2>3 DEF WritesLog
<1>8. ASSUME UNCHANGED <<shipment, courier, deposits, announced, call>> PROVE SumsInv'
  BY <1>5, <1>8
<1>9. QED
  BY <1>2, <1>3, <1>4, <1>6, <1>7, <1>8
  DEF Next, vars, CallStep, DepositStep, ReadsCashHeld, DepositFails, AttemptsExpire

LEMMA SumsHold == Spec => []SumsInv
BY SumsInitially, SumsStep, PTL DEF Spec

(* No update of cashHeld is lost and no stale call takes cash back: what is         *)
(* collected on delivered shipments never exceeds what couriers hold and have       *)
(* deposited, for any callers and depositors.                                      *)
THEOREM CashStaysAnsweredFor == Spec => []CashIsAnsweredFor
<1>1. SumsInv => CashIsAnsweredFor
  BY DEF SumsInv
<1>2. QED
  BY <1>1, SumsHold, PTL

(* A delivery is announced, and credited, only after a commit that counted it, and  *)
(* once for each: whoever dies on the way, for any callers.                        *)
THEOREM AnnouncedWasCommitted == Spec => []EventsFollowCommits
<1>1. SumsInv => EventsFollowCommits
  BY DEF SumsInv
<1>2. QED
  BY <1>1, SumsHold, PTL

(* The attempts counted on shipments are those counted on couriers, for any         *)
(* callers.                                                                       *)
THEOREM FailuresAgree == Spec => []FailureCountersAgree
<1>1. SumsInv => FailureCountersAgree
  BY DEF SumsInv
<1>2. QED
  BY <1>1, SumsHold, PTL

----------------------------------------------------------------------------
(* Overlapping deposits *)

(* The deposits that were checked against what a courier holds.                    *)
Checked(k) == {d \in Depositors : depositing[d].at = "checked" /\ depositing[d].k = k}

Others(k) == Cardinality(Depositors) - Cardinality(Checked(k))

(* One of the checked deposits is covered, but for what the depositors that are        *)
(* not (or no longer) among them may have taken since; when none is checked, all         *)
(* but the last may have.                                                          *)
CoveredBut(k, most) ==
  \/ Checked(k) = {} /\ courier[k].cashHeld + (Cardinality(Depositors) - 1) * most >= 0
  \/ \E d \in Checked(k) : courier[k].cashHeld - depositing[d].amount + Others(k) * most >= 0

OverdraftInv ==
  /\ TypeOK
  /\ Depositors # {} => \A k \in Couriers, most \in LargestDeposits : CoveredBut(k, most)

LEMMA CheckedAreDepositors ==
  ASSUME TypeOK, NEW k \in Couriers
  PROVE  /\ IsFiniteSet(Checked(k)) /\ Cardinality(Checked(k)) \in Nat
         /\ Cardinality(Depositors) \in Nat /\ Others(k) \in Nat
         /\ \A d \in Checked(k) : d \in Depositors /\ depositing[d].amount \in DepositAmounts
                                  /\ depositing[d].amount \in Nat
<1>1. Checked(k) \subseteq Depositors
  BY DEF Checked
<1>2. IsFiniteSet(Depositors)
  BY DeliveryAssumption
<1>3. IsFiniteSet(Checked(k)) /\ Cardinality(Checked(k)) <= Cardinality(Depositors)
  BY <1>1, <1>2, FS_Subset
<1>4. Cardinality(Checked(k)) \in Nat /\ Cardinality(Depositors) \in Nat
  BY <1>2, <1>3, FS_CardinalityType
<1>5. \A d \in Checked(k) : depositing[d] \in DepositCall
  BY IdleIsNoUpdate DEF Checked, TypeOK
<1>6. \A d \in Checked(k) : depositing[d].amount \in DepositAmounts
  BY <1>5 DEF DepositCall
<1>7. \A d \in Checked(k) : depositing[d].amount \in Nat
  BY <1>6, DeliveryAssumption
<1>8. Others(k) \in Nat
  <2> DEFINE n == Cardinality(Depositors)
             m == Cardinality(Checked(k))
  <2>1. n \in Nat /\ m \in Nat /\ m <= n
    BY <1>3, <1>4
  <2> HIDE DEF n, m
  <2>2. n - m \in Nat
    BY <2>1
  <2>3. QED
    BY <2>2 DEF Others, n, m
<1>9. QED
  BY <1>1, <1>3, <1>4, <1>6, <1>7, <1>8

LEMMA Products ==
  ASSUME NEW i \in Nat, NEW m \in Nat
  PROVE  i * m \in Nat /\ (i + 1) * m = i * m + m
OBVIOUS

LEMMA LargestIsNat ==
  ASSUME NEW most \in LargestDeposits
  PROVE  most \in Nat /\ \A amount \in DepositAmounts : amount <= most
BY DeliveryAssumption DEF LargestDeposits

LEMMA OverdraftInitially == Init => OverdraftInv
<1> SUFFICES ASSUME Init, Depositors # {}, NEW k \in Couriers, NEW most \in LargestDeposits
             PROVE  CoveredBut(k, most)
  BY TypesInitially DEF OverdraftInv
<1>1. Checked(k) = {} /\ courier[k].cashHeld = 0
  BY IdleIsNoUpdate DEF Init, NewCourier, Checked
<1>2. Cardinality(Depositors) - 1 \in Nat
  <2>1. IsFiniteSet(Depositors)
    BY DeliveryAssumption
  <2>2. Cardinality(Depositors) \in Nat /\ Cardinality(Depositors) # 0
    BY <2>1, FS_CardinalityType, FS_EmptySet
  <2>3. QED
    BY <2>2
<1>3. (Cardinality(Depositors) - 1) * most \in Nat
  BY <1>2, LargestIsNat, Products
<1>4. QED
  BY <1>1, <1>3 DEF CoveredBut

(* More cash and the same deposits: what was covered is.                          *)
LEMMA CashGrows ==
  ASSUME OverdraftInv, Depositors # {}, NEW k \in Couriers, NEW most \in LargestDeposits,
         Checked(k)' = Checked(k), \A d \in Checked(k) : depositing'[d] = depositing[d],
         courier'[k].cashHeld \in Int, courier'[k].cashHeld >= courier[k].cashHeld
  PROVE  CoveredBut(k, most)'
<1>1. CoveredBut(k, most) /\ courier[k].cashHeld \in Int
  BY DEF OverdraftInv, TypeOK
<1>2. /\ Cardinality(Depositors) \in Nat /\ Others(k) \in Nat
      /\ \A d \in Checked(k) : depositing[d].amount \in Nat
  BY CheckedAreDepositors DEF OverdraftInv
<1>3. most \in Nat
  BY LargestIsNat
<1>4. Others(k)' = Others(k)
  BY DEF Others
<1> DEFINE held == courier[k].cashHeld
           now == courier'[k].cashHeld
           all == (Cardinality(Depositors) - 1) * most
           rest == Others(k) * most
<1>5. all \in Int /\ rest \in Int /\ held \in Int /\ now \in Int /\ now >= held
  BY <1>1, <1>2, <1>3
<1>6. CASE Checked(k) = {} /\ held + all >= 0
  <2> HIDE DEF held, now, all
  <2>1. now + all >= 0
    BY <1>5, <1>6
  <2>2. QED
    BY <1>6, <2>1 DEF CoveredBut, now, all
<1>7. CASE \E d \in Checked(k) : held - depositing[d].amount + rest >= 0
  <2>1. PICK d \in Checked(k) : held - depositing[d].amount + rest >= 0
    BY <1>7
  <2>2. depositing[d].amount \in Nat /\ depositing'[d].amount = depositing[d].amount
    BY <1>2
  <2> HIDE DEF held, now, rest
  <2>3. now - depositing'[d].amount + rest >= 0
    BY <1>5, <2>1, <2>2
  <2>4. QED
    BY <1>4, <2>3 DEF CoveredBut, now, rest
<1>8. QED
  BY <1>1, <1>6, <1>7 DEF CoveredBut

(* A new deposit is covered when it is checked.                                   *)
LEMMA CheckIsCovered ==
  ASSUME OverdraftInv, TypeOK', Depositors # {}, NEW d \in Depositors, ReadsCashHeld(d),
         NEW k \in Couriers, NEW most \in LargestDeposits
  PROVE  CoveredBut(k, most)'
<1>types. depositing \in [Depositors -> DepositCall \cup {Idle}] /\ courier[k].cashHeld \in Int
  BY DEF OverdraftInv, TypeOK
<1>1. PICK j \in Couriers, amount \in DepositAmounts :
        /\ amount <= courier[j].cashHeld
        /\ depositing' = [depositing EXCEPT ![d] = [at |-> "checked", k |-> j, amount |-> amount]]
  BY DEF ReadsCashHeld, Covers
<1>2. /\ depositing'[d].at = "checked" /\ depositing'[d].k = j /\ depositing'[d].amount = amount
      /\ \A e \in Depositors \ {d} : depositing'[e] = depositing[e]
      /\ depositing[d].at = "idle" /\ UNCHANGED courier
  BY <1>1, <1>types DEF ReadsCashHeld
<1>3. CASE j = k
  <2>1. d \in Checked(k)'
    BY <1>2, <1>3 DEF Checked
  <2>2. Others(k)' \in Nat
    <3> DEFINE n == Cardinality(Depositors)
               m == Cardinality(Checked(k)')
    <3>1. Checked(k)' \subseteq Depositors /\ IsFiniteSet(Depositors)
      BY DeliveryAssumption DEF Checked
    <3>2. IsFiniteSet(Checked(k)') /\ m <= n
      BY <3>1, FS_Subset
    <3>3. m \in Nat /\ n \in Nat
      BY <3>1, <3>2, FS_CardinalityType
    <3> HIDE DEF n, m
    <3>4. n - m \in Nat
      BY <3>2, <3>3
    <3>5. QED
      BY <3>4 DEF Others, n, m
  <2>3. Others(k)' * most \in Nat
    BY <2>2, LargestIsNat, Products
  <2>4. amount \in Nat
    BY DeliveryAssumption
  <2>5. courier'[k].cashHeld - depositing'[d].amount + Others(k)' * most >= 0
    BY <1>1, <1>2, <1>3, <1>types, <2>3, <2>4
  <2>6. QED
    BY <2>1, <2>5 DEF CoveredBut
<1>4. CASE j # k
  <2>1. Checked(k)' = Checked(k)
    BY <1>2, <1>4 DEF Checked
  <2>2. \A e \in Checked(k) : depositing'[e] = depositing[e]
    BY <1>2 DEF Checked
  <2>3. QED
    BY <1>2, <1>types, <2>1, <2>2, CashGrows
<1>5. QED
  BY <1>3, <1>4

(* A deposit ends, with the cash taken or not: it takes one deposit off the bound.     *)
LEMMA EndingStaysCovered ==
  ASSUME OverdraftInv, TypeOK', Depositors # {}, NEW e \in Depositors, NEW k \in Couriers,
         NEW most \in LargestDeposits, e \in Checked(k),
         depositing' = [depositing EXCEPT ![e] = Idle],
         \/ courier'[k].cashHeld = courier[k].cashHeld
         \/ courier'[k].cashHeld = courier[k].cashHeld - depositing[e].amount
  PROVE  CoveredBut(k, most)'
<1>types. depositing \in [Depositors -> DepositCall \cup {Idle}]
          /\ courier[k].cashHeld \in Int /\ courier'[k].cashHeld \in Int
  BY DEF OverdraftInv, TypeOK
<1>1. /\ IsFiniteSet(Checked(k)) /\ Cardinality(Checked(k)) \in Nat
      /\ Cardinality(Depositors) \in Nat /\ Others(k) \in Nat
      /\ \A d \in Checked(k) : d \in Depositors /\ depositing[d].amount \in DepositAmounts
                               /\ depositing[d].amount \in Nat
  BY CheckedAreDepositors DEF OverdraftInv
<1>2. most \in Nat /\ \A amount \in DepositAmounts : amount <= most
  BY LargestIsNat
<1>3. depositing'[e].at = "idle" /\ \A d \in Depositors \ {e} : depositing'[d] = depositing[d]
  BY <1>types, IdleIsNoUpdate
<1>4. Checked(k)' = Checked(k) \ {e}
  BY <1>3 DEF Checked
<1>5. Cardinality(Checked(k) \ {e}) = Cardinality(Checked(k)) - 1
  BY <1>1, FS_RemoveElement
<1>6. Others(k)' = Others(k) + 1
  BY <1>1, <1>4, <1>5 DEF Others
<1>7. PICK d \in Checked(k) : courier[k].cashHeld - depositing[d].amount + Others(k) * most >= 0
  BY DEF OverdraftInv, CoveredBut
<1> DEFINE held == courier[k].cashHeld
           now == courier'[k].cashHeld
           rest == Others(k) * most
<1>8. /\ rest \in Nat /\ (Others(k) + 1) * most = rest + most
      /\ held \in Int /\ now \in Int
      /\ now = held \/ now = held - depositing[e].amount
  BY <1>1, <1>2, <1>types, Products
<1>9. /\ depositing[d].amount \in Nat /\ depositing[d].amount <= most
      /\ depositing[e].amount \in Nat /\ depositing[e].amount <= most
      /\ held - depositing[d].amount + rest >= 0
  BY <1>1, <1>2, <1>7
<1> HIDE DEF held, now, rest
<1>10. CASE d # e
  <2>1. now - depositing[d].amount + (rest + most) >= 0
    BY <1>2, <1>8, <1>9
  <2>2. now - depositing[d].amount + Others(k)' * most >= 0
    BY <1>6, <1>8, <2>1
  <2>3. d \in Checked(k)' /\ depositing'[d].amount = depositing[d].amount
    BY <1>1, <1>3, <1>4, <1>10
  <2>4. QED
    BY <2>2, <2>3 DEF CoveredBut, now
<1>11. CASE d = e
  <2>1. now + rest >= 0
    BY <1>8, <1>9, <1>11
  <2>2. CASE Checked(k) \ {e} = {}
    <3>1. Others(k) = Cardinality(Depositors) - 1
      <4>1. Cardinality(Checked(k) \ {e}) = 0
        BY <2>2, FS_EmptySet
      <4>2. QED
        BY <1>1, <1>5, <4>1 DEF Others
    <3>2. now + (Cardinality(Depositors) - 1) * most >= 0
      BY <2>1, <3>1 DEF rest
    <3>3. QED
      BY <1>4, <2>2, <3>2 DEF CoveredBut, now
  <2>3. CASE Checked(k) \ {e} # {}
    <3>1. PICK f \in Checked(k) \ {e} : TRUE
      BY <2>3
    <3>2. /\ depositing[f].amount \in Nat /\ depositing[f].amount <= most
          /\ depositing'[f].amount = depositing[f].amount
      BY <1>1, <1>2, <1>3, <3>1
    <3>3. now - depositing[f].amount + (rest + most) >= 0
      BY <1>2, <1>8, <2>1, <3>2
    <3>4. now - depositing'[f].amount + Others(k)' * most >= 0
      BY <1>6, <1>8, <3>2, <3>3
    <3>5. QED
      BY <1>4, <3>1, <3>4 DEF CoveredBut, now
  <2>4. QED
    BY <2>2, <2>3
<1>12. QED
  BY <1>10, <1>11

(* No update takes cash from a courier.                                           *)
LEMMA CommitTakesNoCash ==
  ASSUME TypeOK, NEW c \in Callers, Commits(c), NEW k \in Couriers
  PROVE  courier'[k].cashHeld >= courier[k].cashHeld
<1> DEFINE r == call[c]
<1>1. r.cash \in Nat
      /\ courier' = [j \in Couriers |-> IF j = r.row.courier THEN CourierUpdate(r, courier[j])
                                                            ELSE courier[j]]
  BY CallFields DEF Commits
<1> HIDE DEF r
<1>2. CashBooked(r) \in Nat
  BY <1>1 DEF CashBooked
<1>3. courier[k] \in CourierRow /\ courier[k].cashHeld \in Int
  BY DEF TypeOK, CourierRow
<1>4. CASE r.new = "DELIVERED"
  <2>1. CourierUpdate(r, courier[k]).cashHeld = courier[k].cashHeld + CashBooked(r)
    BY <1>3, <1>4 DEF CourierUpdate, CourierRow
  <2>2. QED
    BY <1>1, <1>2, <1>3, <2>1
<1>5. CASE r.new # "DELIVERED"
  <2>1. CourierUpdate(r, courier[k]).cashHeld = courier[k].cashHeld
    BY <1>3, <1>5 DEF CourierUpdate, CourierRow
  <2>2. QED
    BY <1>1, <1>3, <2>1
<1>6. QED
  BY <1>4, <1>5

LEMMA OverdraftStep ==
  ASSUME OverdraftInv, [Next]_vars
  PROVE  OverdraftInv'
<1>types. TypeOK /\ TypeOK' /\ courier \in [Couriers -> CourierRow]
          /\ depositing \in [Depositors -> DepositCall \cup {Idle}]
  BY TypesInductive DEF OverdraftInv, TypeOK, CourierRow
<1> SUFFICES ASSUME Depositors # {}, NEW k \in Couriers, NEW most \in LargestDeposits
             PROVE  CoveredBut(k, most)'
  BY <1>types DEF OverdraftInv, LargestDeposits
<1>held. courier[k].cashHeld \in Int /\ courier'[k].cashHeld \in Int
  BY <1>types DEF TypeOK, CourierRow
<1>1. ASSUME UNCHANGED depositing, courier'[k].cashHeld >= courier[k].cashHeld
      PROVE  CoveredBut(k, most)'
  <2>1. Checked(k)' = Checked(k)
    BY <1>1 DEF Checked
  <2>2. QED
    BY <1>1, <1>held, <2>1, CashGrows
<1>2. ASSUME NEW c \in Callers, Commits(c) PROVE CoveredBut(k, most)'
  <2>1. UNCHANGED depositing
    BY <1>2 DEF Commits
  <2>2. QED
    BY <1>1, <1>2, <1>types, <2>1, CommitTakesNoCash
<1>3. ASSUME NEW d \in Depositors, ReadsCashHeld(d) PROVE CoveredBut(k, most)'
  BY <1>3, <1>types, CheckIsCovered
<1>4. ASSUME NEW d \in Depositors, Deposits(d) \/ DepositFails(d) PROVE CoveredBut(k, most)'
  <2> DEFINE j == depositing[d].k
             amount == depositing[d].amount
  <2>1. depositing[d].at = "checked" /\ depositing' = [depositing EXCEPT ![d] = Idle]
        /\ \/ courier' = [courier EXCEPT ![j].cashHeld = courier[j].cashHeld - amount]
           \/ courier' = courier
    BY <1>4 DEF Deposits, DepositFails
  <2>2. CASE j = k
    <3>1. d \in Checked(k)
      BY <2>1, <2>2 DEF Checked
    <3>2. \/ courier'[k].cashHeld = courier[k].cashHeld
          \/ courier'[k].cashHeld = courier[k].cashHeld - depositing[d].amount
      BY <1>types, <2>1, <2>2 DEF CourierRow
    <3>3. QED
      BY <1>types, <2>1, <3>1, <3>2, EndingStaysCovered
  <2>3. CASE j # k
    <3>1. courier'[k] = courier[k]
      BY <1>types, <2>1, <2>3
    <3>2. Checked(k)' = Checked(k) /\ \A e \in Checked(k) : depositing'[e] = depositing[e]
      BY <1>types, <2>1, <2>3, IdleIsNoUpdate DEF Checked
    <3>3. courier'[k].cashHeld >= courier[k].cashHeld
      BY <1>held, <3>1
    <3>4. QED
      BY <1>held, <3>2, <3>3, CashGrows
  <2>4. QED
    BY <2>2, <2>3
<1>5. ASSUME UNCHANGED <<courier, depositing>> PROVE CoveredBut(k, most)'
  BY <1>1, <1>5, <1>held
<1>6. QED
  BY <1>2, <1>3, <1>4, <1>5
  DEF Next, vars, CallStep, DepositStep, ReadsShipment, ReadsAttempts, ComparesOtp, WritesLog,
      EmitsEvents, Dies, AttemptsExpire

(* Deposits of the same cash that overlap overdraw a courier by at most one largest     *)
(* deposit for each depositor beyond the first, however many there are and whatever     *)
(* deliveries and failures come in between; one depositor never does.                 *)
THEOREM OverdraftIsLimited == Spec => []OverdrawnByOverlapsOnly
<1>1. OverdraftInv /\ [Next]_vars => OverdraftInv'
  BY OverdraftStep
<1>2. OverdraftInv => OverdrawnByOverlapsOnly
  <2> SUFFICES ASSUME OverdraftInv, Depositors # {}, NEW k \in Couriers,
                      NEW most \in LargestDeposits
               PROVE  courier[k].cashHeld + (Cardinality(Depositors) - 1) * most >= 0
    BY DEF OverdrawnByOverlapsOnly
  <2>1. CoveredBut(k, most) /\ TypeOK /\ courier[k].cashHeld \in Int
    BY DEF OverdraftInv, TypeOK
  <2>2. CASE \E d \in Checked(k) :
               courier[k].cashHeld - depositing[d].amount + Others(k) * most >= 0
    <3>1. PICK d \in Checked(k) :
                 courier[k].cashHeld - depositing[d].amount + Others(k) * most >= 0
      BY <2>2
    <3>2. /\ Cardinality(Checked(k)) \in Nat /\ Cardinality(Depositors) \in Nat
          /\ Others(k) \in Nat /\ depositing[d].amount \in Nat
          /\ IsFiniteSet(Checked(k))
      BY <2>1, CheckedAreDepositors
    <3>3. Cardinality(Checked(k)) # 0
      BY <3>1, <3>2, FS_EmptySet
    <3> DEFINE more == Cardinality(Checked(k)) - 1
    <3>4. more \in Nat /\ Cardinality(Depositors) - 1 = Others(k) + more
      BY <3>2, <3>3 DEF Others
    <3>5. most \in Nat
      BY LargestIsNat
    <3> HIDE DEF more
    <3>6. (Others(k) + more) * most >= Others(k) * most /\ Others(k) * most \in Nat
          /\ (Others(k) + more) * most \in Nat
      <4>1. (Others(k) + more) * most = Others(k) * most + more * most
        BY <3>2, <3>4, <3>5
      <4>2. more * most \in Nat /\ Others(k) * most \in Nat
        BY <3>2, <3>4, <3>5, Products
      <4>3. QED
        BY <4>1, <4>2
    <3> DEFINE rest == Others(k) * most
               all == (Cardinality(Depositors) - 1) * most
    <3>7. all >= rest /\ rest \in Nat /\ all \in Nat
          /\ courier[k].cashHeld - depositing[d].amount + rest >= 0
      BY <3>1, <3>4, <3>6
    <3> HIDE DEF rest, all
    <3>8. courier[k].cashHeld + all >= 0
      BY <2>1, <3>2, <3>7
    <3>9. QED
      BY <3>8 DEF all
  <2>3. QED
    BY <2>1, <2>2 DEF CoveredBut
<1>3. QED
  BY <1>1, <1>2, OverdraftInitially, PTL DEF Spec

=============================================================================
