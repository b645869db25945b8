--------------------------- MODULE PayoutsProofs ---------------------------
(* Proofs about Payouts, for any number of sessions and administrators: types, *)
(* the version lock and a balance that never goes negative; how many payouts   *)
(* overlapping requests open and what crossing decisions give back; and that   *)
(* without such overlaps no race makes money.                                  *)
EXTENDS Payouts, WalletProofs, FiniteSetTheorems

(* A payout's overwrite of the row counts as a write: it bumps the version.     *)
LEMMA LockAfterOverwrite ==
  ASSUME LockInv, wallet' \in WalletRow, wallet'.open,
         wallet'.version = wallet.version + 1, statement' \in Int,
         UNCHANGED <<stage, attempt, snap>>
  PROVE  LockInv'
<1>1. TypeInv'
  BY DEF LockInv, TypeInv, WalletTypeOK, AttemptsLeft
<1>2. AbsentIsEmpty'
  BY DEF LockInv, AbsentIsEmpty
<1>3. /\ wallet.version \in Nat
      /\ \A h \in Handlers : snap[h].version \in Nat /\ attempt[h] \in Nat
  BY WalletAssumption DEF LockInv, TypeInv, WalletTypeOK, WalletRow
<1>4. VersionIdentifiesRow'
  <2>1. \A h \in Handlers : snap[h].version <= wallet.version
    BY DEF LockInv, VersionIdentifiesRow
  <2>2. ASSUME NEW h \in Handlers
        PROVE  snap'[h].version < wallet'.version /\ wallet'.open
    BY <1>3, <2>1
  <2>3. \A h \in Handlers : snap'[h].version <= wallet'.version
                            /\ snap'[h].version # wallet'.version
    BY <1>3, <2>2
  <2>4. QED
    BY <2>2, <2>3 DEF VersionIdentifiesRow
<1>5. RetryBudget'
  BY <1>3 DEF LockInv, RetryBudget
<1>6. QED
  BY <1>1, <1>2, <1>4, <1>5 DEF LockInv

(* Requests under way and payouts on record belong to a wallet that exists.      *)
BackedByWallet ==
  /\ \A s \in Sessions : session[s].at # "idle" => wallet.open
  /\ \A p \in PayoutIds : payout[p].status # "NONE" => wallet.open
  /\ \A a \in Admins : admin[a].at # "idle" => payout[admin[a].id].status # "NONE"

PayoutTypes ==
  /\ payout \in [PayoutIds -> [status : PayoutStatuses, amount : Nat]]
  /\ givenBack \in [PayoutIds -> Nat]
  /\ session \in [Sessions -> Request]
  /\ admin \in [Admins -> AdminCall]
  /\ crossed \in [PayoutIds -> Nat]
  /\ overlapped \in BOOLEAN

PayoutInv == LockInv /\ PayoutTypes /\ BackedByWallet

LEMMA RecordsOfNothing ==
  /\ NoRequest \in Request /\ NoRequest.at = "idle"
  /\ NoCall \in AdminCall /\ NoCall.at = "idle"
<1>1. NoRequest \in Request /\ NoRequest.at = "idle"
  BY NoWalletType DEF NoRequest, Request
<1>2. (CHOOSE p \in PayoutIds : TRUE) \in PayoutIds
  BY PayoutAssumption
<1>3. NoCall \in AdminCall /\ NoCall.at = "idle"
  BY <1>2, NoWalletType DEF NoCall, AdminCall
<1>4. QED
  BY <1>1, <1>3

LEMMA PayoutsInitially == Init => PayoutInv
<1> SUFFICES ASSUME Init PROVE PayoutInv
  OBVIOUS
<1>1. LockInv
  BY LockInit DEF Init
<1>2. /\ payout \in [PayoutIds -> [status : PayoutStatuses, amount : Nat]]
      /\ givenBack \in [PayoutIds -> Nat] /\ crossed \in [PayoutIds -> Nat]
      /\ overlapped \in BOOLEAN
  BY DEF Init, PayoutInit, PayoutStatuses
<1>3. session \in [Sessions -> Request] /\ admin \in [Admins -> AdminCall]
  BY RecordsOfNothing DEF Init, PayoutInit
<1>4. BackedByWallet
  BY RecordsOfNothing DEF Init, PayoutInit, BackedByWallet
<1>5. QED
  BY <1>1, <1>2, <1>3, <1>4 DEF PayoutInv, PayoutTypes

(* No step closes a wallet.                                                  *)
LEMMA WalletStaysOpen ==
  ASSUME WalletNext, wallet.open
  PROVE  wallet'.open
<1>1. CASE CreateWallet
  BY <1>1 DEF CreateWallet
<1>2. ASSUME NEW d \in Deliveries, DeliveryStep(d) PROVE wallet'.open
  BY <1>2 DEF DeliveryStep, ReadWallet, PostCredit, WriteFromSnapshot, Conflict, CreateCollision
<1>3. ASSUME NEW a \in Adjustments, AdjustmentStep(a) PROVE wallet'.open
  BY <1>3 DEF AdjustmentStep, ReadWallet, WalletNotFound, RefuseDebit, PostAdjustment,
              WriteFromSnapshot, Conflict
<1>4. ASSUME NEW h \in Handlers, Abort(h) PROVE wallet'.open
  BY <1>4 DEF Abort
<1>5. QED
  BY <1>1, <1>2, <1>3, <1>4 DEF WalletNext

LEMMA WalletStepKeepsPayouts ==
  ASSUME PayoutInv, WalletNext, UNCHANGED payoutVars
  PROVE  PayoutInv'
<1>1. LockInv'
  BY LockStep DEF PayoutInv
<1>2. PayoutTypes' /\ BackedByWallet'
  BY WalletStaysOpen DEF PayoutInv, PayoutTypes, BackedByWallet, payoutVars
<1>3. QED
  BY <1>1, <1>2 DEF PayoutInv

(* Steps that leave the wallet's variables alone leave its lock alone.            *)
LEMMA LockUntouched ==
  ASSUME LockInv, UNCHANGED <<wallet, statement, stage, attempt, snap>>
  PROVE  LockInv'
BY LockStep DEF walletVars

LEMMA SessionStepKeepsInv ==
  ASSUME PayoutInv, NEW s \in Sessions, SessionStep(s)
  PROVE  PayoutInv'
<1>types. /\ wallet \in WalletRow /\ statement \in Int
          /\ payout \in [PayoutIds -> [status : PayoutStatuses, amount : Nat]]
          /\ givenBack \in [PayoutIds -> Nat] /\ crossed \in [PayoutIds -> Nat]
          /\ overlapped \in BOOLEAN
          /\ session \in [Sessions -> Request]
  BY DEF PayoutInv, PayoutTypes, LockInv, TypeInv, WalletTypeOK
<1>s. /\ session[s].at \in {"idle", "walletRead", "checked"}
      /\ session[s].amount \in Nat /\ session[s].row \in WalletRow
  BY <1>types DEF Request
<1>1. CASE RequestReadsWallet(s)
  <2>1. PICK amount \in PayoutAmounts :
          session' = [session EXCEPT ![s] = [at |-> "walletRead", amount |-> amount, row |-> wallet]]
    BY <1>1 DEF RequestReadsWallet
  <2>2. [at |-> "walletRead", amount |-> amount, row |-> wallet] \in Request
    BY <1>types, PayoutAssumption DEF Request
  <2>3. PayoutTypes'
    BY <1>1, <2>1, <2>2 DEF RequestReadsWallet, PayoutInv, PayoutTypes
  <2>4. BackedByWallet'
    BY <1>1, <1>types, <2>1 DEF RequestReadsWallet, PayoutInv, BackedByWallet
  <2>5. QED
    BY <1>1, <2>3, <2>4, LockUntouched DEF RequestReadsWallet, PayoutInv
<1>2. CASE RequestLooksForOpen(s)
  <2>1. [session[s] EXCEPT !.at = "checked"] \in Request
    BY <1>types DEF Request
  <2>2. PayoutTypes'
    BY <1>2, <2>1, RecordsOfNothing DEF RequestLooksForOpen, PayoutInv, PayoutTypes
  <2>3. BackedByWallet'
    BY <1>2, <1>types DEF RequestLooksForOpen, PayoutInv, BackedByWallet
  <2>4. QED
    BY <1>2, <2>2, <2>3, LockUntouched DEF RequestLooksForOpen, PayoutInv
<1>3. CASE RequestCommits(s)
  <2>1. PICK p \in PayoutIds :
          payout' = [payout EXCEPT ![p] = [status |-> "PENDING", amount |-> session[s].amount]]
    BY <1>3 DEF RequestCommits
  <2>2. wallet.open
    BY <1>3 DEF RequestCommits, PayoutInv, BackedByWallet
  <2>3. /\ wallet' \in WalletRow /\ wallet'.open /\ wallet'.version = wallet.version + 1
        /\ statement' \in Int
    <3>1. /\ session[s].row.balance - session[s].amount \in Int
          /\ session[s].row.totalDebited + session[s].amount \in Int
      BY <1>s DEF WalletRow
    <3>2. wallet.version \in Nat /\ wallet.version + 1 \in Nat
      BY <1>types DEF WalletRow
    <3>3. statement' \in Int
      BY <1>3, <1>types, <1>s DEF RequestCommits
    <3>4. wallet' = [wallet EXCEPT
                       !.balance = session[s].row.balance - session[s].amount,
                       !.totalDebited = session[s].row.totalDebited + session[s].amount,
                       !.version = wallet.version + 1]
      BY <1>3 DEF RequestCommits
    <3>5. QED
      BY <1>types, <2>2, <3>1, <3>2, <3>3, <3>4 DEF WalletRow
  <2>4. LockInv'
    BY <1>3, <2>3, LockAfterOverwrite DEF RequestCommits, PayoutInv
  <2>5. PayoutTypes'
    <3>1. [status |-> "PENDING", amount |-> session[s].amount]
            \in [status : PayoutStatuses, amount : Nat]
      BY <1>s DEF PayoutStatuses, OpenStatuses
    <3>2. UNCHANGED <<givenBack, crossed, overlapped>>
      BY <1>3 DEF RequestCommits
    <3>3. session' \in [Sessions -> Request] /\ admin' = admin
      BY <1>3, <1>types, RecordsOfNothing DEF RequestCommits
    <3>4. QED
      BY <1>types, <2>1, <3>1, <3>2, <3>3 DEF PayoutInv, PayoutTypes
  <2>6. BackedByWallet'
    BY <1>3, <1>types, <2>1, <2>3 DEF RequestCommits, PayoutInv, BackedByWallet
  <2>7. QED
    BY <2>4, <2>5, <2>6 DEF PayoutInv
<1>4. CASE RequestAborts(s)
  <2>1. PayoutTypes'
    BY <1>4, RecordsOfNothing DEF RequestAborts, PayoutInv, PayoutTypes
  <2>2. BackedByWallet'
    BY <1>4, <1>types, RecordsOfNothing DEF RequestAborts, PayoutInv, BackedByWallet
  <2>3. QED
    BY <1>4, <2>1, <2>2, LockUntouched DEF RequestAborts, PayoutInv
<1>5. QED
  BY <1>1, <1>2, <1>3, <1>4 DEF SessionStep

LEMMA CrossedIsCount ==
  ASSUME crossed \in [PayoutIds -> Nat], NEW a, NEW p \in PayoutIds, NEW st,
         SetsStatus(a, p, st)
  PROVE  crossed' \in [PayoutIds -> Nat]
BY DEF SetsStatus

LEMMA AdminStepKeepsInv ==
  ASSUME PayoutInv, NEW a \in Admins, AdminStep(a)
  PROVE  PayoutInv'
<1>types. /\ wallet \in WalletRow /\ statement \in Int
          /\ payout \in [PayoutIds -> [status : PayoutStatuses, amount : Nat]]
          /\ givenBack \in [PayoutIds -> Nat] /\ crossed \in [PayoutIds -> Nat]
          /\ overlapped \in BOOLEAN
          /\ admin \in [Admins -> AdminCall]
  BY DEF PayoutInv, PayoutTypes, LockInv, TypeInv, WalletTypeOK
<1>a. /\ admin[a].id \in PayoutIds /\ admin[a].row \in WalletRow
      /\ admin[a].at \in {"idle", "checked", "walletRead"}
  BY <1>types DEF AdminCall
<1>1. CASE AdminReadsPayout(a)
  <2>1. PICK p \in PayoutIds, call \in {"approve", "complete", "reject"} :
          /\ payout[p].status \in Accepts(call)
          /\ admin' = [admin EXCEPT ![a] =
                         [at |-> "checked", call |-> call, id |-> p, row |-> NoWallet]]
    BY <1>1 DEF AdminReadsPayout
  <2>2. [at |-> "checked", call |-> call, id |-> p, row |-> NoWallet] \in AdminCall
    BY NoWalletType DEF AdminCall
  <2>3. payout[p].status # "NONE"
    BY <2>1 DEF Accepts, OpenStatuses
  <2>4. PayoutTypes'
    BY <1>1, <2>1, <2>2 DEF AdminReadsPayout, PayoutInv, PayoutTypes
  <2>5. BackedByWallet'
    BY <1>1, <1>types, <2>1, <2>3 DEF AdminReadsPayout, PayoutInv, BackedByWallet
  <2>6. QED
    BY <1>1, <2>4, <2>5, LockUntouched DEF AdminReadsPayout, PayoutInv
<1>2. CASE AdminApproves(a) \/ AdminCompletes(a)
  <2>1. PICK status \in {"APPROVED", "COMPLETED"} :
          payout' = [payout EXCEPT ![admin[a].id].status = status]
    BY <1>2 DEF AdminApproves, AdminCompletes, SetsStatus
  <2>2. payout' \in [PayoutIds -> [status : PayoutStatuses, amount : Nat]]
    BY <1>types, <2>1 DEF PayoutStatuses, OpenStatuses
  <2>3. admin' = [admin EXCEPT ![a] = NoCall] /\ admin[a].at # "idle"
    BY <1>2 DEF AdminApproves, AdminCompletes, SetsStatus
  <2>4. PayoutTypes'
    BY <1>2, <1>types, <1>a, <2>2, <2>3, CrossedIsCount, RecordsOfNothing
    DEF AdminApproves, AdminCompletes, PayoutInv, PayoutTypes
  <2>5. \A p \in PayoutIds : payout[p].status # "NONE" <=> payout'[p].status # "NONE"
    BY <1>types, <2>1, <2>3 DEF PayoutInv, BackedByWallet
  <2>6. BackedByWallet'
    BY <1>2, <1>types, <2>3, <2>5, RecordsOfNothing
    DEF AdminApproves, AdminCompletes, PayoutInv, BackedByWallet, AdminCall
  <2>7. QED
    BY <1>2, <2>4, <2>6, LockUntouched DEF AdminApproves, AdminCompletes, PayoutInv
<1>3. CASE RejectReadsWallet(a)
  <2>1. admin' = [admin EXCEPT ![a] = [admin[a] EXCEPT !.at = "walletRead", !.row = wallet]]
    BY <1>3 DEF RejectReadsWallet
  <2>2. /\ [admin[a] EXCEPT !.at = "walletRead", !.row = wallet] \in AdminCall
        /\ [admin[a] EXCEPT !.at = "walletRead", !.row = wallet].id = admin[a].id
    BY <1>types DEF AdminCall
  <2>3. PayoutTypes'
    BY <1>3, <2>1, <2>2 DEF RejectReadsWallet, PayoutInv, PayoutTypes
  <2>4. \A b \in Admins : /\ admin'[b].id = admin[b].id
                          /\ admin'[b].at # "idle" => admin[b].at # "idle"
    BY <1>3, <1>types, <2>1, <2>2 DEF RejectReadsWallet
  <2>5. BackedByWallet'
    BY <1>3, <2>4 DEF RejectReadsWallet, PayoutInv, BackedByWallet
  <2>6. QED
    BY <1>3, <2>3, <2>5, LockUntouched DEF RejectReadsWallet, PayoutInv
<1>4. CASE RejectCommits(a)
  <2> DEFINE p == admin[a].id
  <2>1. wallet.open /\ payout[p].amount \in Nat
    BY <1>4, <1>types, <1>a DEF RejectCommits, PayoutInv, BackedByWallet
  <2>2. /\ wallet' \in WalletRow /\ wallet'.open /\ wallet'.version = wallet.version + 1
        /\ statement' \in Int
    <3>1. /\ admin[a].row.balance + payout[p].amount \in Int
          /\ admin[a].row.totalCredited + payout[p].amount \in Int
      BY <1>a, <2>1 DEF WalletRow
    <3>2. wallet.version \in Nat /\ wallet.version + 1 \in Nat
      BY <1>types DEF WalletRow
    <3>3. statement' \in Int
      BY <1>4, <1>types, <2>1 DEF RejectCommits
    <3>4. wallet' = [wallet EXCEPT
                       !.balance = admin[a].row.balance + payout[p].amount,
                       !.totalCredited = admin[a].row.totalCredited + payout[p].amount,
                       !.version = wallet.version + 1]
      BY <1>4 DEF RejectCommits
    <3>5. QED
      BY <1>types, <2>1, <3>1, <3>2, <3>3, <3>4 DEF WalletRow
  <2>3. LockInv'
    BY <1>4, <2>2, LockAfterOverwrite DEF RejectCommits, PayoutInv
  <2>4. payout' = [payout EXCEPT ![p].status = "REJECTED"]
    BY <1>4 DEF RejectCommits, SetsStatus
  <2>5. givenBack' \in [PayoutIds -> Nat] /\ crossed' \in [PayoutIds -> Nat]
        /\ overlapped' = overlapped
    BY <1>4, <1>types, <1>a, CrossedIsCount DEF RejectCommits
  <2>6. payout' \in [PayoutIds -> [status : PayoutStatuses, amount : Nat]]
    BY <1>types, <2>4 DEF PayoutStatuses
  <2>7. admin' = [admin EXCEPT ![a] = NoCall] /\ admin[a].at # "idle" /\ session' = session
    BY <1>4 DEF RejectCommits, SetsStatus
  <2>8. PayoutTypes'
    BY <1>types, <2>5, <2>6, <2>7, RecordsOfNothing DEF PayoutInv, PayoutTypes
  <2>9. \A q \in PayoutIds : payout[q].status # "NONE" <=> payout'[q].status # "NONE"
    BY <1>types, <2>4, <2>7 DEF PayoutInv, BackedByWallet
  <2>10. BackedByWallet'
    BY <1>types, <2>2, <2>7, <2>9, RecordsOfNothing DEF PayoutInv, BackedByWallet, AdminCall
  <2>11. QED
    BY <2>3, <2>8, <2>10 DEF PayoutInv
<1>5. CASE AdminAborts(a)
  <2>1. PayoutTypes'
    BY <1>5, RecordsOfNothing DEF AdminAborts, PayoutInv, PayoutTypes
  <2>2. BackedByWallet'
    BY <1>5, <1>types, RecordsOfNothing DEF AdminAborts, PayoutInv, BackedByWallet
  <2>3. QED
    BY <1>5, <2>1, <2>2, LockUntouched DEF AdminAborts, PayoutInv
<1>6. QED
  BY <1>1, <1>2, <1>3, <1>4, <1>5 DEF AdminStep

LEMMA PayoutsInductive == Spec => []PayoutInv
<1>1. ASSUME PayoutInv, UNCHANGED vars PROVE PayoutInv'
  BY <1>1, LockUntouched DEF vars, PayoutInv, PayoutTypes, BackedByWallet
<1>2. PayoutInv /\ [Next]_vars => PayoutInv'
  BY <1>1, WalletStepKeepsPayouts, SessionStepKeepsInv, AdminStepKeepsInv DEF Next
<1>3. QED
  BY <1>2, PayoutsInitially, PTL DEF Spec

(* The types of the wallet, the payouts and every call under way.                *)
THEOREM PayoutsTypeCorrect == Spec => []TypeOK
<1>1. PayoutInv => TypeOK
  BY DEF PayoutInv, PayoutTypes, LockInv, TypeInv, TypeOK
<1>2. QED
  BY <1>1, PayoutsInductive, PTL

(* However many sessions and administrators overwrite the wallet's row, a credit   *)
(* or adjustment that goes through the version check builds on the row of the     *)
(* moment.                                                                   *)
THEOREM CreditsSurviveOverwrites == Spec => OptimisticWritesBuildOnBalance
<1> DEFINE Builds == \A h \in Handlers :
                       stage[h] = "read" /\ stage'[h] = "posted" => snap[h] = wallet
<1>1. ASSUME PayoutInv, Next PROVE Builds
  <2> SUFFICES ASSUME NEW h \in Handlers, stage[h] = "read", stage'[h] = "posted"
               PROVE  snap[h] = wallet
    OBVIOUS
  <2>0. stage \in [Handlers -> Stages]
    BY <1>1 DEF PayoutInv, LockInv, TypeInv, WalletTypeOK
  <2>1. ~UNCHANGED stage
    OBVIOUS
  <2>2. WalletNext
    BY <1>1, <2>1 DEF Next, SessionStep, RequestReadsWallet, RequestLooksForOpen, RequestCommits,
       RequestAborts, AdminStep, AdminReadsPayout, AdminApproves, AdminCompletes,
       RejectReadsWallet, RejectCommits, AdminAborts
  <2>3. CASE \E d \in Deliveries : PostCredit(d)
    <3>1. PICK d \in Deliveries : PostCredit(d)
      BY <2>3
    <3>2. h = d /\ VersionMatches(d)
      BY <2>0, <3>1 DEF PostCredit, End, Handlers
    <3>3. QED
      BY <1>1, <3>2, ReadIsCurrent DEF PayoutInv
  <2>4. CASE \E a \in Adjustments : PostAdjustment(a)
    <3>1. PICK a \in Adjustments : PostAdjustment(a)
      BY <2>4
    <3>2. h = a /\ VersionMatches(a)
      BY <2>0, <3>1 DEF PostAdjustment, End, Handlers
    <3>3. QED
      BY <1>1, <3>2, ReadIsCurrent DEF PayoutInv
  <2>5. ASSUME NEW k \in Handlers, NEW next \in Stages \ {"posted"}, End(k, next) PROVE FALSE
    BY <2>0, <2>5 DEF End
  <2>6. ASSUME NEW k \in Handlers, ReadWallet(k) PROVE FALSE
    BY <2>0, <2>6 DEF ReadWallet
  <2>7. ASSUME NEW k \in Handlers, Conflict(k) PROVE FALSE
    BY <2>5, <2>7 DEF Conflict, Stages
  <2>8. QED
    BY <2>1, <2>2, <2>3, <2>4, <2>5, <2>6, <2>7
    DEF WalletNext, DeliveryStep, AdjustmentStep, CreateWallet, WalletNotFound, RefuseDebit,
        CreateCollision, Abort, Handlers, Stages
<1>2. PayoutInv /\ [Next]_vars => [Builds]_vars
  BY <1>1
<1>3. QED
  BY <1>2, PayoutsInductive, PTL DEF Spec, OptimisticWritesBuildOnBalance
----------------------------------------------------------------------------
(* Decisions on a payout *)

IsDeciding(a, p) == admin[a].at # "idle" /\ admin[a].id = p

(* What an administrator has checked still holds, unless a decision crossed his.  *)
CallsHold ==
  \A a \in Admins : \A p \in PayoutIds : IsDeciding(a, p) =>
    /\ admin[a].call = "complete" => payout[p].status # "PENDING"
    /\ payout[p].status \notin OpenStatuses => crossed[p] >= 1

NeverProcessing == \A p \in PayoutIds : payout[p].status # "PROCESSING"

Pending(p) == payout[p].status \in OpenStatuses \/ Deciding(p) # {}

Closings(p) == givenBack[p] + (IF payout[p].status = "COMPLETED" THEN 1 ELSE 0)

(* A payout is closed once, and once more for each decision that crossed another; *)
(* a decision under way may still close it.                                      *)
ClosedOnce ==
  \A p \in PayoutIds :
    /\ Closings(p) <= crossed[p] + (IF Pending(p) THEN 0 ELSE 1)
    /\ payout[p].status = "REJECTED" => givenBack[p] >= 1
    /\ payout[p].status = "NONE" => givenBack[p] = 0

LifeInv == PayoutInv /\ CallsHold /\ NeverProcessing /\ ClosedOnce

MovesRight ==
  \A p \in PayoutIds :
    <<payout[p].status, payout'[p].status>> \in
      {<<x, x>> : x \in PayoutStatuses} \cup
      {<<"NONE", "PENDING">>, <<"PENDING", "APPROVED">>, <<"PENDING", "REJECTED">>,
       <<"APPROVED", "REJECTED">>, <<"APPROVED", "COMPLETED">>} \cup
      (IF crossed[p] = 0 THEN {}
         ELSE {"COMPLETED", "REJECTED"} \X {"APPROVED", "COMPLETED", "REJECTED"})

LEMMA UnmovedIsRight == ASSUME PayoutInv, UNCHANGED payout PROVE MovesRight
BY DEF PayoutInv, PayoutTypes, MovesRight

LEMMA LifeInitially == Init => LifeInv
<1> SUFFICES ASSUME Init PROVE LifeInv
  OBVIOUS
<1>1. PayoutInv
  BY PayoutsInitially
<1>2. /\ \A p \in PayoutIds : /\ payout[p].status = "NONE" /\ givenBack[p] = 0
                              /\ crossed[p] = 0
      /\ \A a \in Admins : admin[a].at = "idle"
  BY RecordsOfNothing DEF Init, PayoutInit
<1>3. CallsHold /\ NeverProcessing
  BY <1>2 DEF CallsHold, IsDeciding, NeverProcessing
<1>4. ClosedOnce
  BY <1>2 DEF ClosedOnce, Closings, Pending, Deciding, OpenStatuses
<1>5. QED
  BY <1>1, <1>3, <1>4 DEF LifeInv

LEMMA LifeUntouched ==
  ASSUME LifeInv, PayoutInv', UNCHANGED <<payout, givenBack, admin, crossed>>
  PROVE  LifeInv' /\ MovesRight
<1>1. CallsHold' /\ NeverProcessing'
  BY DEF LifeInv, CallsHold, IsDeciding, NeverProcessing
<1>2. ClosedOnce'
  BY DEF LifeInv, ClosedOnce, Closings, Pending, Deciding
<1>3. QED
  BY <1>1, <1>2, UnmovedIsRight DEF LifeInv

LEMMA SessionStepKeepsLife ==
  ASSUME LifeInv, NEW s \in Sessions, SessionStep(s)
  PROVE  LifeInv' /\ MovesRight
<1>inv. PayoutInv'
  BY SessionStepKeepsInv DEF LifeInv
<1>1. CASE RequestCommits(s)
  <2>1. /\ payout \in [PayoutIds -> [status : PayoutStatuses, amount : Nat]]
        /\ givenBack \in [PayoutIds -> Nat] /\ crossed \in [PayoutIds -> Nat]
    BY DEF LifeInv, PayoutInv, PayoutTypes
  <2>2. PICK p \in PayoutIds :
          /\ payout[p].status = "NONE"
          /\ payout' = [payout EXCEPT ![p] = [status |-> "PENDING", amount |-> session[s].amount]]
    BY <1>1 DEF RequestCommits
  <2>3. UNCHANGED <<givenBack, admin, crossed>>
    BY <1>1 DEF RequestCommits
  <2>4. /\ payout'[p].status = "PENDING"
        /\ \A q \in PayoutIds \ {p} : payout'[q] = payout[q]
    BY <2>1, <2>2
  <2>5. \A a \in Admins : ~IsDeciding(a, p)
    BY <2>2 DEF LifeInv, PayoutInv, BackedByWallet, IsDeciding
  <2>6. CallsHold'
    <3> SUFFICES ASSUME NEW a \in Admins, NEW q \in PayoutIds, IsDeciding(a, q)'
                 PROVE  /\ admin'[a].call = "complete" => payout'[q].status # "PENDING"
                        /\ payout'[q].status \notin OpenStatuses => crossed'[q] >= 1
      BY DEF CallsHold
    <3>1. IsDeciding(a, q) /\ q # p
      BY <2>3, <2>5 DEF IsDeciding
    <3>2. QED
      BY <2>3, <2>4, <3>1 DEF LifeInv, CallsHold
  <2>7. NeverProcessing'
    BY <2>4 DEF LifeInv, NeverProcessing
  <2>8. ClosedOnce'
    <3>1. \A q \in PayoutIds \ {p} :
            Closings(q)' = Closings(q) /\ (Pending(q)' <=> Pending(q))
      BY <2>3, <2>4 DEF Closings, Pending, Deciding
    <3>2. givenBack[p] = 0
      BY <2>2 DEF LifeInv, ClosedOnce
    <3>3. Closings(p)' <= crossed'[p] /\ Pending(p)'
      BY <2>1, <2>3, <2>4, <3>2 DEF Closings, Pending, OpenStatuses
    <3> SUFFICES ASSUME NEW q \in PayoutIds
                 PROVE  /\ Closings(q)' <= crossed'[q] + (IF Pending(q)' THEN 0 ELSE 1)
                        /\ payout'[q].status = "REJECTED" => givenBack'[q] >= 1
                        /\ payout'[q].status = "NONE" => givenBack'[q] = 0
      BY DEF ClosedOnce
    <3>4. CASE q = p
      BY <2>1, <2>3, <2>4, <3>3, <3>4
    <3>5. CASE q # p
      BY <2>3, <2>4, <3>1, <3>5 DEF LifeInv, ClosedOnce
    <3>6. QED
      BY <3>4, <3>5
  <2>9. MovesRight
    BY <2>1, <2>2, <2>4 DEF MovesRight
  <2>10. QED
    BY <1>inv, <2>6, <2>7, <2>8, <2>9 DEF LifeInv
<1>2. CASE RequestReadsWallet(s) \/ RequestLooksForOpen(s) \/ RequestAborts(s)
  <2>1. UNCHANGED <<payout, givenBack, admin, crossed>>
    BY <1>2 DEF RequestReadsWallet, RequestLooksForOpen, RequestAborts
  <2>2. QED
    BY <1>inv, <2>1, LifeUntouched
<1>3. QED
  BY <1>1, <1>2 DEF SessionStep

(* A decision is written: the writer is done, and any other one had crossed it.   *)
LEMMA DecisionEffect ==
  ASSUME PayoutInv, NEW a \in Admins, NEW p \in PayoutIds, IsDeciding(a, p),
         NEW st \in {"APPROVED", "COMPLETED", "REJECTED"}, SetsStatus(a, p, st)
  PROVE  /\ payout'[p].status = st
         /\ \A q \in PayoutIds \ {p} : payout'[q] = payout[q] /\ crossed'[q] = crossed[q]
         /\ \A q \in PayoutIds : Deciding(q)' = Deciding(q) \ {a}
         /\ crossed'[p] = IF Deciding(p)' = {} THEN crossed[p] ELSE crossed[p] + 1
         /\ admin'[a].at = "idle" /\ \A b \in Admins \ {a} : admin'[b] = admin[b]
<1>1. /\ payout \in [PayoutIds -> [status : PayoutStatuses, amount : Nat]]
      /\ crossed \in [PayoutIds -> Nat] /\ admin \in [Admins -> AdminCall]
  BY DEF PayoutInv, PayoutTypes
<1>2. /\ payout'[p].status = st
      /\ \A q \in PayoutIds \ {p} : payout'[q] = payout[q] /\ crossed'[q] = crossed[q]
      /\ crossed'[p] = IF Deciding(p) = {a} THEN crossed[p] ELSE crossed[p] + 1
  BY <1>1 DEF SetsStatus
<1>3. admin'[a].at = "idle" /\ \A b \in Admins \ {a} : admin'[b] = admin[b]
  BY <1>1, RecordsOfNothing DEF SetsStatus
<1>4. \A q \in PayoutIds : Deciding(q)' = Deciding(q) \ {a}
  BY <1>3 DEF Deciding
<1>5. a \in Deciding(p)
  BY DEF IsDeciding, Deciding
<1>6. Deciding(p) = {a} <=> Deciding(p)' = {}
  BY <1>4, <1>5
<1>7. QED
  BY <1>2, <1>3, <1>4, <1>6

LEMMA DecisionKeepsLife ==
  ASSUME LifeInv, PayoutInv', NEW a \in Admins, NEW p \in PayoutIds, IsDeciding(a, p),
         NEW st \in {"APPROVED", "COMPLETED", "REJECTED"}, SetsStatus(a, p, st),
         st = "COMPLETED" => admin[a].call = "complete",
         givenBack' = IF st = "REJECTED" THEN [givenBack EXCEPT ![p] = @ + 1] ELSE givenBack
  PROVE  LifeInv' /\ MovesRight
<1>1. /\ payout'[p].status = st
      /\ \A q \in PayoutIds \ {p} : payout'[q] = payout[q] /\ crossed'[q] = crossed[q]
      /\ \A q \in PayoutIds : Deciding(q)' = Deciding(q) \ {a}
      /\ crossed'[p] = IF Deciding(p)' = {} THEN crossed[p] ELSE crossed[p] + 1
      /\ admin'[a].at = "idle" /\ \A b \in Admins \ {a} : admin'[b] = admin[b]
  BY DecisionEffect DEF LifeInv
<1>2. /\ payout \in [PayoutIds -> [status : PayoutStatuses, amount : Nat]]
      /\ givenBack \in [PayoutIds -> Nat] /\ crossed \in [PayoutIds -> Nat]
  BY DEF LifeInv, PayoutInv, PayoutTypes
<1>3. /\ givenBack'[p] = givenBack[p] + (IF st = "REJECTED" THEN 1 ELSE 0)
      /\ \A q \in PayoutIds \ {p} : givenBack'[q] = givenBack[q]
  BY <1>2
<1>4. a \in Deciding(p)
  BY DEF IsDeciding, Deciding
<1>5. NeverProcessing'
  BY <1>1 DEF LifeInv, NeverProcessing
<1>6. CallsHold'
  <2> SUFFICES ASSUME NEW b \in Admins, NEW q \in PayoutIds, IsDeciding(b, q)'
               PROVE  /\ admin'[b].call = "complete" => payout'[q].status # "PENDING"
                      /\ payout'[q].status \notin OpenStatuses => crossed'[q] >= 1
    BY DEF CallsHold
  <2>1. b # a /\ admin'[b] = admin[b] /\ IsDeciding(b, q)
    BY <1>1 DEF IsDeciding
  <2>2. CASE q = p
    <3>1. b \in Deciding(p)'
      BY <2>2 DEF IsDeciding, Deciding
    <3>2. crossed'[p] = crossed[p] + 1
      BY <1>1, <3>1
    <3>3. QED
      BY <1>1, <1>2, <2>2, <3>2
  <2>3. CASE q # p
    BY <1>1, <2>1, <2>3 DEF LifeInv, CallsHold
  <2>4. QED
    BY <2>2, <2>3
<1>7. ClosedOnce'
  <2> SUFFICES ASSUME NEW q \in PayoutIds
               PROVE  /\ Closings(q)' <= crossed'[q] + (IF Pending(q)' THEN 0 ELSE 1)
                      /\ payout'[q].status = "REJECTED" => givenBack'[q] >= 1
                      /\ payout'[q].status = "NONE" => givenBack'[q] = 0
    BY DEF ClosedOnce
  <2>1. CASE q # p
    <3>1. a \notin Deciding(q)
      BY <2>1 DEF IsDeciding, Deciding
    <3>2. Deciding(q)' = Deciding(q)
      BY <1>1, <3>1
    <3>3. Closings(q)' = Closings(q) /\ (Pending(q)' <=> Pending(q))
      BY <1>1, <1>3, <2>1, <3>2 DEF Closings, Pending
    <3>4. QED
      BY <1>1, <1>3, <2>1, <3>3 DEF LifeInv, ClosedOnce
  <2>2. CASE q = p
    <3>1. Closings(p) <= crossed[p]
      <4>1. Pending(p)
        BY <1>4 DEF Pending
      <4>2. QED
        BY <1>2, <4>1 DEF LifeInv, ClosedOnce
    <3>2. Closings(p) \in Nat /\ crossed[p] \in Nat /\ givenBack[p] \in Nat
      BY <1>2 DEF Closings
    <3>3. Closings(p)' <= Closings(p) + (IF st = "APPROVED" THEN 0 ELSE 1)
      BY <1>1, <1>2, <1>3 DEF Closings
    <3>4. Closings(p)' \in Nat
      BY <1>1, <1>3, <3>2 DEF Closings
    <3>5. CASE Deciding(p)' = {}
      <4>1. Pending(p)' <=> st = "APPROVED"
        BY <1>1, <3>5 DEF Pending, OpenStatuses
      <4>2. Closings(p)' <= crossed'[p] + (IF Pending(p)' THEN 0 ELSE 1)
        BY <1>1, <3>1, <3>2, <3>3, <3>4, <3>5, <4>1
      <4>3. QED
        BY <1>1, <1>3, <2>2, <3>2, <4>2
    <3>6. CASE Deciding(p)' # {}
      <4>1. Closings(p)' <= crossed'[p] /\ Pending(p)'
        BY <1>1, <3>1, <3>2, <3>3, <3>4, <3>6 DEF Pending
      <4>2. crossed'[p] \in Nat
        BY <1>1, <3>2
      <4>3. QED
        BY <1>1, <1>3, <2>2, <3>2, <3>4, <4>1, <4>2
    <3>7. QED
      BY <3>5, <3>6
  <2>3. QED
    BY <2>1, <2>2
<1>8. MovesRight
  <2>1. /\ payout[p].status \in {"PENDING", "APPROVED", "COMPLETED", "REJECTED"}
        /\ payout[p].status \in {"COMPLETED", "REJECTED"} => crossed[p] # 0
        /\ st = "COMPLETED" => payout[p].status # "PENDING"
    <3>1. payout[p].status # "NONE" /\ payout[p].status # "PROCESSING"
      BY DEF LifeInv, NeverProcessing, PayoutInv, BackedByWallet, IsDeciding
    <3>2. payout[p].status \in PayoutStatuses
      BY <1>2
    <3>3. /\ payout[p].status \notin OpenStatuses => crossed[p] >= 1
          /\ st = "COMPLETED" => payout[p].status # "PENDING"
      BY DEF LifeInv, CallsHold
    <3>4. QED
      BY <1>2, <3>1, <3>2, <3>3 DEF PayoutStatuses, OpenStatuses
  <2>2. <<payout[p].status, st>> \in
          {<<x, x>> : x \in PayoutStatuses} \cup
          {<<"NONE", "PENDING">>, <<"PENDING", "APPROVED">>, <<"PENDING", "REJECTED">>,
           <<"APPROVED", "REJECTED">>, <<"APPROVED", "COMPLETED">>} \cup
          (IF crossed[p] = 0 THEN {}
             ELSE {"COMPLETED", "REJECTED"} \X {"APPROVED", "COMPLETED", "REJECTED"})
    BY <2>1 DEF PayoutStatuses, OpenStatuses
  <2>3. QED
    BY <1>1, <1>2, <2>2 DEF MovesRight
<1>9. QED
  BY <1>5, <1>6, <1>7, <1>8 DEF LifeInv

LEMMA AdminStepKeepsLife ==
  ASSUME LifeInv, NEW a \in Admins, AdminStep(a)
  PROVE  LifeInv' /\ MovesRight
<1>types. /\ payout \in [PayoutIds -> [status : PayoutStatuses, amount : Nat]]
          /\ givenBack \in [PayoutIds -> Nat] /\ crossed \in [PayoutIds -> Nat]
          /\ admin \in [Admins -> AdminCall]
          /\ admin[a].id \in PayoutIds
  BY DEF LifeInv, PayoutInv, PayoutTypes, AdminCall
<1>inv. PayoutInv'
  BY AdminStepKeepsInv DEF LifeInv
<1>1. CASE AdminApproves(a) \/ AdminCompletes(a) \/ RejectCommits(a)
  <2>1. IsDeciding(a, admin[a].id)
    BY <1>1 DEF AdminApproves, AdminCompletes, RejectCommits, IsDeciding
  <2>2. PICK st \in {"APPROVED", "COMPLETED", "REJECTED"} :
          /\ SetsStatus(a, admin[a].id, st)
          /\ st = "COMPLETED" => admin[a].call = "complete"
          /\ givenBack' = IF st = "REJECTED" THEN [givenBack EXCEPT ![admin[a].id] = @ + 1]
                            ELSE givenBack
    BY <1>1 DEF AdminApproves, AdminCompletes, RejectCommits
  <2>3. QED
    BY <1>types, <1>inv, <2>1, <2>2, DecisionKeepsLife
<1>2. CASE AdminReadsPayout(a) \/ RejectReadsWallet(a) \/ AdminAborts(a)
  <2>1. UNCHANGED <<payout, givenBack, crossed>>
        /\ \A b \in Admins \ {a} : admin'[b] = admin[b]
    BY <1>2, <1>types DEF AdminReadsPayout, RejectReadsWallet, AdminAborts
  <2>2. \A p \in PayoutIds : IsDeciding(a, p)' =>
          \/ IsDeciding(a, p) /\ admin'[a].call = admin[a].call
          \/ /\ payout[p].status \in OpenStatuses
             /\ admin'[a].call = "complete" => payout[p].status # "PENDING"
    <3>1. CASE AdminReadsPayout(a)
      <4>1. PICK p \in PayoutIds, call \in {"approve", "complete", "reject"} :
              /\ payout[p].status \in Accepts(call)
              /\ admin' = [admin EXCEPT ![a] =
                             [at |-> "checked", call |-> call, id |-> p, row |-> NoWallet]]
        BY <3>1 DEF AdminReadsPayout
      <4>2. /\ payout[p].status \in OpenStatuses
            /\ call = "complete" => payout[p].status # "PENDING"
        BY <4>1 DEF Accepts, OpenStatuses
      <4>3. admin'[a].id = p /\ admin'[a].call = call
        BY <1>types, <4>1
      <4>4. QED
        BY <4>2, <4>3 DEF IsDeciding
    <3>2. CASE RejectReadsWallet(a)
      <4>1. admin'[a].id = admin[a].id /\ admin'[a].call = admin[a].call
        BY <1>types, <3>2 DEF RejectReadsWallet, AdminCall
      <4>2. QED
        BY <3>2, <4>1 DEF RejectReadsWallet, IsDeciding
    <3>3. CASE AdminAborts(a)
      BY <1>types, <3>3, RecordsOfNothing DEF AdminAborts, IsDeciding
    <3>4. QED
      BY <1>2, <3>1, <3>2, <3>3
  <2>3. CallsHold' /\ NeverProcessing'
    <3>1. \A b \in Admins : \A p \in PayoutIds : IsDeciding(b, p)' =>
            \/ IsDeciding(b, p) /\ admin'[b].call = admin[b].call
            \/ /\ payout[p].status \in OpenStatuses
               /\ admin'[b].call = "complete" => payout[p].status # "PENDING"
      BY <2>1, <2>2 DEF IsDeciding
    <3>2. CallsHold'
      BY <2>1, <3>1 DEF LifeInv, CallsHold
    <3>3. QED
      BY <2>1, <3>2 DEF LifeInv, NeverProcessing
  <2>4. \A p \in PayoutIds : Pending(p)' => Pending(p)
    <3> SUFFICES ASSUME NEW p \in PayoutIds, payout[p].status \notin OpenStatuses,
                        NEW b \in Deciding(p)'
                 PROVE  Deciding(p) # {}
      BY <2>1 DEF Pending
    <3>1. b \in Admins /\ IsDeciding(b, p)'
      BY DEF Deciding, IsDeciding
    <3>2. IsDeciding(b, p)
      BY <2>1, <2>2, <3>1 DEF IsDeciding
    <3>3. QED
      BY <3>1, <3>2 DEF Deciding, IsDeciding
  <2>5. ClosedOnce'
    <3> SUFFICES ASSUME NEW q \in PayoutIds
                 PROVE  /\ Closings(q)' <= crossed'[q] + (IF Pending(q)' THEN 0 ELSE 1)
                        /\ payout'[q].status = "REJECTED" => givenBack'[q] >= 1
                        /\ payout'[q].status = "NONE" => givenBack'[q] = 0
      BY DEF ClosedOnce
    <3>1. Closings(q)' = Closings(q) /\ Closings(q) \in Nat /\ crossed[q] \in Nat
      BY <1>types, <2>1 DEF Closings
    <3>2. Closings(q) <= crossed[q] + (IF Pending(q) THEN 0 ELSE 1)
      BY DEF LifeInv, ClosedOnce
    <3>3. Closings(q)' <= crossed'[q] + (IF Pending(q)' THEN 0 ELSE 1)
      BY <2>1, <2>4, <3>1, <3>2
    <3>4. QED
      BY <2>1, <3>3 DEF LifeInv, ClosedOnce
  <2>6. QED
    BY <1>inv, <2>1, <2>3, <2>5, UnmovedIsRight DEF LifeInv
<1>3. QED
  BY <1>1, <1>2 DEF AdminStep

LEMMA LifeStep ==
  ASSUME LifeInv, [Next]_vars
  PROVE  LifeInv' /\ MovesRight
<1>1. CASE UNCHANGED vars
  <2>1. PayoutInv'
    BY <1>1, LockUntouched DEF vars, LifeInv, PayoutInv, PayoutTypes, BackedByWallet
  <2>2. QED
    BY <1>1, <2>1, LifeUntouched DEF vars
<1>2. CASE WalletNext /\ UNCHANGED payoutVars
  BY <1>2, WalletStepKeepsPayouts, LifeUntouched DEF LifeInv, payoutVars
<1>3. QED
  BY <1>1, <1>2, SessionStepKeepsLife, AdminStepKeepsLife DEF Next

LEMMA LifeInductive == Spec => []LifeInv
<1>1. LifeInv /\ [Next]_vars => LifeInv'
  BY LifeStep
<1>2. QED
  BY <1>1, LifeInitially, PTL DEF Spec

(* However many administrators decide on a payout, on statuses others may have     *)
(* replaced, it is given back at most once, not at all if it is paid, and each     *)
(* time more costs a decision that crossed another.                              *)
THEOREM GivenBackOncePerDecision == Spec => []GivenBackOnce
<1>1. ASSUME LifeInv PROVE GivenBackOnce
  <2> SUFFICES ASSUME NEW p \in PayoutIds
               PROVE  /\ payout[p].status = "NONE" => givenBack[p] = 0
                      /\ payout[p].status = "REJECTED" => givenBack[p] \in 1..(1 + crossed[p])
                      /\ payout[p].status \in OpenStatuses \cup {"COMPLETED"} =>
                           givenBack[p] <= crossed[p]
    BY DEF GivenBackOnce
  <2>1. givenBack[p] \in Nat /\ crossed[p] \in Nat
    BY <1>1 DEF LifeInv, PayoutInv, PayoutTypes
  <2>2. /\ Closings(p) <= crossed[p] + (IF Pending(p) THEN 0 ELSE 1)
        /\ payout[p].status = "REJECTED" => givenBack[p] >= 1
        /\ payout[p].status = "NONE" => givenBack[p] = 0
    BY <1>1 DEF LifeInv, ClosedOnce
  <2>3. payout[p].status = "REJECTED" => givenBack[p] <= 1 + crossed[p]
    BY <2>1, <2>2 DEF Closings
  <2>4. payout[p].status = "COMPLETED" => givenBack[p] <= crossed[p]
    BY <2>1, <2>2 DEF Closings
  <2>5. payout[p].status \in OpenStatuses => givenBack[p] <= crossed[p]
    BY <2>1, <2>2 DEF Closings, Pending, OpenStatuses
  <2>6. QED
    BY <2>1, <2>2, <2>3, <2>4, <2>5
<1>2. QED
  BY <1>1, LifeInductive, PTL

(* A payout is approved before it is paid, however many administrators act on it   *)
(* at once, and COMPLETED and REJECTED are left only by decisions that crossed.    *)
THEOREM PayoutsFollowWorkflow == Spec => FollowsWorkflow
<1>1. LifeInv /\ [Next]_vars => [MovesRight]_vars
  BY LifeStep
<1>2. Spec => [][MovesRight]_vars
  BY <1>1, LifeInductive, PTL DEF Spec
<1>3. QED
  BY <1>2 DEF MovesRight, FollowsWorkflow

----------------------------------------------------------------------------
(* Open payouts *)

Uncrossed == {p \in Open : crossed[p] = 0}
Passed == {s \in Sessions : session[s].at = "checked"}

(* An uncrossed open payout has used up a session's look for an open one; the     *)
(* sessions that have looked and not inserted yet may open one each.             *)
OpenInv ==
  /\ LifeInv /\ IsFiniteSet(Uncrossed)
  /\ Cardinality(Uncrossed) + Cardinality(Passed) <= Cardinality(Sessions)

LEMMA PassedIsCounted ==
  /\ IsFiniteSet(Sessions) /\ Cardinality(Sessions) \in Nat
  /\ IsFiniteSet(Passed) /\ Cardinality(Passed) \in Nat
  /\ Cardinality(Passed) <= Cardinality(Sessions)
<1>1. IsFiniteSet(Sessions) /\ Passed \subseteq Sessions
  BY PayoutAssumption DEF Passed
<1>2. QED
  BY <1>1, FS_Subset, FS_CardinalityType

LEMMA PassedIsCountedNext ==
  (IsFiniteSet(Passed) /\ Cardinality(Passed) \in Nat
     /\ Cardinality(Passed) <= Cardinality(Sessions))'
<1>1. IsFiniteSet(Sessions) /\ Passed' \subseteq Sessions
  BY PayoutAssumption DEF Passed
<1>2. QED
  BY <1>1, FS_Subset, FS_CardinalityType

(* Fewer of each is within the bound.                                             *)
LEMMA FewerStayBounded ==
  ASSUME OpenInv, LifeInv', Uncrossed' \subseteq Uncrossed, Passed' \subseteq Passed
  PROVE  OpenInv'
<1>1. IsFiniteSet(Uncrossed') /\ Cardinality(Uncrossed') <= Cardinality(Uncrossed)
  BY FS_Subset DEF OpenInv
<1>2. Cardinality(Passed') <= Cardinality(Passed)
  BY PassedIsCounted, FS_Subset
<1>3. /\ Cardinality(Uncrossed) \in Nat /\ Cardinality(Uncrossed') \in Nat
      /\ Cardinality(Passed) \in Nat /\ Cardinality(Passed') \in Nat
      /\ Cardinality(Sessions) \in Nat
  BY <1>1, PassedIsCounted, PassedIsCountedNext, FS_CardinalityType DEF OpenInv
<1>4. Cardinality(Uncrossed') + Cardinality(Passed') <= Cardinality(Sessions)
  BY <1>1, <1>2, <1>3 DEF OpenInv
<1>5. QED
  BY <1>1, <1>4 DEF OpenInv

LEMMA SessionStepKeepsOpen ==
  ASSUME OpenInv, LifeInv', NEW s \in Sessions, SessionStep(s)
  PROVE  OpenInv'
<1>types. /\ session \in [Sessions -> Request]
          /\ payout \in [PayoutIds -> [status : PayoutStatuses, amount : Nat]]
  BY DEF OpenInv, LifeInv, PayoutInv, PayoutTypes
<1>1. CASE RequestCommits(s)
  <2>1. PICK p \in PayoutIds :
          /\ payout[p].status = "NONE"
          /\ payout' = [payout EXCEPT ![p] = [status |-> "PENDING", amount |-> session[s].amount]]
    BY <1>1 DEF RequestCommits
  <2>2. crossed' = crossed /\ \A q \in PayoutIds \ {p} : payout'[q] = payout[q]
    BY <1>1, <1>types, <2>1 DEF RequestCommits
  <2>3. Uncrossed' \subseteq Uncrossed \cup {p}
    BY <2>2 DEF Uncrossed, Open
  <2>4. s \in Passed /\ Passed' = Passed \ {s}
    BY <1>1, <1>types, RecordsOfNothing DEF RequestCommits, Passed
  <2>5. /\ IsFiniteSet(Uncrossed') /\ Cardinality(Uncrossed') \in Nat
        /\ Cardinality(Uncrossed) \in Nat
        /\ Cardinality(Uncrossed') <= Cardinality(Uncrossed) + 1
    <3>1. IsFiniteSet(Uncrossed) /\ Cardinality(Uncrossed) \in Nat
      BY FS_CardinalityType DEF OpenInv
    <3>2. /\ IsFiniteSet(Uncrossed \cup {p})
          /\ Cardinality(Uncrossed \cup {p}) <= Cardinality(Uncrossed) + 1
      <4>1. /\ IsFiniteSet(Uncrossed \cup {p})
            /\ \/ Cardinality(Uncrossed \cup {p}) = Cardinality(Uncrossed)
               \/ Cardinality(Uncrossed \cup {p}) = Cardinality(Uncrossed) + 1
        BY <3>1, FS_AddElement
      <4>2. QED
        BY <3>1, <4>1
    <3>3. /\ IsFiniteSet(Uncrossed')
          /\ Cardinality(Uncrossed') <= Cardinality(Uncrossed \cup {p})
      BY <2>3, <3>2, FS_Subset
    <3>4. Cardinality(Uncrossed') \in Nat /\ Cardinality(Uncrossed \cup {p}) \in Nat
      BY <3>2, <3>3, FS_CardinalityType
    <3>5. QED
      BY <3>1, <3>2, <3>3, <3>4
  <2>6. Cardinality(Passed') = Cardinality(Passed) - 1
    BY <2>4, PassedIsCounted, FS_RemoveElement
  <2>7. Cardinality(Uncrossed') + Cardinality(Passed') <= Cardinality(Sessions)
    BY <2>5, <2>6, PassedIsCounted DEF OpenInv
  <2>8. QED
    BY <2>5, <2>7 DEF OpenInv
<1>2. CASE RequestLooksForOpen(s)
  <2>1. Uncrossed' = Uncrossed
    BY <1>2 DEF RequestLooksForOpen, Uncrossed, Open
  <2>2. CASE Open = {}
    <3>1. Uncrossed' = {}
      BY <2>1, <2>2 DEF Uncrossed
    <3>2. IsFiniteSet(Uncrossed') /\ Cardinality(Uncrossed') = 0
      BY <3>1, FS_EmptySet
    <3>3. Cardinality(Uncrossed') + Cardinality(Passed') <= Cardinality(Sessions)
      BY <3>2, PassedIsCountedNext
    <3>4. QED
      BY <3>2, <3>3 DEF OpenInv
  <2>3. CASE Open # {}
    <3>1. session'[s].at = "idle" /\ \A t \in Sessions \ {s} : session'[t] = session[t]
      BY <1>2, <1>types, <2>3, RecordsOfNothing DEF RequestLooksForOpen, Open
    <3>2. Passed' \subseteq Passed
      BY <3>1 DEF Passed
    <3>3. QED
      BY <2>1, <3>2, FewerStayBounded
  <2>4. QED
    BY <2>2, <2>3
<1>3. CASE RequestReadsWallet(s) \/ RequestAborts(s)
  <2>1. /\ session'[s].at # "checked" /\ \A t \in Sessions \ {s} : session'[t] = session[t]
        /\ UNCHANGED <<payout, crossed>>
    BY <1>3, <1>types, RecordsOfNothing DEF RequestReadsWallet, RequestAborts
  <2>2. Passed' \subseteq Passed /\ Uncrossed' = Uncrossed
    BY <2>1 DEF Passed, Uncrossed, Open
  <2>3. QED
    BY <2>2, FewerStayBounded
<1>4. QED
  BY <1>1, <1>2, <1>3 DEF SessionStep

(* A decision opens nothing that no decision has crossed.                         *)
LEMMA DecisionsOpenNothing ==
  ASSUME LifeInv, NEW a \in Admins, AdminStep(a)
  PROVE  /\ \A p \in PayoutIds : crossed'[p] = 0 => crossed[p] = 0
         /\ Uncrossed' \subseteq Uncrossed
         /\ UNCHANGED <<session, overlapped>>
<1>types. /\ crossed \in [PayoutIds -> Nat] /\ admin[a].id \in PayoutIds
  BY DEF LifeInv, PayoutInv, PayoutTypes, AdminCall
<1>same. UNCHANGED <<session, overlapped>>
  BY DEF AdminStep, AdminReadsPayout, AdminApproves, AdminCompletes, RejectReadsWallet,
         RejectCommits, AdminAborts
<1>1. CASE AdminApproves(a) \/ AdminCompletes(a) \/ RejectCommits(a)
  <2>1. PICK p \in PayoutIds : p = admin[a].id
    BY <1>types
  <2>2. IsDeciding(a, p)
    BY <1>1, <2>1 DEF AdminApproves, AdminCompletes, RejectCommits, IsDeciding
  <2>3. PICK st \in {"APPROVED", "COMPLETED", "REJECTED"} : SetsStatus(a, p, st)
    BY <1>1, <2>1 DEF AdminApproves, AdminCompletes, RejectCommits
  <2>4. /\ \A q \in PayoutIds \ {p} : payout'[q] = payout[q] /\ crossed'[q] = crossed[q]
        /\ crossed'[p] = IF Deciding(p)' = {} THEN crossed[p] ELSE crossed[p] + 1
    BY <2>2, <2>3, DecisionEffect DEF LifeInv
  <2>5. \A q \in PayoutIds : crossed'[q] = 0 => crossed[q] = 0
    BY <1>types, <2>4
  <2>6. crossed[p] = 0 => payout[p].status \in OpenStatuses
    BY <1>types, <2>2 DEF LifeInv, CallsHold
  <2>7. Uncrossed' \subseteq Uncrossed
    BY <2>4, <2>5, <2>6 DEF Uncrossed, Open
  <2>8. QED
    BY <1>same, <2>5, <2>7
<1>2. CASE AdminReadsPayout(a) \/ RejectReadsWallet(a) \/ AdminAborts(a)
  <2>1. UNCHANGED <<payout, crossed>>
    BY <1>2 DEF AdminReadsPayout, RejectReadsWallet, AdminAborts
  <2>2. QED
    BY <1>same, <2>1 DEF Uncrossed, Open
<1>3. QED
  BY <1>1, <1>2 DEF AdminStep

LEMMA OpenInductive == Spec => []OpenInv
<1>1. ASSUME Init PROVE OpenInv
  <2>1. Open = {} /\ Passed = {}
    BY <1>1, RecordsOfNothing DEF Init, PayoutInit, Open, OpenStatuses, Passed
  <2>2. IsFiniteSet(Uncrossed) /\ Cardinality(Uncrossed) = 0 /\ Cardinality(Passed) = 0
    <3>1. Uncrossed = {}
      BY <2>1 DEF Uncrossed
    <3>2. QED
      BY <2>1, <3>1, FS_EmptySet
  <2>3. QED
    BY <1>1, <2>2, LifeInitially, PassedIsCounted DEF OpenInv
<1>2. ASSUME OpenInv, [Next]_vars PROVE OpenInv'
  <2>1. LifeInv'
    BY <1>2, LifeStep DEF OpenInv
  <2>2. CASE UNCHANGED payoutVars
    <3>1. Uncrossed' \subseteq Uncrossed /\ Passed' \subseteq Passed
      BY <2>2 DEF payoutVars, Uncrossed, Open, Passed
    <3>2. QED
      BY <1>2, <2>1, <3>1, FewerStayBounded
  <2>3. ASSUME NEW s \in Sessions, SessionStep(s) PROVE OpenInv'
    BY <1>2, <2>1, <2>3, SessionStepKeepsOpen
  <2>4. ASSUME NEW a \in Admins, AdminStep(a) PROVE OpenInv'
    <3>1. Uncrossed' \subseteq Uncrossed /\ UNCHANGED session
      BY <1>2, <2>4, DecisionsOpenNothing DEF OpenInv
    <3>2. Passed' \subseteq Passed
      BY <3>1 DEF Passed
    <3>3. QED
      BY <1>2, <2>1, <3>1, <3>2, FewerStayBounded
  <2>5. UNCHANGED vars => UNCHANGED payoutVars
    BY DEF vars, payoutVars
  <2>6. QED
    BY <1>2, <2>2, <2>3, <2>4, <2>5 DEF Next
<1>3. QED
  BY <1>1, <1>2, PTL DEF Spec

(* However a merchant's requests overlap, it never has more payouts open than it has *)
(* sessions, whatever administrators decide meanwhile.                            *)
THEOREM OpenPayoutsStayBounded == Spec => []OpenPayoutsBounded
<1>1. ASSUME OpenInv PROVE OpenPayoutsBounded
  <2>1. Cardinality(Uncrossed) \in Nat
    BY <1>1, FS_CardinalityType DEF OpenInv
  <2>2. Cardinality(Uncrossed) <= Cardinality(Sessions)
    BY <1>1, <2>1, PassedIsCounted DEF OpenInv
  <2>3. QED
    BY <2>2 DEF Uncrossed, OpenPayoutsBounded
<1>2. QED
  BY <1>1, OpenInductive, PTL

(* What a step of the wallet's own writers does to its money, payouts or not.         *)
LEMMA CreditMoves ==
  ASSUME LockInv, NEW d \in Deliveries, PostCredit(d)
  PROVE  \E net \in Nat, rows \in Int :
           /\ wallet'.balance = wallet.balance + net /\ statement' = statement + rows
           /\ rows - net <= 1 /\ (FeesCovered => net - rows <= 1)
           /\ d \notin Posted /\ Posted' = Posted \cup {d}
<1>1. PICK fees \in FeeStructures : \E b \in NetCreditBreakdowns(CodAmount[d], fees) :
        /\ wallet' = [open |-> TRUE,
                      balance |-> wallet.balance + b.netCredit,
                      totalCredited |-> wallet.totalCredited + b.grossCod,
                      totalDebited |-> wallet.totalDebited + (b.commission + b.fee),
                      version |-> wallet.version + 1]
        /\ statement' = statement + PostedAmount(b)
  BY PostCreditEffect
<1>2. PICK b \in NetCreditBreakdowns(CodAmount[d], fees) :
        /\ wallet' = [open |-> TRUE,
                      balance |-> wallet.balance + b.netCredit,
                      totalCredited |-> wallet.totalCredited + b.grossCod,
                      totalDebited |-> wallet.totalDebited + (b.commission + b.fee),
                      version |-> wallet.version + 1]
        /\ statement' = statement + PostedAmount(b)
  BY <1>1
<1>3. fees \in FeeStructure /\ CodAmount[d] \in Nat
  BY WalletAssumption
<1>4. b.netCredit \in Nat /\ PostedAmount(b) \in Int
  BY <1>3, BreakdownType
<1>5. /\ PostedAmount(b) - b.netCredit <= 1
      /\ FeesCovered => b.netCredit - PostedAmount(b) <= 1
  BY <1>3, BreakdownDrift DEF FeesCovered
<1>6. d \notin Posted /\ Posted' = Posted \cup {d}
  <2>1. d \in Handlers /\ "posted" \in Stages /\ End(d, "posted") /\ stage[d] # "posted"
    BY DEF PostCredit, Handlers, Stages
  <2>2. QED
    BY <2>1, EndPosts
<1>7. wallet'.balance = wallet.balance + b.netCredit /\ statement' = statement + PostedAmount(b)
  BY <1>2
<1>8. QED
  BY <1>4, <1>5, <1>6, <1>7

LEMMA WalletMoves ==
  ASSUME LockInv, WalletNext
  PROVE  \/ /\ wallet'.balance = wallet.balance /\ statement' = statement /\ Posted' = Posted
         \/ \E d \in Deliveries : PostCredit(d)
         \/ \E a \in Adjustments : PostAdjustment(a)
<1>1. CASE CreateWallet
  BY <1>1 DEF CreateWallet, NewWallet, NoWallet, LockInv, AbsentIsEmpty, Posted
<1>2. ASSUME NEW h \in Handlers,
             ReadWallet(h) \/ WalletNotFound(h) \/ RefuseDebit(h) \/ Conflict(h)
               \/ CreateCollision(h) \/ Abort(h)
      PROVE  wallet'.balance = wallet.balance /\ statement' = statement /\ Posted' = Posted
  BY <1>2, QuietStep
<1>3. Deliveries \subseteq Handlers /\ Adjustments \subseteq Handlers
  BY DEF Handlers
<1>4. QED
  BY <1>1, <1>2, <1>3 DEF WalletNext, DeliveryStep, AdjustmentStep

(* Nothing that will be written is below zero: not the balance, not what a request     *)
(* leaves of the one it read, not what a rejection adds to.                          *)
CoveredRequests ==
  /\ wallet.balance >= 0
  /\ \A s \in Sessions : session[s].at # "idle" => session[s].row.balance >= session[s].amount
  /\ \A a \in Admins : admin[a].at = "walletRead" => admin[a].row.balance >= 0

CoveredInv == PayoutInv /\ CoveredRequests

LEMMA RowsAreNumbers ==
  ASSUME PayoutInv
  PROVE  /\ wallet.balance \in Int /\ statement \in Int
         /\ session \in [Sessions -> Request] /\ admin \in [Admins -> AdminCall]
         /\ \A s \in Sessions : session[s].row.balance \in Int /\ session[s].amount \in Nat
         /\ \A a \in Admins : admin[a].row.balance \in Int /\ admin[a].id \in PayoutIds
         /\ \A p \in PayoutIds : payout[p].amount \in Nat
BY DEF PayoutInv, LockInv, TypeInv, WalletTypeOK, WalletRow, PayoutTypes, Request, AdminCall

LEMMA WalletStepKeepsCovered ==
  ASSUME CoveredInv, WalletNext, UNCHANGED payoutVars
  PROVE  CoveredRequests'
<1>1. LockInv /\ wallet.balance \in Int /\ wallet.balance >= 0
  BY RowsAreNumbers DEF CoveredInv, PayoutInv, CoveredRequests
<1>2. wallet'.balance >= 0
  <2>1. CASE wallet'.balance = wallet.balance
    BY <1>1, <2>1
  <2>2. ASSUME NEW d \in Deliveries, PostCredit(d) PROVE wallet'.balance >= 0
    <3>1. PICK net \in Nat : wallet'.balance = wallet.balance + net
      BY <1>1, <2>2, CreditMoves
    <3>2. QED
      BY <1>1, <3>1
  <2>3. ASSUME NEW a \in Adjustments, PostAdjustment(a) PROVE wallet'.balance >= 0
    <3>1. /\ wallet'.balance = wallet.balance + AdjustmentAmount[a] /\ AdjustmentAmount[a] \in Int
          /\ AdjustmentAmount[a] < 0 => wallet.balance + AdjustmentAmount[a] >= 0
      BY <1>1, <2>3, PostAdjustmentEffect, WalletAssumption
    <3>2. QED
      BY <1>1, <3>1
  <2>4. QED
    BY <1>1, <2>1, <2>2, <2>3, WalletMoves
<1>3. QED
  BY <1>2 DEF CoveredInv, CoveredRequests, payoutVars

LEMMA SessionStepKeepsCovered ==
  ASSUME CoveredInv, NEW s \in Sessions, SessionStep(s)
  PROVE  CoveredRequests'
<1>types. /\ wallet.balance \in Int /\ session \in [Sessions -> Request]
          /\ \A t \in Sessions : session[t].row.balance \in Int /\ session[t].amount \in Nat
  BY RowsAreNumbers DEF CoveredInv
<1>adm. UNCHANGED admin
  BY DEF SessionStep, RequestReadsWallet, RequestLooksForOpen, RequestCommits, RequestAborts
<1>1. CASE RequestReadsWallet(s)
  <2>1. PICK amount \in PayoutAmounts :
          /\ amount <= wallet.balance /\ UNCHANGED wallet
          /\ session' = [session EXCEPT ![s] =
                           [at |-> "walletRead", amount |-> amount, row |-> wallet]]
    BY <1>1 DEF RequestReadsWallet
  <2>2. /\ session'[s].amount = amount /\ session'[s].row = wallet /\ amount \in Nat
        /\ \A t \in Sessions \ {s} : session'[t] = session[t]
    BY <1>types, <2>1, PayoutAssumption
  <2>3. QED
    BY <1>types, <1>adm, <2>1, <2>2 DEF CoveredInv, CoveredRequests
<1>2. CASE RequestLooksForOpen(s)
  <2>1. /\ session'[s].at # "idle" => /\ session[s].at # "idle"
                                     /\ session'[s].row = session[s].row
                                     /\ session'[s].amount = session[s].amount
        /\ \A t \in Sessions \ {s} : session'[t] = session[t]
    BY <1>2, <1>types, RecordsOfNothing DEF RequestLooksForOpen, Request
  <2>2. QED
    BY <1>2, <1>adm, <2>1 DEF RequestLooksForOpen, CoveredInv, CoveredRequests
<1>3. CASE RequestCommits(s)
  <2>1. session'[s].at = "idle" /\ \A t \in Sessions \ {s} : session'[t] = session[t]
    BY <1>3, <1>types, RecordsOfNothing DEF RequestCommits
  <2>2. wallet'.balance = session[s].row.balance - session[s].amount
    <3>1. wallet \in WalletRow
      BY DEF CoveredInv, PayoutInv, LockInv, TypeInv, WalletTypeOK
    <3>2. QED
      BY <1>3, <3>1 DEF RequestCommits, WalletRow
  <2>3. session[s].row.balance >= session[s].amount
    BY <1>3 DEF RequestCommits, CoveredInv, CoveredRequests
  <2>4. wallet'.balance >= 0
    BY <1>types, <2>2, <2>3
  <2>5. QED
    BY <1>adm, <2>1, <2>4 DEF CoveredInv, CoveredRequests
<1>4. CASE RequestAborts(s)
  <2>1. session'[s].at = "idle" /\ \A t \in Sessions \ {s} : session'[t] = session[t]
    BY <1>4, <1>types, RecordsOfNothing DEF RequestAborts
  <2>2. QED
    BY <1>4, <1>adm, <2>1 DEF RequestAborts, CoveredInv, CoveredRequests
<1>5. QED
  BY <1>1, <1>2, <1>3, <1>4 DEF SessionStep

LEMMA AdminStepKeepsCovered ==
  ASSUME CoveredInv, NEW a \in Admins, AdminStep(a)
  PROVE  CoveredRequests'
<1>types. /\ wallet.balance \in Int /\ admin \in [Admins -> AdminCall]
          /\ \A b \in Admins : admin[b].row.balance \in Int /\ admin[b].id \in PayoutIds
          /\ \A p \in PayoutIds : payout[p].amount \in Nat
  BY RowsAreNumbers DEF CoveredInv
<1>ses. UNCHANGED session
  BY DEF AdminStep, AdminReadsPayout, AdminApproves, AdminCompletes, RejectReadsWallet,
         RejectCommits, AdminAborts, SetsStatus
<1>others. \A b \in Admins \ {a} : admin'[b] = admin[b]
  BY <1>types DEF AdminStep, AdminReadsPayout, AdminApproves, AdminCompletes, RejectReadsWallet,
         RejectCommits, AdminAborts, SetsStatus
<1>1. CASE RejectReadsWallet(a)
  <2>1. admin'[a].row = wallet /\ UNCHANGED wallet
    BY <1>1, <1>types DEF RejectReadsWallet, AdminCall
  <2>2. QED
    BY <1>ses, <1>others, <2>1 DEF CoveredInv, CoveredRequests
<1>2. CASE RejectCommits(a)
  <2>1. admin'[a].at = "idle"
    BY <1>2, <1>types, RecordsOfNothing DEF RejectCommits, SetsStatus
  <2>2. PICK p \in PayoutIds : p = admin[a].id
    BY <1>types
  <2>3. wallet'.balance = admin[a].row.balance + payout[p].amount
    <3>1. wallet \in WalletRow
      BY DEF CoveredInv, PayoutInv, LockInv, TypeInv, WalletTypeOK
    <3>2. QED
      BY <1>2, <2>2, <3>1 DEF RejectCommits, WalletRow
  <2>4. admin[a].row.balance >= 0
    BY <1>2 DEF RejectCommits, CoveredInv, CoveredRequests
  <2>5. wallet'.balance >= 0
    BY <1>types, <2>3, <2>4
  <2>6. QED
    BY <1>ses, <1>others, <2>1, <2>5 DEF CoveredInv, CoveredRequests
<1>3. CASE AdminReadsPayout(a) \/ AdminApproves(a) \/ AdminCompletes(a) \/ AdminAborts(a)
  <2>1. admin'[a].at # "walletRead" /\ UNCHANGED wallet
    BY <1>3, <1>types, RecordsOfNothing
    DEF AdminReadsPayout, AdminApproves, AdminCompletes, AdminAborts, SetsStatus
  <2>2. QED
    BY <1>ses, <1>others, <2>1 DEF CoveredInv, CoveredRequests
<1>4. QED
  BY <1>1, <1>2, <1>3 DEF AdminStep

LEMMA CoveredInductive == Spec => []CoveredInv
<1>1. Init => CoveredInv
  <2>1. Init => PayoutInv
    BY PayoutsInitially
  <2>2. Init => CoveredRequests
    BY RecordsOfNothing DEF Init, WalletInit, PayoutInit, NoWallet, NewWallet, CoveredRequests
  <2>3. QED
    BY <2>1, <2>2 DEF CoveredInv
<1>2. CoveredInv /\ PayoutInv' /\ [Next]_vars => CoveredInv'
  <2>1. ASSUME CoveredInv, [Next]_vars PROVE CoveredRequests'
    <3>1. CASE UNCHANGED vars
      BY <2>1, <3>1 DEF vars, CoveredInv, CoveredRequests
    <3>2. QED
      BY <2>1, <3>1, WalletStepKeepsCovered, SessionStepKeepsCovered, AdminStepKeepsCovered DEF Next
  <2>2. QED
    BY <2>1 DEF CoveredInv
<1>3. QED
  BY <1>1, <1>2, PayoutsInductive, PTL DEF Spec

(* However many sessions and administrators write over one another and over credits   *)
(* and debits, the balance never goes below zero.                                   *)
THEOREM PayoutsNeverOverdraw == Spec => []BalanceNeverNegative
<1>1. CoveredInv => BalanceNeverNegative
  BY DEF CoveredInv, CoveredRequests, BalanceNeverNegative
<1>2. QED
  BY <1>1, CoveredInductive, PTL

-----------------------------------------------------------------------------
(* Rounding only: what a balance, or a row that was read and will be written from,     *)
(* has above the transaction rows is a piastre for each credit posted.              *)

Credits == {d \in Deliveries : stage[d] = "posted"}

OnlyRounding == FeesCovered /\ \A a \in Adjustments : AdjustmentAmount[a] = 0

RowsWithinRounding ==
  /\ wallet.balance - statement <= Cardinality(Credits)
  /\ \A s \in Sessions :
       session[s].at # "idle" => session[s].row.balance - statement <= Cardinality(Credits)
  /\ \A a \in Admins :
       admin[a].at = "walletRead" => admin[a].row.balance - statement <= Cardinality(Credits)

Undisturbed == ~overlapped /\ \A p \in PayoutIds : crossed[p] = 0

(* Without overlaps one request at most is under way, and what it has checked, that *)
(* the merchant has nothing open, still holds when it inserts.                     *)
Alone ==
  /\ \A s, t \in Sessions : session[s].at # "idle" /\ session[t].at # "idle" => s = t
  /\ \A s \in Sessions : session[s].at = "checked" => Open = {}

FundsInv ==
  /\ LifeInv /\ IsFiniteSet(Credits)
  /\ Undisturbed => Alone
  /\ OnlyRounding /\ Undisturbed => RowsWithinRounding

(* While a rejection is between its read and its write there is an open payout, so     *)
(* no request gets to insert one.                                                  *)
LEMMA RejectionHoldsRequests ==
  ASSUME LifeInv, Undisturbed, Alone, NEW s \in Sessions, session[s].at = "checked",
         NEW a \in Admins
  PROVE  admin[a].at # "walletRead"
<1> SUFFICES ASSUME admin[a].at = "walletRead" PROVE FALSE
  OBVIOUS
<1>1. admin[a].id \in PayoutIds /\ IsDeciding(a, admin[a].id)
  BY DEF LifeInv, PayoutInv, PayoutTypes, AdminCall, IsDeciding
<1>2. payout[admin[a].id].status \in OpenStatuses
  <2>1. crossed[admin[a].id] = 0
    BY <1>1 DEF Undisturbed
  <2>2. QED
    BY <1>1, <2>1 DEF LifeInv, CallsHold
<1>3. QED
  BY <1>1, <1>2 DEF Alone, Open

LEMMA SessionStepKeepsAlone ==
  ASSUME LifeInv, Undisturbed => Alone, NEW s \in Sessions, SessionStep(s), Undisturbed'
  PROVE  Undisturbed /\ Alone'
<1>types. /\ session \in [Sessions -> Request] /\ overlapped \in BOOLEAN
          /\ payout \in [PayoutIds -> [status : PayoutStatuses, amount : Nat]]
  BY DEF LifeInv, PayoutInv, PayoutTypes
<1>1. Undisturbed
  BY <1>types DEF Undisturbed, SessionStep, RequestReadsWallet, RequestLooksForOpen,
                  RequestCommits, RequestAborts
<1>2. Alone
  BY <1>1
<1>3. CASE RequestReadsWallet(s)
  <2>1. \A t \in Sessions : session[t].at = "idle"
    BY <1>3 DEF RequestReadsWallet, Undisturbed
  <2>2. /\ session'[s].at # "checked" /\ UNCHANGED payout
        /\ \A t \in Sessions \ {s} : session'[t] = session[t]
    BY <1>3, <1>types DEF RequestReadsWallet
  <2>3. QED
    BY <1>1, <2>1, <2>2 DEF Alone, Open
<1>4. CASE RequestLooksForOpen(s)
  <2>1. /\ session[s].at # "idle" /\ UNCHANGED payout
        /\ \A t \in Sessions \ {s} : session'[t] = session[t]
        /\ session'[s].at = "checked" => Open = {}
    BY <1>4, <1>types, RecordsOfNothing DEF RequestLooksForOpen, Open
  <2>2. Open' = Open
    BY <2>1 DEF Open
  <2>3. QED
    BY <1>1, <1>2, <2>1, <2>2 DEF Alone
<1>5. CASE RequestCommits(s) \/ RequestAborts(s)
  <2>1. /\ session[s].at # "idle" /\ session'[s].at = "idle"
        /\ \A t \in Sessions \ {s} : session'[t] = session[t]
    BY <1>5, <1>types, RecordsOfNothing DEF RequestCommits, RequestAborts
  <2>2. \A t \in Sessions : session'[t].at = "idle"
    BY <1>2, <2>1 DEF Alone
  <2>3. QED
    BY <1>1, <2>2 DEF Alone
<1>6. QED
  BY <1>3, <1>4, <1>5 DEF SessionStep

LEMMA AdminStepKeepsAlone ==
  ASSUME LifeInv, Undisturbed => Alone, NEW a \in Admins, AdminStep(a), Undisturbed'
  PROVE  Undisturbed /\ Alone'
<1>1. /\ \A p \in PayoutIds : crossed'[p] = 0 => crossed[p] = 0
      /\ Uncrossed' \subseteq Uncrossed /\ UNCHANGED <<session, overlapped>>
  BY DecisionsOpenNothing
<1>2. Undisturbed
  BY <1>1 DEF Undisturbed
<1>3. Open = Uncrossed /\ Open' = Uncrossed'
  BY <1>2 DEF Undisturbed, Uncrossed, Open
<1>4. QED
  BY <1>1, <1>2, <1>3 DEF Alone

LEMMA WalletStepKeepsFunds ==
  ASSUME FundsInv, WalletNext, UNCHANGED payoutVars
  PROVE  IsFiniteSet(Credits)' /\ (OnlyRounding /\ Undisturbed => RowsWithinRounding')
<1>types. /\ LockInv /\ wallet.balance \in Int /\ statement \in Int
          /\ \A s \in Sessions : session[s].row.balance \in Int
          /\ \A a \in Admins : admin[a].row.balance \in Int
  BY RowsAreNumbers DEF FundsInv, LifeInv, PayoutInv
<1>count. IsFiniteSet(Credits) /\ Cardinality(Credits) \in Nat
  BY FS_CardinalityType DEF FundsInv
<1>of. Credits = Posted \cap Deliveries /\ Credits' = Posted' \cap Deliveries
  BY DEF Credits, Posted, Handlers
<1>1. ASSUME UNCHANGED Credits, statement' = statement,
             OnlyRounding /\ Undisturbed => wallet'.balance = wallet.balance
      PROVE  IsFiniteSet(Credits)' /\ (OnlyRounding /\ Undisturbed => RowsWithinRounding')
  BY <1>1 DEF FundsInv, RowsWithinRounding, payoutVars
<1>2. CASE wallet'.balance = wallet.balance /\ statement' = statement /\ Posted' = Posted
  BY <1>1, <1>2, <1>of
<1>3. ASSUME NEW d \in Deliveries, PostCredit(d)
      PROVE  IsFiniteSet(Credits)' /\ (OnlyRounding /\ Undisturbed => RowsWithinRounding')
  <2>1. PICK net \in Nat, rows \in Int :
          /\ wallet'.balance = wallet.balance + net /\ statement' = statement + rows
          /\ rows - net <= 1 /\ (FeesCovered => net - rows <= 1)
          /\ d \notin Posted /\ Posted' = Posted \cup {d}
    BY <1>types, <1>3, CreditMoves
  <2>2. Credits' = Credits \cup {d} /\ d \notin Credits
    BY <1>of, <2>1
  <2>3. IsFiniteSet(Credits') /\ Cardinality(Credits') = Cardinality(Credits) + 1
    <3>1. IsFiniteSet(Credits \cup {d}) /\ Cardinality(Credits \cup {d}) = Cardinality(Credits) + 1
      BY <1>count, <2>2, FS_AddElement
    <3>2. QED
      BY <2>2, <3>1
  <2>4. ASSUME OnlyRounding, Undisturbed PROVE RowsWithinRounding'
    <3>1. PICK k \in Nat : k = Cardinality(Credits)
      BY <1>count
    <3>2. net - rows <= 1 /\ Cardinality(Credits') = k + 1
      BY <2>1, <2>3, <2>4, <3>1 DEF OnlyRounding
    <3>3. /\ wallet.balance - statement <= k
          /\ \A s \in Sessions : session[s].at # "idle" => session[s].row.balance - statement <= k
          /\ \A a \in Admins : admin[a].at = "walletRead" => admin[a].row.balance - statement <= k
      BY <2>4, <3>1 DEF FundsInv, RowsWithinRounding
    <3>4. wallet'.balance - statement' <= k + 1
      BY <1>types, <2>1, <3>2, <3>3
    <3>5. \A x \in Int : x - statement <= k => x - statement' <= k + 1
      BY <1>types, <2>1, <3>2
    <3>6. /\ \A s \in Sessions : session[s].at # "idle" => session[s].row.balance - statement' <= k + 1
          /\ \A a \in Admins : admin[a].at = "walletRead" => admin[a].row.balance - statement' <= k + 1
      BY <1>types, <3>3, <3>5
    <3>7. QED
      BY <3>2, <3>4, <3>6 DEF RowsWithinRounding, payoutVars
  <2>5. QED
    BY <2>3, <2>4
<1>4. ASSUME NEW a \in Adjustments, PostAdjustment(a)
      PROVE  IsFiniteSet(Credits)' /\ (OnlyRounding /\ Undisturbed => RowsWithinRounding')
  <2>1. wallet'.balance = wallet.balance + AdjustmentAmount[a]
        /\ statement' = statement + AdjustmentAmount[a]
    BY <1>types, <1>4, PostAdjustmentEffect
  <2>2. Credits' = Credits
    <3>1. a \notin Deliveries /\ a \in Handlers /\ "posted" \in Stages
      BY WalletAssumption DEF Handlers, Stages
    <3>2. Posted' = Posted \cup {a}
      BY <1>types, <1>4, <3>1, EndPosts DEF PostAdjustment
    <3>3. QED
      BY <1>of, <3>1, <3>2
  <2>3. IsFiniteSet(Credits')
    BY <1>count, <2>2
  <2>4. ASSUME OnlyRounding, Undisturbed PROVE RowsWithinRounding'
    <3>1. wallet'.balance = wallet.balance /\ statement' = statement
      BY <1>types, <2>1, <2>4 DEF OnlyRounding
    <3>2. QED
      BY <1>1, <2>2, <2>4, <3>1
  <2>5. QED
    BY <2>3, <2>4
<1>5. QED
  BY <1>types, <1>2, <1>3, <1>4, WalletMoves

LEMMA SessionStepKeepsFunds ==
  ASSUME FundsInv, NEW s \in Sessions, SessionStep(s)
  PROVE  IsFiniteSet(Credits)' /\ (OnlyRounding /\ Undisturbed' => RowsWithinRounding')
<1>types. /\ wallet \in WalletRow /\ wallet.balance \in Int /\ statement \in Int
          /\ session \in [Sessions -> Request]
          /\ \A t \in Sessions : session[t].row.balance \in Int /\ session[t].amount \in Nat
          /\ \A a \in Admins : admin[a].row.balance \in Int
  BY RowsAreNumbers DEF FundsInv, LifeInv, PayoutInv, LockInv, TypeInv, WalletTypeOK
<1>one. \A t \in Sessions \ {s} : session'[t] = session[t]
  BY <1>types DEF SessionStep, RequestReadsWallet, RequestLooksForOpen, RequestCommits,
         RequestAborts
<1>same. UNCHANGED admin /\ Credits' = Credits
  BY DEF SessionStep, RequestReadsWallet, RequestLooksForOpen, RequestCommits, RequestAborts, Credits
<1>fin. IsFiniteSet(Credits)' /\ Cardinality(Credits) \in Nat
  BY <1>same, FS_CardinalityType DEF FundsInv
<1> SUFFICES ASSUME OnlyRounding, Undisturbed' PROVE RowsWithinRounding'
  BY <1>fin
<1>alone. Undisturbed /\ Alone /\ Alone'
  BY SessionStepKeepsAlone DEF FundsInv
<1>rows. RowsWithinRounding
  BY <1>alone DEF FundsInv
<1>1. CASE RequestReadsWallet(s)
  <2>1. session'[s].row = wallet /\ UNCHANGED <<wallet, statement>>
    BY <1>1, <1>types DEF RequestReadsWallet
  <2>2. QED
    BY <1>rows, <1>same, <1>one, <2>1 DEF RowsWithinRounding
<1>2. CASE RequestLooksForOpen(s)
  <2>1. session'[s].at # "idle" => session[s].at # "idle" /\ session'[s].row = session[s].row
    BY <1>2, <1>types, RecordsOfNothing DEF RequestLooksForOpen, Request
  <2>2. QED
    BY <1>2, <1>rows, <1>same, <1>one, <2>1 DEF RequestLooksForOpen, RowsWithinRounding
<1>3. CASE RequestCommits(s)
  <2>1. \A t \in Sessions : session'[t].at = "idle"
    <3>1. session[s].at # "idle" /\ session'[s].at = "idle"
      BY <1>3, <1>types, RecordsOfNothing DEF RequestCommits
    <3>2. QED
      BY <1>alone, <1>one, <3>1 DEF Alone
  <2>2. /\ wallet'.balance = session[s].row.balance - session[s].amount
        /\ statement' = statement - session[s].amount
    BY <1>3, <1>types DEF RequestCommits, WalletRow
  <2>3. session[s].row.balance - statement <= Cardinality(Credits)
    BY <1>3, <1>rows DEF RequestCommits, RowsWithinRounding
  <2>4. wallet'.balance - statement' <= Cardinality(Credits)
    BY <1>types, <1>fin, <2>2, <2>3
  <2>5. \A a \in Admins : admin'[a].at # "walletRead"
    BY <1>3, <1>alone, <1>same, RejectionHoldsRequests DEF RequestCommits, FundsInv
  <2>6. QED
    BY <1>same, <2>1, <2>4, <2>5 DEF RowsWithinRounding
<1>4. CASE RequestAborts(s)
  <2>1. session'[s].at = "idle"
    BY <1>4, <1>types, RecordsOfNothing DEF RequestAborts
  <2>2. QED
    BY <1>4, <1>rows, <1>same, <1>one, <2>1 DEF RequestAborts, RowsWithinRounding
<1>5. QED
  BY <1>1, <1>2, <1>3, <1>4 DEF SessionStep

LEMMA AdminStepKeepsFunds ==
  ASSUME FundsInv, NEW a \in Admins, AdminStep(a)
  PROVE  IsFiniteSet(Credits)' /\ (OnlyRounding /\ Undisturbed' => RowsWithinRounding')
<1>types. /\ wallet \in WalletRow /\ wallet.balance \in Int /\ statement \in Int
          /\ admin \in [Admins -> AdminCall]
          /\ \A b \in Admins : admin[b].row.balance \in Int /\ admin[b].id \in PayoutIds
          /\ \A s \in Sessions : session[s].row.balance \in Int
          /\ \A p \in PayoutIds : payout[p].amount \in Nat
  BY RowsAreNumbers DEF FundsInv, LifeInv, PayoutInv, LockInv, TypeInv, WalletTypeOK
<1>one. \A b \in Admins \ {a} : admin'[b] = admin[b]
  BY <1>types DEF AdminStep, AdminReadsPayout, AdminApproves, AdminCompletes, RejectReadsWallet,
         RejectCommits, AdminAborts, SetsStatus
<1>same. UNCHANGED session /\ Credits' = Credits
  BY DEF AdminStep, AdminReadsPayout, AdminApproves, AdminCompletes, RejectReadsWallet,
         RejectCommits, AdminAborts, SetsStatus, Credits
<1>fin. IsFiniteSet(Credits)' /\ Cardinality(Credits) \in Nat
  BY <1>same, FS_CardinalityType DEF FundsInv
<1> SUFFICES ASSUME OnlyRounding, Undisturbed' PROVE RowsWithinRounding'
  BY <1>fin
<1>alone. Undisturbed /\ Alone /\ Alone'
  BY AdminStepKeepsAlone DEF FundsInv
<1>rows. RowsWithinRounding
  BY <1>alone DEF FundsInv
<1>1. CASE RejectReadsWallet(a)
  <2>1. admin'[a].row = wallet /\ UNCHANGED <<wallet, statement>>
    BY <1>1, <1>types DEF RejectReadsWallet, AdminCall
  <2>2. QED
    BY <1>rows, <1>same, <1>one, <2>1 DEF RowsWithinRounding
<1>2. CASE RejectCommits(a)
  <2>1. admin'[a].at = "idle"
    BY <1>2, <1>types, RecordsOfNothing DEF RejectCommits, SetsStatus
  <2>2. PICK amount \in Nat : amount = payout[admin[a].id].amount
    BY <1>types
  <2>3. /\ wallet'.balance = admin[a].row.balance + amount /\ statement' = statement + amount
    BY <1>2, <1>types, <2>2 DEF RejectCommits, WalletRow
  <2>4. admin[a].row.balance - statement <= Cardinality(Credits)
    BY <1>2, <1>rows DEF RejectCommits, RowsWithinRounding
  <2>5. wallet'.balance - statement' <= Cardinality(Credits)
    BY <1>types, <1>fin, <2>3, <2>4
  <2>6. \A s \in Sessions :
          session[s].at # "idle" => session[s].row.balance - statement' <= Cardinality(Credits)
    BY <1>types, <1>fin, <1>rows, <2>3 DEF RowsWithinRounding
  <2>7. \A b \in Admins :
          admin[b].at = "walletRead" => admin[b].row.balance - statement' <= Cardinality(Credits)
    BY <1>types, <1>fin, <1>rows, <2>3 DEF RowsWithinRounding
  <2>8. QED
    BY <1>same, <1>one, <2>1, <2>5, <2>6, <2>7 DEF RowsWithinRounding
<1>3. CASE AdminReadsPayout(a) \/ AdminApproves(a) \/ AdminCompletes(a) \/ AdminAborts(a)
  <2>1. admin'[a].at # "walletRead" /\ UNCHANGED <<wallet, statement>>
    BY <1>3, <1>types, RecordsOfNothing
    DEF AdminReadsPayout, AdminApproves, AdminCompletes, AdminAborts, SetsStatus
  <2>2. QED
    BY <1>rows, <1>same, <1>one, <2>1 DEF RowsWithinRounding
<1>4. QED
  BY <1>1, <1>2, <1>3 DEF AdminStep

LEMMA FundsInductive == Spec => []FundsInv
<1>1. ASSUME Init PROVE FundsInv
  <2>1. Credits = {} /\ wallet.balance = 0 /\ statement = 0
    BY <1>1 DEF Init, WalletInit, Credits, Handlers, NoWallet, NewWallet
  <2>2. (\A s \in Sessions : session[s].at = "idle") /\ \A a \in Admins : admin[a].at = "idle"
    BY <1>1, RecordsOfNothing DEF Init, PayoutInit
  <2>3. Alone
    BY <2>2 DEF Alone
  <2>4. IsFiniteSet(Credits) /\ Cardinality(Credits) = 0
    BY <2>1, FS_EmptySet
  <2>5. RowsWithinRounding
    BY <2>1, <2>2, <2>4 DEF RowsWithinRounding
  <2>6. QED
    BY <1>1, <2>3, <2>4, <2>5, LifeInitially DEF FundsInv
<1>2. ASSUME FundsInv, [Next]_vars PROVE FundsInv'
  <2>1. LifeInv'
    BY <1>2, LifeStep DEF FundsInv
  <2>2. OnlyRounding' <=> OnlyRounding
    BY DEF OnlyRounding, FeesCovered
  <2>3. ASSUME UNCHANGED payoutVars
        PROVE  (Undisturbed' => Undisturbed) /\ (Undisturbed' => Alone')
    BY <1>2, <2>3 DEF payoutVars, Undisturbed, FundsInv, Alone, Open
  <2>4. UNCHANGED vars => UNCHANGED payoutVars
    BY DEF vars, payoutVars
  <2>5. Undisturbed' => Alone'
    BY <1>2, <2>3, <2>4, SessionStepKeepsAlone, AdminStepKeepsAlone DEF Next, FundsInv
  <2>6. IsFiniteSet(Credits)' /\ (OnlyRounding /\ Undisturbed' => RowsWithinRounding')
    <3>1. CASE UNCHANGED vars
      BY <1>2, <3>1 DEF vars, FundsInv, RowsWithinRounding, Credits, Undisturbed
    <3>2. CASE WalletNext /\ UNCHANGED payoutVars
      BY <1>2, <2>3, <3>2, WalletStepKeepsFunds
    <3>3. QED
      BY <1>2, <3>1, <3>2, SessionStepKeepsFunds, AdminStepKeepsFunds DEF Next
  <2>7. QED
    BY <2>1, <2>2, <2>5, <2>6 DEF FundsInv
<1>3. QED
  BY <1>1, <1>2, PTL DEF Spec

(* As long as no two requests overlapped and no two decisions on a payout did, the    *)
(* requests and rejections of any number of sessions and administrators can lose a   *)
(* merchant the credits they overwrite and never make any money.                     *)
THEOREM RacesMakeNoMoney == Spec => []NoMoneyFromRaces
<1>1. FundsInv => NoMoneyFromRaces
  BY DEF FundsInv, OnlyRounding, Undisturbed, RowsWithinRounding, Credits, NoMoneyFromRaces
<1>2. QED
  BY <1>1, FundsInductive, PTL

=============================================================================
