------------------------------ MODULE Payouts ------------------------------
(***************************************************************************)
(* PayoutsService on top of the wallet: a merchant's sessions request      *)
(* payouts, administrators approve, complete and reject them, while        *)
(* deliveries and adjustments keep writing the same wallet row.            *)
(*                                                                         *)
(* Unlike the handlers of Wallet, requestPayout and reject write absolute  *)
(* values computed from an earlier read, without a WHERE on the version;   *)
(* and approve, complete and reject test a status read before they write.  *)
(***************************************************************************)
EXTENDS Wallet, FiniteSets

CONSTANTS
  PayoutIds,         \* ids of the payout rows that may be created
  PayoutAmounts,     \* amounts a merchant asks for
  MinPayoutAmount,   \* MIN_PAYOUT_AMOUNT
  Sessions,          \* concurrent requestPayout calls of the merchant
  Admins             \* concurrent administrators

ASSUME PayoutAssumption ==
  /\ PayoutAmounts \subseteq Nat
  /\ MinPayoutAmount \in Nat
  /\ PayoutIds # {}
  /\ IsFiniteSet(PayoutIds) /\ IsFiniteSet(Sessions) /\ IsFiniteSet(Admins)

VARIABLES
  payout,       \* payout table: status and amount
  givenBack,    \* how many ADJUSTMENT_CREDIT rows name the payout
  session,      \* each request's progress and what it has read
  admin,        \* each administrator's call and what it has read
  crossed,      \* history: the decisions written on a payout while another
                \* administrator's call had already passed its check
  overlapped    \* history: two requests were in progress at once

payoutVars == <<payout, givenBack, session, admin, crossed, overlapped>>
vars == <<wallet, statement, stage, attempt, snap, payout, givenBack, session, admin,
          crossed, overlapped>>

OpenStatuses == {"PENDING", "APPROVED", "PROCESSING"}
PayoutStatuses == OpenStatuses \cup {"COMPLETED", "REJECTED", "NONE"}

NoRequest == [at |-> "idle", amount |-> 0, row |-> NoWallet]
NoCall == [at |-> "idle", call |-> "none", id |-> CHOOSE p \in PayoutIds : TRUE,
              row |-> NoWallet]

PayoutInit ==
  /\ payout = [p \in PayoutIds |-> [status |-> "NONE", amount |-> 0]]
  /\ givenBack = [p \in PayoutIds |-> 0]
  /\ session = [s \in Sessions |-> NoRequest]
  /\ admin = [a \in Admins |-> NoCall]
  /\ crossed = [p \in PayoutIds |-> 0]
  /\ overlapped = FALSE

Init == WalletInit /\ PayoutInit

----------------------------------------------------------------------------
(* requestPayout *)

(* Mutant: the amount is not compared with the balance. *)
RequestReadsWallet_Uncovered(s) ==
  /\ session[s].at = "idle"
  /\ wallet.open
  /\ \E amount \in PayoutAmounts :
       /\ amount >= MinPayoutAmount
       /\ session' = [session EXCEPT ![s] =
                        [at |-> "walletRead", amount |-> amount, row |-> wallet]]
  /\ overlapped' = (overlapped \/ \E t \in Sessions : session[t].at # "idle")
  /\ UNCHANGED <<wallet, statement, stage, attempt, snap, payout, givenBack, admin, crossed>>

(* Reads the wallet and leaves with an exception if it is missing or short. *)
RequestReadsWallet(s) ==
  /\ session[s].at = "idle"
  /\ wallet.open
  /\ \E amount \in PayoutAmounts :
       /\ amount >= MinPayoutAmount
       /\ amount <= wallet.balance
       /\ session' = [session EXCEPT ![s] =
                        [at |-> "walletRead", amount |-> amount, row |-> wallet]]
  /\ overlapped' = (overlapped \/ \E t \in Sessions : session[t].at # "idle")
  /\ UNCHANGED <<wallet, statement, stage, attempt, snap, payout, givenBack, admin, crossed>>

(* Mutant: approved payouts no longer count as open. *)
RequestLooksForOpen_PendingOnly(s) ==
  /\ session[s].at = "walletRead"
  /\ session' = [session EXCEPT ![s] =
       IF \E p \in PayoutIds : payout[p].status = "PENDING"
         THEN NoRequest
         ELSE [@ EXCEPT !.at = "checked"]]
  /\ UNCHANGED <<wallet, statement, stage, attempt, snap, payout, givenBack, admin,
                 crossed, overlapped>>

(* Looks for an open payout of the merchant, and throws if there is one.    *)
RequestLooksForOpen(s) ==
  /\ session[s].at = "walletRead"
  /\ session' = [session EXCEPT ![s] =
       IF \E p \in PayoutIds : payout[p].status \in OpenStatuses
         THEN NoRequest
         ELSE [@ EXCEPT !.at = "checked"]]
  /\ UNCHANGED <<wallet, statement, stage, attempt, snap, payout, givenBack, admin,
                 crossed, overlapped>>

(* Mutant: as below, but the version is not bumped. *)
RequestCommits_SameVersion(s) ==
  /\ session[s].at = "checked"
  /\ \E p \in PayoutIds :
       /\ payout[p].status = "NONE"
       /\ payout' = [payout EXCEPT ![p] = [status |-> "PENDING", amount |-> session[s].amount]]
  /\ wallet' = [wallet EXCEPT
                  !.balance = session[s].row.balance - session[s].amount,
                  !.totalDebited = session[s].row.totalDebited + session[s].amount]
  /\ statement' = statement - session[s].amount
  /\ session' = [session EXCEPT ![s] = NoRequest]
  /\ UNCHANGED <<stage, attempt, snap, givenBack, admin, crossed, overlapped>>

(* Inserts the payout, overwrites the balance, inserts the PAYOUT_DEBIT.    *)
RequestCommits(s) ==
  /\ session[s].at = "checked"
  /\ \E p \in PayoutIds :
       /\ payout[p].status = "NONE"
       /\ payout' = [payout EXCEPT ![p] = [status |-> "PENDING", amount |-> session[s].amount]]
  /\ wallet' = [wallet EXCEPT
                  !.balance = session[s].row.balance - session[s].amount,
                  !.totalDebited = session[s].row.totalDebited + session[s].amount,
                  !.version = @ + 1]
  /\ statement' = statement - session[s].amount
  /\ session' = [session EXCEPT ![s] = NoRequest]
  /\ UNCHANGED <<stage, attempt, snap, givenBack, admin, crossed, overlapped>>

(* A database error or a crash rolls the request back. *)
RequestAborts(s) ==
  /\ session[s].at # "idle"
  /\ session' = [session EXCEPT ![s] = NoRequest]
  /\ UNCHANGED <<wallet, statement, stage, attempt, snap, payout, givenBack, admin,
                 crossed, overlapped>>

----------------------------------------------------------------------------
(* approve, complete and reject *)

(* Mutants: complete takes a payout nobody approved; reject takes one that   *)
(* is rejected already.                                                      *)
Accepts_Unapproved(call) ==
  IF call = "approve" THEN {"PENDING"} ELSE OpenStatuses

Accepts_Rejected(call) ==
  CASE call = "approve"  -> {"PENDING"}
    [] call = "complete" -> {"APPROVED", "PROCESSING"}
    [] call = "reject"   -> OpenStatuses \cup {"REJECTED"}

(* The statuses each call accepts; any other status is an exception. *)
Accepts(call) ==
  CASE call = "approve"  -> {"PENDING"}
    [] call = "complete" -> {"APPROVED", "PROCESSING"}
    [] call = "reject"   -> OpenStatuses

AdminReadsPayout(a) ==
  /\ admin[a].at = "idle"
  /\ \E p \in PayoutIds, call \in {"approve", "complete", "reject"} :
       /\ payout[p].status \in Accepts(call)
       /\ admin' = [admin EXCEPT ![a] =
                      [at |-> "checked", call |-> call, id |-> p, row |-> NoWallet]]
  /\ UNCHANGED <<wallet, statement, stage, attempt, snap, payout, givenBack, session,
                 crossed, overlapped>>

Deciding(p) == {a \in Admins : admin[a].at # "idle" /\ admin[a].id = p}

(* UPDATE payout SET status WHERE id: no test that the status is unchanged. *)
SetsStatus(a, p, status) ==
  /\ payout' = [payout EXCEPT ![p].status = status]
  /\ crossed' = [crossed EXCEPT ![p] = IF Deciding(p) = {a} THEN @ ELSE @ + 1]
  /\ admin' = [admin EXCEPT ![a] = NoCall]

AdminApproves(a) ==
  /\ admin[a].at = "checked" /\ admin[a].call = "approve"
  /\ SetsStatus(a, admin[a].id, "APPROVED")
  /\ UNCHANGED <<wallet, statement, stage, attempt, snap, givenBack, session, overlapped>>

AdminCompletes(a) ==
  /\ admin[a].at = "checked" /\ admin[a].call = "complete"
  /\ SetsStatus(a, admin[a].id, "COMPLETED")
  /\ UNCHANGED <<wallet, statement, stage, attempt, snap, givenBack, session, overlapped>>

RejectReadsWallet(a) ==
  /\ admin[a].at = "checked" /\ admin[a].call = "reject"
  /\ admin' = [admin EXCEPT ![a].at = "walletRead", ![a].row = wallet]
  /\ UNCHANGED <<wallet, statement, stage, attempt, snap, payout, givenBack, session,
                 crossed, overlapped>>

(* Sets REJECTED, gives the amount back on top of the balance that was read, *)
(* inserts the ADJUSTMENT_CREDIT.                                            *)
RejectCommits(a) ==
  LET p == admin[a].id
      amount == payout[p].amount
  IN  /\ admin[a].at = "walletRead"
      /\ SetsStatus(a, p, "REJECTED")
      /\ givenBack' = [givenBack EXCEPT ![p] = @ + 1]
      /\ wallet' = [wallet EXCEPT
                      !.balance = admin[a].row.balance + amount,
                      !.totalCredited = admin[a].row.totalCredited + amount,
                      !.version = @ + 1]
      /\ statement' = statement + amount
      /\ UNCHANGED <<stage, attempt, snap, session, overlapped>>

AdminAborts(a) ==
  /\ admin[a].at # "idle"
  /\ admin' = [admin EXCEPT ![a] = NoCall]
  /\ UNCHANGED <<wallet, statement, stage, attempt, snap, payout, givenBack, session,
                 crossed, overlapped>>

----------------------------------------------------------------------------
SessionStep(s) ==
  \/ RequestReadsWallet(s) \/ RequestLooksForOpen(s)
  \/ RequestCommits(s) \/ RequestAborts(s)

AdminStep(a) ==
  \/ AdminReadsPayout(a) \/ AdminApproves(a) \/ AdminCompletes(a)
  \/ RejectReadsWallet(a) \/ RejectCommits(a) \/ AdminAborts(a)

Next ==
  \/ WalletNext /\ UNCHANGED payoutVars
  \/ \E s \in Sessions : SessionStep(s)
  \/ \E a \in Admins : AdminStep(a)

Spec == Init /\ [][Next]_vars

----------------------------------------------------------------------------
Request == [at : {"idle", "walletRead", "checked"}, amount : Nat, row : WalletRow]
AdminCall == [at : {"idle", "checked", "walletRead"},
              call : {"none", "approve", "complete", "reject"},
              id : PayoutIds, row : WalletRow]

TypeOK ==
  /\ WalletTypeOK
  /\ payout \in [PayoutIds -> [status : PayoutStatuses, amount : Nat]]
  /\ givenBack \in [PayoutIds -> Nat]
  /\ session \in [Sessions -> Request]
  /\ admin \in [Admins -> AdminCall]
  /\ crossed \in [PayoutIds -> Nat]
  /\ overlapped \in BOOLEAN

Open == {p \in PayoutIds : payout[p].status \in OpenStatuses}

(* The look for an open payout and the insert are apart, so each of a          *)
(* merchant's overlapping requests may leave an open payout, but no more than  *)
(* that; those that crossing decisions may have reopened are not counted.      *)
OpenPayoutsBounded ==
  Cardinality({p \in Open : crossed[p] = 0}) <= Cardinality(Sessions)

(* A payout is given back once if it is rejected, and not if it is paid; each  *)
(* further time costs a decision that was written while another one had        *)
(* already been checked.                                                     *)
GivenBackOnce ==
  \A p \in PayoutIds :
    LET status == payout[p].status IN
    /\ status = "NONE" => givenBack[p] = 0
    /\ status = "REJECTED" => givenBack[p] \in 1..(1 + crossed[p])
    /\ status \in OpenStatuses \cup {"COMPLETED"} => givenBack[p] <= crossed[p]

(* A payout is approved before it is paid, whoever decides on it at once, and  *)
(* leaves COMPLETED and REJECTED only by a decision that was checked before.   *)
FollowsWorkflow ==
  [][\A p \in PayoutIds :
       <<payout[p].status, payout'[p].status>> \in
         {<<x, x>> : x \in PayoutStatuses} \cup
         {<<"NONE", "PENDING">>, <<"PENDING", "APPROVED">>, <<"PENDING", "REJECTED">>,
          <<"APPROVED", "REJECTED">>, <<"APPROVED", "COMPLETED">>} \cup
         (IF crossed[p] = 0 THEN {}
            ELSE {"COMPLETED", "REJECTED"} \X {"APPROVED", "COMPLETED", "REJECTED"})]_vars

(* A credit or an adjustment is added to the balance of the moment, never to *)
(* one that a payout or a rejection has replaced since it was read.          *)
OptimisticWritesBuildOnBalance ==
  [][\A h \in Handlers :
       stage[h] = "read" /\ stage'[h] = "posted" => snap[h] = wallet]_vars

(* However requests and rejections overwrite credits, the merchant's balance   *)
(* is never more than the transaction rows add up to (a piastre of rounding    *)
(* per credit aside), as long as no two requests overlapped and no two         *)
(* decisions on a payout did.  Nothing calls createDebit: a debit that is      *)
(* overwritten would give its amount back.                                    *)
NoMoneyFromRaces ==
  /\ FeesCovered /\ \A a \in Adjustments : AdjustmentAmount[a] = 0
  /\ ~overlapped /\ \A p \in PayoutIds : crossed[p] = 0
  =>  wallet.balance - statement <= Cardinality({d \in Deliveries : stage[d] = "posted"})

(* docs/WALLET_LEDGER.md:26, "Sum of all transactions = Current balance".    *)
SumOfTransactionsIsBalance == wallet.balance = statement

=============================================================================
