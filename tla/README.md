# Trackora in TLA+

Trackora is a multi-tenant back end for cash-on-delivery logistics: NestJS services over
PostgreSQL (Prisma) and Redis, with in-memory events between services. This directory models its
services, checks the models with TLC on small instances, and proves with TLAPS, for every
instance, every safety property that those runs check.

What makes this code hard to test is the same everywhere. A request reads rows, decides, and
writes later; `$transaction` runs at READ COMMITTED and `findFirst` locks nothing, so anything may
happen between the read and the write. Events live in memory and are gone if the process dies.
The models therefore make every read that a later write rests on a step of its own.

## 1. The system

Paths are relative to `src/src/modules/`.

| Part | State | Operations | Talks to |
|---|---|---|---|
| Merchant wallet (`wallets/`) | `Wallet` row with a `version`; `Transaction` rows | COD credit on `shipment.delivered`; `createCredit`/`createDebit`; `create` | shipments (event), merchants (KYC approval), payouts (same row) |
| Payouts (`payouts/`) | `Payout` rows | `requestPayout`, `approve`, `complete`, `reject` | wallet row, transaction rows |
| Shipments (`shipments/`) | `Shipment` rows, status log; Redis OTP counters | create, bulk upload, `updateStatus` | couriers' counters and cash; emits `shipment.*` |
| Dispatch (`assignments/`) | `Assignment` rows, `assignedCourierId` | batch assignment, `reassign`, `cancel`, `completeAssignment` | shipments, couriers; emits `assignment.*` |
| Courier app (`couriers/`) | `Courier.cashHeld`, deposits | `updateTaskStatus`, `syncUpdates`, `logDeposit` | `updateStatus`, `completeAssignment` |
| Live events (`websocket/`) | Redis buffer per room, sockets | broadcast and buffer, connect, follow a shipment, `sync:missed` | listens to all the events |
| Couriers, zones (`couriers/`, `zones/`) | `Courier`, `Zone` rows | create, zones, availability, removal | users |
| Merchants and KYC (`merchants/`) | `Merchant` rows | create, KYC status, fees, dashboard | wallet creation |
| Sign-in (`auth/`, `users/`) | users; Redis OTP record and refresh token | register, login, OTP login, refresh, logout, removal | — |
| Guards (`../common/`, `auth/guards/`) | — | five guards, effective tenant, decorators of every route | all controllers |
| Support (`platform/support/`) | `ImpersonationSession` rows | start and end impersonation, expiry | guards |
| Plans and subscriptions (`platform/`, `tenants/`, `public-onboarding/`) | plans, tenants, subscriptions | plan life cycle, onboarding, public sign-up, subscription life cycle | each other, flags |
| Feature flags, demo requests (`platform/`) | defaults, plan flags, overrides; demo requests | set, clone, resolve | plans, tenants |
| Billing (`platform/billing/`) | invoices, audit log | create, update | audit log |
| Reports (`admin/`, `platform/analytics/`, dashboards, listings) | — | queries | all tables |

What must be right, by part, and what can break it:

- **Wallet**: no update lost, no overdraft, rows and totals agree. Concurrent handlers, retries,
  a wallet created twice, crashes.
- **Payouts**: open payouts, returns of the money and steps of the workflow stay as few as the
  overlap of requests and decisions allows. Absolute writes of balances read earlier; stale
  status checks.
- **Shipments**: an announced delivery stays one, unless it is written over unread; cash, counters, log and events agree with what was
  committed. Stale validation, repeated calls, crashes between commit and event.
- **Uploads**: a batch is stored whole or not at all, and only while its merchant is active.
  Batches commit one by one.
- **Dispatch and courier app**: one open assignment per shipment, capacity respected, the
  shipment's courier is the assignment's, a late offline update takes back nothing that it was
  compared with. Reads apart from inserts, reassignment racing completion.
- **Live events**: a replay fills the gap. Read-modify-write of one Redis value, a broadcast
  before it is buffered, a bounded buffer that expires.
- **Sign-in, phone codes, support sessions**: a token, a code or a session is used no more often
  than it should. Each is read, compared, and replaced in steps of their own.
- **Subscriptions**: a tenant runs on a plan it subscribed to; no row refers to what is gone; one
  live subscription. Checks before the transaction that needs them.
- **Merchants**: an approved merchant has a wallet. Two writes, a crash in between.
- **Flags**: a plan or an override shields a tenant from defaults, also when it says no.
- **Invoices, reports**: the trail tells the invoice's history; figures of one answer fit each
  other. Statements of one answer that other requests come between.
- **Guards**: whoever is served stays in scope. Many decorators, each harmless alone.

The components with what is left out of them, and the hazards with their source lines, are listed
in `PROJECT.json`.

## 2. Modules

```
FeeCalculator -- WalletLedger (abstract)      ShipmentStates -- Delivery -- Dispatch
      `-- Wallet -- Payouts                            `-- Reports
Guards -- Routes       Rows -- Intake         Realtime
Accounts    PhoneCodes    Support    Parties    Subscriptions    Entitlements    Billing

MCWallet, MCPayouts, MCDelivery, MCDispatch, MCRealtime     one component each
MCIdentity   = Accounts + PhoneCodes + Support + Routes
MCOperations = Subscriptions + Intake + Parties + Entitlements + Billing + Reports

WalletProofs, PayoutsProofs, DeliveryProofs, DispatchProofs, RealtimeProofs    of one module each
IdentityProofs = Accounts + Support + Routes + PhoneCodes
PlatformProofs = Subscriptions + Parties + Entitlements + Billing + Intake + Reports
SumLemmas      sums over finite sets, for those that count money or rows
```

### Money

**FeeCalculator**: `calculateNetCredit` in integers. `toFixed(2)` of a double is the set of
nearest piastres: at a tie the double may lie on either side, so both are allowed. Commission and
net are rounded apart; only the net is clamped at zero.

**WalletLedger**: what a wallet promises. Every delivery and every adjustment is applied at most
once and in one step, with its rows.

**Wallet**: one row and every handler that writes it under `WHERE version = …`. A handler reads
(`ReadWallet`), then either posts (`PostCredit`, `PostAdjustment`), loses the race (`Conflict`:
back to the start until `MaxRetries`), is refused (`WalletNotFound`, `RefuseDebit`), collides with
another creation of the wallet (`CreateCollision`), or rolls back (`Abort`, which is also a
crash). One step reads and one step commits because the `updateMany` holds the row from its
execution to the commit. `ImplementsLedger` is the refinement to `WalletLedger`, with "posted" as
the mapping.

**Payouts**: extends `Wallet` with `requestPayout` (three steps: read the wallet, look for an open
payout, commit) and the administrators' calls (read and check, then write; `reject` reads the
wallet in between). Their writes are absolute, from the row read earlier, as in the code. Two
history variables say what overlapped: `crossed` counts the decisions written on a payout while
another administrator's call on it had already passed its check, `overlapped` whether two requests
were ever in progress at once.

### Shipments

**ShipmentStates**: the transition matrix; a status may always follow itself, as
`validateTransition` says.

**Delivery**: `updateStatus` for callers that overlap. Stages of `call[c]`: the row is read and
the request validated; for a COD delivery the attempt counter is read and then incremented; the
transaction commits on the shipment *by id* and on the courier *that was read*; the log row is
written; the events go out. `Dies` may happen between any two. `logDeposit` checks `cashHeld` and
decrements it in two steps. The history variable `overtaken` names the shipments an update of which
was committed over a status that it had not read. The attempt counter may run out at any moment,
also between the read and the increment. Abstractions: an OTP is a model value, its hash and the plain copy in
Redis (written, never read) are left out; INCR and EXPIRE are one step; a client reports cash only
when it delivers a COD shipment.

**Dispatch**: extends `Delivery`. A dispatcher's request is a batch (capacity counted once, then
per shipment: status read, active assignment looked for, insert together with
`assignedCourierId`), a move, or a cancellation. A courier's task update checks who owns the
shipment (a synced one also compares `statusOrder`, and then checks the owner again), runs all of
`updateStatus`, and for a final status looks the assignment up, reads it again and completes it by
id (`was` keeps the status that a synced update was compared with). `Managers` call `updateStatus` directly and complete nothing. Couriers are taken to be active
and available; requests refused at once change nothing and are left out. `UniqueShipment` says
whether the unique index that the migrations create is there; the schema and its documentation
say it is not, and the code is written for that.

**Rows** and **Intake**: how shipments come in. `Rows` is the validation of one line of a file and
the risk score, on cells that are blank, numbers in hundredths or one of a few texts. In `Intake`
an upload reads the merchant, the zones and free numbers once, then stores its valid rows batch
by batch; each batch is a transaction that looks at the merchant again and fails whole. A single
creation shares the numbers with it, and logs and announces after its commit.

**Realtime**: a listener goes through its rooms; in each it broadcasts, asks EXISTS, and then
creates the buffer or reads it and writes it back trimmed; a SET that fails there leaves the
buffer with the one new entry (`ReplacesBuffer`, remembered in `replaced`). No listener names a room twice (its
rooms are of different kinds), which the module assumes of `RoomsOf`. A key may run out at any moment, once
per room. Clients connect, drop, follow a shipment and replay their default rooms one by one,
naming any event (or an unknown one) as the last they saw: the client is not part of the
repository.

### People and access

**Accounts**: users, and the one refresh token per user in Redis. A token is the second it was
issued in, because that is all that tells two JWTs of one user apart. Refresh compares, reads the
user, and stores the successor in three steps; login overwrites too; a key runs out with its token.

**PhoneCodes**: the OTP record of one phone, read, changed in memory and written back, with a new
code sent, or the record running out, in between.

**Support**: `startImpersonation` checks its target, ends the actor's older sessions and creates
the new one in three steps; `endImpersonation` and `validate` (which expires sessions) find a
session and write it by id later. An agent has as many requests as it has tabs open.

**Guards** and **Routes**: the five guards, the roles' permissions and `resolveEffectiveTenantId`
as predicates of a route and an identity, and the decorators of every controller as data.

**Parties**: merchants with KYC status, the wallet made after the approval, couriers with their
zones, and the zone tree with its soft deletion, its look apart from its write.

### The platform

**Subscriptions**: plans, tenants and subscriptions, with every way to write them: plans created,
changed, archived and deleted (the references counted before), onboarding and public sign-up (plan
and slug looked up before), subscriptions created, updated, cancelled, renewed and moved. Every
request reads and checks, then writes by id in one transaction, with foreign keys and the unique
slug behind it.

**Entitlements**: defaults, plan flags and overrides, their resolution, the cloning of a
configuration, and demo requests.

**Billing**: an invoice is written in one statement; what it was is read before and the trail's
entry follows after.

**Reports**: a report is a set of figures, each of which counts the rows in some states by a
statement of its own while other requests write; the model has the filters of every report that
promises figures to fit each other.

Every `…_Something` operator whose comment starts with "Mutant" is a plausible bug of the
definition it is named after; no specification uses it. Replacing the original by it makes the
property named in `PROJECT.json` fail.

## 3. Runs

| Run | Instance | Shows |
|---|---|---|
| `wallet` | 2 credits, 1 credit and 1 debit by hand, 2 attempts each, wallet present or not | lock, no overdraft, totals, rounding, refinement, every handler ends |
| `payouts` | 2 credits, 2 sessions, 2 administrators, 3 payouts | open payouts bounded, money given back once per decision, workflow, credits build on the current balance, races create no money |
| `payouts_sum` (violated) | the same, no fees | a payout overwrites a credit committed since its read: rows and balance part |
| `delivery` | 2 callers, 1 COD shipment, 2 depositors, OTP limit 1, 5 updates | cash answered for and overdrawn by overlaps only, counters of two tables agree, events follow commits, an announced delivery stays unless written over, extra OTP guesses bounded |
| `delivery_cash` (violated) | 1 caller, a COD and a prepaid shipment | DELIVERED sent twice books the cash twice |
| `delivery_final` (violated) | 2 callers, 1 COD shipment | a slow update takes a shipment out of DELIVERED after its delivery was announced |
| `dispatch` | 1 dispatcher; either 2 shipments, 2 couriers and a manager, or 1 shipment whose courier works on it online and through sync, or that courier and a manager at once on an assigned one | capacity, one active assignment, courier follows it, COMPLETED means done, sync undoes nothing it was compared with |
| `dispatch_move` (violated) | the unique index in force | no move is ever accepted by the database |
| `realtime` | 3 events, 2 rooms, buffer of 2, 1 handler, 1 client, 2 connections | a buffer is the tail of the broadcasts; after a replay at most the entry in flight is missing |
| `realtime_race` (violated) | 2 handlers | an event is lost from the buffer for good |
| `identity` | 2 devices, 2 verifiers, 3 tabs of 2 agents; every route with every role in 2 tenants | uses of tokens and codes and active sessions are bounded; routes keep their scope |
| `operations` | 2 actors of each kind; a file of 4 rows in batches of 2 | references hold, the current plan is one subscribed to, live subscriptions bounded, batches whole, a removed merchant's upload stops, approved merchants have wallets, trails tell history, figures fit, plans shield from defaults |

The violated runs are disagreements between the code and what the repository says of it;
`PROJECT.json` quotes both sides under "findings".

**One part per behaviour.** `MCIdentity` and `MCOperations` hold components that share no table in
a way their properties depend on. A variable `focus`, chosen at the start, says which of them a
behaviour is about; the others stay as they began. Every behaviour of each component is covered,
and the state spaces add instead of multiplying. Three MC modules do the same within one component,
with sets of inputs:

- `MCPayouts` has three crews: a "pair" (a session and an administrator that race two deliveries),
  "requests" (both sessions overlap) and "decisions" (both administrators do); in the last two one
  delivery has filled the wallet and the amounts asked for are the same.
- `MCDispatch` has three desks: "batches" and "tasks" are two halves of the inputs; at "overlaps"
  the shipment stays assigned while the courier's updates and a manager's meet, with the statuses
  on the way to DELIVERED and FAILED.
- `MCOperations` looks at `Subscriptions` twice. Focus "subscriptions": overlapping subscriptions
  of a tenant that has signed up, up to three of them. Focus "plans": plans and tenants come and
  go, one platform user at a time looking after them while the other and the visitor are at work,
  with two subscriptions that run or are cancelled.

Where components do share rows they are one state machine: `Payouts` with `Wallet`, `Dispatch` with
`Delivery`.

**Why these bounds.** Every hazard listed is a race of two actors on one row, or one actor dying
between two of its steps, so two handlers, devices, callers, sessions, depositors or administrators
show it. Three payouts let both sessions leave one open and a third be decided. A third wallet
handler is there because a retry must be able to lose again; a third tab because two of one agent
must overlap while another agent's session is ended by its owner. Five updates suffice for two
callers to overlap on the delivery itself, after picking up and going out. Three assignments let a
courier be filled by a move after two single assignments; capacities 3 and 2 make the 90 % round
down to 2 and 1. A buffer of two with three events is trimmed. A clock of three seconds lets a token
of two run out. Four rows with one refused fill a batch of two and start a second. `MaxCalls`,
`MaxAssignments`, `MaxConnects`, `MaxTime`, `MaxSent`, `MaxSessions`, `MaxSubscriptions`,
`MaxEntries`, `MaxWrites` and the finite sets of events, payouts, tracking numbers and plans are the
only bounds, and `calls'` and `Len(assignment')` in the three desks; `CHECK_DEADLOCK FALSE` is set
everywhere because a behaviour ends when they are used up. Symmetry is used where no `CHOOSE` meets
the symmetric values and no liveness is checked: sessions and administrators in `payouts`, callers,
depositors and OTPs in `delivery`, tracking numbers and the actors named alike in `operations`.

**What an overlap may cost.** Requests that overlap break what each of them alone would keep, because
check and write are apart. The properties say how far:

- Two payout sessions leave two open payouts; `OpenPayoutsBounded` allows one for each session.
- Two administrators reject a payout twice, or reject one that is paid. `GivenBackOnce` and
  `FollowsWorkflow` allow that once for each decision that crossed another (`crossed`), and
  whatever crosses, nobody is paid who was not approved. `NoMoneyFromRaces` excepts behaviours in
  which requests or decisions overlapped (`overlapped`, `crossed`): only then is money made.
- Two callers take a shipment out of DELIVERED: one read OUT_FOR_DELIVERY and commits FAILED, by
  id, after the other's DELIVERED. `docs/BUSINESS_FLOWS.md:160` lets no shipment leave DELIVERED
  (`delivery_final`). `AnnouncedMeansDelivered` and `CompletedMeansDone` except just the shipments
  whose status was written over unread (`overtaken`).
- Two depositors each find the cash they want to hand in, and hand in more than is held;
  `OverdrawnByOverlapsOnly` allows one deposit for each depositor beyond the first.
- A status written after a synced update was compared is taken back by it; `SyncUndoesNothingSeen`
  says that nothing else is.
- Refreshes, guesses, support sessions and live subscriptions are bounded by the overlapping
  requests in the same way.

**One dispatcher, one listener, two guessers.** Three assumptions about the number of actors remain, in
the runs and by name in the theorems. They are no guarantee of the code: the properties that rest
on them say what holds as long as nobody overlaps in that one role.

- `OneDispatcher`: two dispatchers both assign a shipment, or both take a courier's last slot,
  unless the unique index stops them. Callers, managers and couriers remain any number.
- `OneHandler`, one listener at a time: two lose an entry of the buffer (`realtime_race`). Clients
  remain any number.
- `TwoCallers` of phone codes: more may buy more guesses, and no formula for them is claimed.

**As the code is.** `changeStatus` takes any tenant from any status to any other, although
`src/specs/system-owner-backend/spec.md:90` wants an accidental reactivation prevented; `renew`
revives a cancelled subscription. Both are actions as they stand, and `LiveSubscriptionsBounded`
leaves revived subscriptions out of its count.

**Fairness.** Only `EveryHandlerSettles` needs it: weak fairness of each handler's own step. Node's
event loop runs every pending continuation, and the database answers or the transaction times out
(`Abort`), so a handler that can go on does. Nothing is assumed about who wins a race: a handler
ends because its retries are bounded.

## 4. Proofs

Every safety property that a passing run checks is also a theorem, for every value of the
constants that satisfies the named assumptions of the modules (types, disjoint sets, finite sets
of actors where actors are counted, limits of at least one). "Under" names what a theorem assumes
besides; section 3 says why the code supports no more. The bounds of the runs are constants like
any other, so a theorem holds for however many calls, entries, assignments or connections.

| Module | Theorem | Property | Under |
|---|---|---|---|
| `WalletProofs` | `WalletTypeCorrect` | `WalletTypeOK` | |
| | `OptimisticLockHolds` | `VersionIdentifiesRow` | |
| | `RetriesAreBounded` | `RetryBudget` | |
| | `NeverOverdrawn` | `BalanceNeverNegative` | |
| | `TotalsAreTheStatement` | `TotalsMatchStatement` | |
| | `NoLostUpdate` | `DriftIsRounding` | |
| | `HandlersAreAtomic` | `ImplementsLedger` (refinement) | |
| `PayoutsProofs` | `PayoutsTypeCorrect` | `TypeOK` | |
| | `CreditsSurviveOverwrites` | `OptimisticWritesBuildOnBalance` | |
| | `PayoutsNeverOverdraw` | `BalanceNeverNegative`, with payouts | |
| | `OpenPayoutsStayBounded` | `OpenPayoutsBounded` | |
| | `GivenBackOncePerDecision` | `GivenBackOnce` | |
| | `PayoutsFollowWorkflow` | `FollowsWorkflow` (action) | |
| | `RacesMakeNoMoney` | `NoMoneyFromRaces` | |
| `DeliveryProofs` | `DeliveryTypeCorrect` | `TypeOK` | |
| | `GuessesAreLimited` | `OtpGuessesBounded` | |
| | `CashStaysAnsweredFor` | `CashIsAnsweredFor` | |
| | `AnnouncedWasCommitted` | `EventsFollowCommits` | |
| | `FailuresAgree` | `FailureCountersAgree` | |
| | `OverdraftIsLimited` | `OverdrawnByOverlapsOnly` | |
| | `AnnouncedStaysDelivered` | `AnnouncedMeansDelivered` | |
| `DispatchProofs` | `DispatchTypeCorrect` | `DispatchTypeOK` | |
| | `OneIsActive` | `OneActiveAssignment` | `OneDispatcher` |
| | `CapacityStands` | `CapacityRespected` | `OneDispatcher` |
| | `TablesAgree` | `CourierFollowsAssignment` | `OneDispatcher` |
| | `CompletedIsDone` | `CompletedMeansDone` | |
| | `AnnouncedStaysWithTasks` | `AnnouncedMeansDelivered`, with assignments | |
| | `SyncedStaysAhead` | `SyncUndoesNothingSeen` (action) | |
| `RealtimeProofs` | `RealtimeTypeCorrect` | `RealtimeTypeOK` | |
| | `BuffersKeepTheNewest` | `BufferIsTailOfBroadcasts` | `OneHandler` |
| | `ReplayFillsTheGap` | `GapIsInFlight` | `OneHandler` |
| `IdentityProofs` | `AccountsTypeCorrect` | `AccountsTypeOK` | |
| | `RefreshesAreBounded` | `ExchangesBounded` | |
| | `SessionsStayBounded` | `ActiveSessionsBounded` | |
| | `RoutesStayInScope` | `RoutesInScope` | `Tenants # {}` |
| | `PhoneGuessesStayBounded` | `PhoneGuessesBounded` | `TwoCallers` |
| `PlatformProofs` | `SubscriptionsTypeCorrect` | `SubscriptionsTypeOK` | |
| | `TenantsAreServedAsSubscribed` | `CurrentPlanIsSubscribed` | |
| | `LiveSubscriptionsStayFew` | `LiveSubscriptionsBounded` | `StaffAtWork` |
| | `PartiesTypeCorrect` | `PartiesTypeOK` | |
| | `ApprovalOpensWallet` | `ApprovedHasWallet` | |
| | `EntitlementsTypeCorrect` | `EntitlementsTypeOK` | |
| | `DefaultsStayOut` | `PlansShieldFromDefaults` (action) | |
| | `TrailIsTrue` | `TrailTellsHistory` | |
| | `UploadsComeInWhole` | `UploadsAreWhole` | |
| | `RemovalEndsUploads` | `RemovalStopsUploads` | |
| | `FiguresFit` | `FiguresAddUp` | |

The inductive invariants, and what each adds to what it proves:

- **Wallet**, in three layers. `TypeInv`: a handler still under way has an attempt left. `LockInv`:
  what does not exist is empty (`AbsentIsEmpty`: a listener that saw no wallet writes on top of
  zeros), and each write bumps the version past every snapshot (`LockAfterWrite`), so a version
  that still matches means the row is what was read (`ReadIsCurrent`). `WalletInv` adds the money:
  by `ReadIsCurrent` a posting applies to the balance of the moment, and `BreakdownDrift` bounds
  what rounding adds. The refinement follows from the second layer: a posting is a step of the
  ledger, every other step a stutter.
- **Payouts**: `PayoutInv` is `LockInv` again, which `LockAfterOverwrite` shows to survive
  unconditional writes because they bump the version, with types and `BackedByWallet`
  (requests under way and payouts on record have a wallet behind them). `CoveredInv` adds that nothing
  about to be written is below zero. `LifeInv` adds what a decision under way may rely on: its
  payout is still what was checked, or a decision has crossed it (`CallsHold`); and that the times
  a payout was closed, by payment or by return, exceed the crossings by one at most, and not even
  by one while it can still be closed (`ClosedOnce`). `OpenInv` counts the sessions that have
  passed the look beside the open payouts. `FundsInv`, while nothing has overlapped (`Undisturbed`),
  has one request under way at most, and no open payout once it has passed its look (`Alone`); so
  every balance read and about to be written back exceeds the rows by rounding at most
  (`RowsWithinRounding`).
- **Delivery**: `OtpGuessesBounded` is inductive with the types, because its count of callers
  between reading and incrementing (`Guessing`) is part of it. `SumsInv` has both sides of each
  sum move together (`CallsKeepCourier`: a call in progress keeps the courier it read).
  `OverdraftInv`: one of the deposits that are checked but not taken is still covered, but for what
  the depositors not among them may have taken since (`CoveredBut`). `AnnouncedInv` adds that what is committed and not announced yet stands, or
  the shipment is overtaken (`CommittedStands`), and `DeliveredHasCash`.
- **Dispatch**: `AssignInv` has that what the dispatcher looked up is still so (`LookupsHold`) and
  that the room counted is left for the rest of the batch (`RoomLeft`). `TaskInv` follows each
  courier's task beside its call (`FollowsCall`), the order in which a synced update was compared
  (`ComparedFirst`) and the final status, or the overtaken shipment, behind a completion
  (`EndsDone`).
- **Realtime**: what is not buffered yet is the last broadcast of its room (`LastAloft`), an event
  goes to a room once (`BroadcastOnce`), and what the listener read of a buffer is a tail
  (`ReadIsTail`); so appending it makes a tail again, and trimming keeps one (`TailOfTail`). For
  the gap: what was read is in the buffer still unless the key ran out (`ReadIsCurrent`), a client
  that has caught up with a room is in it (`InOwnRooms`), and what it lacks of what is buffered or
  about to be (`Lacks`) never grows, because a broadcast reaches it at once.
- **Accounts**: a match counts before it is answered (`MatchesCounted`), and a token that was
  answered in a later second is not and never again the stored one (`SpentIsReplaced`).
- **Support**: a session about to be created counts before it exists (`StartsCounted`).
- **Routes**: every combination of guards is one of three kinds, open to all, for tenants or for
  the platform, and each kind is in scope by itself.
- **Phone codes**: for two callers, the guesses made on a code and what their snapshots still leave
  them (`Left`, a triangular number of what each has left) never exceed the bound together
  (`PhoneInv`): a caller that writes an older count back gains for both no more than it pays.
- **Subscriptions**: tenants that a request has checked exist (`CheckedTenantsExist`). For live
  ones, `RoomForAll`: the subscriptions of a tenant that are live, or that an update under way
  will revive, and the requests about to create one, are no more than the staff.
- **Parties**: whoever saw an approval saw a covered merchant (`SeenApprovedIsCovered`), and to be
  covered is stable.
- **Entitlements**: a plan has a row for every flag (`PlansAreComplete`) and a tenant's plan exists
  (`PlansExist`).
- **Billing**: on an invoice whose requests have not crossed there is one request at most
  (`OneAtATime`), and it knows where the trail stops (`KnowsWhereItStopped`).
- **Intake**: `IntakeInv` says where each upload stands (`StandsAt`): the rows stored are the first
  `done` of its valid ones in their order (`Turn`, a bijection), and rows of after the removal come
  from the one batch that had looked at the merchant.
- **Reports**: `Standing` follows a report while it is read: what its parts say, with the rows that
  the parts still to come would count (`Reach`), differs from the other side of the law, as read or
  as it would read now, by one for each write at most. Once all is read that is the property.

Sums (`SumFunction` of the community modules) are folds. `SumLemmas` shows that the recursion
behind them has one solution on the subsets of a finite set, by a smallest counterexample (the
prover cannot instantiate an induction theorem), and from it what a sum does when one value
changes or one member is taken out.

**Only model-checked**: liveness (`EveryHandlerSettles`; fairness and ENABLED are beyond the
prover); what `Rows` and `FeeCalculator` compute beyond the facts the proofs above use; the bounds
that the violated runs refute are of course no theorems.

## 5. Not modelled

- **Courier notifications**: they swallow their errors and write nothing the rest reads.
- **The socket's token and session checks**: a modelled client has passed them.
- **Validation before the handlers** (DTOs), list filters and pagination: the inputs enumerated are
  those that pass; a listing is a report with a page and a total.
- **Reports that promise nothing of each other**: trends, rankings, exports, the courier
  performance report, and the merchant's figures per zone (what a zone's total is, the code adds up
  from its parts).
- **Hashing, JWT signing, reading a workbook**: external.
- **Configuration, logging, seed data and migrations**, except for the unique index on
  assignments, which decides whether a shipment can be moved.
- **The tenant filter of every query**: `RoutesInScope` says which tenant a request is served for;
  the other models live in one tenant.
- **Steps that are one in the model and more in the code**: the joins of a connecting socket (nothing
  sets up the Redis adapter, so rooms are joined in memory and no message of the client comes
  between); INCR and EXPIRE of the OTP counter; the two looks at a merchant and the one at the zones
  before an upload's rows are checked (each batch looks at the merchant again); the last batch's
  commit and the answer; a courier's look and its update (no courier's row ever goes away). The
  limit of 5,000 rows, which only refuses more files, and the event `wallet.balance_updated`,
  which goes from a credit to the live rooms like any other, are left out of `Intake` and `Wallet`.
- **The database and Redis**: no module of their own; every module states what it takes from them
  (READ COMMITTED, reads without locks, atomic increments, single Redis commands, unique columns
  and foreign keys).
