------------------------------ MODULE Parties ------------------------------
(* Merchants with their KYC status and wallets (MerchantsService,              *)
(* WalletsService.create), couriers (CouriersService) and the zones they are     *)
(* given (ZonesService).                                                     *)
EXTENDS FiniteSets

CONSTANTS
  Shops,       \* users who may be made merchants: Merchant.userId is unique
  Riders,      \* phone numbers that may be made couriers: User.phone is unique
  Areas,       \* zone codes: Zone.code is unique
  NoArea,      \* parentId = null
  Admins       \* one request at a time each

ASSUME PartiesAssumption == NoArea \notin Areas

VARIABLES
  merchant,    \* [Shops -> "none", or the kycStatus]
  wallet,      \* merchants that have a wallet
  lapsed,      \* merchants for whom a request died before it made the wallet
  courier,     \* [Riders -> [state, available, zones]]
  area,        \* [Areas -> [state, parent]]
  task         \* [Admins -> what the request has got to]

partiesVars == <<merchant, wallet, lapsed, courier, area, task>>

KycStatuses == {"PENDING", "APPROVED", "REJECTED"}
Rest == [at |-> "idle"]

PartiesInit ==
  /\ merchant = [m \in Shops |-> "none"]
  /\ wallet = {} /\ lapsed = {}
  /\ courier = [c \in Riders |-> [state |-> "none", available |-> FALSE, zones |-> {}]]
  /\ area = [z \in Areas |-> [state |-> "none", parent |-> NoArea]]
  /\ task = [a \in Admins |-> Rest]

Asks(a, r) == task' = [task EXCEPT ![a] = r]
MerchantsUnchanged == UNCHANGED <<merchant, wallet, lapsed>>

----------------------------------------------------------------------------
(* Merchants.  create: the look for an existing one and the unique userId let   *)
(* through one per user.                                                     *)
CreatesMerchant(a) ==
  /\ task[a].at = "idle"
  /\ \E m \in Shops : /\ merchant[m] = "none"
                      /\ merchant' = [merchant EXCEPT ![m] = "PENDING"]
  /\ UNCHANGED <<wallet, lapsed, courier, area, task>>

(* updateKycStatus: findById. *)
ReadsKyc(a) ==
  /\ task[a].at = "idle"
  /\ \E m \in Shops, status \in KycStatuses :
       /\ merchant[m] # "none"
       /\ Asks(a, [at |-> "kyc", m |-> m, status |-> status, read |-> merchant[m]])
  /\ UNCHANGED <<courier, area>> /\ MerchantsUnchanged

(* Mutant: what counts as the old status is read after it was written. *)
OpensWallet_Late(t) == t.status = "APPROVED" /\ merchant'[t.m] # "APPROVED"

OpensWallet(t) == t.status = "APPROVED" /\ t.read # "APPROVED"

(* The status is written by id; approved for the first time, a wallet follows.  *)
WritesKyc(a) ==
  LET t == task[a] IN
  /\ t.at = "kyc"
  /\ merchant' = [merchant EXCEPT ![t.m] = t.status]
  /\ Asks(a, IF OpensWallet(t) THEN [at |-> "wallet", m |-> t.m] ELSE Rest)
  /\ UNCHANGED <<wallet, lapsed, courier, area>>

(* WalletsService.create: an existing wallet is returned; if another request    *)
(* makes it in between, the unique merchantId refuses this one.                *)
CreatesWallet(a) ==
  /\ task[a].at = "wallet"
  /\ wallet' = wallet \cup {task[a].m}
  /\ Asks(a, Rest)
  /\ UNCHANGED <<merchant, lapsed, courier, area>>

(* The process dies, or the database is gone.                                *)
TaskDies(a) ==
  /\ task[a].at # "idle"
  /\ lapsed' = IF task[a].at = "wallet" THEN lapsed \cup {task[a].m} ELSE lapsed
  /\ Asks(a, Rest)
  /\ UNCHANGED <<merchant, wallet, courier, area>>

----------------------------------------------------------------------------
(* Couriers.  create is one transaction: phone and zones are looked up, then     *)
(* user and courier inserted.  A zone removed meanwhile goes unnoticed.        *)
ActiveAreas == {z \in Areas : area[z].state = "active"}

ChecksCourier(a) ==
  /\ task[a].at = "idle"
  /\ \E c \in Riders, zones \in SUBSET ActiveAreas :
       /\ courier[c].state = "none" /\ zones # {}
       /\ Asks(a, [at |-> "hires", c |-> c, zones |-> zones])
  /\ UNCHANGED <<courier, area>> /\ MerchantsUnchanged

CreatesCourier(a) ==
  LET t == task[a] IN
  /\ t.at = "hires" /\ courier[t.c].state = "none"
  /\ \E state \in {"active", "removed"}, available \in BOOLEAN :
       courier' = [courier EXCEPT ![t.c] =
                     [state |-> state, available |-> available, zones |-> t.zones]]
  /\ Asks(a, Rest)
  /\ UNCHANGED area /\ MerchantsUnchanged

(* updateZones and updateAvailability look only whether there is such a courier; *)
(* the zones given are not looked up.  remove clears isActive.  A courier's row  *)
(* never goes away, so that what the look has found still holds at the write.   *)
UpdatesCourier(a) ==
  /\ task[a].at = "idle"
  /\ \E c \in Riders :
       /\ courier[c].state # "none"
       /\ \/ \E zones \in SUBSET Areas : courier' = [courier EXCEPT ![c].zones = zones]
          \/ courier' = [courier EXCEPT ![c].available = ~@]
          \/ courier' = [courier EXCEPT ![c].state = "removed"]
  /\ UNCHANGED <<area, task>> /\ MerchantsUnchanged

----------------------------------------------------------------------------
(* Zones.  The look for the code sees active zones only, the unique index all.  *)
CreatesZone(a) ==
  /\ task[a].at = "idle"
  /\ \E z \in Areas, parent \in ActiveAreas \cup {NoArea} :
       /\ area[z].state = "none"
       /\ area' = [area EXCEPT ![z] = [state |-> "active", parent |-> parent]]
  /\ UNCHANGED <<courier, task>> /\ MerchantsUnchanged

(* update refuses a zone as its own parent, and looks no further up.  Only an    *)
(* active zone is found, and so is its parent; the write goes by id, and either  *)
(* may have been removed by then.                                            *)
Parents(z) == {p \in Areas \ {z} : area[p].state = "active"}

LooksForZone(a) ==
  /\ task[a].at = "idle"
  /\ \E z \in ActiveAreas : \E p \in Parents(z) :
       Asks(a, [at |-> "moves", z |-> z, parent |-> p])
  /\ UNCHANGED <<courier, area>> /\ MerchantsUnchanged

UpdatesZone(a) ==
  LET t == task[a] IN
  /\ t.at = "moves"
  /\ area' = [area EXCEPT ![t.z].parent = t.parent]
  /\ Asks(a, Rest)
  /\ UNCHANGED courier /\ MerchantsUnchanged

RemovesZoneFor(a) ==
  /\ task[a].at = "idle"
  /\ \E z \in ActiveAreas : area' = [area EXCEPT ![z].state = "removed"]
  /\ UNCHANGED <<courier, task>> /\ MerchantsUnchanged

----------------------------------------------------------------------------
MerchantStep(a) ==
  \/ CreatesMerchant(a) \/ ReadsKyc(a) \/ WritesKyc(a) \/ CreatesWallet(a) \/ TaskDies(a)

CourierStep(a) ==
  \/ ChecksCourier(a) \/ CreatesCourier(a) \/ UpdatesCourier(a)
  \/ CreatesZone(a) \/ LooksForZone(a) \/ UpdatesZone(a) \/ RemovesZoneFor(a)
  \/ TaskDies(a)

PartiesNext == \E a \in Admins : MerchantStep(a) \/ CourierStep(a)

PartiesSpec == PartiesInit /\ [][PartiesNext]_partiesVars

----------------------------------------------------------------------------
Task ==
  {Rest}
    \cup [at : {"kyc"}, m : Shops, status : KycStatuses, read : KycStatuses]
    \cup [at : {"wallet"}, m : Shops]
    \cup [at : {"hires"}, c : Riders, zones : SUBSET Areas]
    \cup [at : {"moves"}, z : Areas, parent : Areas]

(* The tables and the requests have their types. *)
PartiesTypeOK ==
  /\ merchant \in [Shops -> {"none"} \cup KycStatuses]
  /\ wallet \subseteq Shops /\ lapsed \subseteq Shops
  /\ courier \in [Riders -> [state : {"none", "active", "removed"}, available : BOOLEAN,
                             zones : SUBSET Areas]]
  /\ area \in [Areas -> [state : {"none", "active", "removed"}, parent : Areas \cup {NoArea}]]
  /\ task \in [Admins -> Task]

(* An approved merchant has a wallet, or the request that approved it is just    *)
(* making it, or died before it did.  Approving once more does not repair that:  *)
(* the wallet comes with the step from another status.                         *)
ApprovedHasWallet ==
  \A m \in Shops :
    merchant[m] = "APPROVED" =>
      \/ m \in wallet \cup lapsed
      \/ \E a \in Admins : task[a].at = "wallet" /\ task[a].m = m

=============================================================================
