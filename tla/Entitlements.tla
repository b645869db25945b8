---------------------------- MODULE Entitlements ----------------------------
(* Feature flags: global defaults and tenant overrides                        *)
(* (PlatformFeatureFlagsService), the plans' flags (PlatformPlansService), and   *)
(* their copies (TenantConfigurationCloneService).  Demo requests, which have    *)
(* the same small life of their own, are at the end.                          *)
EXTENDS FiniteSets

CONSTANTS
  Flags,           \* FeatureFlagKey
  Tiers, NoTier,   \* plans, and currentPlanId = null
  Members,         \* tenants
  Demos            \* demo requests

ASSUME EntitlementsAssumption ==
  /\ NoTier \notin Tiers \cup {"none"} /\ "none" \notin Tiers
  /\ NoTier \notin [Flags -> {"unset", "on", "off"}]

VARIABLES
  global,     \* [Flags -> defaultEnabled, or Unset]
  tierFlag,   \* [Tiers -> [Flags -> enabled, or Unset], or NoTier (no such plan)]
  override,   \* [Members -> [Flags -> enabled, or Unset]]
  tier,       \* [Members -> the current plan, NoTier, or "none" (no such tenant)]
  demo        \* [Demos -> [status, contacted]]

entitlementsVars == <<global, tierFlag, override, tier, demo>>

(* A flag's value where it has one; no row, or a row that holds null.          *)
Unset == "unset"
On == "on"
Off == "off"
Values == {On, Off}
NoFlags == [k \in Flags |-> Unset]

DemoStatuses == {"NEW", "CONTACTED", "QUALIFIED", "CONVERTED", "REJECTED"}

EntitlementsInit ==
  /\ global = NoFlags
  /\ tierFlag = [p \in Tiers |-> NoTier]
  /\ override = [t \in Members |-> NoFlags]
  /\ tier = [t \in Members |-> "none"]
  /\ demo = [d \in Demos |-> [status |-> "none", contacted |-> FALSE]]

MembersNow == {t \in Members : tier[t] # "none"}
TiersNow == {p \in Tiers : tierFlag[p] # NoTier}

----------------------------------------------------------------------------
PlanFlagOf(t, k) == IF tier[t] \in Tiers THEN tierFlag[tier[t]][k] ELSE Unset

(* Mutant: an override that says no counts as none. *)
ResolveFlag_Truthy(overridden, planned, default) ==
  IF overridden = On THEN [enabled |-> On, source |-> "tenant_override"]
  ELSE IF planned # Unset THEN [enabled |-> planned, source |-> "plan"]
  ELSE IF default # Unset THEN [enabled |-> default, source |-> "global"]
  ELSE [enabled |-> Off, source |-> "default_false"]

(* resolveFlag. *)
ResolveFlag(overridden, planned, default) ==
  IF overridden # Unset THEN [enabled |-> overridden, source |-> "tenant_override"]
  ELSE IF planned # Unset THEN [enabled |-> planned, source |-> "plan"]
  ELSE IF default # Unset THEN [enabled |-> default, source |-> "global"]
  ELSE [enabled |-> Off, source |-> "default_false"]

(* toTenantResponse: the answer for every key. *)
FlagsOf(t) ==
  [k \in Flags |-> ResolveFlag(override[t][k], PlanFlagOf(t, k), global[k])]

----------------------------------------------------------------------------
(* A key that is used is in the table of global flags, disabled unless it was. *)
Ensured(keys) == [k \in Flags |-> IF k \in keys /\ global[k] = Unset THEN Off ELSE global[k]]

UpdatesGlobal ==
  /\ \E k \in Flags, v \in Values : global' = [global EXCEPT ![k] = v]
  /\ UNCHANGED <<tierFlag, override, tier, demo>>

(* updateTenantOverride; enabled = null removes the row.                      *)
UpdatesTenantFlag ==
  /\ \E t \in MembersNow, k \in Flags, v \in Values \cup {Unset} :
       /\ global' = Ensured({k})
       /\ override' = [override EXCEPT ![t][k] = v]
  /\ UNCHANGED <<tierFlag, tier, demo>>

(* Mutant: flags the request leaves out keep no row instead of being off. *)
NormalizeFeatureFlags_AsGiven(asked) == asked

(* normalizeFeatureFlags: every key gets a row, off unless asked for.          *)
NormalizeFeatureFlags(asked) == [k \in Flags |-> IF asked[k] = Unset THEN Off ELSE asked[k]]

(* createWithFlags and updateWithFlags replace all of the plan's rows.         *)
ReplacesPlanFlags ==
  /\ \E p \in Tiers, asked \in [Flags -> Values \cup {Unset}] :
       LET flags == NormalizeFeatureFlags(asked) IN
       /\ tierFlag' = [tierFlag EXCEPT ![p] = flags]
       /\ global' = Ensured({k \in Flags : flags[k] # Unset})
  /\ UNCHANGED <<override, tier, demo>>

----------------------------------------------------------------------------
(* A tenant is created, with or without a plan, or its plan changes: external   *)
(* here, see Subscriptions.                                                  *)
ChangesTier ==
  /\ \E t \in Members, p \in TiersNow \cup {NoTier} :
       /\ p = NoTier => tier[t] = "none"
       /\ tier' = [tier EXCEPT ![t] = p]
  /\ UNCHANGED <<global, tierFlag, override, demo>>

(* currentPlanId: null. *)
ClonedTier(source) == NoTier

(* cloneConfiguration, in one transaction.  Overrides are copied row by row if  *)
(* asked for.                                                               *)
ClonesConfiguration ==
  /\ \E source \in MembersNow, target \in Members, copy \in BOOLEAN :
       /\ tier[target] = "none"
       /\ tier' = [tier EXCEPT ![target] = ClonedTier(source)]
       /\ override' = [override EXCEPT ![target] = IF copy THEN override[source] ELSE NoFlags]
  /\ UNCHANGED <<global, tierFlag, demo>>

----------------------------------------------------------------------------
(* requestDemo, by a visitor. *)
RequestsDemo ==
  /\ \E d \in Demos : /\ demo[d].status = "none"
                      /\ demo' = [demo EXCEPT ![d] = [status |-> "NEW", contacted |-> FALSE]]
  /\ UNCHANGED <<global, tierFlag, override, tier>>

(* updateDemoRequest: any status after any other; contactedAt is set once by     *)
(* itself, or to what the request says.                                       *)
UpdatesDemo ==
  /\ \E d \in Demos, status \in DemoStatuses, given \in BOOLEAN :
       /\ demo[d].status # "none"
       /\ demo' = [demo EXCEPT ![d] = [status |-> status,
                     contacted |-> @.contacted \/ given \/ status = "CONTACTED"]]
  /\ UNCHANGED <<global, tierFlag, override, tier>>

EntitlementsNext ==
  \/ UpdatesGlobal \/ UpdatesTenantFlag \/ ReplacesPlanFlags
  \/ ChangesTier \/ ClonesConfiguration \/ RequestsDemo \/ UpdatesDemo

EntitlementsSpec == EntitlementsInit /\ [][EntitlementsNext]_entitlementsVars

----------------------------------------------------------------------------
(* The tables have their types. *)
EntitlementsTypeOK ==
  /\ global \in [Flags -> Values \cup {Unset}]
  /\ tierFlag \in [Tiers -> [Flags -> Values \cup {Unset}] \cup {NoTier}]
  /\ override \in [Members -> [Flags -> Values \cup {Unset}]]
  /\ tier \in [Members -> Tiers \cup {NoTier, "none"}]

(* A tenant that has a plan is told something else of a flag only if its own     *)
(* override changes or, where it has none, its plan or what its plan is sold      *)
(* with; an override that says no is an override.  Defaults never reach it: a     *)
(* plan has a row for every flag, whatever the request that made it named.        *)
PlansShieldFromDefaults ==
  [][\A t \in MembersNow, k \in Flags :
       (tier[t] # NoTier /\ FlagsOf(t)[k].enabled # FlagsOf(t)'[k].enabled) =>
         \/ override[t][k] # override'[t][k]
         \/ override[t][k] = Unset /\ PlanFlagOf(t, k) # PlanFlagOf(t, k)'
    ]_entitlementsVars

=============================================================================
