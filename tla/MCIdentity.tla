----------------------------- MODULE MCIdentity -----------------------------
(* Signing in, codes to a phone, support sessions and the guards share nothing *)
(* but the process: a behaviour follows one of them, chosen at the start, so   *)
(* that the four state spaces add up instead of multiplying.                  *)
EXTENDS Accounts, PhoneCodes, Support, Routes

VARIABLE focus   \* which of the four this behaviour is about

identityVars == <<focus, routesVars, accountsVars, phoneCodesVars, supportVars>>

MCAgentOf == [b \in Tabs |-> IF b = 3 THEN 2 ELSE 1]

MCInit ==
  /\ AccountsInit /\ PhoneCodesInit /\ SupportInit /\ RoutesInit
  /\ focus \in {"accounts", "phone codes", "support", "routes"}

MCNext ==
  /\ UNCHANGED focus
  /\ \/ focus = "accounts" /\ AccountsNext
          /\ UNCHANGED <<phoneCodesVars, supportVars, routesVars>>
     \/ focus = "phone codes" /\ PhoneCodesNext
          /\ UNCHANGED <<accountsVars, supportVars, routesVars>>
     \/ focus = "support" /\ SupportNext
          /\ UNCHANGED <<accountsVars, phoneCodesVars, routesVars>>
     \/ focus = "routes" /\ RoutesNext
          /\ UNCHANGED <<accountsVars, phoneCodesVars, supportVars>>

MCSpec == MCInit /\ [][MCNext]_identityVars

(* The tables, keys and requests have their types.                          *)
IdentityTypeOK == AccountsTypeOK /\ PhoneCodesTypeOK /\ SupportTypeOK

=============================================================================
