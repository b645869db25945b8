------------------------------ MODULE Accounts ------------------------------
(* Users and their refresh tokens: AuthService, UsersService and their        *)
(* repositories.                                                             *)
(*                                                                         *)
(* A refresh token is a JWT over the user and the second it was issued in, so *)
(* that second stands for it.  Redis keeps one per user, for RefreshTtl; each *)
(* login and each refresh overwrites it.  Signing and SET follow each other   *)
(* without an await, over the process's one connection: one step.            *)
EXTENDS Integers, FiniteSets

CONSTANTS
  People,       \* phone numbers: a unique column of the users table
  Devices,      \* clients, one request at a time each
  RefreshTtl,   \* seconds a refresh token lives
  MaxTime       \* bound on the clock

ASSUME AccountsAssumption ==
  RefreshTtl \in Nat \ {0} /\ MaxTime \in Nat /\ IsFiniteSet(Devices)

VARIABLES
  account,   \* "none", "active" or "removed" (isActive = false)
  stored,    \* the second of issue of the token in refresh_token:<user>, or NoToken
  issued,    \* the tokens ever handed out
  now,
  exchanged, \* [People \X 0..MaxTime -> how often a refresh was answered for the token]
  call       \* what each device's request has got to

accountsVars == <<account, stored, issued, exchanged, now, call>>

NoToken == -1
Waiting == [at |-> "idle"]

AccountsInit ==
  /\ account = [u \in People |-> "none"]
  /\ stored = [u \in People |-> NoToken]
  /\ issued = [u \in People |-> {}]
  /\ exchanged = [x \in People \X (0..MaxTime) |-> 0]
  /\ now = 0
  /\ call = [d \in Devices |-> Waiting]

(* The key runs out of Redis when the JWT does.                              *)
Current(u) ==
  IF stored[u] # NoToken /\ now < stored[u] + RefreshTtl THEN stored[u] ELSE NoToken

Goes(d, r) == call' = [call EXCEPT ![d] = r]

(* generateTokens.  `exchanged` counts, for the properties, the tokens of an   *)
(* earlier second a refresh was answered for.                                *)
Issues(d, u, shown) ==
  /\ stored' = [stored EXCEPT ![u] = now]
  /\ issued' = [issued EXCEPT ![u] = @ \cup {now}]
  /\ exchanged' = IF shown \in 0..(now - 1)
                    THEN [exchanged EXCEPT ![<<u, shown>>] = @ + 1] ELSE exchanged
  /\ Goes(d, Waiting)

----------------------------------------------------------------------------
(* register looks for an active user of that phone only; the unique column    *)
(* stops what the look missed.                                              *)
LooksForPhone(d) ==
  /\ call[d].at = "idle"
  /\ \E u \in People : /\ account[u] # "active"
                       /\ Goes(d, [at |-> "registers", u |-> u])
  /\ UNCHANGED <<account, stored, issued, exchanged, now>>

Registers(d) ==
  LET u == call[d].u IN
  /\ call[d].at = "registers" /\ account[u] = "none"
  /\ account' = [account EXCEPT ![u] = "active"]
  /\ Goes(d, [at |-> "issues", u |-> u, shown |-> NoToken])
  /\ UNCHANGED <<stored, issued, exchanged, now>>

(* login reads the active user and compares the password, which takes a while. *)
LogsIn(d) ==
  /\ call[d].at = "idle"
  /\ \E u \in People : /\ account[u] = "active"
                       /\ Goes(d, [at |-> "issues", u |-> u, shown |-> NoToken])
  /\ UNCHANGED <<account, stored, issued, exchanged, now>>

(* Mutant: any token of the user that verifies will do. *)
Matches_Any(u, t) == TRUE

(* The comparison with the stored token.                                     *)
Matches(u, t) == Current(u) = t

(* refreshTokens: the token must verify and be the one in Redis; then the     *)
(* user is read, who must be active; then the successor is issued.           *)
ShowsToken(d) ==
  /\ call[d].at = "idle"
  /\ \E u \in People : \E t \in issued[u] :
       /\ now < t + RefreshTtl
       /\ Matches(u, t)
       /\ Goes(d, [at |-> "matched", u |-> u, shown |-> t])
  /\ UNCHANGED <<account, stored, issued, exchanged, now>>

FindsUser(d) ==
  /\ call[d].at = "matched" /\ account[call[d].u] = "active"
  /\ Goes(d, [call[d] EXCEPT !.at = "issues"])
  /\ UNCHANGED <<account, stored, issued, exchanged, now>>

HandsOutTokens(d) ==
  /\ call[d].at = "issues"
  /\ Issues(d, call[d].u, call[d].shown)
  /\ UNCHANGED <<account, now>>

(* A check that fails, a wrong password, or the process dying.               *)
CallFails(d) ==
  /\ call[d].at # "idle"
  /\ Goes(d, Waiting)
  /\ UNCHANGED <<account, stored, issued, exchanged, now>>

(* logout, behind an access token: the user was active when it was checked.   *)
LogsOut(d) ==
  /\ call[d].at = "idle"
  /\ \E u \in People : /\ account[u] = "active" /\ issued[u] # {}
                       /\ stored' = [stored EXCEPT ![u] = NoToken]
  /\ UNCHANGED <<account, issued, exchanged, now, call>>

(* UsersService.remove, by an administrator.  No operation makes a user       *)
(* active again: update takes a name, an e-mail and an avatar.               *)
RemovesUser ==
  /\ \E u \in People : /\ account[u] = "active"
                       /\ account' = [account EXCEPT ![u] = "removed"]
  /\ UNCHANGED <<stored, issued, exchanged, now, call>>

Tick ==
  /\ now < MaxTime
  /\ now' = now + 1
  /\ UNCHANGED <<account, stored, issued, exchanged, call>>

DeviceStep(d) ==
  \/ LooksForPhone(d) \/ Registers(d) \/ LogsIn(d)
  \/ ShowsToken(d) \/ FindsUser(d) \/ HandsOutTokens(d)
  \/ CallFails(d) \/ LogsOut(d)

AccountsNext == (\E d \in Devices : DeviceStep(d)) \/ RemovesUser \/ Tick

AccountsSpec == AccountsInit /\ [][AccountsNext]_accountsVars

----------------------------------------------------------------------------
Calls ==
  {Waiting} \cup [at : {"registers"}, u : People]
    \cup [at : {"matched", "issues"}, u : People, shown : {NoToken} \cup (0..now)]

AccountsTypeOK ==
  /\ account \in [People -> {"none", "active", "removed"}]
  /\ stored \in [People -> {NoToken} \cup (0..now)]
  /\ issued \in [People -> SUBSET (0..now)]
  /\ exchanged \in [People \X (0..MaxTime) -> Nat]
  /\ now \in 0..MaxTime
  /\ call \in [Devices -> Calls]

(* A refresh token is answered once: comparison and replacement are apart, so  *)
(* requests that overlap can each be answered, and no other one.  (Within one  *)
(* second a token and its successor are the same text.)                      *)
ExchangesBounded ==
  \A u \in People, t \in 0..MaxTime : exchanged[<<u, t>>] <= Cardinality(Devices)

=============================================================================
