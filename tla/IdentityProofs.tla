-------------------------- MODULE IdentityProofs ---------------------------
(* Proofs about signing in, codes to a phone, support sessions and the guards:   *)
(* for any people, devices, agents, tabs and tenants, and any lifetime of a      *)
(* token; of the callers who guess at a phone's codes, for one or two.           *)
EXTENDS Accounts, PhoneCodes, Support, Routes, FiniteSetTheorems, TLAPS

----------------------------------------------------------------------------
(* Accounts *)

(* The requests that have matched a token and not been answered yet.           *)
Pending(u, t) ==
  {d \in Devices : call[d].at \in {"matched", "issues"} /\ call[d].u = u /\ call[d].shown = t}

(* A token that was answered in a later second is not the stored one any more,  *)
(* nor will it be again.                                                     *)
SpentIsReplaced ==
  \A u \in People : \A t \in 0..MaxTime : exchanged[<<u, t>>] > 0 => t < now /\ stored[u] # t

(* A request that has matched counts before its answer does.                  *)
MatchesCounted ==
  \A u \in People : \A t \in 0..MaxTime :
    exchanged[<<u, t>>] + Cardinality(Pending(u, t)) <= Cardinality(Devices)

AccountsInv == AccountsTypeOK /\ SpentIsReplaced /\ MatchesCounted

(* What a request carries, by what it is about to do.                          *)
LEMMA CallFields ==
  ASSUME NEW c \in Calls
  PROVE  /\ c.at \in {"idle", "registers", "matched", "issues"}
         /\ c.at # "idle" => c.u \in People
         /\ c.at \in {"matched", "issues"} => c.shown \in {NoToken} \cup (0..now)
<1>1. CASE c = Waiting
  BY <1>1 DEF Waiting
<1>2. CASE c \in [at : {"registers"}, u : People]
  BY <1>2
<1>3. CASE c \in [at : {"matched", "issues"}, u : People, shown : {NoToken} \cup (0..now)]
  BY <1>3
<1>4. QED
  BY <1>1, <1>2, <1>3 DEF Calls

LEMMA PendingIsFinite ==
  ASSUME NEW u, NEW t
  PROVE  /\ IsFiniteSet(Pending(u, t)) /\ Cardinality(Pending(u, t)) \in Nat
         /\ Cardinality(Pending(u, t)) <= Cardinality(Devices) /\ Cardinality(Devices) \in Nat
<1>1. Pending(u, t) \in SUBSET Devices
  BY DEF Pending
<1>2. QED
  BY <1>1, AccountsAssumption, FS_Subset, FS_CardinalityType

(* The same after a step: Devices is a constant.                               *)
LEMMA PendingIsFiniteNext ==
  ASSUME NEW u, NEW t
  PROVE  /\ IsFiniteSet(Pending(u, t)') /\ Cardinality(Pending(u, t)') \in Nat
         /\ Cardinality(Pending(u, t)') <= Cardinality(Devices) /\ Cardinality(Devices) \in Nat
<1>1. Pending(u, t)' \in SUBSET Devices
  BY DEF Pending
<1>2. QED
  BY <1>1, AccountsAssumption, FS_Subset, FS_CardinalityType

LEMMA GoesEffect ==
  ASSUME AccountsTypeOK, NEW d \in Devices, NEW c, Goes(d, c)
  PROVE  /\ DOMAIN call' = Devices /\ call'[d] = c
         /\ \A e \in Devices \ {d} : call'[e] = call[e]
BY DEF Goes, AccountsTypeOK

LEMMA AccountsInitially == AccountsInit => AccountsInv
<1> SUFFICES ASSUME AccountsInit PROVE AccountsInv
  OBVIOUS
<1>1. AccountsTypeOK
  BY AccountsAssumption DEF AccountsInit, AccountsTypeOK, Calls
<1>2. \A u \in People : \A t \in 0..MaxTime : exchanged[<<u, t>>] = 0
  BY DEF AccountsInit
<1>3. SpentIsReplaced
  BY <1>2 DEF SpentIsReplaced
<1>4. ASSUME NEW u \in People, NEW t \in 0..MaxTime
      PROVE  exchanged[<<u, t>>] + Cardinality(Pending(u, t)) <= Cardinality(Devices)
  <2>1. exchanged[<<u, t>>] = 0
    BY <1>2
  <2>2. QED
    BY <2>1, PendingIsFinite
<1>5. QED
  BY <1>1, <1>3, <1>4 DEF AccountsInv, MatchesCounted

(* Nothing matches and nothing is answered: the counts stand or fall.           *)
LEMMA NothingMatches ==
  ASSUME AccountsInv, AccountsTypeOK', UNCHANGED exchanged, now' >= now,
         \A u \in People : stored'[u] \in {stored[u], NoToken},
         \A u \in People : \A t \in 0..MaxTime : Pending(u, t)' \subseteq Pending(u, t)
  PROVE  AccountsInv'
<1>1. SpentIsReplaced'
  BY DEF AccountsInv, AccountsTypeOK, SpentIsReplaced, NoToken
<1>2. ASSUME NEW u \in People, NEW t \in 0..MaxTime
      PROVE  exchanged'[<<u, t>>] + Cardinality(Pending(u, t)') <= Cardinality(Devices)
  <2>1. Cardinality(Pending(u, t)') <= Cardinality(Pending(u, t))
    BY PendingIsFinite, FS_Subset
  <2>2. exchanged[<<u, t>>] \in Nat /\ exchanged[<<u, t>>] + Cardinality(Pending(u, t)) <= Cardinality(Devices)
    BY DEF AccountsInv, AccountsTypeOK, MatchesCounted
  <2>3. exchanged'[<<u, t>>] = exchanged[<<u, t>>]
    OBVIOUS
  <2>4. QED
    BY <2>1, <2>2, <2>3, PendingIsFinite, PendingIsFiniteNext
<1>3. MatchesCounted'
  BY <1>2 DEF MatchesCounted
<1>4. QED
  BY <1>1, <1>3 DEF AccountsInv

(* A request goes on to something that shows no token it had not shown before.   *)
LEMMA GoingOn ==
  ASSUME AccountsInv, NEW d \in Devices, NEW c \in Calls, Goes(d, c),
         c.at \in {"matched", "issues"} =>
           c.shown = NoToken \/ (call[d].at = "matched" /\ c.shown = call[d].shown /\ c.u = call[d].u),
         account' \in [People -> {"none", "active", "removed"}],
         UNCHANGED <<stored, issued, exchanged, now>>
  PROVE  AccountsInv'
<1>1. AccountsTypeOK /\ call \in [Devices -> Calls] /\ Calls' = Calls
  BY DEF AccountsInv, AccountsTypeOK, Calls
<1>2. DOMAIN call' = Devices /\ call'[d] = c /\ \A e \in Devices \ {d} : call'[e] = call[e]
  BY <1>1, GoesEffect
<1>3. call' \in [Devices -> Calls']
  BY <1>1 DEF Goes
<1>4. AccountsTypeOK'
  BY <1>1, <1>3 DEF AccountsTypeOK
<1>5. ASSUME NEW u \in People, NEW t \in 0..MaxTime
      PROVE  Pending(u, t)' \subseteq Pending(u, t)
  BY <1>2, AccountsAssumption DEF Pending, NoToken
<1>6. QED
  BY <1>1, <1>4, <1>5, NothingMatches DEF AccountsTypeOK

LEMMA ShowingOne ==
  ASSUME AccountsInv, NEW d \in Devices, ShowsToken(d)
  PROVE  AccountsInv'
<1>types. /\ AccountsTypeOK /\ call \in [Devices -> Calls]
          /\ stored \in [People -> {NoToken} \cup (0..now)] /\ now \in 0..MaxTime
  BY DEF AccountsInv, AccountsTypeOK
<1>0. PICK u \in People : \E t \in issued[u] :
        Matches(u, t) /\ Goes(d, [at |-> "matched", u |-> u, shown |-> t])
  BY DEF ShowsToken
<1>1. PICK t \in issued[u] : Matches(u, t) /\ Goes(d, [at |-> "matched", u |-> u, shown |-> t])
  BY <1>0
<1>2. t \in 0..now /\ t \in 0..MaxTime
  BY <1>types, <1>1, AccountsAssumption DEF AccountsTypeOK
<1>3. stored[u] = t
  BY <1>types, <1>1, <1>2 DEF Matches, Current, NoToken
<1>4. UNCHANGED <<account, stored, issued, exchanged, now>>
  BY DEF ShowsToken
<1> DEFINE c == [at |-> "matched", u |-> u, shown |-> t]
<1>5. c \in Calls /\ Calls' = Calls
  BY <1>2, <1>4 DEF Calls
<1>6. DOMAIN call' = Devices /\ call'[d] = c /\ \A e \in Devices \ {d} : call'[e] = call[e]
  BY <1>types, <1>1, GoesEffect
<1>7. c.u = u /\ c.shown = t
  OBVIOUS
<1> HIDE DEF c
<1>8. AccountsTypeOK'
  <2>1. call' \in [Devices -> Calls']
    BY <1>types, <1>1, <1>5 DEF Goes, c
  <2>2. QED
    BY <1>types, <1>4, <2>1 DEF AccountsTypeOK
<1>9. SpentIsReplaced'
  BY <1>4 DEF AccountsInv, SpentIsReplaced
<1>10. ASSUME NEW v \in People, NEW s \in 0..MaxTime
       PROVE  exchanged'[<<v, s>>] + Cardinality(Pending(v, s)') <= Cardinality(Devices)
  <2>1. CASE v = u /\ s = t
    <3>1. exchanged[<<u, t>>] = 0
      BY <1>types, <1>2, <1>3 DEF AccountsInv, AccountsTypeOK, SpentIsReplaced
    <3>2. QED
      BY <1>4, <2>1, <3>1, PendingIsFiniteNext
  <2>2. CASE ~(v = u /\ s = t)
    <3>1. Pending(v, s)' \subseteq Pending(v, s)
      BY <1>6, <1>7, <2>2 DEF Pending
    <3>2. Cardinality(Pending(v, s)') <= Cardinality(Pending(v, s))
      BY <3>1, PendingIsFinite, FS_Subset
    <3>3. exchanged[<<v, s>>] \in Nat /\ exchanged'[<<v, s>>] = exchanged[<<v, s>>]
      BY <1>types, <1>4 DEF AccountsTypeOK
    <3>4. exchanged[<<v, s>>] + Cardinality(Pending(v, s)) <= Cardinality(Devices)
      BY DEF AccountsInv, MatchesCounted
    <3>5. QED
      BY <3>2, <3>3, <3>4, PendingIsFinite, PendingIsFiniteNext
  <2>3. QED
    BY <2>1, <2>2
<1>11. QED
  BY <1>8, <1>9, <1>10 DEF AccountsInv, MatchesCounted

LEMMA AnsweringOne ==
  ASSUME AccountsInv, NEW d \in Devices, HandsOutTokens(d)
  PROVE  AccountsInv'
<1> DEFINE w == call[d].u
           k == call[d].shown
<1>types. /\ AccountsTypeOK /\ call \in [Devices -> Calls] /\ now \in 0..MaxTime
          /\ exchanged \in [People \X (0..MaxTime) -> Nat]
  BY DEF AccountsInv, AccountsTypeOK
<1>1. call[d].at = "issues" /\ w \in People /\ k \in {NoToken} \cup (0..now)
  BY <1>types, CallFields DEF HandsOutTokens
<1>2. /\ stored' = [stored EXCEPT ![w] = now]
      /\ issued' = [issued EXCEPT ![w] = @ \cup {now}]
      /\ exchanged' = IF k \in 0..(now - 1) THEN [exchanged EXCEPT ![<<w, k>>] = @ + 1] ELSE exchanged
      /\ Goes(d, Waiting) /\ UNCHANGED <<account, now>>
  BY DEF HandsOutTokens, Issues
<1>3. /\ DOMAIN call' = Devices /\ call'[d] = Waiting
      /\ \A e \in Devices \ {d} : call'[e] = call[e]
  BY <1>types, <1>2, GoesEffect
<1>4. \A v \in People : \A s \in 0..MaxTime :
        /\ exchanged[<<v, s>>] \in Nat
        /\ exchanged'[<<v, s>>] = (IF v = w /\ s = k /\ k < now THEN exchanged[<<v, s>>] + 1 ELSE exchanged[<<v, s>>])
  BY <1>types, <1>1, <1>2 DEF NoToken
<1>5. AccountsTypeOK'
  <2>1. call' \in [Devices -> Calls']
    BY <1>types, <1>2 DEF Calls, Goes
  <2>2. exchanged' \in [People \X (0..MaxTime) -> Nat]
    <3>1. CASE k \in 0..(now - 1)
      <4>1. <<w, k>> \in People \X (0..MaxTime)
        BY <1>types, <1>1, <3>1, AccountsAssumption
      <4>2. exchanged[<<w, k>>] + 1 \in Nat
        BY <1>types, <4>1
      <4>3. exchanged' = [exchanged EXCEPT ![<<w, k>>] = exchanged[<<w, k>>] + 1]
        BY <1>2, <3>1
      <4> HIDE DEF w, k
      <4>4. QED
        BY <1>types, <4>1, <4>2, <4>3
    <3>2. CASE k \notin 0..(now - 1)
      BY <1>types, <1>2, <3>2
    <3>3. QED
      BY <3>1, <3>2
  <2>3. /\ stored' \in [People -> {NoToken} \cup (0..now')]
        /\ issued' \in [People -> SUBSET (0..now')]
    BY <1>types, <1>1, <1>2 DEF AccountsTypeOK
  <2>4. QED
    BY <1>types, <1>2, <2>1, <2>2, <2>3 DEF AccountsTypeOK
<1> HIDE DEF w, k
<1>6. SpentIsReplaced'
  <2>1. \A v \in People : stored'[v] = IF v = w THEN now ELSE stored[v]
    BY <1>types, <1>2 DEF AccountsTypeOK
  <2>2. QED
    BY <1>types, <1>2, <1>4, <2>1 DEF AccountsInv, SpentIsReplaced
<1>7. ASSUME NEW v \in People, NEW s \in 0..MaxTime
      PROVE  exchanged'[<<v, s>>] + Cardinality(Pending(v, s)') <= Cardinality(Devices)
  <2>1. Pending(v, s)' \subseteq Pending(v, s)
    BY <1>3 DEF Pending, Waiting
  <2>2. /\ Cardinality(Pending(v, s)') <= Cardinality(Pending(v, s))
        /\ exchanged[<<v, s>>] + Cardinality(Pending(v, s)) <= Cardinality(Devices)
    BY <2>1, PendingIsFinite, FS_Subset DEF AccountsInv, MatchesCounted
  <2>3. CASE v = w /\ s = k
    <3>1. Pending(v, s)' = Pending(v, s) \ {d} /\ d \in Pending(v, s)
      BY <1>1, <1>3, <2>3 DEF Pending, Waiting, w, k
    <3>2. Cardinality(Pending(v, s) \ {d}) = Cardinality(Pending(v, s)) - 1
      BY <3>1, PendingIsFinite, FS_RemoveElement
    <3>3. exchanged'[<<v, s>>] \in {exchanged[<<v, s>>], exchanged[<<v, s>>] + 1} /\ exchanged[<<v, s>>] \in Nat
      BY <1>4
    <3>4. Cardinality(Pending(v, s)') = Cardinality(Pending(v, s)) - 1
      BY <3>1, <3>2
    <3>5. QED
      BY <2>2, <3>3, <3>4, PendingIsFinite
  <2>4. CASE ~(v = w /\ s = k)
    <3>1. exchanged'[<<v, s>>] = exchanged[<<v, s>>] /\ exchanged[<<v, s>>] \in Nat
      BY <1>4, <2>4
    <3>2. QED
      BY <2>2, <3>1, PendingIsFinite, PendingIsFiniteNext
  <2>5. QED
    BY <2>3, <2>4
<1>8. QED
  BY <1>5, <1>6, <1>7 DEF AccountsInv, MatchesCounted

LEMMA DeviceStepKeepsInv ==
  ASSUME AccountsInv, NEW d \in Devices, DeviceStep(d)
  PROVE  AccountsInv'
<1>types. /\ AccountsTypeOK /\ account \in [People -> {"none", "active", "removed"}]
          /\ call \in [Devices -> Calls]
  BY DEF AccountsInv, AccountsTypeOK
<1>1. CASE LooksForPhone(d)
  <2>1. PICK u \in People : Goes(d, [at |-> "registers", u |-> u])
    BY <1>1 DEF LooksForPhone
  <2>2. [at |-> "registers", u |-> u] \in Calls
    BY DEF Calls
  <2>3. QED
    BY <1>1, <1>types, <2>1, <2>2, GoingOn DEF LooksForPhone
<1>2. CASE Registers(d)
  <2>1. call[d].u \in People
    BY <1>2, <1>types, CallFields DEF Registers
  <2>2. [at |-> "issues", u |-> call[d].u, shown |-> NoToken] \in Calls
    BY <2>1 DEF Calls
  <2>3. account' \in [People -> {"none", "active", "removed"}]
    BY <1>2, <1>types, <2>1 DEF Registers
  <2>4. QED
    BY <1>2, <2>2, <2>3, GoingOn DEF Registers
<1>3. CASE LogsIn(d)
  <2>1. PICK u \in People : Goes(d, [at |-> "issues", u |-> u, shown |-> NoToken])
    BY <1>3 DEF LogsIn
  <2>2. [at |-> "issues", u |-> u, shown |-> NoToken] \in Calls
    BY DEF Calls
  <2>3. QED
    BY <1>3, <1>types, <2>1, <2>2, GoingOn DEF LogsIn
<1>4. CASE ShowsToken(d)
  BY <1>4, ShowingOne
<1>5. CASE FindsUser(d)
  <2>1. call[d] \in [at : {"matched", "issues"}, u : People, shown : {NoToken} \cup (0..now)]
    BY <1>5, <1>types DEF FindsUser, Calls, Waiting
  <2> DEFINE c == [call[d] EXCEPT !.at = "issues"]
  <2>2. c \in Calls /\ c.shown = call[d].shown /\ c.u = call[d].u
    BY <2>1 DEF Calls
  <2>3. QED
    BY <1>5, <1>types, <2>2, GoingOn DEF FindsUser
<1>6. CASE HandsOutTokens(d)
  BY <1>6, AnsweringOne
<1>7. CASE CallFails(d)
  <2>1. Waiting \in Calls /\ Waiting.at = "idle"
    BY DEF Calls, Waiting
  <2>2. QED
    BY <1>7, <1>types, <2>1, GoingOn DEF CallFails
<1>8. CASE LogsOut(d)
  <2>1. PICK u \in People : stored' = [stored EXCEPT ![u] = NoToken]
    BY <1>8 DEF LogsOut
  <2>2. /\ UNCHANGED <<account, issued, exchanged, now, call>>
        /\ \A v \in People : stored'[v] \in {stored[v], NoToken}
    BY <1>8, <2>1 DEF LogsOut, AccountsInv, AccountsTypeOK
  <2>3. AccountsTypeOK'
    BY <1>types, <2>1, <2>2 DEF AccountsTypeOK, Calls
  <2>4. QED
    BY <1>types, <2>2, <2>3, NothingMatches DEF AccountsTypeOK, Pending
<1>9. QED
  BY <1>1, <1>2, <1>3, <1>4, <1>5, <1>6, <1>7, <1>8 DEF DeviceStep

LEMMA AccountsStep == AccountsInv /\ [AccountsNext]_accountsVars => AccountsInv'
<1> SUFFICES ASSUME AccountsInv, [AccountsNext]_accountsVars PROVE AccountsInv'
  OBVIOUS
<1>types. AccountsTypeOK
  BY DEF AccountsInv
<1>1. CASE \E d \in Devices : DeviceStep(d)
  BY <1>1, DeviceStepKeepsInv
<1>2. CASE RemovesUser
  <2>1. AccountsTypeOK'
    BY <1>2, <1>types DEF RemovesUser, AccountsTypeOK, Calls
  <2>2. QED
    BY <1>2, <1>types, <2>1, NothingMatches DEF RemovesUser, AccountsTypeOK, Pending
<1>3. CASE Tick
  <2>1. 0..now \subseteq 0..now' /\ now' \in 0..MaxTime /\ now' >= now
    BY <1>3, <1>types, AccountsAssumption DEF Tick, AccountsTypeOK
  <2>2. Calls \subseteq Calls'
    BY <2>1 DEF Calls
  <2>3. AccountsTypeOK'
    BY <1>3, <1>types, <2>1, <2>2 DEF Tick, AccountsTypeOK
  <2>4. QED
    BY <1>3, <1>types, <2>1, <2>3, NothingMatches DEF Tick, AccountsTypeOK, Pending
<1>4. CASE UNCHANGED accountsVars
  <2>1. AccountsTypeOK'
    BY <1>4, <1>types DEF accountsVars, AccountsTypeOK, Calls
  <2>2. QED
    BY <1>4, <1>types, <2>1, NothingMatches DEF accountsVars, AccountsTypeOK, Pending
<1>5. QED
  BY <1>1, <1>2, <1>3, <1>4 DEF AccountsNext

(* The variables have their types: no token is stored or shown that was not     *)
(* issued by now.                                                            *)
THEOREM AccountsTypeCorrect == AccountsSpec => []AccountsTypeOK
<1>1. AccountsInv => AccountsTypeOK
  BY DEF AccountsInv
<1>2. QED
  BY <1>1, AccountsInitially, AccountsStep, PTL DEF AccountsSpec

(* Comparison and replacement of a refresh token are two steps, and still a     *)
(* token is never answered more often than there are devices to overlap.       *)
THEOREM RefreshesAreBounded == AccountsSpec => []ExchangesBounded
<1>1. AccountsInv => ExchangesBounded
  <2> SUFFICES ASSUME AccountsInv, NEW u \in People, NEW t \in 0..MaxTime
               PROVE  exchanged[<<u, t>>] <= Cardinality(Devices)
    BY DEF ExchangesBounded
  <2>1. exchanged[<<u, t>>] + Cardinality(Pending(u, t)) <= Cardinality(Devices)
    BY DEF AccountsInv, MatchesCounted
  <2>2. exchanged[<<u, t>>] \in Nat
    BY DEF AccountsInv, AccountsTypeOK
  <2>3. QED
    BY <2>1, <2>2, PendingIsFinite
<1>2. QED
  BY <1>1, AccountsInitially, AccountsStep, PTL DEF AccountsSpec

----------------------------------------------------------------------------
(* Support *)

TabsOf(a) == {b \in Tabs : AgentOf[b] = a}
Starting(a) == {b \in TabsOf(a) : work[b].at = "creates"}

(* A session that is about to be created is counted before it exists.           *)
StartsCounted ==
  \A a \in Agents : Cardinality(ActiveOf(a)) + Cardinality(Starting(a)) <= Cardinality(TabsOf(a))

SupportInv == SupportTypeOK /\ StartsCounted

(* What a request carries, by what it is about to do.                           *)
LEMMA WorkFields ==
  ASSUME NEW w \in Work
  PROVE  /\ w.at \in {"idle", "revokes", "creates", "writes"}
         /\ w.at \in {"revokes", "creates"} => w.client \in Clients
         /\ w.at = "writes" => w.i \in DOMAIN session /\ w.status \in {"ENDED", "EXPIRED"}
<1>1. CASE w = NoWork
  BY <1>1 DEF NoWork
<1>2. CASE w \in [at : {"revokes", "creates"}, client : Clients]
  BY <1>2
<1>3. CASE w \in [at : {"writes"}, i : DOMAIN session, status : {"ENDED", "EXPIRED"}]
  BY <1>3
<1>4. QED
  BY <1>1, <1>2, <1>3 DEF Work

LEMMA CountsAreFinite ==
  ASSUME SupportTypeOK, NEW a \in Agents
  PROVE  /\ IsFiniteSet(ActiveOf(a)) /\ Cardinality(ActiveOf(a)) \in Nat
         /\ IsFiniteSet(Starting(a)) /\ Cardinality(Starting(a)) \in Nat
         /\ IsFiniteSet(TabsOf(a)) /\ Cardinality(TabsOf(a)) \in Nat
         /\ Cardinality(Starting(a)) <= Cardinality(TabsOf(a))
<1>1. IsFiniteSet(DOMAIN session)
  <2>1. DOMAIN session = 1..Len(session) /\ Len(session) \in Nat
    BY DEF SupportTypeOK
  <2>2. QED
    BY <2>1, FS_Interval
<1>2. IsFiniteSet(ActiveOf(a))
  BY <1>1, FS_Subset DEF ActiveOf
<1>3. IsFiniteSet(TabsOf(a))
  BY SupportAssumption, FS_Subset DEF TabsOf
<1>4. Starting(a) \in SUBSET TabsOf(a)
  BY DEF Starting
<1>5. IsFiniteSet(Starting(a)) /\ Cardinality(Starting(a)) <= Cardinality(TabsOf(a))
  BY <1>3, <1>4, FS_Subset
<1>6. QED
  BY <1>2, <1>3, <1>5, FS_CardinalityType

LEMMA SupportInitially == SupportInit => SupportInv
<1> SUFFICES ASSUME SupportInit PROVE SupportInv
  OBVIOUS
<1>1. SupportTypeOK
  BY DEF SupportInit, SupportTypeOK, Work
<1>2. ASSUME NEW a \in Agents
      PROVE  Cardinality(ActiveOf(a)) + Cardinality(Starting(a)) <= Cardinality(TabsOf(a))
  <2>1. ActiveOf(a) = {} /\ Starting(a) = {}
    BY DEF SupportInit, ActiveOf, Starting, TabsOf, NoWork
  <2>2. QED
    BY <1>1, <2>1, CountsAreFinite, FS_EmptySet
<1>3. QED
  BY <1>1, <1>2 DEF SupportInv, StartsCounted

(* Nothing begins and nothing becomes active: the count stands.                 *)
LEMMA NothingStarts ==
  ASSUME SupportInv, SupportTypeOK', NEW a \in Agents,
         ActiveOf(a)' \subseteq ActiveOf(a), Starting(a)' \subseteq Starting(a)
  PROVE  Cardinality(ActiveOf(a)') + Cardinality(Starting(a)') <= Cardinality(TabsOf(a))
<1>1. /\ Cardinality(ActiveOf(a)') <= Cardinality(ActiveOf(a))
      /\ Cardinality(Starting(a)') <= Cardinality(Starting(a))
  BY CountsAreFinite, FS_Subset DEF SupportInv
<1>2. /\ Cardinality(ActiveOf(a)') \in Nat /\ Cardinality(Starting(a)') \in Nat
  <2>1. /\ IsFiniteSet(ActiveOf(a)') /\ IsFiniteSet(Starting(a)')
    BY CountsAreFinite, FS_Subset DEF SupportInv
  <2>2. QED
    BY <2>1, FS_CardinalityType
<1>3. QED
  BY <1>1, <1>2, CountsAreFinite DEF SupportInv, StartsCounted

(* What Does changes, and what it leaves.                                     *)
LEMMA DoesEffect ==
  ASSUME work \in [Tabs -> Work], NEW b \in Tabs, NEW w, Does(b, w)
  PROVE  /\ work'[b] = w /\ \A c \in Tabs \ {b} : work'[c] = work[c]
         /\ w \in Work /\ Work \subseteq Work' => work' \in [Tabs -> Work']
BY DEF Does

(* Rows are written in place, or one is added: requests stay what they are.     *)
LEMMA WorkGrows ==
  ASSUME DOMAIN session \subseteq DOMAIN session'
  PROVE  Work \subseteq Work'
BY DEF Work

(* An active session of an agent is not made by writing rows of the table.       *)
LEMMA RewrittenSessions ==
  ASSUME SupportTypeOK, session' \in Seq(SessionRow), DOMAIN session' = DOMAIN session,
         \A i \in DOMAIN session : /\ session'[i].actor = session[i].actor
                                   /\ session'[i].status \in {session[i].status, "ENDED", "EXPIRED"}
  PROVE  /\ Work' = Work
         /\ \A a \in Agents : ActiveOf(a)' \subseteq ActiveOf(a)
<1>1. Work' = Work
  BY DEF Work
<1>2. QED
  BY <1>1 DEF ActiveOf

LEMMA EndingOlder ==
  ASSUME SupportInv, NEW b \in Tabs, EndsOlderSessions(b)
  PROVE  SupportInv'
<1> DEFINE a == AgentOf[b]
           w == [work[b] EXCEPT !.at = "creates"]
<1>types. session \in Seq(SessionRow) /\ target \in [Clients -> BOOLEAN] /\ work \in [Tabs -> Work]
  BY DEF SupportInv, SupportTypeOK
<1>1. /\ session' = [i \in DOMAIN session |->
                       IF i \in ActiveOf(a) THEN [session[i] EXCEPT !.status = "ENDED"]
                                            ELSE session[i]]
      /\ Does(b, w) /\ UNCHANGED target /\ a \in Agents
  BY SupportAssumption DEF EndsOlderSessions, Revoked
<1>2. w \in [at : {"revokes", "creates"}, client : Clients]
  <2>1. work[b] \in [at : {"revokes", "creates"}, client : Clients]
    BY <1>types DEF EndsOlderSessions, Work, NoWork
  <2>2. QED
    BY <2>1
<1> HIDE DEF a, w
<1>3. \A i \in DOMAIN session : session[i] \in SessionRow
  BY <1>types
<1>4. \A i \in DOMAIN session :
        /\ session'[i] \in SessionRow /\ session'[i].actor = session[i].actor
        /\ session'[i].status \in {session[i].status, "ENDED", "EXPIRED"}
        /\ i \in ActiveOf(a) => session'[i].status = "ENDED"
        /\ i \notin ActiveOf(a) => session'[i] = session[i]
  BY <1>1, <1>3 DEF SessionRow
<1>5. session' \in Seq(SessionRow) /\ DOMAIN session' = DOMAIN session
  <2>1. DOMAIN session' = DOMAIN session /\ DOMAIN session = 1..Len(session) /\ Len(session) \in Nat
    BY <1>types, <1>1
  <2>2. session' \in [1..Len(session) -> SessionRow]
    BY <1>1, <1>4, <2>1
  <2>3. QED
    BY <2>1, <2>2
<1>6. /\ Work' = Work
      /\ \A c \in Agents : ActiveOf(c)' \subseteq ActiveOf(c)
  BY <1>4, <1>5, RewrittenSessions DEF SupportInv
<1>7. /\ work'[b] = w /\ \A c \in Tabs \ {b} : work'[c] = work[c]
      /\ work' \in [Tabs -> Work']
  BY <1>types, <1>1, <1>2, <1>6, DoesEffect DEF Work
<1>8. SupportTypeOK'
  BY <1>types, <1>1, <1>5, <1>7 DEF SupportTypeOK
<1>9. ASSUME NEW c \in Agents
      PROVE  Cardinality(ActiveOf(c)') + Cardinality(Starting(c)') <= Cardinality(TabsOf(c))
  <2>1. CASE c = a
    <3>1. ActiveOf(c)' = {}
      BY <1>4, <1>5, <1>6, <2>1 DEF ActiveOf
    <3>2. Starting(c)' \in SUBSET TabsOf(c)
      BY DEF Starting, TabsOf
    <3>3. /\ IsFiniteSet(Starting(c)')
          /\ Cardinality(Starting(c)') <= Cardinality(TabsOf(c))
      BY <3>2, CountsAreFinite, FS_Subset DEF SupportInv
    <3>4. Cardinality(Starting(c)') \in Nat
      BY <3>3, FS_CardinalityType
    <3>5. QED
      BY <3>1, <3>3, <3>4, CountsAreFinite, FS_EmptySet DEF SupportInv
  <2>2. CASE c # a
    <3>1. Starting(c)' \subseteq Starting(c)
      BY <1>7, <2>2 DEF Starting, TabsOf, a
    <3>2. QED
      BY <1>6, <1>8, <3>1, NothingStarts
  <2>3. QED
    BY <2>1, <2>2
<1>10. QED
  BY <1>8, <1>9 DEF SupportInv, StartsCounted, TabsOf

LEMMA CreatingOne ==
  ASSUME SupportInv, NEW b \in Tabs, CreatesSession(b)
  PROVE  SupportInv'
<1> DEFINE a == AgentOf[b]
           r == [actor |-> AgentOf[b], client |-> work[b].client, late |-> FALSE,
                 status |-> "ACTIVE"]
           last == Len(session) + 1
<1>types. session \in Seq(SessionRow) /\ target \in [Clients -> BOOLEAN] /\ work \in [Tabs -> Work]
  BY DEF SupportInv, SupportTypeOK
<1>1. a \in Agents /\ work[b].at = "creates" /\ work[b].client \in Clients
  BY <1>types, WorkFields, SupportAssumption DEF CreatesSession
<1>2. r \in SessionRow /\ r.actor = a /\ r.status = "ACTIVE"
  BY <1>1 DEF SessionRow
<1>3. session' = Append(session, r) /\ Does(b, NoWork) /\ UNCHANGED target
  BY DEF CreatesSession
<1> HIDE DEF r
<1>4. /\ session' \in Seq(SessionRow)
      /\ DOMAIN session' = DOMAIN session \cup {last} /\ last \notin DOMAIN session
      /\ session'[last] = r /\ \A i \in DOMAIN session : session'[i] = session[i]
  BY <1>types, <1>2, <1>3
<1> HIDE DEF last
<1>5. Work \subseteq Work' /\ NoWork \in Work /\ NoWork.at = "idle"
  BY <1>4, WorkGrows DEF Work, NoWork
<1>6. /\ work'[b] = NoWork /\ \A c \in Tabs \ {b} : work'[c] = work[c]
      /\ work' \in [Tabs -> Work']
  BY <1>types, <1>3, <1>5, DoesEffect
<1>7. SupportTypeOK'
  BY <1>types, <1>3, <1>4, <1>6 DEF SupportTypeOK
<1>8. ASSUME NEW c \in Agents
      PROVE  Cardinality(ActiveOf(c)') + Cardinality(Starting(c)') <= Cardinality(TabsOf(c))
  <2>1. CASE c = a
    <3>1. ActiveOf(c)' = ActiveOf(c) \cup {last} /\ last \notin ActiveOf(c)
      BY <1>2, <1>4, <2>1 DEF ActiveOf
    <3>2. Starting(c)' = Starting(c) \ {b} /\ b \in Starting(c)
      BY <1>1, <1>5, <1>6, <2>1 DEF Starting, TabsOf
    <3>3. /\ Cardinality(ActiveOf(c)') = Cardinality(ActiveOf(c)) + 1
          /\ Cardinality(Starting(c)') = Cardinality(Starting(c)) - 1
      <4>1. IsFiniteSet(ActiveOf(c)) /\ IsFiniteSet(Starting(c))
        BY CountsAreFinite DEF SupportInv
      <4>2. Cardinality(ActiveOf(c) \cup {last}) = Cardinality(ActiveOf(c)) + 1
        BY <3>1, <4>1, FS_AddElement
      <4>3. Cardinality(Starting(c) \ {b}) = Cardinality(Starting(c)) - 1
        BY <3>2, <4>1, FS_RemoveElement
      <4>4. QED
        BY <3>1, <3>2, <4>2, <4>3
    <3>4. QED
      BY <3>3, CountsAreFinite DEF SupportInv, StartsCounted
  <2>2. CASE c # a
    <3>1. ActiveOf(c)' \subseteq ActiveOf(c)
      BY <1>2, <1>4, <2>2 DEF ActiveOf
    <3>2. Starting(c)' \subseteq Starting(c)
      BY <1>5, <1>6 DEF Starting, TabsOf
    <3>3. QED
      BY <1>7, <3>1, <3>2, NothingStarts
  <2>3. QED
    BY <2>1, <2>2
<1>9. QED
  BY <1>7, <1>8 DEF SupportInv, StartsCounted, TabsOf

(* A request goes on to something that is not a creation.                        *)
LEMMA GoingOnStarts ==
  ASSUME SupportInv, NEW b \in Tabs, NEW w \in Work, w.at # "creates", Does(b, w),
         UNCHANGED <<session, target>>
  PROVE  SupportInv'
<1>1. Work' = Work /\ work \in [Tabs -> Work]
  BY DEF Work, SupportInv, SupportTypeOK
<1>2. /\ work'[b] = w /\ \A c \in Tabs \ {b} : work'[c] = work[c]
      /\ work' \in [Tabs -> Work']
  BY <1>1, DoesEffect
<1>3. SupportTypeOK'
  BY <1>2 DEF SupportInv, SupportTypeOK
<1>4. \A a \in Agents : ActiveOf(a)' \subseteq ActiveOf(a) /\ Starting(a)' \subseteq Starting(a)
  BY <1>2 DEF ActiveOf, Starting, TabsOf
<1>5. QED
  BY <1>3, <1>4, NothingStarts DEF SupportInv, StartsCounted, TabsOf

(* One row is written, and no session becomes active by it.                      *)
LEMMA WritingOne ==
  ASSUME SupportInv, NEW i \in DOMAIN session, NEW r \in SessionRow,
         r.actor = session[i].actor, r.status \in {session[i].status, "ENDED", "EXPIRED"},
         session' = [session EXCEPT ![i] = r], UNCHANGED target,
         UNCHANGED work \/ \E b \in Tabs : Does(b, NoWork)
  PROVE  SupportInv'
<1>types. session \in Seq(SessionRow) /\ target \in [Clients -> BOOLEAN] /\ work \in [Tabs -> Work]
  BY DEF SupportInv, SupportTypeOK
<1>1. /\ session' \in Seq(SessionRow) /\ DOMAIN session' = DOMAIN session
      /\ \A j \in DOMAIN session : session'[j] = IF j = i THEN r ELSE session[j]
  BY <1>types
<1>2. /\ Work' = Work
      /\ \A a \in Agents : ActiveOf(a)' \subseteq ActiveOf(a)
  BY <1>1, RewrittenSessions DEF SupportInv
<1>3. NoWork \in Work /\ NoWork.at = "idle"
  BY DEF Work, NoWork
<1>4. work' \in [Tabs -> Work'] /\ \A b \in Tabs : work'[b] \in {work[b], NoWork}
  BY <1>types, <1>2, <1>3 DEF Does
<1>5. SupportTypeOK'
  BY <1>types, <1>1, <1>4 DEF SupportTypeOK
<1>6. \A a \in Agents : Starting(a)' \subseteq Starting(a)
  BY <1>3, <1>4 DEF Starting, TabsOf
<1>7. QED
  BY <1>2, <1>5, <1>6, NothingStarts DEF SupportInv, StartsCounted, TabsOf

LEMMA AgentStepKeepsInv ==
  ASSUME SupportInv, NEW b \in Tabs, AgentStep(b)
  PROVE  SupportInv'
<1>types. session \in Seq(SessionRow) /\ work \in [Tabs -> Work]
  BY DEF SupportInv, SupportTypeOK
<1>1. CASE ChecksTarget(b)
  <2>1. PICK c \in Clients : Does(b, [at |-> "revokes", client |-> c])
    BY <1>1 DEF ChecksTarget
  <2>2. [at |-> "revokes", client |-> c] \in Work
    BY DEF Work
  <2>3. QED
    BY <1>1, <2>1, <2>2, GoingOnStarts DEF ChecksTarget
<1>2. CASE FindsSession(b)
  <2>1. PICK i \in {j \in DOMAIN session : session[j].actor = AgentOf[b] \/ AgentOf[b] \in Owners}
                \cup Newest(ActiveOf(AgentOf[b])) :
          Does(b, [at |-> "writes", i |-> i, status |-> "ENDED"])
    BY <1>2 DEF FindsSession
  <2>2. i \in DOMAIN session
    BY DEF Newest, ActiveOf
  <2>3. [at |-> "writes", i |-> i, status |-> "ENDED"] \in Work
    BY <2>2 DEF Work
  <2>4. QED
    BY <1>2, <2>1, <2>3, GoingOnStarts DEF FindsSession
<1>3. CASE FindsExpired(b)
  <2>1. PICK i \in DOMAIN session : Does(b, [at |-> "writes", i |-> i, status |-> "EXPIRED"])
    BY <1>3 DEF FindsExpired
  <2>2. [at |-> "writes", i |-> i, status |-> "EXPIRED"] \in Work
    BY DEF Work
  <2>3. QED
    BY <1>3, <2>1, <2>2, GoingOnStarts DEF FindsExpired
<1>4. CASE ClosesSession(b)
  <2> DEFINE i == work[b].i
             r == [session[i] EXCEPT !.status = work[b].status]
  <2>1. i \in DOMAIN session /\ work[b].status \in {"ENDED", "EXPIRED"}
    BY <1>4, <1>types, WorkFields DEF ClosesSession
  <2>2. session[i] \in SessionRow
    BY <1>types, <2>1
  <2>3. r \in SessionRow /\ r.actor = session[i].actor /\ r.status = work[b].status
    BY <2>1, <2>2 DEF SessionRow
  <2>4. session' = [session EXCEPT ![i] = r] /\ Does(b, NoWork) /\ UNCHANGED target
    BY <1>4 DEF ClosesSession
  <2> HIDE DEF i, r
  <2>5. QED
    BY <2>1, <2>3, <2>4, WritingOne
<1>5. CASE RequestDies(b)
  <2>1. NoWork \in Work /\ NoWork.at # "creates"
    BY DEF Work, NoWork
  <2>2. QED
    BY <1>5, <2>1, GoingOnStarts DEF RequestDies
<1>6. QED
  BY <1>1, <1>2, <1>3, <1>4, <1>5, EndingOlder, CreatingOne DEF AgentStep

LEMMA SupportInductive == SupportSpec => []SupportInv
<1>1. ASSUME SupportInv, TimePasses PROVE SupportInv'
  <2>1. PICK i \in DOMAIN session : session' = [session EXCEPT ![i].late = TRUE]
    BY <1>1 DEF TimePasses
  <2>2. session[i] \in SessionRow
    BY <1>1 DEF SupportInv, SupportTypeOK
  <2> DEFINE r == [session[i] EXCEPT !.late = TRUE]
  <2>3. r \in SessionRow /\ r.actor = session[i].actor /\ r.status = session[i].status
    BY <2>2 DEF SessionRow
  <2>4. session' = [session EXCEPT ![i] = r]
    BY <2>1
  <2> HIDE DEF r
  <2>5. QED
    BY <1>1, <2>3, <2>4, WritingOne DEF TimePasses
<1>2. ASSUME SupportInv, UNCHANGED <<session, work>>, target' \in [Clients -> BOOLEAN]
      PROVE  SupportInv'
  BY <1>2 DEF SupportInv, SupportTypeOK, Work, StartsCounted, ActiveOf, Starting, TabsOf
<1>3. ASSUME SupportInv, RemovesTarget PROVE SupportInv'
  <2>1. target' \in [Clients -> BOOLEAN]
    BY <1>3 DEF RemovesTarget, SupportInv, SupportTypeOK
  <2>2. QED
    BY <1>2, <1>3, <2>1 DEF RemovesTarget
<1>4. ASSUME SupportInv, UNCHANGED supportVars PROVE SupportInv'
  BY <1>2, <1>4 DEF supportVars, SupportInv, SupportTypeOK
<1>5. SupportInv /\ [SupportNext]_supportVars => SupportInv'
  BY <1>1, <1>3, <1>4, AgentStepKeepsInv DEF SupportNext
<1>6. QED
  BY <1>5, SupportInitially, PTL DEF SupportSpec

(* However many of an agent's requests overlap, end, expire or die, its active      *)
(* impersonation sessions never outnumber its open requests.                     *)
THEOREM SessionsStayBounded == SupportSpec => []ActiveSessionsBounded
<1>1. ASSUME SupportInv PROVE ActiveSessionsBounded
  <2> SUFFICES ASSUME NEW a \in Agents
               PROVE  Cardinality(ActiveOf(a)) <= Cardinality({b \in Tabs : AgentOf[b] = a})
    BY DEF ActiveSessionsBounded
  <2>1. Cardinality(ActiveOf(a)) + Cardinality(Starting(a)) <= Cardinality(TabsOf(a))
    BY <1>1 DEF SupportInv, StartsCounted
  <2>2. QED
    BY <1>1, <2>1, CountsAreFinite DEF SupportInv, TabsOf
<1>2. QED
  BY <1>1, SupportInductive, PTL

----------------------------------------------------------------------------
(* Routes and guards *)

(* A route on which nobody looks at the token.                                *)
OpenToAll(r) ==
  /\ r.public /\ "nobody" \in r.roles /\ r.all = {} /\ r.any = {}
  /\ ~r.platform /\ ~r.ofTenant

(* A route of the tenants' side, for some role of theirs.                      *)
ForTenants(r) ==
  /\ ~r.public /\ r.all = {} /\ r.any = {} /\ ~r.platform
  /\ r.roles \cap TENANT_ROLES # {}

(* A route of the platform's side, with permissions that do exist.              *)
ForPlatform(r) ==
  /\ ~r.public /\ r.platform /\ ~r.ofTenant /\ PLATFORM_ROLES \subseteq r.roles
  /\ r.all \subseteq PLATFORM_PERMISSIONS /\ r.any \subseteq PLATFORM_PERMISSIONS
  /\ r.all \cup r.any # {}

(* What a decorator may be applied to. *)
Decorable(r) == DOMAIN r = {"public", "roles", "all", "any", "dangerous", "platform",
                            "ofTenant", "name"}

LEMMA RouteIsDecorable == Decorable(Route)
BY DEF Route, Decorable

LEMMA PublicIsOpen ==
  ASSUME NEW names, NEW r \in Public(names) PROVE OpenToAll(r)
<1>1. PICK n \in names : r = [Route EXCEPT !.name = n, !.public = TRUE]
  BY DEF Public
<1>2. /\ r.public /\ r.roles = Route.roles /\ r.all = Route.all /\ r.any = Route.any
      /\ r.platform = Route.platform /\ r.ofTenant = Route.ofTenant
  BY <1>1, RouteIsDecorable DEF Decorable
<1>3. /\ "nobody" \in Route.roles /\ Route.all = {} /\ Route.any = {}
      /\ ~Route.platform /\ ~Route.ofTenant
  BY DEF Route, Everybody
<1>4. QED
  BY <1>2, <1>3 DEF OpenToAll

(* What the decorators make of a handler before it is given roles.             *)
LEMMA SignedInRows ==
  ASSUME NEW names, NEW r \in SignedIn(names) \cup OfTenant(names)
  PROVE  Decorable(r) /\ ForTenants(r)
<1>1. Route.roles \cap TENANT_ROLES # {}
  BY DEF Route, TENANT_ROLES, UserRoles, Everybody
<1>2. CASE r \in SignedIn(names)
  <2>1. PICK n \in names : r = [Route EXCEPT !.name = n]
    BY <1>2 DEF SignedIn
  <2>2. /\ Decorable(r)
        /\ r.public = Route.public /\ r.all = Route.all /\ r.any = Route.any
        /\ r.platform = Route.platform /\ r.roles = Route.roles
    BY <2>1, RouteIsDecorable DEF Decorable
  <2>3. QED
    BY <1>1, <2>2 DEF ForTenants, Route
<1>3. CASE r \in OfTenant(names)
  <2>1. PICK n \in names : r = [Route EXCEPT !.name = n, !.ofTenant = TRUE]
    BY <1>3 DEF OfTenant
  <2>2. /\ Decorable(r)
        /\ r.public = Route.public /\ r.all = Route.all /\ r.any = Route.any
        /\ r.platform = Route.platform /\ r.roles = Route.roles
    BY <2>1, RouteIsDecorable DEF Decorable
  <2>3. QED
    BY <1>1, <2>2 DEF ForTenants, Route
<1>4. QED
  BY <1>2, <1>3

LEMMA ForRows ==
  ASSUME NEW roles \in SUBSET UserRoles, roles \cap TENANT_ROLES # {},
         NEW routes, \A q \in routes : Decorable(q) /\ ForTenants(q),
         NEW r \in For(roles, routes)
  PROVE  Decorable(r) /\ ForTenants(r)
<1>1. PICK q \in routes : r = [q EXCEPT !.roles = roles]
  BY DEF For
<1>2. Decorable(q) /\ ForTenants(q)
  BY <1>1
<1>3. Decorable(r)
  BY <1>1, <1>2 DEF Decorable
<1>4. /\ r.public = q.public /\ r.all = q.all /\ r.any = q.any
      /\ r.platform = q.platform /\ r.roles = roles
  BY <1>1, <1>2 DEF Decorable
<1>5. QED
  BY <1>2, <1>3, <1>4 DEF ForTenants

(* A route of the platform's before its permissions are set.                   *)
Ungranted(r) ==
  /\ Decorable(r) /\ ~r.public /\ r.platform /\ ~r.ofTenant
  /\ r.roles = Route.roles /\ r.all = {} /\ r.any = {}

LEMMA PlatformRows ==
  ASSUME NEW names, NEW r \in Platform(names) PROVE Ungranted(r)
<1>1. Decorable(r)
  BY RouteIsDecorable DEF Platform, Decorable
<1>2. /\ r.platform /\ r.public = Route.public /\ r.ofTenant = Route.ofTenant
      /\ r.roles = Route.roles /\ r.all = Route.all /\ r.any = Route.any
  BY RouteIsDecorable DEF Platform, Decorable
<1>3. ~Route.public /\ ~Route.ofTenant /\ Route.all = {} /\ Route.any = {}
  BY DEF Route
<1>4. QED
  BY <1>1, <1>2, <1>3 DEF Ungranted

LEMMA DangerousRows ==
  ASSUME NEW routes, \A q \in routes : Ungranted(q), NEW r \in Dangerous(routes)
  PROVE  Ungranted(r)
<1>1. PICK q \in routes : r = [q EXCEPT !.dangerous = TRUE]
  BY DEF Dangerous
<1>2. Decorable(q)
  BY <1>1 DEF Ungranted
<1>3. Decorable(r)
  BY <1>1, <1>2 DEF Decorable
<1>4. /\ r.public = q.public /\ r.platform = q.platform /\ r.ofTenant = q.ofTenant
      /\ r.roles = q.roles /\ r.all = q.all /\ r.any = q.any
  BY <1>1, <1>2 DEF Decorable
<1>5. QED
  BY <1>1, <1>3, <1>4 DEF Ungranted

LEMMA AllRows ==
  ASSUME NEW routes, \A q \in routes : Ungranted(q),
         NEW permissions \in SUBSET PLATFORM_PERMISSIONS, permissions # {},
         NEW r \in All(permissions, routes)
  PROVE  r.all = permissions /\ ForPlatform(r)
<1>1. PICK q \in routes : r = [q EXCEPT !.all = permissions]
  BY DEF All
<1>2. Decorable(q) /\ Ungranted(q)
  BY <1>1 DEF Ungranted
<1>3. /\ r.public = q.public /\ r.platform = q.platform /\ r.ofTenant = q.ofTenant
      /\ r.roles = q.roles /\ r.all = permissions /\ r.any = q.any
  BY <1>1, <1>2 DEF Decorable
<1>4. PLATFORM_ROLES \subseteq Route.roles
  BY DEF PLATFORM_ROLES, Route, UserRoles, Everybody
<1>5. QED
  BY <1>2, <1>3, <1>4 DEF Ungranted, ForPlatform

LEMMA AnyRows ==
  ASSUME NEW routes, \A q \in routes : Ungranted(q),
         NEW permissions \in SUBSET PLATFORM_PERMISSIONS, permissions # {},
         NEW r \in Any(permissions, routes)
  PROVE  r.any = permissions /\ ForPlatform(r)
<1>1. PICK q \in routes : r = [q EXCEPT !.any = permissions]
  BY DEF Any
<1>2. Decorable(q) /\ Ungranted(q)
  BY <1>1 DEF Ungranted
<1>3. /\ r.public = q.public /\ r.platform = q.platform /\ r.ofTenant = q.ofTenant
      /\ r.roles = q.roles /\ r.any = permissions /\ r.all = q.all
  BY <1>1, <1>2 DEF Decorable
<1>4. PLATFORM_ROLES \subseteq Route.roles
  BY DEF PLATFORM_ROLES, Route, UserRoles, Everybody
<1>5. QED
  BY <1>2, <1>3, <1>4 DEF Ungranted, ForPlatform

----------------------------------------------------------------------------
(* Whoever the guards serve on such routes. *)

LEMMA IdentityCases ==
  ASSUME NEW u \in Identities
  PROVE  \/ u = Anonymous
         \/ u.role \in PLATFORM_ROLES /\ u.tenant = NoTenant /\ u.impersonating = FALSE
         \/ /\ u.role \in TENANT_ROLES /\ u.impersonating \in BOOLEAN
            /\ u.tenant \in Tenants \/ (u.tenant = NoTenant /\ u.impersonating = FALSE)
<1>1. CASE u = Anonymous
  BY <1>1
<1>2. CASE u \in [role : PLATFORM_ROLES, tenant : {NoTenant}, impersonating : {FALSE}]
  BY <1>2
<1>3. CASE u \in [role : TENANT_ROLES, tenant : Tenants, impersonating : BOOLEAN]
  BY <1>3
<1>4. CASE u \in [role : TENANT_ROLES, tenant : {NoTenant}, impersonating : {FALSE}]
  BY <1>4
<1>5. QED
  BY <1>1, <1>2, <1>3, <1>4 DEF Identities

LEMMA TenantRolesApart ==
  /\ TENANT_ROLES \cap PLATFORM_ROLES = {} /\ "nobody" \notin TENANT_ROLES \cup PLATFORM_ROLES
  /\ TENANT_ROLES \subseteq UserRoles
BY DEF TENANT_ROLES, PLATFORM_ROLES, UserRoles

LEMMA OpenRoutesServe ==
  ASSUME NEW r, OpenToAll(r) PROVE Reachable(r) /\ \A u \in Identities : InScope(r, u) \/ r \in PlatformRoutes
<1>1. \A u \in Identities : OnRequest(r, u) = Anonymous
  BY DEF OpenToAll, OnRequest
<1>2. Anonymous \in Identities /\ Anonymous.role = "nobody" /\ Anonymous.impersonating = FALSE
  BY DEF Anonymous, Identities
<1>3. Served(r, Anonymous)
  BY <1>1, <1>2 DEF Served, OpenToAll, JwtAuthGuard, RolesGuard, PermissionsGuard,
       DangerousActionGuard, PlatformOnlyGuard
<1>4. PlatformBillingController \subseteq PlatformRoutes
  BY DEF PlatformRoutes
<1>5. QED
  BY <1>2, <1>3, <1>4 DEF OpenToAll, Reachable, InScope

(* Rows of a tenant are reached through the tenant of the token, and only by    *)
(* a role of the tenant's.                                                  *)
LEMMA TenantScope ==
  ASSUME NEW r, ~r.public, r.ofTenant, NEW u \in Identities, Served(r, u)
  PROVE  ScopeOf(r, u) = u.tenant /\ u.tenant \in Tenants /\ u.role \notin PLATFORM_ROLES
<1>1. OnRequest(r, u) = u
  BY DEF OnRequest
<1>2. u # Anonymous /\ EffectiveTenant(u) # NoTenant
  BY <1>1 DEF Served, JwtAuthGuard
<1>3. u.role \notin PLATFORM_ROLES
  BY <1>2, IdentityCases, TenantRolesApart DEF EffectiveTenant
<1>4. EffectiveTenant(u) = u.tenant
  BY <1>3 DEF EffectiveTenant
<1>5. u.tenant \in Tenants
  BY <1>2, <1>3, <1>4, IdentityCases
<1>6. QED
  BY <1>1, <1>3, <1>4, <1>5 DEF ScopeOf

LEMMA TenantsRoutesServe ==
  ASSUME Tenants # {}, NEW r, ForTenants(r)
  PROVE  Reachable(r) /\ \A u \in Identities : InScope(r, u) \/ r \in PlatformRoutes
<1>1. PICK role \in r.roles : role \in TENANT_ROLES
  BY DEF ForTenants
<1>2. PICK t \in Tenants : TRUE
  OBVIOUS
<1>3. DEFINE u == [role |-> role, tenant |-> t, impersonating |-> FALSE]
<1>4. /\ u \in Identities /\ u # Anonymous /\ OnRequest(r, u) = u
      /\ EffectiveTenant(u) = t /\ t # NoTenant
  <2>1. u \in [role : TENANT_ROLES, tenant : Tenants, impersonating : BOOLEAN]
    BY <1>1, <1>2
  <2>2. u # Anonymous
    BY <1>1, TenantRolesApart DEF Anonymous
  <2>3. EffectiveTenant(u) = t /\ t # NoTenant
    BY <1>1, TenantRolesApart, GuardsAssumption DEF EffectiveTenant
  <2>4. QED
    BY <2>1, <2>2, <2>3 DEF ForTenants, OnRequest, Identities
<1>5. u.role = role /\ u.impersonating = FALSE
  OBVIOUS
<1> HIDE DEF u
<1>6. Served(r, u)
  BY <1>1, <1>4, <1>5 DEF ForTenants, Served, JwtAuthGuard, RolesGuard, PermissionsGuard,
       DangerousActionGuard, PlatformOnlyGuard
<1>7. PlatformBillingController \subseteq PlatformRoutes
  BY DEF PlatformRoutes
<1>8. QED
  BY <1>4, <1>6, <1>7, TenantScope DEF ForTenants, Reachable, InScope

LEMMA PlatformRoutesServe ==
  ASSUME NEW r, ForPlatform(r)
  PROVE  /\ Reachable(r)
         /\ \A u \in Identities : Served(r, u) =>
              /\ u.role \in PLATFORM_ROLES /\ ~u.impersonating
              /\ (r.all \cup r.any) \cap Permitted(u) # {}
              /\ r.all \subseteq Permitted(u)
<1>1. ASSUME NEW u \in Identities, Served(r, u)
      PROVE  /\ u.role \in PLATFORM_ROLES /\ ~u.impersonating
             /\ (r.all \cup r.any) \cap Permitted(u) # {}
             /\ r.all \subseteq Permitted(u)
  <2>1. OnRequest(r, u) = u
    BY DEF OnRequest, ForPlatform
  <2>2. u # Anonymous /\ u.role \in PLATFORM_ROLES /\ PermissionsGuard(r, u)
    BY <1>1, <2>1 DEF Served, JwtAuthGuard, PlatformOnlyGuard, ForPlatform
  <2>3. ~u.impersonating
    BY <2>2, IdentityCases, TenantRolesApart
  <2>4. QED
    BY <2>2, <2>3 DEF PermissionsGuard, ForPlatform
<1>2. Reachable(r)
  <2>1. DEFINE u == [role |-> "PLATFORM_OWNER", tenant |-> NoTenant, impersonating |-> FALSE]
  <2>2. u \in Identities /\ u # Anonymous /\ OnRequest(r, u) = u
    <3>1. u \in [role : PLATFORM_ROLES, tenant : {NoTenant}, impersonating : {FALSE}]
      BY DEF PLATFORM_ROLES
    <3>2. u # Anonymous
      BY DEF Anonymous
    <3>3. QED
      BY <3>1, <3>2 DEF ForPlatform, OnRequest, Identities
  <2>3. u.role = "PLATFORM_OWNER" /\ u.impersonating = FALSE
    OBVIOUS
  <2> HIDE DEF u
  <2>4. Permitted(u) = PLATFORM_PERMISSIONS
    BY <2>3 DEF Permitted, ROLE_PERMISSIONS
  <2>5. "PLATFORM_OWNER" \in PLATFORM_ROLES
    BY DEF PLATFORM_ROLES
  <2>6. Served(r, u)
    BY <2>2, <2>3, <2>4, <2>5 DEF ForPlatform, Served, JwtAuthGuard, RolesGuard,
         PermissionsGuard, DangerousActionGuard, PlatformOnlyGuard
  <2>7. QED
    BY <2>2, <2>6 DEF Reachable
<1>3. QED
  BY <1>1, <1>2

----------------------------------------------------------------------------
(* Every route is of one of the three kinds. *)

LEMMA RolesExist ==
  /\ Managers \in SUBSET UserRoles /\ Accountants \in SUBSET UserRoles
  /\ Office \in SUBSET UserRoles
  /\ Managers \cup {"MERCHANT"} \in SUBSET UserRoles
  /\ Accountants \cup {"MERCHANT"} \in SUBSET UserRoles
  /\ {"SUPER_ADMIN"} \in SUBSET UserRoles /\ {"MERCHANT"} \in SUBSET UserRoles
  /\ {"COURIER"} \in SUBSET UserRoles /\ {"COURIER", "OPERATIONS_MANAGER"} \in SUBSET UserRoles
BY DEF Managers, Accountants, Office, UserRoles, TENANT_ROLES

LEMMA RolesAreTenants ==
  /\ Managers \cap TENANT_ROLES # {} /\ Accountants \cap TENANT_ROLES # {}
  /\ Office \cap TENANT_ROLES # {}
  /\ (Managers \cup {"MERCHANT"}) \cap TENANT_ROLES # {}
  /\ (Accountants \cup {"MERCHANT"}) \cap TENANT_ROLES # {}
  /\ {"SUPER_ADMIN"} \cap TENANT_ROLES # {} /\ {"MERCHANT"} \cap TENANT_ROLES # {}
  /\ {"COURIER"} \cap TENANT_ROLES # {}
  /\ {"COURIER", "OPERATIONS_MANAGER"} \cap TENANT_ROLES # {}
BY DEF Managers, Accountants, Office, TENANT_ROLES

LEMMA TenantRows ==
  ASSUME NEW roles \in SUBSET UserRoles, roles \cap TENANT_ROLES # {}, NEW names,
         NEW r \in For(roles, SignedIn(names)) \cup For(roles, OfTenant(names))
  PROVE  ForTenants(r)
BY SignedInRows, ForRows

LEMMA PlatformHandlers ==
  ASSUME NEW names, NEW q \in Platform(names) \cup Dangerous(Platform(names))
  PROVE  Ungranted(q)
BY PlatformRows, DangerousRows

LEMMA GrantedRows ==
  ASSUME NEW permissions, permissions \subseteq PLATFORM_PERMISSIONS, permissions # {},
         NEW names,
         NEW r, \/ r \in All(permissions, Platform(names))
                \/ r \in All(permissions, Dangerous(Platform(names)))
                \/ r \in Any(permissions, Platform(names))
                \/ r \in Any(permissions, Dangerous(Platform(names)))
  PROVE  ForPlatform(r)
BY PlatformHandlers, AllRows, AnyRows

LEMMA TenantsSide ==
  ASSUME NEW r \in AllRoutes PROVE OpenToAll(r) \/ ForTenants(r) \/ r \in PlatformRoutes
<1>1. CASE r \in AppController
  BY <1>1, PublicIsOpen, SignedInRows, TenantRows, RolesExist, RolesAreTenants DEF AppController
<1>2. CASE r \in PublicPlansController
  BY <1>2, PublicIsOpen, SignedInRows, TenantRows, RolesExist, RolesAreTenants DEF PublicPlansController
<1>3. CASE r \in PublicOnboardingController
  BY <1>3, PublicIsOpen, SignedInRows, TenantRows, RolesExist, RolesAreTenants DEF PublicOnboardingController
<1>4. CASE r \in AuthController
  BY <1>4, PublicIsOpen, SignedInRows, TenantRows, RolesExist, RolesAreTenants DEF AuthController
<1>5. CASE r \in ShipmentsController
  BY <1>5, PublicIsOpen, SignedInRows, TenantRows, RolesExist, RolesAreTenants DEF ShipmentsController
<1>6. CASE r \in UsersController
  BY <1>6, PublicIsOpen, SignedInRows, TenantRows, RolesExist, RolesAreTenants DEF UsersController
<1>7. CASE r \in UpdateStatusRoute
  BY <1>7, PublicIsOpen, SignedInRows, TenantRows, RolesExist, RolesAreTenants DEF UpdateStatusRoute
<1>8. CASE r \in AdminShipmentBulkUploadController
  BY <1>8, PublicIsOpen, SignedInRows, TenantRows, RolesExist, RolesAreTenants DEF AdminShipmentBulkUploadController
<1>9. CASE r \in AdminController
  BY <1>9, PublicIsOpen, SignedInRows, TenantRows, RolesExist, RolesAreTenants DEF AdminController
<1>10. CASE r \in AuditLogsController
  BY <1>10, PublicIsOpen, SignedInRows, TenantRows, RolesExist, RolesAreTenants DEF AuditLogsController
<1>11. CASE r \in AssignmentsController
  BY <1>11, PublicIsOpen, SignedInRows, TenantRows, RolesExist, RolesAreTenants DEF AssignmentsController
<1>12. CASE r \in CourierAppController
  BY <1>12, PublicIsOpen, SignedInRows, TenantRows, RolesExist, RolesAreTenants DEF CourierAppController
<1>13. CASE r \in CouriersController
  BY <1>13, PublicIsOpen, SignedInRows, TenantRows, RolesExist, RolesAreTenants DEF CouriersController
<1>14. CASE r \in MerchantsController
  BY <1>14, PublicIsOpen, SignedInRows, TenantRows, RolesExist, RolesAreTenants DEF MerchantsController
<1>15. CASE r \in MerchantDashboardController
  BY <1>15, PublicIsOpen, SignedInRows, TenantRows, RolesExist, RolesAreTenants DEF MerchantDashboardController
<1>16. CASE r \in PayoutsController
  BY <1>16, PublicIsOpen, SignedInRows, TenantRows, RolesExist, RolesAreTenants DEF PayoutsController
<1>17. CASE r \in WalletsController
  BY <1>17, PublicIsOpen, SignedInRows, TenantRows, RolesExist, RolesAreTenants DEF WalletsController
<1>18. CASE r \in ZonesController
  BY <1>18, PublicIsOpen, SignedInRows, TenantRows, RolesExist, RolesAreTenants DEF ZonesController
<1>19. CASE r \in PlatformRoutes
  BY <1>19
<1>20. QED
  BY <1>1, <1>2, <1>3, <1>4, <1>5, <1>6, <1>7, <1>8, <1>9, <1>10, <1>11, <1>12, <1>13, <1>14, <1>15, <1>16, <1>17, <1>18, <1>19 DEF AllRoutes

LEMMA BillingRows ==
  ASSUME NEW r \in PlatformBillingController
  PROVE  r.all = {"view_billing"} /\ ForPlatform(r)
<1>1. \A names : \A q \in Platform(names) \cup Dangerous(Platform(names)) : Ungranted(q)
  BY PlatformHandlers
<1>2. PICK routes : /\ r \in All({"view_billing"}, routes)
                    /\ \A q \in routes : Ungranted(q)
  BY <1>1 DEF PlatformBillingController
<1>3. {"view_billing"} \in SUBSET PLATFORM_PERMISSIONS /\ {"view_billing"} # {}
  BY DEF PLATFORM_PERMISSIONS
<1>4. QED
  BY <1>2, <1>3, AllRows

LEMMA PlatformSide == ASSUME NEW r \in PlatformRoutes PROVE ForPlatform(r)
<1>1. CASE r \in PlatformAnalyticsController
  BY <1>1, GrantedRows DEF PlatformAnalyticsController, PLATFORM_PERMISSIONS
<1>2. CASE r \in PlatformAuditLogsController
  BY <1>2, GrantedRows DEF PlatformAuditLogsController, PLATFORM_PERMISSIONS
<1>3. CASE r \in PlatformBillingController
  BY <1>3, BillingRows
<1>4. CASE r \in DemoRequestsController
  BY <1>4, GrantedRows DEF DemoRequestsController, PLATFORM_PERMISSIONS
<1>5. CASE r \in PlatformFeatureFlagsController
  BY <1>5, GrantedRows DEF PlatformFeatureFlagsController, PLATFORM_PERMISSIONS
<1>6. CASE r \in PlatformPlansController
  BY <1>6, GrantedRows DEF PlatformPlansController, PLATFORM_PERMISSIONS
<1>7. CASE r \in SubscriptionsReadRoutes
  BY <1>7, GrantedRows DEF SubscriptionsReadRoutes, PLATFORM_PERMISSIONS
<1>8. CASE r \in SubscriptionsWriteRoutes
  BY <1>8, GrantedRows DEF SubscriptionsWriteRoutes, PLATFORM_PERMISSIONS
<1>9. CASE r \in PlatformSupportController
  BY <1>9, GrantedRows DEF PlatformSupportController, PLATFORM_PERMISSIONS
<1>10. CASE r \in TenantsCreationRoutes
  BY <1>10, GrantedRows DEF TenantsCreationRoutes, PLATFORM_PERMISSIONS
<1>11. CASE r \in TenantsRoutes
  BY <1>11, GrantedRows DEF TenantsRoutes, PLATFORM_PERMISSIONS
<1>12. QED
  BY <1>1, <1>2, <1>3, <1>4, <1>5, <1>6, <1>7, <1>8, <1>9, <1>10, <1>11 DEF PlatformRoutes

(* In every state the request at the guards is a route with an identity.       *)
VisitTypeOK == visit = NoVisit \/ \E r \in AllRoutes, u \in Identities : visit = <<r, u>>

(* Whatever tenants there are, no route lets anybody out of scope, and none is   *)
(* closed to everybody.                                                     *)
THEOREM RoutesStayInScope ==
  ASSUME Tenants # {} PROVE RoutesSpec => []RoutesInScope
<1>1. ASSUME NEW r \in AllRoutes, NEW u \in Identities
      PROVE  InScope(r, u) /\ Reachable(r)
  <2>1. CASE r \in PlatformRoutes
    <3>1. ForPlatform(r) /\ (r \in PlatformBillingController => r.all = {"view_billing"})
      BY <2>1, PlatformSide, BillingRows
    <3>2. /\ Reachable(r)
          /\ Served(r, u) => /\ u.role \in PLATFORM_ROLES /\ ~u.impersonating
                             /\ (r.all \cup r.any) \cap Permitted(u) # {}
                             /\ r.all \subseteq Permitted(u)
      BY <3>1, PlatformRoutesServe
    <3>3. ~r.ofTenant
      BY <3>1 DEF ForPlatform
    <3>4. QED
      BY <3>1, <3>2, <3>3 DEF InScope
  <2>2. CASE r \notin PlatformRoutes
    BY <2>2, TenantsSide, OpenRoutesServe, TenantsRoutesServe
  <2>3. QED
    BY <2>1, <2>2
<1>2. RoutesInit => VisitTypeOK
  BY DEF RoutesInit, VisitTypeOK
<1>3. VisitTypeOK /\ [RoutesNext]_routesVars => VisitTypeOK'
  BY DEF VisitTypeOK, RoutesNext, Knocks, Leaves, routesVars
<1>4. VisitTypeOK => RoutesInScope
  BY <1>1 DEF VisitTypeOK, RoutesInScope
<1>5. QED
  BY <1>2, <1>3, <1>4, PTL DEF RoutesSpec

----------------------------------------------------------------------------
(* Codes to a phone *)

(* The count a request would find for code c: none is left where it is not the  *)
(* record's, or is verified.                                                 *)
Standing(c) == IF otp.code = c /\ ~otp.verified THEN otp.attempts ELSE MAX_ATTEMPTS

Holds(c, v) == guess[v].at = "counts" /\ guess[v].record.code = c

(* The count v's next guess at c starts from: the one it has read, or the one    *)
(* it would.                                                                *)
Level(c, v) == IF Holds(c, v) THEN guess[v].record.attempts ELSE Standing(c)

(* A guess that was counted and not compared yet. *)
Comparing(c, v) == IF guess[v].at = "compares" /\ guess[v].record.code = c THEN 1 ELSE 0

Lesser(m, n) == IF m <= n THEN m ELSE n
Greater(m, n) == IF m <= n THEN n ELSE m
Twice(k) == k * (k + 1)   \* of the sum 1 + ... + k

(* What two callers at levels l and m have left, doubled, with s in the record:  *)
(* whoever holds an older count can write it back once, and start over from it.  *)
Left(l, m, s) ==
  Twice(MAX_ATTEMPTS - Lesser(l, m)) + 2 * (MAX_ATTEMPTS - Lesser(s, Greater(l, m)))

BoundedPair(c, v, w) ==
  /\ Lesser(Level(c, v), Level(c, w)) <= Standing(c)
  /\ 2 * (guesses[c] + Comparing(c, v) + Comparing(c, w))
       + Left(Level(c, v), Level(c, w), Standing(c)) <= MAX_ATTEMPTS * (MAX_ATTEMPTS + 3)

BoundedAlone(c, v) ==
  Level(c, v) <= Standing(c) /\ guesses[c] + Comparing(c, v) <= Level(c, v)

(* A request holds a code that was sent and a count that makes sense for what it *)
(* is about to do; nothing was guessed at a code before it was sent.             *)
RecordsMakeSense ==
  /\ otp.attempts <= MAX_ATTEMPTS /\ otp.code <= sent
  /\ otp = NoRecord \/ otp.code # 0
  /\ \A v \in Verifiers : guess[v].at # "idle" =>
       /\ guess[v].record \in Record /\ guess[v].record.code \in 1..sent
       /\ guess[v].record.attempts <= MAX_ATTEMPTS
       /\ guess[v].at = "counts" => guess[v].record.attempts < MAX_ATTEMPTS
       /\ guess[v].at = "compares" => ~guess[v].record.verified
       /\ guess[v].at = "counts" => ~guess[v].record.verified
       /\ guess[v].at = "verifies" => guess[v].record.verified
  /\ \A c \in 1..MaxSent : c > sent => guesses[c] = 0

PhoneInv ==
  /\ PhoneCodesTypeOK /\ RecordsMakeSense
  /\ \A c \in 1..MaxSent, v, w \in Verifiers :
       IF v = w THEN Verifiers = {v} => BoundedAlone(c, v) ELSE BoundedPair(c, v, w)

----------------------------------------------------------------------------
(* Arithmetic. *)

LEMMA TwiceGrows ==
  /\ \A k \in Nat : Twice(k) \in Nat /\ Twice(k + 1) = Twice(k) + 2 * (k + 1)
  /\ \A j, k \in Nat : j <= k => Twice(j) <= Twice(k)
<1>1. ASSUME NEW k \in Nat PROVE Twice(k) \in Nat /\ Twice(k + 1) = Twice(k) + 2 * (k + 1)
  BY DEF Twice
<1>2. ASSUME NEW j \in Nat, NEW k \in Nat, j <= k PROVE Twice(j) <= Twice(k)
  <2>1. PICK d \in Nat : k = j + d
    <3>1. k - j \in Nat /\ k = j + (k - j)
      BY <1>2
    <3>2. QED
      BY <3>1
  <2>2. (j + d) * (j + d + 1) = j * (j + 1) + (2 * (j * d) + d * d + d)
    OBVIOUS
  <2>3. j * d \in Nat /\ d * d \in Nat /\ j * (j + 1) \in Nat
    OBVIOUS
  <2>4. QED
    BY <2>1, <2>2, <2>3 DEF Twice
<1>3. QED
  BY <1>1, <1>2

Range0 == 0 .. MAX_ATTEMPTS

LEMMA TwiceOfRest == \A l \in Range0 : Twice(MAX_ATTEMPTS - l) \in Nat
<1>1. \A l \in Range0 : MAX_ATTEMPTS - l \in Nat
  BY PhoneCodesAssumption DEF Range0
<1>2. QED
  BY <1>1, TwiceGrows

LEMMA AtTheStart == Left(0, 0, 0) = MAX_ATTEMPTS * (MAX_ATTEMPTS + 3)
BY PhoneCodesAssumption DEF Left, Lesser, Greater, Twice

(* A step that guesses nothing leaves no more than there was. *)
LEMMA QuietLeaves ==
  ASSUME NEW s \in Range0, NEW l \in Range0, NEW m \in Range0,
         NEW s1 \in {s, MAX_ATTEMPTS}, NEW l1 \in {l, s1},
         NEW m1 \in Range0, m1 = m \/ (m = s /\ m1 = s1), Lesser(l, m) <= s
  PROVE  Lesser(l1, m1) <= s1 /\ Left(l1, m1, s1) <= Left(l, m, s)
<1>1. /\ Lesser(l, m) \in Range0 /\ Lesser(l1, m1) \in Range0
      /\ Lesser(l1, m1) >= Lesser(l, m) /\ Lesser(l1, m1) <= s1
      /\ Lesser(s, Greater(l, m)) \in Range0 /\ Lesser(s1, Greater(l1, m1)) \in Range0
      /\ Lesser(s1, Greater(l1, m1)) >= Lesser(s, Greater(l, m))
  BY PhoneCodesAssumption DEF Range0, Lesser, Greater
<1>2. Twice(MAX_ATTEMPTS - Lesser(l1, m1)) <= Twice(MAX_ATTEMPTS - Lesser(l, m))
  BY <1>1, TwiceGrows, PhoneCodesAssumption DEF Range0
<1>3. /\ Twice(MAX_ATTEMPTS - Lesser(l1, m1)) \in Nat /\ Twice(MAX_ATTEMPTS - Lesser(l, m)) \in Nat
  BY <1>1, TwiceOfRest
<1> HIDE DEF Range0
<1>4. QED
  BY <1>1, <1>2, <1>3, PhoneCodesAssumption DEF Left, Range0

(* A guess takes its own share at least. *)
LEMMA CountingLeaves ==
  ASSUME NEW s \in Range0, NEW l \in Range0, NEW m \in Range0, l < MAX_ATTEMPTS,
         NEW m1 \in Range0, m1 = m \/ (m = s /\ m1 = l + 1), Lesser(l, m) <= s
  PROVE  Lesser(l + 1, m1) <= l + 1 /\ Left(l + 1, m1, l + 1) + 2 <= Left(l, m, s)
<1> DEFINE M == MAX_ATTEMPTS
<1>1. Lesser(l + 1, Greater(l + 1, m1)) = l + 1 /\ Lesser(l + 1, m1) <= l + 1
  BY PhoneCodesAssumption DEF Range0, Lesser, Greater
<1>2. /\ Lesser(l, m) \in Range0 /\ Lesser(s, Greater(l, m)) \in Range0
      /\ Lesser(l + 1, m1) \in Range0
  BY PhoneCodesAssumption DEF Range0, Lesser, Greater
<1>3. /\ Twice(M - Lesser(l + 1, m1)) \in Nat /\ Twice(M - Lesser(l, m)) \in Nat
      /\ Twice(M - l - 1) \in Nat
  <2>1. M - l - 1 \in Nat
    BY PhoneCodesAssumption DEF Range0
  <2>2. QED
    BY <1>2, <2>1, TwiceOfRest, TwiceGrows
<1>4. Twice(M - l) = Twice(M - l - 1) + 2 * (M - l)
  <2>1. M - l - 1 \in Nat /\ (M - l - 1) + 1 = M - l
    BY PhoneCodesAssumption DEF Range0
  <2>2. QED
    BY <2>1, TwiceGrows
<1>5. CASE m1 = m /\ m <= l
  <2>1. Lesser(l + 1, m1) = m /\ Lesser(l, m) = m /\ Lesser(s, Greater(l, m)) <= l
    BY <1>5 DEF Range0, Lesser, Greater
  <2>2. QED
    BY <1>1, <1>2, <1>3, <2>1, PhoneCodesAssumption DEF Left, Range0
<1>6. CASE m1 # m \/ m > l
  <2>1. Lesser(l + 1, m1) = l + 1 /\ Lesser(l, m) <= l
    BY <1>6 DEF Range0, Lesser
  <2>2. Twice(M - l) <= Twice(M - Lesser(l, m))
    BY <1>2, <2>1, TwiceGrows, PhoneCodesAssumption DEF Range0
  <2>3. QED
    BY <1>1, <1>2, <1>3, <1>4, <2>1, <2>2, PhoneCodesAssumption DEF Left, Range0
<1>7. QED
  BY <1>5, <1>6 DEF Range0

----------------------------------------------------------------------------
(* Records and requests. *)

Sense == PhoneCodesTypeOK /\ RecordsMakeSense

LEMMA GuessFields ==
  ASSUME Sense, NEW v \in Verifiers
  PROVE  /\ guess[v].at \in {"idle", "deletes", "counts", "compares", "verifies"}
         /\ guess[v].at # "idle" => guess[v].record \in Record
         /\ guess[v].at # "idle" => guess[v].record.code \in 1..sent
         /\ guess[v].at # "idle" => guess[v].record.attempts \in Range0
         /\ guess[v].at = "counts" => guess[v].record.attempts < MAX_ATTEMPTS
<1>1. guess[v] \in Guess
  BY DEF Sense, PhoneCodesTypeOK
<1>2. CASE guess[v] \in [at : {"idle"}]
  BY <1>2
<1>3. CASE guess[v] \in [at : {"deletes", "counts", "compares", "verifies"}, record : Record]
  <2>1. guess[v].at # "idle" /\ guess[v].record \in Record
    BY <1>3
  <2>2. guess[v].record.attempts \in Nat
    BY <2>1 DEF Record
  <2>3. QED
    BY <1>3, <2>1, <2>2 DEF Sense, RecordsMakeSense, Range0
<1>4. QED
  BY <1>1, <1>2, <1>3 DEF Guess

LevelsFit ==
  \A c \in 1..MaxSent, v \in Verifiers :
    /\ Standing(c) \in Range0 /\ Level(c, v) \in Range0
    /\ Comparing(c, v) \in {0, 1} /\ guesses[c] \in Nat

LEMMA LevelsInRange == Sense => LevelsFit
<1> SUFFICES ASSUME Sense, NEW c \in 1..MaxSent, NEW v \in Verifiers
             PROVE  /\ Standing(c) \in Range0 /\ Level(c, v) \in Range0
                    /\ Comparing(c, v) \in {0, 1} /\ guesses[c] \in Nat
  BY DEF LevelsFit
<1>1. Standing(c) \in Range0
  BY PhoneCodesAssumption DEF Sense, PhoneCodesTypeOK, RecordsMakeSense, Record, Standing, Range0
<1>2. Level(c, v) \in Range0
  BY <1>1, GuessFields DEF Level, Holds
<1>3. QED
  BY <1>1, <1>2 DEF Sense, PhoneCodesTypeOK, Comparing

LEMMA LevelsInRangeNext == Sense' => LevelsFit'
BY LevelsInRange, PTL

LEMMA TurnsEffect ==
  ASSUME Sense, NEW v \in Verifiers, NEW r, Turns(v, r)
  PROVE  guess'[v] = r /\ \A w \in Verifiers : w # v => guess'[w] = guess[w]
BY DEF Sense, PhoneCodesTypeOK, Turns

LEMMA PhoneInitially == PhoneCodesInit => PhoneInv
<1> SUFFICES ASSUME PhoneCodesInit PROVE PhoneInv
  OBVIOUS
<1>1. PhoneCodesTypeOK
  BY PhoneCodesAssumption DEF PhoneCodesInit, PhoneCodesTypeOK, NoRecord, Record, Guess
<1>2. RecordsMakeSense
  BY PhoneCodesAssumption DEF PhoneCodesInit, RecordsMakeSense, NoRecord
<1>3. ASSUME NEW c \in 1..MaxSent, NEW v \in Verifiers
      PROVE  /\ Standing(c) = MAX_ATTEMPTS /\ Level(c, v) = MAX_ATTEMPTS
             /\ Comparing(c, v) = 0 /\ guesses[c] = 0
  BY DEF PhoneCodesInit, Standing, Level, Holds, Comparing, NoRecord
<1>4. Left(MAX_ATTEMPTS, MAX_ATTEMPTS, MAX_ATTEMPTS) = 0
  BY PhoneCodesAssumption DEF Left, Lesser, Greater, Twice
<1>5. MAX_ATTEMPTS * (MAX_ATTEMPTS + 3) >= 0
  BY PhoneCodesAssumption
<1>6. \A c \in 1..MaxSent, v, w \in Verifiers : BoundedPair(c, v, w) /\ BoundedAlone(c, v)
  BY <1>3, <1>4, <1>5, PhoneCodesAssumption DEF BoundedPair, BoundedAlone, Lesser
<1>7. QED
  BY <1>1, <1>2, <1>6 DEF PhoneInv

(* Requests keep codes that were sent and counts that make sense.               *)
LEMMA RecordsKeepSense ==
  ASSUME Sense, NEW v \in Verifiers, VerifierStep(v) PROVE Sense'
<1> DEFINE Tells(r) == /\ r \in Guess
                       /\ r.at # "idle" =>
                            /\ r.record \in Record /\ r.record.code \in 1..sent
                            /\ r.record.attempts <= MAX_ATTEMPTS
                            /\ r.at = "counts" => r.record.attempts < MAX_ATTEMPTS
                            /\ r.at = "compares" => ~r.record.verified
                            /\ r.at = "counts" => ~r.record.verified
                            /\ r.at = "verifies" => r.record.verified
<1>1. ASSUME NEW r, Turns(v, r), Tells(r), sent' = sent,
             otp' \in Record, otp'.attempts <= MAX_ATTEMPTS, otp'.code <= sent,
             otp' = NoRecord \/ otp'.code # 0,
             guesses' \in [1..MaxSent -> Nat],
             \A c \in 1..MaxSent : c > sent => guesses'[c] = guesses[c]
      PROVE  Sense'
  <2>1. guess'[v] = r /\ \A w \in Verifiers : w # v => guess'[w] = guess[w]
    BY <1>1, TurnsEffect
  <2>2. guess' \in [Verifiers -> Guess]
    BY <1>1 DEF Turns, Sense, PhoneCodesTypeOK
  <2>3. PhoneCodesTypeOK'
    BY <1>1, <2>2 DEF Sense, PhoneCodesTypeOK
  <2>4. \A w \in Verifiers : Tells(guess[w])
    BY DEF Sense, PhoneCodesTypeOK, RecordsMakeSense
  <2>5. \A w \in Verifiers : Tells(guess'[w])
    BY <1>1, <2>1, <2>4
  <2> HIDE DEF Tells
  <2>6. RecordsMakeSense'
    BY <1>1, <2>5 DEF Sense, RecordsMakeSense, Tells
  <2>7. QED
    BY <2>3, <2>6 DEF Sense
<1>2. Tells([at |-> "idle"])
  BY DEF Guess
<1>3. /\ otp = NoRecord \/ otp.code # 0
      /\ otp \in Record /\ otp.attempts <= MAX_ATTEMPTS /\ otp.code <= sent
      /\ NoRecord \in Record /\ NoRecord.attempts <= MAX_ATTEMPTS /\ NoRecord.code <= sent
      /\ guesses \in [1..MaxSent -> Nat] /\ sent \in 0..MaxSent
  BY PhoneCodesAssumption DEF Sense, PhoneCodesTypeOK, RecordsMakeSense, NoRecord, Record
<1>4. guess[v].at # "idle" =>
        /\ guess[v].record \in Record /\ guess[v].record.code \in 1..sent
        /\ guess[v].record.attempts \in Nat /\ guess[v].record.attempts <= MAX_ATTEMPTS
        /\ guess[v].at = "counts" => guess[v].record.attempts < MAX_ATTEMPTS
        /\ guess[v].at = "compares" => ~guess[v].record.verified
        /\ guess[v].at = "counts" => ~guess[v].record.verified
  BY GuessFields DEF Sense, RecordsMakeSense, Range0
<1>5. CASE ReadsOtp(v)
  <2> DEFINE r == [at |-> IF otp.attempts >= MAX_ATTEMPTS THEN "deletes" ELSE "counts",
                   record |-> otp]
  <2>1. otp.code \in 1..sent /\ otp.attempts \in Nat
    BY <1>3, <1>5 DEF ReadsOtp, Record
  <2>2. Tells(r)
    BY <1>3, <1>5, <2>1, PhoneCodesAssumption DEF ReadsOtp, Guess
  <2>3. Turns(v, r) /\ sent' = sent /\ otp' = otp /\ guesses' = guesses
    BY <1>5 DEF ReadsOtp
  <2> HIDE DEF Tells, r
  <2>4. QED
    BY <1>1, <1>3, <2>2, <2>3
<1>6. CASE DeletesOtp(v)
  BY <1>1, <1>2, <1>3, <1>6 DEF DeletesOtp
<1>7. CASE CountsGuess(v)
  <2> DEFINE rec == Counted(guess[v].record)
             r == [at |-> "compares", record |-> rec]
  <2>1. guess[v].at = "counts" /\ Turns(v, r) /\ otp' = rec /\ sent' = sent /\ guesses' = guesses
    BY <1>7 DEF CountsGuess
  <2>2. /\ rec \in Record /\ rec.code = guess[v].record.code
        /\ rec.attempts = guess[v].record.attempts + 1 /\ rec.verified = guess[v].record.verified
    BY <1>4, <2>1 DEF Counted, Record
  <2>3. /\ rec.code \in 1..sent /\ rec.code <= sent /\ rec.attempts <= MAX_ATTEMPTS
        /\ ~rec.verified
    BY <1>3, <1>4, <2>1, <2>2, PhoneCodesAssumption
  <2> HIDE DEF rec
  <2>4. Tells(r)
    BY <2>2, <2>3 DEF Guess
  <2> HIDE DEF Tells, r
  <2>5. QED
    BY <1>1, <1>3, <2>1, <2>2, <2>3, <2>4
<1>8. CASE Compares(v)
  <2> DEFINE rec == guess[v].record
             right == [rec EXCEPT !.verified = TRUE]
             r == [at |-> "verifies", record |-> right]
  <2>1. /\ guess[v].at = "compares" /\ guesses' = [guesses EXCEPT ![rec.code] = @ + 1]
        /\ Turns(v, r) \/ Turns(v, [at |-> "idle"])
        /\ sent' = sent /\ otp' = otp
    BY <1>8 DEF Compares
  <2>2. /\ right \in Record /\ right.code = rec.code
        /\ right.attempts = rec.attempts /\ right.verified = TRUE
    BY <1>4, <2>1 DEF Record
  <2>3. rec.code \in 1..sent /\ rec.attempts <= MAX_ATTEMPTS
    BY <1>4, <2>1
  <2>4. guesses' \in [1..MaxSent -> Nat] /\ \A c \in 1..MaxSent : c > sent => guesses'[c] = guesses[c]
    <3>1. rec.code \in 1..MaxSent /\ guesses[rec.code] + 1 \in Nat /\ ~(rec.code > sent)
      BY <1>3, <2>3, PhoneCodesAssumption
    <3> HIDE DEF rec
    <3>2. QED
      BY <1>3, <2>1, <3>1
  <2> HIDE DEF right
  <2>5. Tells(r)
    BY <2>2, <2>3 DEF Guess
  <2> HIDE DEF Tells, r, rec
  <2>6. QED
    BY <1>1, <1>2, <1>3, <2>1, <2>4, <2>5
<1>9. CASE MarksVerified(v)
  BY <1>1, <1>2, <1>3, <1>4, <1>9 DEF MarksVerified
<1>10. CASE VerifierDies(v)
  BY <1>1, <1>2, <1>3, <1>10 DEF VerifierDies
<1>11. QED
  BY <1>5, <1>6, <1>7, <1>8, <1>9, <1>10 DEF VerifierStep

----------------------------------------------------------------------------
(* What a step does to one code. *)

(* Nothing is guessed at c; its count stands or is gone, and x keeps the level   *)
(* it was at or falls back on what stands.                                     *)
Quiet(c, x) ==
  /\ Standing(c)' \in {Standing(c), MAX_ATTEMPTS}
  /\ Level(c, x)' \in {Level(c, x), Standing(c)'}
  /\ guesses'[c] + Comparing(c, x)' <= guesses[c] + Comparing(c, x)

(* x counts a guess at c, on top of the count it has read. *)
Counts(c, x) ==
  /\ Level(c, x) < MAX_ATTEMPTS
  /\ Standing(c)' = Level(c, x) + 1 /\ Level(c, x)' = Level(c, x) + 1
  /\ guesses'[c] + Comparing(c, x)' = guesses[c] + Comparing(c, x) + 1

(* y does nothing: it holds on to its level or has the standing one.             *)
Aside(c, y) ==
  /\ \/ Level(c, y)' = Level(c, y)
     \/ Level(c, y) = Standing(c) /\ Level(c, y)' = Standing(c)'
  /\ Comparing(c, y)' = Comparing(c, y)

LEMMA AsideEffect ==
  ASSUME NEW c, NEW y, guess'[y] = guess[y] PROVE Aside(c, y)
BY DEF Aside, Level, Holds, Comparing

LEMMA StepAtCode ==
  ASSUME Sense, NEW c \in 1..MaxSent, NEW x \in Verifiers, VerifierStep(x)
  PROVE  Quiet(c, x) \/ Counts(c, x)
<1>1. /\ guesses[c] \in Nat /\ Standing(c) \in Range0
      /\ guesses \in [1..MaxSent -> Nat] /\ otp \in Record
  BY LevelsInRange DEF LevelsFit, Sense, PhoneCodesTypeOK
<1>2. CASE ReadsOtp(x)
  <2>1. /\ guess[x].at = "idle" /\ ~otp.verified /\ otp' = otp /\ guesses' = guesses
        /\ guess'[x].at \in {"deletes", "counts"} /\ guess'[x].record = otp
    BY <1>2, TurnsEffect DEF ReadsOtp
  <2>2. Standing(c)' = Standing(c) /\ Level(c, x)' = Standing(c) /\ Level(c, x) = Standing(c)
    BY <2>1 DEF Standing, Level, Holds
  <2>3. Comparing(c, x)' = 0 /\ Comparing(c, x) = 0
    BY <2>1 DEF Comparing
  <2>4. QED
    BY <1>1, <2>1, <2>2, <2>3 DEF Quiet
<1>3. CASE DeletesOtp(x)
  <2>1. /\ guess[x].at = "deletes" /\ otp' = NoRecord /\ guesses' = guesses
        /\ guess'[x].at = "idle"
    BY <1>3, TurnsEffect DEF DeletesOtp
  <2>2. Standing(c)' = MAX_ATTEMPTS /\ Level(c, x)' = MAX_ATTEMPTS
    BY <2>1 DEF Standing, Level, Holds, NoRecord
  <2>3. Comparing(c, x)' = 0 /\ Comparing(c, x) = 0
    BY <2>1 DEF Comparing
  <2>4. QED
    BY <1>1, <2>1, <2>2, <2>3 DEF Quiet
<1>4. CASE CountsGuess(x)
  <2> DEFINE rec == Counted(guess[x].record)
  <2>1. /\ guess[x].at = "counts" /\ otp' = rec /\ guesses' = guesses
        /\ guess'[x].at = "compares" /\ guess'[x].record = rec
    BY <1>4, TurnsEffect DEF CountsGuess
  <2>2. /\ guess[x].record \in Record /\ guess[x].record.attempts < MAX_ATTEMPTS
        /\ guess[x].record.attempts \in Range0 /\ ~guess[x].record.verified
    BY <2>1, GuessFields DEF Sense, RecordsMakeSense
  <2>3. /\ rec.code = guess[x].record.code /\ rec.attempts = guess[x].record.attempts + 1
        /\ rec.verified = guess[x].record.verified
    BY <2>2 DEF Counted, Record
  <2> HIDE DEF rec
  <2>4. CASE guess[x].record.code = c
    <3>1. Level(c, x) = guess[x].record.attempts
      BY <2>1, <2>4 DEF Level, Holds
    <3>2. Standing(c)' = rec.attempts /\ Level(c, x)' = rec.attempts
      BY <2>1, <2>2, <2>3, <2>4 DEF Standing, Level, Holds
    <3>3. Comparing(c, x)' = 1 /\ Comparing(c, x) = 0
      BY <2>1, <2>3, <2>4 DEF Comparing
    <3>4. QED
      BY <1>1, <2>1, <2>2, <2>3, <3>1, <3>2, <3>3 DEF Counts
  <2>5. CASE guess[x].record.code # c
    <3>1. Standing(c)' = MAX_ATTEMPTS /\ Level(c, x)' = MAX_ATTEMPTS
      BY <2>1, <2>3, <2>5 DEF Standing, Level, Holds
    <3>2. Comparing(c, x)' = 0 /\ Comparing(c, x) = 0
      BY <2>1, <2>3, <2>5 DEF Comparing
    <3>3. QED
      BY <1>1, <2>1, <3>1, <3>2 DEF Quiet
  <2>6. QED
    BY <2>4, <2>5
<1>5. CASE Compares(x)
  <2>1. /\ guess[x].at = "compares" /\ otp' = otp
        /\ guesses' = [guesses EXCEPT ![guess[x].record.code] = @ + 1]
        /\ guess'[x].at \in {"verifies", "idle"}
    BY <1>5, TurnsEffect DEF Compares
  <2>2. Standing(c)' = Standing(c) /\ Level(c, x)' = Standing(c) /\ Level(c, x) = Standing(c)
    BY <2>1 DEF Standing, Level, Holds
  <2>3. guesses'[c] + Comparing(c, x)' = guesses[c] + Comparing(c, x)
    BY <1>1, <2>1 DEF Comparing
  <2>4. QED
    BY <1>1, <2>2, <2>3, LevelsInRange DEF LevelsFit, Quiet
<1>6. CASE MarksVerified(x)
  <2>1. /\ guess[x].at = "verifies" /\ otp' = guess[x].record /\ guesses' = guesses
        /\ guess'[x].at = "idle"
    BY <1>6, TurnsEffect DEF MarksVerified
  <2>2. otp'.verified
    BY <2>1 DEF Sense, RecordsMakeSense
  <2>3. Standing(c)' = MAX_ATTEMPTS /\ Level(c, x)' = MAX_ATTEMPTS
    BY <2>1, <2>2 DEF Standing, Level, Holds
  <2>4. Comparing(c, x)' = 0 /\ Comparing(c, x) = 0
    BY <2>1 DEF Comparing
  <2>5. QED
    BY <1>1, <2>1, <2>3, <2>4 DEF Quiet
<1>7. CASE VerifierDies(x)
  <2>1. otp' = otp /\ guesses' = guesses /\ guess'[x].at = "idle"
    BY <1>7, TurnsEffect DEF VerifierDies
  <2>2. Standing(c)' = Standing(c) /\ Level(c, x)' = Standing(c)'
    BY <2>1 DEF Standing, Level, Holds
  <2>3. Comparing(c, x)' = 0 /\ Comparing(c, x) \in {0, 1}
    BY <2>1 DEF Comparing
  <2>4. QED
    BY <1>1, <2>1, <2>2, <2>3 DEF Quiet
<1>8. QED
  BY <1>2, <1>3, <1>4, <1>5, <1>6, <1>7 DEF VerifierStep

(* A code lapses, or another takes its place: every caller is quiet.              *)
LEMMA RecordGoes ==
  ASSUME Sense, NEW c \in 1..MaxSent, NEW x \in Verifiers,
         OtpLapses \/ (SendsOtp /\ c # sent + 1)
  PROVE  Quiet(c, x) /\ Aside(c, x)
<1>1. /\ guess' = guess /\ guesses' = guesses /\ otp'.code # c
      /\ guesses[c] \in Nat /\ Comparing(c, x) \in {0, 1}
  BY LevelsInRange DEF LevelsFit, OtpLapses, SendsOtp, NoRecord
<1>2. Standing(c)' = MAX_ATTEMPTS
  BY <1>1 DEF Standing
<1>3. Level(c, x)' \in {Level(c, x), Standing(c)'} /\ Comparing(c, x)' = Comparing(c, x)
  BY <1>1 DEF Level, Holds, Comparing
<1>4. Aside(c, x)
  BY <1>1, AsideEffect
<1>5. QED
  BY <1>1, <1>2, <1>3, <1>4 DEF Quiet

LEMMA CodeStarts ==
  ASSUME Sense, SendsOtp, NEW c \in 1..MaxSent, c = sent + 1, NEW x \in Verifiers
  PROVE  /\ Standing(c)' = 0 /\ Level(c, x)' = 0
         /\ Comparing(c, x)' = 0 /\ guesses'[c] = 0
<1>1. /\ otp'.code = c /\ otp'.attempts = 0 /\ ~otp'.verified
      /\ guess' = guess /\ guesses' = guesses /\ c > sent
      /\ sent \in Nat
  BY PhoneCodesAssumption DEF Sense, PhoneCodesTypeOK, SendsOtp
<1>2. guess[x].at # "idle" => guess[x].record.code # c
  BY <1>1 DEF Sense, RecordsMakeSense
<1>3. guesses'[c] = 0
  BY <1>1 DEF Sense, RecordsMakeSense
<1>4. guess'[x].at # "idle" => guess'[x].record.code # c
  BY <1>1, <1>2
<1>5. Standing(c)' = 0
  BY <1>1 DEF Standing
<1>6. Level(c, x)' = 0 /\ Comparing(c, x)' = 0
  BY <1>4, <1>5 DEF Level, Holds, Comparing
<1>7. QED
  BY <1>3, <1>5, <1>6

----------------------------------------------------------------------------
PairsSymmetric ==
  \A c \in 1..MaxSent, v, w \in Verifiers : BoundedPair(c, v, w) => BoundedPair(c, w, v)

LEMMA PairSymmetric == Sense => PairsSymmetric
<1> SUFFICES ASSUME Sense, NEW c \in 1..MaxSent, NEW v \in Verifiers, NEW w \in Verifiers,
                    BoundedPair(c, v, w)
             PROVE  BoundedPair(c, w, v)
  BY DEF PairsSymmetric
<1>1. /\ Level(c, v) \in Range0 /\ Level(c, w) \in Range0 /\ guesses[c] \in Nat
      /\ Comparing(c, v) \in {0, 1} /\ Comparing(c, w) \in {0, 1}
  BY LevelsInRange DEF LevelsFit
<1>2. /\ Lesser(Level(c, v), Level(c, w)) = Lesser(Level(c, w), Level(c, v))
      /\ Greater(Level(c, v), Level(c, w)) = Greater(Level(c, w), Level(c, v))
  BY <1>1 DEF Lesser, Greater, Range0
<1>3. guesses[c] + Comparing(c, v) + Comparing(c, w) = guesses[c] + Comparing(c, w) + Comparing(c, v)
  BY <1>1
<1>4. QED
  BY <1>2, <1>3 DEF BoundedPair, Left

LEMMA PairSymmetricNext == Sense' => PairsSymmetric'
BY PairSymmetric, PTL

LEMMA LeftIsNat ==
  ASSUME NEW l \in Range0, NEW m \in Range0, NEW s \in Range0 PROVE Left(l, m, s) \in Nat
<1>1. Lesser(l, m) \in Range0 /\ Lesser(s, Greater(l, m)) \in Range0
  BY DEF Lesser, Greater
<1>2. Twice(MAX_ATTEMPTS - Lesser(l, m)) \in Nat
  BY <1>1, TwiceOfRest
<1>3. 2 * (MAX_ATTEMPTS - Lesser(s, Greater(l, m))) \in Nat
  BY <1>1, PhoneCodesAssumption DEF Range0
<1>4. QED
  BY <1>2, <1>3 DEF Left

LEMMA AloneStep ==
  ASSUME Sense, NEW c \in 1..MaxSent, NEW x \in Verifiers, BoundedAlone(c, x),
         Quiet(c, x) \/ Counts(c, x), Sense'
  PROVE  BoundedAlone(c, x)'
<1>1. /\ Level(c, x) \in Range0 /\ Standing(c) \in Range0
      /\ guesses[c] \in Nat /\ Comparing(c, x) \in {0, 1}
  BY LevelsInRange DEF LevelsFit
<1>2. /\ Level(c, x)' \in Range0 /\ Standing(c)' \in Range0
      /\ guesses'[c] \in Nat /\ Comparing(c, x)' \in {0, 1}
  BY LevelsInRangeNext DEF LevelsFit
<1>3. CASE Quiet(c, x)
  <2>1. Standing(c)' >= Standing(c)
    BY <1>1, <1>3, PhoneCodesAssumption DEF Quiet, Range0
  <2>2. Level(c, x)' >= Level(c, x) /\ Level(c, x)' <= Standing(c)'
    BY <1>1, <1>2, <1>3, <2>1 DEF Quiet, BoundedAlone, Range0
  <2>3. QED
    BY <1>1, <1>2, <1>3, <2>2 DEF Quiet, BoundedAlone, Range0
<1>4. CASE Counts(c, x)
  BY <1>1, <1>2, <1>4 DEF Counts, BoundedAlone, Range0
<1>5. QED
  BY <1>3, <1>4

LEMMA PairQuiet ==
  ASSUME Sense, Sense', NEW c \in 1..MaxSent, NEW x \in Verifiers, NEW y \in Verifiers,
         BoundedPair(c, x, y), Quiet(c, x), Aside(c, y)
  PROVE  BoundedPair(c, x, y)'
<1>1. /\ Level(c, x) \in Range0 /\ Level(c, y) \in Range0 /\ Standing(c) \in Range0
      /\ guesses[c] \in Nat /\ Comparing(c, x) \in {0, 1} /\ Comparing(c, y) \in {0, 1}
  BY LevelsInRange DEF LevelsFit
<1>2. /\ Level(c, x)' \in Range0 /\ Level(c, y)' \in Range0 /\ Standing(c)' \in Range0
      /\ guesses'[c] \in Nat /\ Comparing(c, x)' \in {0, 1} /\ Comparing(c, y)' \in {0, 1}
  BY LevelsInRangeNext DEF LevelsFit
<1>3. PICK s \in Range0, l \in Range0, m \in Range0, s1 \in Range0 :
        /\ s = Standing(c) /\ l = Level(c, x) /\ m = Level(c, y)
        /\ s1 = Standing(c)'
  BY <1>1, <1>2
<1>4. PICK l1 \in Range0, m1 \in Range0 : l1 = Level(c, x)' /\ m1 = Level(c, y)'
  BY <1>2
<1>5. /\ Lesser(l1, m1) <= s1 /\ Left(l1, m1, s1) <= Left(l, m, s)
  BY <1>3, <1>4, QuietLeaves DEF BoundedPair, Quiet, Aside
<1>6. Left(l1, m1, s1) \in Nat /\ Left(l, m, s) \in Nat
  BY LeftIsNat
<1>7. 2 * (guesses[c] + Comparing(c, x) + Comparing(c, y)) + Left(l, m, s)
        <= MAX_ATTEMPTS * (MAX_ATTEMPTS + 3)
  BY <1>3 DEF BoundedPair
<1>8. guesses'[c] + Comparing(c, x)' <= guesses[c] + Comparing(c, x) /\ Comparing(c, y)' = Comparing(c, y)
  BY DEF Quiet, Aside
<1>9. MAX_ATTEMPTS * (MAX_ATTEMPTS + 3) \in Nat
  BY PhoneCodesAssumption
<1>10. 2 * (guesses'[c] + Comparing(c, x)' + Comparing(c, y)') + Left(l1, m1, s1)
         <= MAX_ATTEMPTS * (MAX_ATTEMPTS + 3)
  BY <1>1, <1>2, <1>5, <1>6, <1>7, <1>8, <1>9
<1>11. QED
  BY <1>3, <1>4, <1>5, <1>10 DEF BoundedPair, Left, Lesser, Greater, Twice

LEMMA PairCounts ==
  ASSUME Sense, Sense', NEW c \in 1..MaxSent, NEW x \in Verifiers, NEW y \in Verifiers,
         BoundedPair(c, x, y), Counts(c, x), Aside(c, y)
  PROVE  BoundedPair(c, x, y)'
<1>1. /\ Level(c, x) \in Range0 /\ Level(c, y) \in Range0 /\ Standing(c) \in Range0
      /\ guesses[c] \in Nat /\ Comparing(c, x) \in {0, 1} /\ Comparing(c, y) \in {0, 1}
  BY LevelsInRange DEF LevelsFit
<1>2. /\ Level(c, x)' \in Range0 /\ Level(c, y)' \in Range0 /\ Standing(c)' \in Range0
      /\ guesses'[c] \in Nat /\ Comparing(c, x)' \in {0, 1} /\ Comparing(c, y)' \in {0, 1}
  BY LevelsInRangeNext DEF LevelsFit
<1>3. PICK s \in Range0, l \in Range0, m \in Range0 :
        s = Standing(c) /\ l = Level(c, x) /\ m = Level(c, y)
  BY <1>1
<1>4. PICK m1 \in Range0 : m1 = Level(c, y)'
  BY <1>2
<1>5. l + 1 = Level(c, x)' /\ l + 1 = Standing(c)' /\ l < MAX_ATTEMPTS /\ l + 1 \in Range0
  BY <1>2, <1>3 DEF Counts
<1>6. /\ Lesser(l + 1, m1) <= l + 1 /\ Left(l + 1, m1, l + 1) + 2 <= Left(l, m, s)
  BY <1>3, <1>4, <1>5, CountingLeaves DEF BoundedPair, Aside
<1>7. Left(l + 1, m1, l + 1) \in Nat /\ Left(l, m, s) \in Nat
  BY <1>5, LeftIsNat
<1>8. 2 * (guesses[c] + Comparing(c, x) + Comparing(c, y)) + Left(l, m, s)
        <= MAX_ATTEMPTS * (MAX_ATTEMPTS + 3)
  BY <1>3 DEF BoundedPair
<1>9. /\ guesses'[c] + Comparing(c, x)' = guesses[c] + Comparing(c, x) + 1
      /\ Comparing(c, y)' = Comparing(c, y)
  BY DEF Counts, Aside
<1>10. MAX_ATTEMPTS * (MAX_ATTEMPTS + 3) \in Nat
  BY PhoneCodesAssumption
<1>11. 2 * (guesses'[c] + Comparing(c, x)' + Comparing(c, y)') + Left(l + 1, m1, l + 1)
         <= MAX_ATTEMPTS * (MAX_ATTEMPTS + 3)
  BY <1>1, <1>2, <1>6, <1>7, <1>8, <1>9, <1>10
<1>12. QED
  BY <1>4, <1>5, <1>6, <1>11 DEF BoundedPair, Left, Lesser, Greater, Twice

(* One caller, or two. *)
TwoCallers == \E v, w \in Verifiers : Verifiers = {v, w}

LEMMA PhoneStep ==
  ASSUME TwoCallers, PhoneInv, [PhoneCodesNext]_phoneCodesVars PROVE PhoneInv'
<1>1. Sense
  BY DEF PhoneInv, Sense
<1> DEFINE Bound(c, v, w) ==
             IF v = w THEN Verifiers = {v} => BoundedAlone(c, v) ELSE BoundedPair(c, v, w)
<1>2. \A c \in 1..MaxSent, v, w \in Verifiers : Bound(c, v, w)
  BY DEF PhoneInv
<1>3. ASSUME Sense', NEW c \in 1..MaxSent,
             \A x \in Verifiers : Quiet(c, x) /\ Aside(c, x)
      PROVE  \A v, w \in Verifiers : Bound(c, v, w)'
  BY <1>1, <1>2, <1>3, AloneStep, PairQuiet
<1>4. CASE UNCHANGED phoneCodesVars
  <2>1. /\ PhoneCodesTypeOK' /\ RecordsMakeSense'
    BY <1>4 DEF PhoneInv, PhoneCodesTypeOK, RecordsMakeSense, phoneCodesVars
  <2>2. \A c \in 1..MaxSent, v \in Verifiers :
          Standing(c)' = Standing(c) /\ Level(c, v)' = Level(c, v) /\ Comparing(c, v)' = Comparing(c, v)
          /\ guesses'[c] = guesses[c]
    BY <1>4 DEF Standing, Level, Holds, Comparing, phoneCodesVars
  <2>3. \A c \in 1..MaxSent, v, w \in Verifiers : Bound(c, v, w)'
    BY <1>2, <2>2 DEF BoundedAlone, BoundedPair, Left, Lesser, Greater, Twice
  <2>4. QED
    BY <2>1, <2>3 DEF PhoneInv
<1>5. CASE SendsOtp
  <2>1. sent \in Nat /\ sent + 1 \in 1..MaxSent /\ sent' = sent + 1
    BY <1>1, <1>5, PhoneCodesAssumption DEF Sense, PhoneCodesTypeOK, SendsOtp
  <2>2. PhoneCodesTypeOK'
    BY <1>1, <1>5, <2>1, PhoneCodesAssumption DEF Sense, PhoneCodesTypeOK, SendsOtp, Record
  <2>3. RecordsMakeSense'
    <3>1. otp'.attempts <= MAX_ATTEMPTS /\ otp'.code <= sent' /\ otp'.code # 0
      BY <1>5, <2>1, PhoneCodesAssumption DEF SendsOtp
    <3>2. guess' = guess /\ guesses' = guesses /\ 1..sent \subseteq 1..sent'
      BY <1>5, <2>1 DEF SendsOtp
    <3>3. \A c \in 1..MaxSent : c > sent' => c > sent
      BY <2>1
    <3>4. QED
      BY <1>1, <3>1, <3>2, <3>3 DEF Sense, RecordsMakeSense
  <2>4. Sense'
    BY <2>2, <2>3 DEF Sense
  <2>5. ASSUME NEW c \in 1..MaxSent PROVE \A v, w \in Verifiers : Bound(c, v, w)'
    <3>1. CASE c # sent + 1
      BY <1>1, <1>3, <1>5, <2>4, <3>1, RecordGoes
    <3>2. CASE c = sent + 1
      <4>1. \A x \in Verifiers : /\ Standing(c)' = 0 /\ Level(c, x)' = 0
                                 /\ Comparing(c, x)' = 0 /\ guesses'[c] = 0
        BY <1>1, <1>5, <3>2, CodeStarts
      <4>2. ASSUME NEW v \in Verifiers, NEW w \in Verifiers
            PROVE  BoundedAlone(c, v)' /\ BoundedPair(c, v, w)'
        <5>1. /\ BoundedAlone(c, v)'
              /\ Lesser(Level(c, v), Level(c, w))' <= Standing(c)'
          BY <4>1 DEF BoundedAlone, Lesser
        <5>2. Left(Level(c, v), Level(c, w), Standing(c))' = Left(0, 0, 0)
          BY <4>1 DEF Left, Lesser, Greater, Twice
        <5>3. 2 * (guesses'[c] + Comparing(c, v)' + Comparing(c, w)') = 0
          BY <4>1
        <5>4. Left(0, 0, 0) \in Nat
          BY LeftIsNat, PhoneCodesAssumption DEF Range0
        <5>5. QED
          BY <5>1, <5>2, <5>3, <5>4, AtTheStart DEF BoundedPair
      <4>3. QED
        BY <4>2
    <3>3. QED
      BY <3>1, <3>2
  <2>6. QED
    BY <2>2, <2>3, <2>5 DEF PhoneInv
<1>6. CASE OtpLapses
  <2>1. PhoneCodesTypeOK' /\ RecordsMakeSense'
    BY <1>1, <1>6, PhoneCodesAssumption
    DEF Sense, PhoneCodesTypeOK, RecordsMakeSense, OtpLapses, NoRecord, Record
  <2>2. Sense'
    BY <2>1 DEF Sense
  <2>3. \A c \in 1..MaxSent : \A v, w \in Verifiers : Bound(c, v, w)'
    BY <1>1, <1>3, <1>6, <2>2, RecordGoes
  <2>4. QED
    BY <2>1, <2>3 DEF PhoneInv
<1>7. ASSUME NEW x \in Verifiers, VerifierStep(x) PROVE PhoneInv'
  <2>1. Sense'
    BY <1>1, <1>7, RecordsKeepSense
  <2>2. \A y \in Verifiers : y # x => guess'[y] = guess[y]
    BY <1>1, <1>7, TurnsEffect
    DEF VerifierStep, ReadsOtp, DeletesOtp, CountsGuess, Compares, MarksVerified, VerifierDies
  <2>3. ASSUME NEW c \in 1..MaxSent, NEW y \in Verifiers, y # x
        PROVE  BoundedPair(c, x, y)' /\ BoundedPair(c, y, x)'
    <3>1. BoundedPair(c, x, y)
      BY <1>2, <2>3
    <3>2. Aside(c, y)
      BY <2>2, <2>3, AsideEffect
    <3>3. Quiet(c, x) \/ Counts(c, x)
      BY <1>1, <1>7, StepAtCode
    <3>4. BoundedPair(c, x, y)'
      BY <1>1, <2>1, <3>1, <3>2, <3>3, PairQuiet, PairCounts
    <3>5. QED
      BY <2>1, <3>4, PairSymmetricNext DEF PairsSymmetric
  <2>4. ASSUME NEW c \in 1..MaxSent, Verifiers = {x} PROVE BoundedAlone(c, x)'
    BY <1>1, <1>2, <1>7, <2>1, <2>4, StepAtCode, AloneStep
  <2>5. ASSUME NEW c \in 1..MaxSent, NEW v \in Verifiers, NEW w \in Verifiers
        PROVE  Bound(c, v, w)'
    <3>1. v = x \/ w = x \/ v = w
      BY DEF TwoCallers
    <3>2. Verifiers = {v} => v = x
      OBVIOUS
    <3>3. QED
      BY <2>3, <2>4, <3>1, <3>2
  <2>6. QED
    BY <2>1, <2>5 DEF PhoneInv, Sense
<1>8. QED
  BY <1>4, <1>5, <1>6, <1>7 DEF PhoneCodesNext

(* However a caller and a second one who overlaps read, count, die and write     *)
(* over one another, the guesses at a code stay bounded.                         *)
THEOREM PhoneGuessesStayBounded ==
  ASSUME TwoCallers PROVE PhoneCodesSpec => []PhoneGuessesBounded
<1>1. PhoneInv => PhoneGuessesBounded
  <2> SUFFICES ASSUME PhoneInv, NEW c \in 1..MaxSent
               PROVE  guesses[c] <= IF Cardinality(Verifiers) = 1 THEN MAX_ATTEMPTS
                                    ELSE (MAX_ATTEMPTS * (MAX_ATTEMPTS + 3)) \div 2
    BY DEF PhoneGuessesBounded
  <2>1. Sense
    BY DEF PhoneInv, Sense
  <2>2. PICK v \in Verifiers, w \in Verifiers : Verifiers = {v, w}
    BY DEF TwoCallers
  <2>3. /\ Level(c, v) \in Range0 /\ Level(c, w) \in Range0 /\ Standing(c) \in Range0
        /\ Comparing(c, v) \in {0, 1} /\ Comparing(c, w) \in {0, 1} /\ guesses[c] \in Nat
    BY <2>1, LevelsInRange DEF LevelsFit
  <2>4. CASE v = w
    <3>1. Cardinality(Verifiers) = 1
      BY <2>2, <2>4, FS_Singleton
    <3>2. BoundedAlone(c, v)
      BY <2>2, <2>4 DEF PhoneInv
    <3>3. guesses[c] <= MAX_ATTEMPTS
      BY <2>3, <3>2, PhoneCodesAssumption DEF BoundedAlone, Range0
    <3>4. QED
      BY <3>1, <3>3
  <2>5. CASE v # w
    <3>1. Cardinality(Verifiers) # 1
      <4>1. \A x : Verifiers # {x}
        BY <2>2, <2>5
      <4>2. IsFiniteSet({v}) /\ Verifiers = {v} \cup {w}
        BY <2>2, FS_Singleton
      <4>3. IsFiniteSet(Verifiers)
        BY <4>2, FS_AddElement
      <4>4. QED
        BY <4>1, <4>3, FS_Singleton
    <3>2. BoundedPair(c, v, w)
      BY <2>5 DEF PhoneInv
    <3>3. Left(Level(c, v), Level(c, w), Standing(c)) \in Nat
      BY <2>3, LeftIsNat
    <3>4. PICK n \in Nat : n = MAX_ATTEMPTS * (MAX_ATTEMPTS + 3)
      BY PhoneCodesAssumption
    <3>5. 2 * guesses[c] <= n
      BY <2>3, <3>2, <3>3, <3>4 DEF BoundedPair
    <3>6. guesses[c] <= n \div 2
      BY <2>3, <3>5
    <3>7. QED
      BY <3>1, <3>4, <3>6
  <2>6. QED
    BY <2>4, <2>5
<1>2. PhoneInv /\ [PhoneCodesNext]_phoneCodesVars => PhoneInv'
  BY PhoneStep
<1>3. QED
  BY <1>1, <1>2, PhoneInitially, PTL DEF PhoneCodesSpec

=============================================================================
