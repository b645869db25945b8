------------------------------ MODULE Support ------------------------------
(* Support impersonation: PlatformSupportService.startImpersonation and        *)
(* endImpersonation, and JwtStrategy.validate, which checks the session on     *)
(* every request made with an impersonation token.                           *)
EXTENDS Naturals, Sequences, FiniteSets

CONSTANTS
  Agents,       \* platform users
  Owners,       \* those with the role PLATFORM_OWNER
  Tabs,         \* open requests, each one of an agent's
  AgentOf,      \* [Tabs -> Agents]
  Clients,      \* tenants
  CancelledClients,
  MaxSessions   \* bound on the rows of ImpersonationSession

ASSUME SupportAssumption ==
  /\ Owners \subseteq Agents /\ CancelledClients \subseteq Clients
  /\ AgentOf \in [Tabs -> Agents] /\ IsFiniteSet(Tabs)
  /\ MaxSessions \in Nat

VARIABLES
  session,   \* ImpersonationSession rows, in the order of creation
  target,    \* [Clients -> whether its default user is active]
  work       \* [Tabs -> what the request has got to]

supportVars == <<session, target, work>>

NoWork == [at |-> "idle"]
SessionRow == [actor : Agents, client : Clients, late : BOOLEAN,
               status : {"ACTIVE", "ENDED", "EXPIRED"}]

SupportInit ==
  /\ session = << >>
  /\ target = [c \in Clients |-> TRUE]
  /\ work = [b \in Tabs |-> NoWork]

ActiveOf(a) == {i \in DOMAIN session : session[i].actor = a /\ session[i].status = "ACTIVE"}
Newest(S) == {i \in S : \A j \in S : j <= i}

Does(b, r) == work' = [work EXCEPT ![b] = r]

----------------------------------------------------------------------------
ChecksTarget(b) ==
  LET a == AgentOf[b] IN
  /\ work[b].at = "idle"
  /\ \E c \in Clients : /\ c \in CancelledClients => a \in Owners
                        /\ target[c]
                        /\ Does(b, [at |-> "revokes", client |-> c])
  /\ UNCHANGED <<session, target>>

(* Mutant: only the actor's sessions with the same tenant are ended. *)
Revoked_SameTenant(a, c) == {i \in ActiveOf(a) : session[i].client = c}

(* endActiveSessionsForActor. *)
Revoked(a, c) == ActiveOf(a)

EndsOlderSessions(b) ==
  /\ work[b].at = "revokes"
  /\ session' = [i \in DOMAIN session |->
                   IF i \in Revoked(AgentOf[b], work[b].client)
                     THEN [session[i] EXCEPT !.status = "ENDED"] ELSE session[i]]
  /\ Does(b, [work[b] EXCEPT !.at = "creates"])
  /\ UNCHANGED target

CreatesSession(b) ==
  /\ work[b].at = "creates" /\ Len(session) < MaxSessions
  /\ session' = Append(session, [actor |-> AgentOf[b], client |-> work[b].client,
                                 late |-> FALSE, status |-> "ACTIVE"])
  /\ Does(b, NoWork)
  /\ UNCHANGED target

(* endImpersonation: a session by id, one's own unless an owner asks, or one's *)
(* newest active session.  One that is not active is left as it is.           *)
FindsSession(b) ==
  LET a == AgentOf[b] IN
  /\ work[b].at = "idle"
  /\ \E i \in {j \in DOMAIN session : session[j].actor = a \/ a \in Owners}
                \cup Newest(ActiveOf(a)) :
       /\ session[i].status = "ACTIVE"
       /\ Does(b, [at |-> "writes", i |-> i, status |-> "ENDED"])
  /\ UNCHANGED <<session, target>>

(* validate: an expired session is written EXPIRED, by id; the request is      *)
(* refused.  A request of a session in good order goes on and changes nothing. *)
FindsExpired(b) ==
  /\ work[b].at = "idle"
  /\ \E i \in DOMAIN session :
       /\ session[i].actor = AgentOf[b] /\ target[session[i].client]
       /\ session[i].status = "ACTIVE" /\ session[i].late
       /\ Does(b, [at |-> "writes", i |-> i, status |-> "EXPIRED"])
  /\ UNCHANGED <<session, target>>

ClosesSession(b) ==
  LET w == work[b] IN
  /\ w.at = "writes"
  /\ session' = [session EXCEPT ![w.i].status = w.status]
  /\ Does(b, NoWork)
  /\ UNCHANGED target

RequestDies(b) ==
  /\ work[b].at # "idle"
  /\ Does(b, NoWork)
  /\ UNCHANGED <<session, target>>

(* expiresAt passes. *)
TimePasses ==
  /\ \E i \in DOMAIN session : /\ ~session[i].late
                               /\ session' = [session EXCEPT ![i].late = TRUE]
  /\ UNCHANGED <<target, work>>

RemovesTarget ==
  /\ \E c \in Clients : target[c] /\ target' = [target EXCEPT ![c] = FALSE]
  /\ UNCHANGED <<session, work>>

AgentStep(b) ==
  \/ ChecksTarget(b) \/ EndsOlderSessions(b) \/ CreatesSession(b)
  \/ FindsSession(b) \/ FindsExpired(b) \/ ClosesSession(b)
  \/ RequestDies(b)

SupportNext ==
  \/ \E b \in Tabs : AgentStep(b)
  \/ TimePasses \/ RemovesTarget

SupportSpec == SupportInit /\ [][SupportNext]_supportVars

----------------------------------------------------------------------------
Work ==
  {NoWork} \cup [at : {"revokes", "creates"}, client : Clients]
    \cup [at : {"writes"}, i : DOMAIN session, status : {"ENDED", "EXPIRED"}]

SupportTypeOK ==
  /\ session \in Seq(SessionRow)
  /\ target \in [Clients -> BOOLEAN]
  /\ work \in [Tabs -> Work]

(* A token switches the agent's scope: the older sessions are ended before the *)
(* new one is made.  Starts that overlap can leave one session each, and no    *)
(* more: an agent's active sessions never outnumber its open requests.        *)
ActiveSessionsBounded ==
  \A a \in Agents : Cardinality(ActiveOf(a)) <= Cardinality({b \in Tabs : AgentOf[b] = a})

=============================================================================
