------------------------------ MODULE Realtime ------------------------------
(***************************************************************************)
(* The WebSocket event buffer: listeners broadcast a domain event to its   *)
(* rooms and append it to the Redis buffer of each room; clients connect,  *)
(* join the rooms of their role, follow shipments and ask for the events   *)
(* they missed.                                                            *)
(*                                                                         *)
(* An entry of a buffer is named by its publication: a room holds at most  *)
(* one entry of each.  The client is not in the repository: it may name    *)
(* any entry as the last one it saw, or none.                              *)
(***************************************************************************)
EXTENDS Integers, FiniteSets, Sequences, SequencesExt

CONSTANTS
  Publications,          \* domain events with a listener
  RoomsOf,               \* [Publications -> sequences of rooms], in the listener's order
  Rooms,
  Clients,
  DefaultRooms,          \* [Clients -> sequences of rooms], by user, role, merchant, courier
  TrackingRooms,         \* the rooms of shipments, joined on demand
  Handlers,              \* listeners that may run at the same time
  MAX_EVENTS_PER_ROOM,
  Unknown,               \* an id no buffer holds
  MaxConnects            \* bound on the connections of each client

ASSUME RealtimeAssumption ==
  /\ RoomsOf \in [Publications -> Seq(Rooms)]
  /\ DefaultRooms \in [Clients -> Seq(Rooms)]
  \* an event goes to one room at least, each of another kind; a user has a room
  /\ \A p \in Publications : RoomsOf[p] # << >> /\ IsInjective(RoomsOf[p])
  /\ \A c \in Clients : DefaultRooms[c] # << >>
  /\ TrackingRooms \subseteq Rooms
  /\ \A c \in Clients : ToSet(DefaultRooms[c]) \cap TrackingRooms = {}
  /\ MAX_EVENTS_PER_ROOM \in Nat \ {0}
  /\ Unknown \notin Publications
  /\ MaxConnects \in Nat

VARIABLES
  buffer,      \* ws:events:<room>, << >> when the key is absent
  broadcast,   \* what was emitted to each room, in order
  unpublished, \* domain events yet to happen
  handler,     \* what each running listener does
  failed,      \* the entries whose listener failed before buffering them
  expired,     \* the rooms whose key has run out at least once
  replaced,    \* history: the rooms whose buffer a failing SET has cost its entries
  joined,      \* the rooms of each client; {} when it is not connected
  received,    \* [Clients -> SUBSET (Rooms \X Publications)]
  sync,        \* the 'sync:missed' request of each client
  caughtUp,    \* the rooms a client has replayed since it connected
  connects

vars == <<buffer, broadcast, unpublished, handler, failed, expired, replaced, joined,
          received, sync, caughtUp, connects>>

serverVars == <<buffer, broadcast, unpublished, handler, failed, expired, replaced>>
clientVars == <<joined, received, sync, caughtUp, connects>>

Idle == [at |-> "idle"]

Init ==
  /\ buffer = [r \in Rooms |-> << >>]
  /\ broadcast = [r \in Rooms |-> << >>]
  /\ unpublished = Publications
  /\ handler = [h \in Handlers |-> Idle]
  /\ failed = {}
  /\ expired = {}
  /\ replaced = {}
  /\ joined = [c \in Clients |-> {}]
  /\ received = [c \in Clients |-> {}]
  /\ sync = [c \in Clients |-> << >>]
  /\ caughtUp = [c \in Clients |-> {}]
  /\ connects = [c \in Clients |-> 0]

----------------------------------------------------------------------------
(* broadcastAndBuffer and bufferEvent                                        *)

Continue(h, at) == handler' = [handler EXCEPT ![h].at = at]

(* The listener goes on with its next room.                                  *)
NextRoom(h) ==
  handler' = [handler EXCEPT ![h] =
                IF Len(@.rooms) = 1 THEN Idle
                ELSE [at |-> "room", p |-> @.p, rooms |-> Tail(@.rooms), read |-> << >>]]

Publishes(h) ==
  /\ handler[h].at = "idle"
  /\ \E p \in unpublished :
       /\ unpublished' = unpublished \ {p}
       /\ handler' = [handler EXCEPT ![h] =
                        [at |-> "room", p |-> p, rooms |-> RoomsOf[p], read |-> << >>]]
  /\ UNCHANGED <<buffer, broadcast, failed, expired, replaced, clientVars>>

(* server.to(room).emit: only the sockets in the room get it.                *)
Broadcasts(h) ==
  LET p == handler[h].p
      r == Head(handler[h].rooms)
  IN
  /\ handler[h].at = "room"
  /\ broadcast' = [broadcast EXCEPT ![r] = Append(@, p)]
  /\ received' = [c \in Clients |-> IF r \in joined[c] THEN received[c] \cup {<<r, p>>}
                                                       ELSE received[c]]
  /\ Continue(h, "buffering")
  /\ UNCHANGED <<buffer, unpublished, failed, expired, replaced, joined, sync, caughtUp, connects>>

ChecksKey(h) ==
  /\ handler[h].at = "buffering"
  /\ Continue(h, IF buffer[Head(handler[h].rooms)] = << >> THEN "absent" ELSE "present")
  /\ UNCHANGED <<buffer, broadcast, unpublished, failed, expired, replaced, clientVars>>

CreatesBuffer(h) ==
  /\ handler[h].at = "absent"
  /\ buffer' = [buffer EXCEPT ![Head(handler[h].rooms)] = <<handler[h].p>>]
  /\ NextRoom(h)
  /\ UNCHANGED <<broadcast, unpublished, failed, expired, replaced, clientVars>>

(* A key that has run out since EXISTS is not created again.                 *)
ReadsBuffer(h) ==
  LET stored == buffer[Head(handler[h].rooms)] IN
  /\ handler[h].at = "present"
  /\ IF stored = << >>
       THEN NextRoom(h)
       ELSE handler' = [handler EXCEPT ![h] =
                          [at |-> "read", p |-> @.p, rooms |-> @.rooms, read |-> stored]]
  /\ UNCHANGED <<buffer, broadcast, unpublished, failed, expired, replaced, clientVars>>

(* Mutant: the newest entries are the ones cut off. *)
Trimmed_KeepsOldest(events) ==
  SubSeq(events, 1, IF Len(events) > MAX_EVENTS_PER_ROOM THEN MAX_EVENTS_PER_ROOM ELSE Len(events))

(* Mutant: the comparison lets one entry too many stay. *)
Trimmed_OneMore(events) ==
  IF Len(events) > MAX_EVENTS_PER_ROOM + 1
    THEN SubSeq(events, Len(events) - MAX_EVENTS_PER_ROOM, Len(events))
    ELSE events

(* splice(0, length - MAX)                                                   *)
Trimmed(events) ==
  IF Len(events) > MAX_EVENTS_PER_ROOM
    THEN SubSeq(events, Len(events) - MAX_EVENTS_PER_ROOM + 1, Len(events))
    ELSE events

WritesBuffer(h) ==
  /\ handler[h].at = "read"
  /\ buffer' = [buffer EXCEPT ![Head(handler[h].rooms)] =
                  Trimmed(Append(handler[h].read, handler[h].p))]
  /\ NextRoom(h)
  /\ UNCHANGED <<broadcast, unpublished, failed, expired, replaced, clientVars>>

(* A SET that fails falls into the catch, which stores the new entry alone.  *)
ReplacesBuffer(h) ==
  LET r == Head(handler[h].rooms) IN
  /\ handler[h].at = "read"
  /\ buffer' = [buffer EXCEPT ![r] = <<handler[h].p>>]
  /\ replaced' = replaced \cup {r}
  /\ NextRoom(h)
  /\ UNCHANGED <<broadcast, unpublished, failed, expired, clientVars>>

(* A Redis error that gets through, or the process dying: the remaining      *)
(* rooms get nothing.                                                        *)
HandlerFails(h) ==
  /\ handler[h].at \notin {"idle", "room"}
  /\ handler' = [handler EXCEPT ![h] = Idle]
  /\ failed' = failed \cup {<<Head(handler[h].rooms), handler[h].p>>}
  /\ UNCHANGED <<buffer, broadcast, unpublished, expired, replaced, clientVars>>

(* EVENT_BUFFER_TTL, a day after the last write of the room.                 *)
KeyExpires(r) ==
  /\ buffer[r] # << >>
  /\ r \notin expired
  /\ buffer' = [buffer EXCEPT ![r] = << >>]
  /\ expired' = expired \cup {r}
  /\ UNCHANGED <<broadcast, unpublished, handler, failed, replaced, clientVars>>

----------------------------------------------------------------------------
(* The gateway                                                               *)

(* handleConnection, for a token that is accepted.  The gateway joins one room    *)
(* after another, but its adapter keeps rooms in memory (@socket.io/redis-adapter  *)
(* is a dependency that nothing sets up): no I/O comes between the joins.         *)
Connects(c) ==
  /\ joined[c] = {}
  /\ connects[c] < MaxConnects
  /\ joined' = [joined EXCEPT ![c] = ToSet(DefaultRooms[c])]
  /\ connects' = [connects EXCEPT ![c] = @ + 1]
  /\ UNCHANGED <<serverVars, received, sync, caughtUp>>

Disconnects(c) ==
  /\ joined[c] # {}
  /\ joined' = [joined EXCEPT ![c] = {}]
  /\ sync' = [sync EXCEPT ![c] = << >>]
  /\ caughtUp' = [caughtUp EXCEPT ![c] = {}]
  /\ UNCHANGED <<serverVars, received, connects>>

TogglesTracking(c) ==
  /\ joined[c] # {}
  /\ \E r \in TrackingRooms :
       joined' = [joined EXCEPT ![c] = IF r \in @ THEN @ \ {r} ELSE @ \cup {r}]
  /\ UNCHANGED <<serverVars, received, sync, caughtUp, connects>>

(* sync:missed goes through the default rooms, whatever rooms it names.      *)
AsksForMissed(c) ==
  /\ joined[c] # {}
  /\ sync[c] = << >>
  /\ caughtUp[c] = {}
  /\ \E last \in Publications \cup {Unknown} :
       sync' = [sync EXCEPT ![c] = <<[last |-> last, rooms |-> DefaultRooms[c]]>>]
  /\ UNCHANGED <<serverVars, joined, received, caughtUp, connects>>

(* findIndex, counted from one; zero when it is not there.                   *)
PlaceOf(last, events) == SelectInSeq(events, LAMBDA e : e = last)

(* Mutant: the entry after the last one seen is skipped. *)
MissedAfter_SkipsOne(events, last) ==
  IF last \notin ToSet(events) THEN events
  ELSE SubSeq(events, PlaceOf(last, events) + 2, Len(events))

(* getMissedEvents                                                           *)
MissedAfter(events, last) ==
  IF last \notin ToSet(events) THEN events
  ELSE SubSeq(events, PlaceOf(last, events) + 1, Len(events))

(* One room of handleSyncMissed.  The client has caught up with the room if   *)
(* it really has what comes before the entry it named.                       *)
Replays(c) ==
  LET request == sync[c][1]
      r       == Head(request.rooms)
      missed  == ToSet(MissedAfter(buffer[r], request.last))
      has     == {e \in Publications : <<r, e>> \in received[c]}
      seen    == PlaceOf(request.last, buffer[r])
  IN
  /\ sync[c] # << >>
  /\ received' = [received EXCEPT ![c] = @ \cup ({r} \X missed)]
  /\ sync' = [sync EXCEPT ![c] =
                IF Len(request.rooms) = 1 THEN << >>
                ELSE <<[request EXCEPT !.rooms = Tail(@)]>>]
  /\ caughtUp' = [caughtUp EXCEPT ![c] =
                    IF ToSet(SubSeq(buffer[r], 1, seen)) \subseteq has THEN @ \cup {r} ELSE @]
  /\ UNCHANGED <<serverVars, joined, connects>>

----------------------------------------------------------------------------
HandlerStep(h) ==
  \/ Publishes(h) \/ Broadcasts(h) \/ ChecksKey(h) \/ CreatesBuffer(h)
  \/ ReadsBuffer(h) \/ WritesBuffer(h) \/ ReplacesBuffer(h) \/ HandlerFails(h)

ClientStep(c) ==
  \/ Connects(c) \/ Disconnects(c) \/ TogglesTracking(c)
  \/ AsksForMissed(c) \/ Replays(c)

Next ==
  \/ \E h \in Handlers : HandlerStep(h)
  \/ \E r \in Rooms : KeyExpires(r)
  \/ \E c \in Clients : ClientStep(c)

Spec == Init /\ [][Next]_vars

----------------------------------------------------------------------------
HandlerState ==
  {Idle} \cup
  [at : {"room", "buffering", "absent", "present", "read"}, p : Publications,
   rooms : Seq(Rooms), read : Seq(Publications)]

Requests == [last : Publications \cup {Unknown}, rooms : Seq(Rooms)]

(* The variables have their types, and a buffer never outgrows its limit.     *)
RealtimeTypeOK ==
  /\ buffer \in [Rooms -> Seq(Publications)]
  /\ \A r \in Rooms : Len(buffer[r]) <= MAX_EVENTS_PER_ROOM
  /\ broadcast \in [Rooms -> Seq(Publications)]
  /\ unpublished \subseteq Publications
  /\ handler \in [Handlers -> HandlerState]
  /\ failed \subseteq Rooms \X Publications
  /\ expired \subseteq Rooms
  /\ replaced \subseteq Rooms
  /\ joined \in [Clients -> SUBSET Rooms]
  /\ received \in [Clients -> SUBSET (Rooms \X Publications)]
  /\ sync \in [Clients -> Seq(Requests)]
  /\ caughtUp \in [Clients -> SUBSET Rooms]
  /\ connects \in [Clients -> 0..MaxConnects]

InFlight(r) == {handler[h].p : h \in {g \in Handlers :
                   handler[g].at \notin {"idle", "room"} /\ Head(handler[g].rooms) = r}}

(* The entries of a room that a handler has broadcast and failed to buffer, or  *)
(* not buffered yet.                                                         *)
Dropped(r) == {p \in Publications : <<r, p>> \in failed} \cup InFlight(r)

(* b is the tail of s without the dropped entries: its entries stand in s in    *)
(* the same order, none is dropped, and from the first on only those are left   *)
(* out that are.                                                             *)
IsTail(b, s, dropped) ==
  \E place \in [DOMAIN b -> DOMAIN s] :
    /\ \A i, j \in DOMAIN b : i < j => place[i] < place[j]
    /\ \A i \in DOMAIN b : b[i] = s[place[i]] /\ b[i] \notin dropped
    /\ \A k \in DOMAIN s : (\E i \in DOMAIN b : place[i] <= k)
                            => s[k] \in dropped \/ \E i \in DOMAIN b : place[i] = k

(* With one handler at a time, a buffer has no holes and keeps the newest:    *)
(* whatever was trimmed, has run out or failed, it is the tail of the         *)
(* room's broadcasts, in their order.                                        *)
BufferIsTailOfBroadcasts ==
  \A r \in Rooms : IsTail(buffer[r], broadcast[r], Dropped(r))

(* Once a client that is online has replayed a room, it lacks at most the     *)
(* entry a handler had broadcast and not yet buffered when it asked (a key    *)
(* that runs out under a handler's feet may bring back what expired).         *)
GapIsInFlight ==
  \A c \in Clients : \A r \in caughtUp[c] \ expired :
    Cardinality({e \in ToSet(buffer[r]) : <<r, e>> \notin received[c]}) <= Cardinality(Handlers)

(* docs/FRONTEND_ARCHITECTURE.md:801, "On reconnect, send sync:missed to fill *)
(* the gap": what was broadcast to a room is in its buffer when no handler is *)
(* busy, nothing has failed or run out and the limit is not reached.          *)
BroadcastsAreReplayable ==
  \A r \in Rooms \ (expired \cup replaced) :
    (\A h \in Handlers : handler[h].at = "idle") /\ Len(broadcast[r]) <= MAX_EVENTS_PER_ROOM
      => \A p \in ToSet(broadcast[r]) : p \in ToSet(buffer[r]) \/ <<r, p>> \in failed

=============================================================================
