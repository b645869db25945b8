--------------------------- MODULE RealtimeProofs ---------------------------
(* Proofs about the event buffers, for any events, rooms, clients, listeners   *)
(* and size of a buffer.                                                     *)
EXTENDS Realtime, SumLemmas

----------------------------------------------------------------------------
(* Where an entry is found in a buffer                                       *)

LEMMA MinIsMember ==
  ASSUME NEW n \in Nat, NEW I \in SUBSET (1..n), I # {}
  PROVE  Min(I) \in I
<1> DEFINE UpTo(i) == {j \in 1..n : j <= i}
           T == {UpTo(i) : i \in I}
<1>1. PICK t \in T : \A u \in T : u \subseteq t => u = t
  <2> DEFINE S == 1..n
  <2>1. T \in SUBSET SUBSET S
    OBVIOUS
  <2>2. T # {}
    OBVIOUS
  <2>3. IsFiniteSet(S)
    BY FS_Interval
  <2> HIDE DEF T, S
  <2> QED BY <2>1, <2>2, <2>3, SmallestSubset
<1>2. PICK x \in I : t = UpTo(x)
  OBVIOUS
<1>3. ASSUME NEW y \in I PROVE x =< y
  <2> SUFFICES ASSUME y < x PROVE FALSE
    OBVIOUS
  <2>1. UpTo(y) \subseteq UpTo(x) /\ UpTo(y) \in T
    OBVIOUS
  <2>2. x \in UpTo(x) /\ x \notin UpTo(y)
    OBVIOUS
  <2>3. QED
    BY <1>1, <1>2, <2>1, <2>2
<1>4. QED
  BY <1>3 DEF Min

(* The place of an entry is one of the buffer, or zero.                      *)
LEMMA PlaceIsInside ==
  ASSUME NEW S, NEW s \in Seq(S), NEW last
  PROVE  PlaceOf(last, s) \in 0..Len(s)
<1> DEFINE I == {i \in 1..Len(s) : s[i] = last}
<1>1. I # {} => Min(I) \in 1..Len(s)
  <2>1. I \in SUBSET (1..Len(s)) /\ Len(s) \in Nat
    OBVIOUS
  <2>2. I # {} => Min(I) \in I
    <3> HIDE DEF I
    <3> QED BY <2>1, MinIsMember
  <2>3. QED
    BY <2>2
<1>2. QED
  BY <1>1 DEF PlaceOf, SelectInSeq

(* What comes up to the last entry seen and what comes after it are the       *)
(* buffer.                                                                   *)
LEMMA MissedIsTheRest ==
  ASSUME NEW S, NEW s \in Seq(S), NEW last
  PROVE  /\ ToSet(MissedAfter(s, last)) \subseteq ToSet(s)
         /\ ToSet(s) \subseteq ToSet(SubSeq(s, 1, PlaceOf(last, s)))
                               \cup ToSet(MissedAfter(s, last))
<1> DEFINE k == PlaceOf(last, s)
<1>1. k \in 0..Len(s)
  BY PlaceIsInside
<1>2. MissedAfter(s, last) = IF last \notin ToSet(s) THEN s ELSE SubSeq(s, k + 1, Len(s))
  BY DEF MissedAfter
<1> HIDE DEF k
<1>3. CASE last \notin ToSet(s)
  BY <1>2, <1>3
<1>4. CASE last \in ToSet(s)
  <2>1. \A i \in 1..(Len(s) - k) : SubSeq(s, k + 1, Len(s))[i] = s[k + i]
    BY <1>1
  <2>2. \A i \in 1..k : SubSeq(s, 1, k)[i] = s[i]
    BY <1>1
  <2>3. DOMAIN SubSeq(s, k + 1, Len(s)) = 1..(Len(s) - k) /\ DOMAIN SubSeq(s, 1, k) = 1..k
    BY <1>1
  <2>4. ASSUME NEW i \in 1..Len(s)
        PROVE  s[i] \in ToSet(SubSeq(s, 1, k)) \cup ToSet(SubSeq(s, k + 1, Len(s)))
    <3>1. CASE i <= k
      <4>1. SubSeq(s, 1, k)[i] = s[i] /\ i \in DOMAIN SubSeq(s, 1, k)
        BY <3>1, <2>2, <2>3, <1>1
      <4>2. QED
        BY <4>1 DEF ToSet
    <3>2. CASE i > k
      <4>1. i - k \in 1..(Len(s) - k) /\ s[k + (i - k)] = s[i]
        BY <3>2, <1>1
      <4>2. SubSeq(s, k + 1, Len(s))[i - k] = s[i]
        BY <4>1, <2>1
      <4>3. QED
        BY <4>1, <4>2, <2>3 DEF ToSet
    <3>3. QED
      BY <3>1, <3>2, <1>1
  <2>5. ToSet(SubSeq(s, k + 1, Len(s))) \subseteq ToSet(s)
    <3>1. \A i \in 1..(Len(s) - k) : s[k + i] \in ToSet(s)
      BY <1>1 DEF ToSet
    <3>2. QED
      BY <3>1, <2>1, <2>3 DEF ToSet
  <2>6. ToSet(s) \subseteq ToSet(SubSeq(s, 1, k)) \cup ToSet(SubSeq(s, k + 1, Len(s)))
    <3>1. ToSet(s) = {s[i] : i \in 1..Len(s)}
      BY DEF ToSet
    <3>2. QED
      BY <3>1, <2>4
  <2>7. QED
    BY <1>2, <1>4, <2>5, <2>6 DEF k
<1>5. QED
  BY <1>3, <1>4 DEF k

----------------------------------------------------------------------------
(* Types                                                                     *)

(* A listener under way has a room to serve, and no room twice.              *)
Sound(state) ==
  /\ state \in HandlerState
  /\ state.at # "idle" => state.rooms # << >> /\ IsInjective(state.rooms)

(* A client has one request at most, and that one a room to replay.          *)
RequestsSound ==
  \A c \in Clients : /\ Len(sync[c]) <= 1
                     /\ sync[c] # << >> => sync[c][1].rooms # << >>

TypeInv ==
  /\ RealtimeTypeOK
  /\ \A h \in Handlers : Sound(handler[h])
  /\ RequestsSound

Stages == {"room", "buffering", "absent", "present", "read"}

LEMMA SoundMeans ==
  ASSUME NEW state, Sound(state)
  PROVE  \/ state = Idle
         \/ /\ state.at \in Stages
            /\ state.at # "idle"
            /\ state.p \in Publications
            /\ state.rooms \in Seq(Rooms)
            /\ state.rooms # << >>
            /\ IsInjective(state.rooms)
            /\ state.read \in Seq(Publications)
            /\ state = [at |-> state.at, p |-> state.p, rooms |-> state.rooms,
                        read |-> state.read]
<1>1. CASE state \in {Idle}
  BY <1>1
<1>2. CASE state \in [at : Stages, p : Publications, rooms : Seq(Rooms),
                      read : Seq(Publications)]
  <2>1. state.at \in Stages /\ state.at # "idle"
    BY <1>2 DEF Stages
  <2>2. QED
    BY <1>2, <2>1 DEF Sound
<1>3. QED
  BY <1>1, <1>2 DEF Sound, HandlerState, Stages

LEMMA SoundStates ==
  /\ Sound(Idle)
  /\ \A a \in Stages, p \in Publications, rooms \in Seq(Rooms), read \in Seq(Publications) :
       rooms # << >> /\ IsInjective(rooms)
         => Sound([at |-> a, p |-> p, rooms |-> rooms, read |-> read])
BY DEF Sound, Idle, HandlerState, Stages

LEMMA LongTail ==
  ASSUME NEW S, NEW s \in Seq(S), s # << >>, Len(s) # 1
  PROVE  Tail(s) \in Seq(S) /\ Tail(s) # << >>
<1>1. Len(s) \in Nat /\ Len(s) # 0
  OBVIOUS
<1>2. Tail(s) \in Seq(S) /\ Len(Tail(s)) # 0
  BY <1>1
<1>3. \A t : t = << >> => Len(t) = 0
  OBVIOUS
<1>4. QED
  BY <1>2, <1>3

LEMMA HeadAndTail ==
  ASSUME NEW S, NEW s \in Seq(S), s # << >>
  PROVE  Head(s) \in ToSet(s) /\ ToSet(Tail(s)) \subseteq ToSet(s)
<1>1. Len(s) \in Nat \ {0} /\ Head(s) = s[1] /\ DOMAIN s = 1..Len(s)
  OBVIOUS
<1>2. DOMAIN Tail(s) = 1..(Len(s) - 1)
  OBVIOUS
<1>3. \A i \in 1..(Len(s) - 1) : Tail(s)[i] = s[i + 1] /\ i + 1 \in 1..Len(s)
  BY <1>1
<1>4. QED
  BY <1>1, <1>2, <1>3 DEF ToSet

LEMMA LastRoom ==
  ASSUME NEW S, NEW s \in Seq(S), s # << >>, Len(s) = 1
  PROVE  DOMAIN Tail(s) = {}
<1>1. DOMAIN Tail(s) = 1..(Len(s) - 1)
  OBVIOUS
<1>2. Len(s) - 1 = 0
  OBVIOUS
<1>3. QED
  BY <1>1, <1>2

LEMMA TailOfRooms ==
  ASSUME NEW rooms \in Seq(Rooms), rooms # << >>, IsInjective(rooms)
  PROVE  /\ Head(rooms) \in Rooms
         /\ Len(rooms) \in Nat \ {0}
         /\ Tail(rooms) \in Seq(Rooms)
         /\ Len(rooms) # 1 => Tail(rooms) # << >>
         /\ IsInjective(Tail(rooms))
         /\ ToSet(rooms) = {Head(rooms)} \cup ToSet(Tail(rooms))
         /\ Head(rooms) \notin ToSet(Tail(rooms))
<1>1. Len(rooms) \in Nat \ {0} /\ Head(rooms) = rooms[1] /\ Head(rooms) \in Rooms
  OBVIOUS
<1>2. Tail(rooms) \in Seq(Rooms) /\ DOMAIN Tail(rooms) = 1..(Len(rooms) - 1)
  OBVIOUS
<1>3. \A i \in 1..(Len(rooms) - 1) : Tail(rooms)[i] = rooms[i + 1]
  OBVIOUS
<1>4. Len(rooms) # 1 => Tail(rooms) # << >>
  BY LongTail
<1>5. IsInjective(Tail(rooms))
  BY <1>1, <1>2, <1>3 DEF IsInjective
<1>6. Head(rooms) \notin ToSet(Tail(rooms))
  BY <1>1, <1>2, <1>3 DEF IsInjective, ToSet
<1>7. ToSet(rooms) \subseteq {Head(rooms)} \cup ToSet(Tail(rooms))
  <2>1. ASSUME NEW i \in 1..Len(rooms), i # 1
        PROVE  rooms[i] \in ToSet(Tail(rooms))
    <3>1. i - 1 \in 1..(Len(rooms) - 1) /\ (i - 1) + 1 = i
      BY <2>1, <1>1
    <3>2. Tail(rooms)[i - 1] = rooms[i]
      BY <3>1, <1>3
    <3>3. QED
      BY <3>1, <3>2, <1>2 DEF ToSet
  <2>2. QED
    BY <2>1, <1>1 DEF ToSet
<1>8. {Head(rooms)} \cup ToSet(Tail(rooms)) \subseteq ToSet(rooms)
  BY <1>1, <1>2, <1>3 DEF ToSet
<1>9. QED
  BY <1>1, <1>2, <1>4, <1>5, <1>6, <1>7, <1>8

(* Each step of a listener leaves it sound.                                  *)
LEMMA MovesAreSound ==
  ASSUME NEW state, Sound(state), state.at # "idle"
  PROVE  /\ \A a \in Stages : Sound([state EXCEPT !.at = a])
         /\ \A s \in Seq(Publications) : Sound([at |-> "read", p |-> state.p, rooms |-> state.rooms,
                                               read |-> s])
         /\ Sound(IF Len(state.rooms) = 1 THEN Idle
                  ELSE [at |-> "room", p |-> state.p, rooms |-> Tail(state.rooms),
                        read |-> << >>])
<1>1. /\ state.at \in Stages
      /\ state.p \in Publications
      /\ state.rooms \in Seq(Rooms)
      /\ state.rooms # << >>
      /\ IsInjective(state.rooms)
      /\ state.read \in Seq(Publications)
      /\ state = [at |-> state.at, p |-> state.p, rooms |-> state.rooms, read |-> state.read]
  <2>1. state # Idle
    BY DEF Idle
  <2>2. QED
    BY <2>1, SoundMeans
<1>2. \A a : [state EXCEPT !.at = a] = [at |-> a, p |-> state.p, rooms |-> state.rooms,
                                        read |-> state.read]
  BY <1>1
<1>3. Len(state.rooms) # 1 => /\ Tail(state.rooms) \in Seq(Rooms)
                              /\ Tail(state.rooms) # << >>
                              /\ IsInjective(Tail(state.rooms))
  BY <1>1, TailOfRooms
<1>4. << >> \in Seq(Publications) /\ "room" \in Stages /\ "read" \in Stages
  BY DEF Stages
<1>5. \A a \in Stages : Sound([state EXCEPT !.at = a])
  BY <1>1, <1>2, SoundStates
<1>6. \A s \in Seq(Publications) : Sound([at |-> "read", p |-> state.p, rooms |-> state.rooms,
                                               read |-> s])
  BY <1>1, <1>4, SoundStates
<1>7. Len(state.rooms) # 1 => Sound([at |-> "room", p |-> state.p, rooms |-> Tail(state.rooms),
                                     read |-> << >>])
  BY <1>1, <1>3, <1>4, SoundStates
<1>8. QED
  BY <1>5, <1>6, <1>7, SoundStates

LEMMA HandlerMoves ==
  ASSUME TypeInv, NEW h \in Handlers, handler[h].at # "idle"
  PROVE  /\ handler[h].p \in Publications
         /\ handler[h].rooms \in Seq(Rooms)
         /\ handler[h].rooms # << >>
         /\ IsInjective(handler[h].rooms)
         /\ Head(handler[h].rooms) \in Rooms
         /\ handler[h].at \in Stages
         /\ handler[h].read \in Seq(Publications)
<1>1. Sound(handler[h]) /\ handler[h] # Idle
  BY DEF TypeInv, Idle
<1>2. QED
  BY <1>1, SoundMeans, TailOfRooms

(* Where only a listener moves and its new state is sound, all of them are.  *)
LEMMA SoundHandler ==
  ASSUME TypeInv, NEW h \in Handlers, NEW state, Sound(state),
         handler' = [handler EXCEPT ![h] = state]
  PROVE  /\ handler' \in [Handlers -> HandlerState]
         /\ \A g \in Handlers : Sound(handler'[g])
BY DEF TypeInv, RealtimeTypeOK, Sound

LEMMA ContinueIsSound ==
  ASSUME TypeInv, NEW h \in Handlers, handler[h].at # "idle", NEW a \in Stages, Continue(h, a)
  PROVE  /\ handler' \in [Handlers -> HandlerState]
         /\ \A g \in Handlers : Sound(handler'[g])
<1> DEFINE s == [handler[h] EXCEPT !.at = a]
<1>1. Sound(s)
  BY MovesAreSound DEF TypeInv
<1>2. handler' = [handler EXCEPT ![h] = s]
  BY DEF Continue
<1> HIDE DEF s
<1>3. QED
  BY <1>1, <1>2, SoundHandler

LEMMA NextRoomIsSound ==
  ASSUME TypeInv, NEW h \in Handlers, handler[h].at # "idle", NextRoom(h)
  PROVE  /\ handler' \in [Handlers -> HandlerState]
         /\ \A g \in Handlers : Sound(handler'[g])
<1> DEFINE s == IF Len(handler[h].rooms) = 1 THEN Idle
                ELSE [at |-> "room", p |-> handler[h].p, rooms |-> Tail(handler[h].rooms),
                      read |-> << >>]
<1>1. Sound(s)
  BY MovesAreSound DEF TypeInv
<1>2. handler' = [handler EXCEPT ![h] = s]
  BY DEF NextRoom
<1> HIDE DEF s
<1>3. QED
  BY <1>1, <1>2, SoundHandler

LEMMA TrimmedFits ==
  ASSUME RealtimeAssumption, NEW S, NEW s \in Seq(S)
  PROVE  Trimmed(s) \in Seq(S) /\ Len(Trimmed(s)) <= MAX_EVENTS_PER_ROOM
<1>1. MAX_EVENTS_PER_ROOM \in Nat \ {0}
  BY DEF RealtimeAssumption
<1>2. CASE Len(s) > MAX_EVENTS_PER_ROOM
  <2>1. Trimmed(s) = SubSeq(s, Len(s) - MAX_EVENTS_PER_ROOM + 1, Len(s))
    BY <1>2 DEF Trimmed
  <2>2. QED
    BY <2>1, <1>1, <1>2
<1>3. CASE ~(Len(s) > MAX_EVENTS_PER_ROOM)
  BY <1>1, <1>3 DEF Trimmed
<1>4. QED
  BY <1>2, <1>3

(* What the steps of a listener leave to show.                               *)
LEMMA ServerTyped ==
  ASSUME TypeInv,
         buffer' \in [Rooms -> Seq(Publications)],
         \A r \in Rooms : Len(buffer'[r]) <= MAX_EVENTS_PER_ROOM,
         broadcast' \in [Rooms -> Seq(Publications)],
         unpublished' \subseteq Publications,
         handler' \in [Handlers -> HandlerState],
         \A h \in Handlers : Sound(handler'[h]),
         failed' \subseteq Rooms \X Publications,
         expired' \subseteq Rooms,
         replaced' \subseteq Rooms,
         received' \in [Clients -> SUBSET (Rooms \X Publications)],
         UNCHANGED <<joined, sync, caughtUp, connects>>
  PROVE  TypeInv'
BY DEF TypeInv, RealtimeTypeOK, RequestsSound

LEMMA HandlerTyped ==
  ASSUME RealtimeAssumption, TypeInv, NEW h \in Handlers, HandlerStep(h)
  PROVE  TypeInv'
<1> USE DEF TypeInv, RealtimeTypeOK, clientVars
<1>1. CASE Publishes(h)
  <2>1. PICK p \in unpublished :
          /\ unpublished' = unpublished \ {p}
          /\ handler' = [handler EXCEPT ![h] =
                           [at |-> "room", p |-> p, rooms |-> RoomsOf[p], read |-> << >>]]
    BY <1>1 DEF Publishes
  <2>2. p \in Publications /\ RoomsOf[p] \in Seq(Rooms) /\ RoomsOf[p] # << >>
        /\ IsInjective(RoomsOf[p])
    BY DEF RealtimeAssumption
  <2>3. Sound([at |-> "room", p |-> p, rooms |-> RoomsOf[p], read |-> << >>])
    <3>1. "room" \in Stages /\ << >> \in Seq(Publications)
      BY DEF Stages
    <3>2. QED
      BY <2>2, <3>1, SoundStates
  <2>4. /\ handler' \in [Handlers -> HandlerState]
        /\ \A g \in Handlers : Sound(handler'[g])
    BY <2>1, <2>3, SoundHandler
  <2>5. QED
    BY <1>1, <2>1, <2>4, ServerTyped DEF Publishes
<1>2. CASE Broadcasts(h)
  <2> DEFINE p == handler[h].p
             r == Head(handler[h].rooms)
  <2>1. handler[h].at # "idle" /\ "buffering" \in Stages
    BY <1>2 DEF Broadcasts, Stages
  <2>2. p \in Publications /\ r \in Rooms
    BY <2>1, HandlerMoves
  <2>3. /\ broadcast' = [broadcast EXCEPT ![r] = Append(@, p)]
        /\ received' = [c \in Clients |-> IF r \in joined[c] THEN received[c] \cup {<<r, p>>}
                                                             ELSE received[c]]
        /\ Continue(h, "buffering")
        /\ UNCHANGED <<buffer, unpublished, failed, expired, replaced, joined, sync, caughtUp,
                       connects>>
    BY <1>2 DEF Broadcasts
  <2>4. /\ handler' \in [Handlers -> HandlerState]
        /\ \A g \in Handlers : Sound(handler'[g])
    BY <2>1, <2>3, ContinueIsSound
  <2> HIDE DEF p, r
  <2>5. broadcast' \in [Rooms -> Seq(Publications)]
    BY <2>2, <2>3
  <2>6. received' \in [Clients -> SUBSET (Rooms \X Publications)]
    BY <2>2, <2>3
  <2>7. QED
    BY <2>3, <2>4, <2>5, <2>6, ServerTyped
<1>3. CASE ChecksKey(h)
  <2>1. handler[h].at # "idle" /\ {"absent", "present"} \subseteq Stages
    BY <1>3 DEF ChecksKey, Stages
  <2>2. /\ handler' \in [Handlers -> HandlerState]
        /\ \A g \in Handlers : Sound(handler'[g])
    BY <1>3, <2>1, ContinueIsSound DEF ChecksKey
  <2>3. QED
    BY <1>3, <2>2, ServerTyped DEF ChecksKey
<1>4. CASE CreatesBuffer(h)
  <2>1. handler[h].at # "idle"
    BY <1>4 DEF CreatesBuffer
  <2>2. /\ handler' \in [Handlers -> HandlerState]
        /\ \A g \in Handlers : Sound(handler'[g])
    BY <1>4, <2>1, NextRoomIsSound DEF CreatesBuffer
  <2>3. handler[h].p \in Publications
    BY <2>1, HandlerMoves
  <2>4. /\ buffer' \in [Rooms -> Seq(Publications)]
        /\ \A r \in Rooms : Len(buffer'[r]) <= MAX_EVENTS_PER_ROOM
    <3>1. MAX_EVENTS_PER_ROOM \in Nat \ {0}
      BY DEF RealtimeAssumption
    <3>2. <<handler[h].p>> \in Seq(Publications) /\ Len(<<handler[h].p>>) <= MAX_EVENTS_PER_ROOM
      BY <2>3, <3>1
    <3>3. buffer' = [buffer EXCEPT ![Head(handler[h].rooms)] = <<handler[h].p>>]
      BY <1>4 DEF CreatesBuffer
    <3>4. QED
      BY <3>2, <3>3
  <2>5. QED
    BY <1>4, <2>2, <2>4, ServerTyped DEF CreatesBuffer
<1>5. CASE ReadsBuffer(h)
  <2> DEFINE stored == buffer[Head(handler[h].rooms)]
             s == [at |-> "read", p |-> handler[h].p, rooms |-> handler[h].rooms,
                   read |-> stored]
  <2>1. handler[h].at # "idle"
    BY <1>5 DEF ReadsBuffer
  <2>2. /\ handler' \in [Handlers -> HandlerState]
        /\ \A g \in Handlers : Sound(handler'[g])
    <3>1. CASE stored = << >>
      BY <1>5, <2>1, <3>1, NextRoomIsSound DEF ReadsBuffer
    <3>2. CASE stored # << >>
      <4>1. Head(handler[h].rooms) \in Rooms
        BY <2>1, HandlerMoves
      <4>2. stored \in Seq(Publications)
        BY <4>1
      <4>3. Sound(s)
        <5> HIDE DEF stored
        <5> QED BY <2>1, <4>2, MovesAreSound
      <4>4. handler' = [handler EXCEPT ![h] = s]
        BY <1>5, <3>2 DEF ReadsBuffer
      <4> HIDE DEF s
      <4>5. QED
        BY <4>3, <4>4, SoundHandler
    <3>3. QED
      BY <3>1, <3>2
  <2>3. QED
    BY <1>5, <2>2, ServerTyped DEF ReadsBuffer
<1>6. CASE WritesBuffer(h)
  <2> DEFINE s == Append(handler[h].read, handler[h].p)
  <2>1. handler[h].at # "idle"
    BY <1>6 DEF WritesBuffer
  <2>2. /\ handler' \in [Handlers -> HandlerState]
        /\ \A g \in Handlers : Sound(handler'[g])
    BY <1>6, <2>1, NextRoomIsSound DEF WritesBuffer
  <2>3. s \in Seq(Publications)
    <3>1. handler[h].read \in Seq(Publications) /\ handler[h].p \in Publications
      BY <2>1, HandlerMoves
    <3>2. QED
      BY <3>1
  <2>4. buffer' = [buffer EXCEPT ![Head(handler[h].rooms)] = Trimmed(s)]
    BY <1>6 DEF WritesBuffer
  <2>5. Trimmed(s) \in Seq(Publications) /\ Len(Trimmed(s)) <= MAX_EVENTS_PER_ROOM
    <3> HIDE DEF s
    <3> QED BY <2>3, TrimmedFits
  <2> HIDE DEF s
  <2>6. /\ buffer' \in [Rooms -> Seq(Publications)]
        /\ \A r \in Rooms : Len(buffer'[r]) <= MAX_EVENTS_PER_ROOM
    BY <2>4, <2>5
  <2>7. QED
    BY <1>6, <2>2, <2>6, ServerTyped DEF WritesBuffer
<1>7. CASE ReplacesBuffer(h)
  <2>1. handler[h].at # "idle"
    BY <1>7 DEF ReplacesBuffer
  <2>2. /\ handler' \in [Handlers -> HandlerState]
        /\ \A g \in Handlers : Sound(handler'[g])
    BY <1>7, <2>1, NextRoomIsSound DEF ReplacesBuffer
  <2>3. handler[h].p \in Publications /\ Head(handler[h].rooms) \in Rooms
    BY <2>1, HandlerMoves
  <2>4. /\ buffer' \in [Rooms -> Seq(Publications)]
        /\ \A r \in Rooms : Len(buffer'[r]) <= MAX_EVENTS_PER_ROOM
    <3>1. MAX_EVENTS_PER_ROOM \in Nat \ {0}
      BY DEF RealtimeAssumption
    <3>2. <<handler[h].p>> \in Seq(Publications) /\ Len(<<handler[h].p>>) <= MAX_EVENTS_PER_ROOM
      BY <2>3, <3>1
    <3>3. buffer' = [buffer EXCEPT ![Head(handler[h].rooms)] = <<handler[h].p>>]
      BY <1>7 DEF ReplacesBuffer
    <3>4. QED
      BY <3>2, <3>3
  <2>5. replaced' \subseteq Rooms
    BY <1>7, <2>3 DEF ReplacesBuffer
  <2>6. QED
    BY <1>7, <2>2, <2>4, <2>5, ServerTyped DEF ReplacesBuffer
<1>8. CASE HandlerFails(h)
  <2>1. handler[h].at # "idle"
    BY <1>8 DEF HandlerFails
  <2>2. handler[h].p \in Publications /\ Head(handler[h].rooms) \in Rooms
    BY <2>1, HandlerMoves
  <2>3. /\ handler' \in [Handlers -> HandlerState]
        /\ \A g \in Handlers : Sound(handler'[g])
    BY <1>8, SoundStates, SoundHandler DEF HandlerFails
  <2>4. failed' \subseteq Rooms \X Publications
    BY <1>8, <2>2 DEF HandlerFails
  <2>5. QED
    BY <1>8, <2>3, <2>4, ServerTyped DEF HandlerFails
<1>9. QED
  BY <1>1, <1>2, <1>3, <1>4, <1>5, <1>6, <1>7, <1>8 DEF HandlerStep

LEMMA ExpiryTyped ==
  ASSUME RealtimeAssumption, TypeInv, NEW r \in Rooms, KeyExpires(r)
  PROVE  TypeInv'
<1>1. /\ buffer' \in [Rooms -> Seq(Publications)]
      /\ \A q \in Rooms : Len(buffer'[q]) <= MAX_EVENTS_PER_ROOM
  <2>1. MAX_EVENTS_PER_ROOM \in Nat
    BY DEF RealtimeAssumption
  <2>2. << >> \in Seq(Publications) /\ Len(<< >>) <= MAX_EVENTS_PER_ROOM
    BY <2>1
  <2>3. QED
    BY <2>2 DEF KeyExpires, TypeInv, RealtimeTypeOK
<1>2. QED
  BY <1>1, ServerTyped DEF KeyExpires, TypeInv, RealtimeTypeOK, clientVars

LEMMA RequestSent ==
  ASSUME TypeInv, NEW c \in Clients, NEW q \in Seq(Requests), sync' = [sync EXCEPT ![c] = q],
         Len(q) <= 1, q # << >> => q[1].rooms # << >>
  PROVE  sync' \in [Clients -> Seq(Requests)] /\ RequestsSound'
<1>1. sync \in [Clients -> Seq(Requests)] /\ RequestsSound
  BY DEF TypeInv, RealtimeTypeOK
<1>2. sync' \in [Clients -> Seq(Requests)]
  BY <1>1
<1>3. ASSUME NEW d \in Clients
      PROVE  Len(sync'[d]) <= 1 /\ (sync'[d] # << >> => sync'[d][1].rooms # << >>)
  BY <1>1 DEF RequestsSound
<1>4. QED
  BY <1>2, <1>3 DEF RequestsSound

(* The first part of a request that is there.                                *)
LEMMA RequestIs ==
  ASSUME TypeInv, NEW c \in Clients, sync[c] # << >>
  PROVE  /\ sync[c][1] \in Requests
         /\ sync[c][1].last \in Publications \cup {Unknown}
         /\ sync[c][1].rooms \in Seq(Rooms)
         /\ sync[c][1].rooms # << >>
         /\ Head(sync[c][1].rooms) \in Rooms
<1>1. sync[c] \in Seq(Requests) /\ sync[c][1].rooms # << >>
  BY DEF TypeInv, RealtimeTypeOK, RequestsSound
<1>2. sync[c][1] \in Requests
  BY <1>1
<1>3. QED
  BY <1>1, <1>2 DEF Requests

LEMMA RestOfRequest ==
  ASSUME NEW request \in Requests, request.rooms # << >>, Len(request.rooms) # 1
  PROVE  LET q == [request EXCEPT !.rooms = Tail(@)]
         IN  q \in Requests /\ q.rooms # << >> /\ q.rooms = Tail(request.rooms)
<1> DEFINE q == [request EXCEPT !.rooms = Tail(@)]
<1>1. request.rooms \in Seq(Rooms) /\ request.last \in Publications \cup {Unknown}
  BY DEF Requests
<1>2. q = [last |-> request.last, rooms |-> Tail(request.rooms)]
  BY DEF Requests
<1>3. Tail(request.rooms) \in Seq(Rooms) /\ Tail(request.rooms) # << >>
  BY <1>1, LongTail
<1>4. QED
  BY <1>1, <1>2, <1>3 DEF Requests

LEMMA ClientTyped ==
  ASSUME RealtimeAssumption, TypeInv, NEW c \in Clients, ClientStep(c)
  PROVE  TypeInv'
<1> USE DEF TypeInv, RealtimeTypeOK, RequestsSound, serverVars
<1>1. CASE Connects(c)
  <2>1. ToSet(DefaultRooms[c]) \subseteq Rooms
    BY DEF RealtimeAssumption, ToSet
  <2>2. connects'[c] \in 0..MaxConnects => connects' \in [Clients -> 0..MaxConnects]
    BY <1>1 DEF Connects
  <2>3. connects'[c] \in 0..MaxConnects
    <3>1. connects[c] \in Nat /\ connects[c] < MaxConnects /\ connects'[c] = connects[c] + 1
          /\ MaxConnects \in Nat
      BY <1>1 DEF Connects, RealtimeAssumption
    <3>2. QED
      BY <3>1
  <2>4. joined' \in [Clients -> SUBSET Rooms]
    BY <1>1, <2>1 DEF Connects
  <2>5. QED
    BY <1>1, <2>2, <2>3, <2>4 DEF Connects
<1>2. CASE Disconnects(c)
  <2>1. /\ joined' \in [Clients -> SUBSET Rooms]
        /\ caughtUp' \in [Clients -> SUBSET Rooms]
    BY <1>2 DEF Disconnects
  <2>2. sync' \in [Clients -> Seq(Requests)] /\ RequestsSound'
    <3>1. << >> \in Seq(Requests) /\ Len(<< >>) <= 1
      OBVIOUS
    <3>2. sync' = [sync EXCEPT ![c] = << >>]
      BY <1>2 DEF Disconnects
    <3>3. QED
      BY <3>1, <3>2, RequestSent
  <2>3. QED
    BY <1>2, <2>1, <2>2 DEF Disconnects
<1>3. CASE TogglesTracking(c)
  <2>1. PICK r \in TrackingRooms :
          joined' = [joined EXCEPT ![c] = IF r \in @ THEN @ \ {r} ELSE @ \cup {r}]
    BY <1>3 DEF TogglesTracking
  <2>2. joined' \in [Clients -> SUBSET Rooms]
    BY <2>1 DEF RealtimeAssumption
  <2>3. QED
    BY <1>3, <2>2 DEF TogglesTracking
<1>4. CASE AsksForMissed(c)
  <2>1. PICK last \in Publications \cup {Unknown} :
          sync' = [sync EXCEPT ![c] = <<[last |-> last, rooms |-> DefaultRooms[c]]>>]
    BY <1>4 DEF AsksForMissed
  <2> DEFINE q == [last |-> last, rooms |-> DefaultRooms[c]]
  <2>2. q \in Requests /\ q.rooms # << >>
    BY DEF RealtimeAssumption, Requests
  <2>3. sync' = [sync EXCEPT ![c] = <<q>>]
    BY <2>1
  <2> HIDE DEF q
  <2>4. <<q>> \in Seq(Requests) /\ Len(<<q>>) <= 1 /\ <<q>>[1] = q
    BY <2>2
  <2>5. sync' \in [Clients -> Seq(Requests)] /\ RequestsSound'
    BY <2>2, <2>3, <2>4, RequestSent
  <2>6. QED
    BY <1>4, <2>5 DEF AsksForMissed
<1>5. CASE Replays(c)
  <2> DEFINE request == sync[c][1]
             r == Head(request.rooms)
             missed == ToSet(MissedAfter(buffer[r], request.last))
             q == [request EXCEPT !.rooms = Tail(@)]
  <2>1. /\ request \in Requests
        /\ request.last \in Publications \cup {Unknown}
        /\ request.rooms \in Seq(Rooms)
        /\ request.rooms # << >>
    <3>1. sync[c] # << >>
      BY <1>5 DEF Replays
    <3>2. QED
      BY <3>1, RequestIs
  <2>2. r \in Rooms
    BY <2>1
  <2>3. missed \subseteq Publications
    <3>1. buffer[r] \in Seq(Publications)
      BY <2>2
    <3> DEFINE b == buffer[r]
    <3>2. b \in Seq(Publications) => ToSet(b) \subseteq Publications
      <4> HIDE DEF b
      <4> QED BY DEF ToSet
    <3>3. QED
      BY <3>1, <3>2, MissedIsTheRest
  <2>4. received' = [received EXCEPT ![c] = @ \cup ({r} \X missed)]
    BY <1>5 DEF Replays
  <2>5. sync' = [sync EXCEPT ![c] = IF Len(request.rooms) = 1 THEN << >> ELSE <<q>>]
    BY <1>5 DEF Replays
  <2>6. caughtUp'[c] \subseteq caughtUp[c] \cup {r} /\ caughtUp' = [caughtUp EXCEPT ![c] = caughtUp'[c]]
    BY <1>5 DEF Replays
  <2>7. Len(request.rooms) # 1 => q \in Requests /\ q.rooms # << >>
    <3> HIDE DEF request
    <3> QED BY <2>1, RestOfRequest
  <2> HIDE DEF request, r, missed, q
  <2>8. received' \in [Clients -> SUBSET (Rooms \X Publications)]
    BY <2>2, <2>3, <2>4
  <2>9. /\ sync' \in [Clients -> Seq(Requests)]
        /\ RequestsSound'
    <3>1. CASE Len(request.rooms) = 1
      <4>1. sync' = [sync EXCEPT ![c] = << >>]
        BY <2>5, <3>1
      <4>2. << >> \in Seq(Requests) /\ Len(<< >>) <= 1
        OBVIOUS
      <4>3. QED
        BY <4>1, <4>2, RequestSent
    <3>2. CASE Len(request.rooms) # 1
      <4>1. sync' = [sync EXCEPT ![c] = <<q>>]
        BY <2>5, <3>2
      <4>2. <<q>> \in Seq(Requests) /\ Len(<<q>>) <= 1 /\ <<q>>[1] = q
        BY <2>7, <3>2
      <4>3. QED
        BY <4>1, <4>2, <2>7, <3>2, RequestSent
    <3>3. QED
      BY <3>1, <3>2
  <2>10. caughtUp' \in [Clients -> SUBSET Rooms]
    <3>1. caughtUp \in [Clients -> SUBSET Rooms] /\ caughtUp'[c] \subseteq Rooms
      BY <2>2, <2>6
    <3>2. QED
      BY <2>6, <3>1
  <2>11. QED
    BY <1>5, <2>8, <2>9, <2>10 DEF Replays
<1>6. QED
  BY <1>1, <1>2, <1>3, <1>4, <1>5 DEF ClientStep

LEMMA TypeInvHolds ==
  Spec => []TypeInv
<1>1. Init => TypeInv
  <2> SUFFICES ASSUME Init PROVE TypeInv
    OBVIOUS
  <2>1. MAX_EVENTS_PER_ROOM \in Nat /\ Len(<< >>) = 0
    BY RealtimeAssumption DEF RealtimeAssumption
  <2>2. \A h \in Handlers : Sound(handler[h])
    BY SoundStates DEF Init
  <2>3. RequestsSound
    BY <2>1 DEF Init, RequestsSound
  <2>4. /\ buffer \in [Rooms -> Seq(Publications)]
        /\ \A r \in Rooms : Len(buffer[r]) <= MAX_EVENTS_PER_ROOM
        /\ broadcast \in [Rooms -> Seq(Publications)]
        /\ sync \in [Clients -> Seq(Requests)]
    BY <2>1 DEF Init
  <2>5. /\ handler \in [Handlers -> HandlerState]
        /\ connects \in [Clients -> 0..MaxConnects]
    BY RealtimeAssumption DEF Init, HandlerState, RealtimeAssumption
  <2>6. QED
    BY <2>2, <2>3, <2>4, <2>5 DEF Init, RealtimeTypeOK, TypeInv
<1>2. TypeInv /\ [Next]_vars => TypeInv'
  <2> SUFFICES ASSUME TypeInv, [Next]_vars PROVE TypeInv'
    OBVIOUS
  <2>1. CASE \E h \in Handlers : HandlerStep(h)
    BY <2>1, HandlerTyped, RealtimeAssumption
  <2>2. CASE \E r \in Rooms : KeyExpires(r)
    BY <2>2, ExpiryTyped, RealtimeAssumption
  <2>3. CASE \E c \in Clients : ClientStep(c)
    BY <2>3, ClientTyped, RealtimeAssumption
  <2>4. CASE UNCHANGED vars
    BY <2>4 DEF vars, TypeInv, RealtimeTypeOK, RequestsSound, Sound
  <2>5. QED
    BY <2>1, <2>2, <2>3, <2>4 DEF Next
<1>3. QED
  BY <1>1, <1>2, PTL DEF Spec

(* The variables of the buffers, listeners and clients have their types, and no *)
(* buffer outgrows MAX_EVENTS_PER_ROOM, however many listeners write it.       *)
THEOREM RealtimeTypeCorrect == Spec => []RealtimeTypeOK
<1>1. TypeInv => RealtimeTypeOK
  BY DEF TypeInv
<1>2. QED
  BY <1>1, TypeInvHolds, PTL

----------------------------------------------------------------------------
(* Tails                                                                     *)

Places(b, s, dropped, place) ==
  /\ place \in [DOMAIN b -> DOMAIN s]
  /\ \A i, j \in DOMAIN b : i < j => place[i] < place[j]
  /\ \A i \in DOMAIN b : b[i] = s[place[i]] /\ b[i] \notin dropped
  /\ \A k \in DOMAIN s : (\E i \in DOMAIN b : place[i] <= k)
                          => s[k] \in dropped \/ \E i \in DOMAIN b : place[i] = k

LEMMA TailHasPlaces ==
  ASSUME NEW b, NEW s, NEW dropped
  PROVE  IsTail(b, s, dropped) <=> \E place : Places(b, s, dropped, place)
BY DEF IsTail, Places

LEMMA NothingIsTail ==
  ASSUME NEW S, NEW s \in Seq(S), NEW dropped
  PROVE  IsTail(<< >>, s, dropped)
<1>1. DOMAIN << >> = {}
  OBVIOUS
<1>2. Places(<< >>, s, dropped, [i \in {} |-> 1])
  BY <1>1 DEF Places
<1>3. QED
  BY <1>2, TailHasPlaces

(* A broadcast that is not buffered yet leaves a tail a tail.                *)
LEMMA TailMeanwhile ==
  ASSUME NEW S, NEW s \in Seq(S), NEW b \in Seq(S), NEW p \in S, NEW dropped,
         p \notin ToSet(s), IsTail(b, s, dropped)
  PROVE  IsTail(b, Append(s, p), dropped \cup {p})
<1>1. PICK place : Places(b, s, dropped, place)
  BY TailHasPlaces
<1> DEFINE t == Append(s, p)
<1>2. /\ DOMAIN s = 1..Len(s)
      /\ DOMAIN t = 1..(Len(s) + 1)
      /\ Len(s) \in Nat
      /\ \A k \in 1..Len(s) : t[k] = s[k]
      /\ t[Len(s) + 1] = p
  OBVIOUS
<1>3. \A k \in DOMAIN s : s[k] # p
  BY DEF ToSet
<1> HIDE DEF t
<1>4. Places(b, t, dropped \cup {p}, place)
  <2>1. place \in [DOMAIN b -> DOMAIN t]
    BY <1>1, <1>2 DEF Places
  <2>2. \A i \in DOMAIN b : b[i] = t[place[i]] /\ b[i] \notin dropped \cup {p}
    BY <1>1, <1>2, <1>3 DEF Places
  <2>3. ASSUME NEW k \in DOMAIN t, NEW i \in DOMAIN b, place[i] <= k
        PROVE  t[k] \in dropped \cup {p} \/ \E j \in DOMAIN b : place[j] = k
    <3>1. CASE k = Len(s) + 1
      BY <1>2, <3>1
    <3>2. CASE k # Len(s) + 1
      <4>1. k \in DOMAIN s
        BY <1>2, <3>2
      <4>2. QED
        BY <1>1, <1>2, <2>3, <4>1 DEF Places
    <3>3. QED
      BY <3>1, <3>2
  <2>4. QED
    BY <1>1, <2>1, <2>2, <2>3 DEF Places
<1>5. QED
  BY <1>4, TailHasPlaces DEF t

(* The last broadcast alone is a tail.                                       *)
LEMMA LastIsTail ==
  ASSUME NEW S, NEW s \in Seq(S), NEW p, NEW dropped, s # << >>, s[Len(s)] = p,
         p \notin dropped
  PROVE  IsTail(<<p>>, s, dropped)
<1>1. Len(s) \in Nat \ {0} /\ DOMAIN s = 1..Len(s)
  OBVIOUS
<1>2. DOMAIN <<p>> = {1} /\ <<p>>[1] = p
  OBVIOUS
<1>3. Places(<<p>>, s, dropped, [i \in {1} |-> Len(s)])
  BY <1>1, <1>2 DEF Places
<1>4. QED
  BY <1>3, TailHasPlaces

(* The last broadcast goes to the end of the tail once it is buffered.        *)
LEMMA TailGrows ==
  ASSUME NEW S, NEW s \in Seq(S), NEW b \in Seq(S), NEW p \in S, NEW dropped, s # << >>,
         \A k \in DOMAIN s : s[k] = p <=> k = Len(s),
         p \in dropped, IsTail(b, s, dropped)
  PROVE  IsTail(Append(b, p), s, dropped \ {p})
<1>1. PICK place : Places(b, s, dropped, place)
  BY TailHasPlaces
<1> DEFINE t == Append(b, p)
           n == Len(b)
           last == Len(s)
           at == [i \in 1..(n + 1) |-> IF i = n + 1 THEN last ELSE place[i]]
<1>2. /\ DOMAIN b = 1..n
      /\ DOMAIN t = 1..(n + 1)
      /\ n \in Nat
      /\ \A k \in 1..n : t[k] = b[k]
      /\ t[n + 1] = p
  OBVIOUS
<1>3. last \in Nat \ {0} /\ DOMAIN s = 1..last /\ s[last] = p
  OBVIOUS
<1>4. /\ \A i \in 1..n : at[i] = place[i]
      /\ at[n + 1] = last
      /\ at \in [1..(n + 1) -> DOMAIN s]
  BY <1>1, <1>2, <1>3 DEF Places
<1>5. \A i \in 1..n : place[i] \in 1..last /\ place[i] # last
  BY <1>1, <1>2, <1>3 DEF Places
<1> HIDE DEF t, n, last, at
<1>6. Places(t, s, dropped \ {p}, at)
  <2>1. \A i, j \in DOMAIN t : i < j => at[i] < at[j]
    <3> SUFFICES ASSUME NEW i \in DOMAIN t, NEW j \in DOMAIN t, i < j PROVE at[i] < at[j]
      OBVIOUS
    <3>1. i \in 1..n
      BY <1>2
    <3>2. CASE j = n + 1
      BY <3>1, <3>2, <1>3, <1>4, <1>5
    <3>3. CASE j \in 1..n
      BY <3>1, <3>3, <1>1, <1>2, <1>4 DEF Places
    <3>4. QED
      BY <3>2, <3>3, <1>2
  <2>2. \A i \in DOMAIN t : t[i] = s[at[i]] /\ t[i] \notin dropped \ {p}
    <3> TAKE i \in DOMAIN t
    <3>1. CASE i = n + 1
      BY <3>1, <1>2, <1>3, <1>4
    <3>2. CASE i \in 1..n
      BY <3>2, <1>1, <1>2, <1>4 DEF Places
    <3>3. QED
      BY <3>1, <3>2, <1>2
  <2>3. ASSUME NEW k \in DOMAIN s, NEW i \in DOMAIN t, at[i] <= k
        PROVE  s[k] \in dropped \ {p} \/ \E j \in DOMAIN t : at[j] = k
    <3>1. CASE k = last
      BY <3>1, <1>2, <1>4
    <3>2. CASE k # last
      <4>1. s[k] # p
        BY <3>2 DEF last
      <4>2. i \in 1..n
        BY <2>3, <3>2, <1>2, <1>3, <1>4
      <4>3. s[k] \in dropped \/ \E j \in DOMAIN b : place[j] = k
        BY <4>2, <2>3, <1>1, <1>2, <1>4 DEF Places
      <4>4. QED
        BY <4>1, <4>3, <1>2, <1>4
    <3>3. QED
      BY <3>1, <3>2
  <2>4. QED
    BY <1>2, <1>4, <2>1, <2>2, <2>3 DEF Places
<1>7. QED
  BY <1>6, TailHasPlaces DEF t

(* The newest entries of a tail are a tail.                                  *)
LEMMA TailOfTail ==
  ASSUME NEW S, NEW s \in Seq(S), NEW b \in Seq(S), NEW dropped, NEW n \in 1..Len(b),
         IsTail(b, s, dropped)
  PROVE  IsTail(SubSeq(b, n, Len(b)), s, dropped)
<1>1. PICK place : Places(b, s, dropped, place)
  BY TailHasPlaces
<1> DEFINE t == SubSeq(b, n, Len(b))
           m == Len(b) - n + 1
           at == [i \in 1..m |-> place[i + n - 1]]
<1>2. /\ DOMAIN b = 1..Len(b)
      /\ Len(b) \in Nat
      /\ m \in Nat
      /\ DOMAIN t = 1..m
      /\ \A i \in 1..m : t[i] = b[i + n - 1]
  <2>1. \A i \in 1..m : t[i] = b[n + i - 1]
    OBVIOUS
  <2>2. QED
    BY <2>1
<1>3. \A i \in 1..m : at[i] = place[i + n - 1] /\ i + n - 1 \in DOMAIN b
  BY <1>2
<1>4. at \in [1..m -> DOMAIN s]
  BY <1>1, <1>3 DEF Places
<1>5. \A i \in DOMAIN b : i >= n => i - n + 1 \in 1..m /\ (i - n + 1) + n - 1 = i
  BY <1>2
<1>6. DOMAIN s \subseteq Int
  OBVIOUS
<1> HIDE DEF t, at
<1>7. Places(t, s, dropped, at)
  <2>1. \A i, j \in DOMAIN t : i < j => at[i] < at[j]
    <3> SUFFICES ASSUME NEW i \in DOMAIN t, NEW j \in DOMAIN t, i < j PROVE at[i] < at[j]
      OBVIOUS
    <3>1. i + n - 1 \in DOMAIN b /\ j + n - 1 \in DOMAIN b /\ i + n - 1 < j + n - 1
      BY <1>2, <1>3
    <3>2. QED
      BY <3>1, <1>1, <1>2, <1>3 DEF Places
  <2>2. \A i \in DOMAIN t : t[i] = s[at[i]] /\ t[i] \notin dropped
    <3> TAKE i \in DOMAIN t
    <3>1. t[i] = b[i + n - 1] /\ at[i] = place[i + n - 1] /\ i + n - 1 \in DOMAIN b
      BY <1>2, <1>3
    <3> DEFINE j == i + n - 1
    <3>2. t[i] = b[j] /\ at[i] = place[j] /\ j \in DOMAIN b
      BY <3>1
    <3> HIDE DEF j
    <3>3. QED
      BY <3>2, <1>1 DEF Places
  <2>3. ASSUME NEW k \in DOMAIN s, NEW i \in DOMAIN t, at[i] <= k
        PROVE  s[k] \in dropped \/ \E j \in DOMAIN t : at[j] = k
    <3>1. i + n - 1 \in DOMAIN b /\ i + n - 1 >= n /\ place[i + n - 1] <= k
      <4>1. i \in 1..m
        BY <1>2
      <4>2. i + n - 1 \in DOMAIN b /\ at[i] = place[i + n - 1]
        BY <4>1, <1>3
      <4>3. i + n - 1 >= n
        BY <4>1
      <4>4. QED
        BY <4>2, <4>3, <2>3
    <3>2. CASE s[k] \notin dropped
      <4>1. PICK j \in DOMAIN b : place[j] = k
        BY <3>1, <3>2, <1>1 DEF Places
      <4>2. j >= n
        <5> SUFFICES ASSUME j < n PROVE FALSE
          BY <1>2
        <5>1. j < i + n - 1
          BY <1>2, <3>1
        <5>2. place[j] < place[i + n - 1]
          BY <5>1, <3>1, <1>1 DEF Places
        <5>3. place[j] \in Int /\ place[i + n - 1] \in Int
          BY <1>1, <1>6, <3>1 DEF Places
        <5>4. QED
          BY <5>2, <5>3, <3>1, <4>1
      <4>3. j - n + 1 \in 1..m /\ at[j - n + 1] = place[j]
        BY <4>2, <1>3, <1>5
      <4>4. QED
        BY <4>1, <4>3, <1>2
    <3>3. QED
      BY <3>2
  <2>4. QED
    BY <1>2, <1>4, <2>1, <2>2, <2>3 DEF Places
<1>8. QED
  BY <1>7, TailHasPlaces DEF t

LEMMA TrimmedIsTail ==
  ASSUME RealtimeAssumption, NEW S, NEW s \in Seq(S), NEW b \in Seq(S), NEW dropped,
         IsTail(b, s, dropped)
  PROVE  IsTail(Trimmed(b), s, dropped)
<1>1. MAX_EVENTS_PER_ROOM \in Nat \ {0}
  BY DEF RealtimeAssumption
<1>2. CASE Len(b) > MAX_EVENTS_PER_ROOM
  <2>1. Len(b) - MAX_EVENTS_PER_ROOM + 1 \in 1..Len(b)
    BY <1>1, <1>2
  <2>2. Trimmed(b) = SubSeq(b, Len(b) - MAX_EVENTS_PER_ROOM + 1, Len(b))
    BY <1>2 DEF Trimmed
  <2>3. QED
    BY <2>1, <2>2, TailOfTail
<1>3. CASE ~(Len(b) > MAX_EVENTS_PER_ROOM)
  BY <1>3 DEF Trimmed
<1>4. QED
  BY <1>2, <1>3

----------------------------------------------------------------------------
(* One listener at a time: buffers are tails                                 *)

OneHandler == \E h : Handlers = {h}

(* The listener has broadcast its event to a room and not buffered it yet.   *)
Aloft(h) == handler[h].at \notin {"idle", "room"}

(* The rooms it has yet to broadcast to.                                     *)
ToCome(h) ==
  IF handler[h].at = "idle" THEN {}
  ELSE IF handler[h].at = "room" THEN ToSet(handler[h].rooms)
  ELSE ToSet(Tail(handler[h].rooms))

(* An event is broadcast to a room once, and fails there at most once.       *)
BroadcastOnce(h) ==
  /\ handler[h].at # "idle" => handler[h].p \notin unpublished
  /\ \A r \in Rooms : \A p \in ToSet(broadcast[r]) :
       p \notin unpublished /\ (r \in ToCome(h) => p # handler[h].p)
  /\ \A r \in Rooms, p \in Publications : <<r, p>> \in failed =>
       p \notin unpublished /\ (handler[h].at # "idle" => p # handler[h].p)

(* What is not buffered yet is the last broadcast of its room.               *)
LastAloft(h) ==
  LET s == broadcast[Head(handler[h].rooms)] IN
  Aloft(h) => s # << >> /\ \A i \in DOMAIN s : s[i] = handler[h].p <=> i = Len(s)

(* What the listener read of a buffer is still a tail when it writes.        *)
ReadIsTail(h) ==
  LET r == Head(handler[h].rooms) IN
  handler[h].at = "read" => IsTail(handler[h].read, broadcast[r], Dropped(r))

TailInv(h) ==
  /\ TypeInv
  /\ BroadcastOnce(h)
  /\ LastAloft(h)
  /\ ReadIsTail(h)
  /\ BufferIsTailOfBroadcasts

LEMMA OneInFlight ==
  ASSUME NEW h, Handlers = {h}
  PROVE  \A r : InFlight(r) = IF Aloft(h) /\ Head(handler[h].rooms) = r
                              THEN {handler[h].p} ELSE {}
BY DEF InFlight, Aloft

LEMMA OneInFlightNext ==
  ASSUME NEW h, Handlers = {h}
  PROVE  \A r : InFlight(r)' = IF Aloft(h)' /\ Head(handler'[h].rooms) = r
                               THEN {handler'[h].p} ELSE {}
BY DEF InFlight, Aloft

LEMMA AloftHas ==
  ASSUME NEW h, Handlers = {h}, TypeInv, Aloft(h)
  PROVE  /\ handler[h].p \in Publications
         /\ handler[h].rooms \in Seq(Rooms)
         /\ handler[h].rooms # << >>
         /\ Head(handler[h].rooms) \in Rooms
         /\ Head(handler[h].rooms) \notin ToCome(h)
         /\ ToCome(h) = ToSet(Tail(handler[h].rooms))
         /\ handler[h].read \in Seq(Publications)
         /\ handler[h].at # "idle"
<1>1. handler[h].at # "idle" /\ handler[h].at # "room" /\ h \in Handlers
  BY DEF Aloft
<1>2. /\ handler[h].p \in Publications
      /\ handler[h].rooms \in Seq(Rooms)
      /\ handler[h].rooms # << >>
      /\ IsInjective(handler[h].rooms)
      /\ Head(handler[h].rooms) \in Rooms
      /\ handler[h].read \in Seq(Publications)
  BY <1>1, HandlerMoves
<1>3. Head(handler[h].rooms) \notin ToSet(Tail(handler[h].rooms))
  BY <1>2, TailOfRooms
<1>4. QED
  BY <1>1, <1>2, <1>3 DEF ToCome

(* What a room has of its own.                                               *)
LEMMA DroppedInRoom ==
  ASSUME NEW h, Handlers = {h}, TailInv(h), NEW r \in Rooms
  PROVE  /\ Dropped(r) = {p \in Publications : <<r, p>> \in failed} \cup InFlight(r)
         /\ Aloft(h) => <<r, handler[h].p>> \notin failed
<1>1. Aloft(h) => handler[h].p \in Publications /\ handler[h].at # "idle"
  BY AloftHas DEF TailInv
<1>2. QED
  BY <1>1 DEF Dropped, TailInv, BroadcastOnce

LEMMA LeavesRoom ==
  ASSUME NEW h, Handlers = {h}, TypeInv, Aloft(h), NextRoom(h)
  PROVE  /\ ~Aloft(h)'
         /\ handler'[h].at # "read"
         /\ ToCome(h)' = ToCome(h)
         /\ handler'[h].at # "idle" => handler'[h].p = handler[h].p
         /\ \A r : InFlight(r)' = {}
<1>1. /\ handler[h].rooms \in Seq(Rooms)
      /\ handler[h].rooms # << >>
      /\ ToCome(h) = ToSet(Tail(handler[h].rooms))
  BY AloftHas
<1> DEFINE v == IF Len(handler[h].rooms) = 1 THEN Idle
                ELSE [at |-> "room", p |-> handler[h].p, rooms |-> Tail(handler[h].rooms),
                      read |-> << >>]
<1>2. handler'[h] = v
  BY DEF NextRoom, TypeInv, RealtimeTypeOK
<1>3. CASE Len(handler[h].rooms) = 1
  <2>1. DOMAIN Tail(handler[h].rooms) = {}
    BY <1>1, <1>3, LastRoom
  <2>2. ToCome(h) = {}
    BY <2>1, <1>1 DEF ToSet
  <2>3. handler'[h].at = "idle"
    BY <1>2, <1>3 DEF Idle
  <2>4. ToCome(h)' = {} /\ ~Aloft(h)'
    BY <2>3 DEF ToCome, Aloft
  <2>5. QED
    BY <2>2, <2>3, <2>4, OneInFlightNext
<1>4. CASE Len(handler[h].rooms) # 1
  <2>1. /\ handler'[h].at = "room"
        /\ handler'[h].p = handler[h].p
        /\ handler'[h].rooms = Tail(handler[h].rooms)
    BY <1>2, <1>4
  <2>2. ToCome(h)' = ToSet(Tail(handler[h].rooms)) /\ ~Aloft(h)'
    BY <2>1 DEF ToCome, Aloft
  <2>3. QED
    BY <1>1, <2>1, <2>2, OneInFlightNext
<1>5. QED
  BY <1>3, <1>4

(* Leaving a room, with its buffer as it should be.                          *)
LEMMA AfterRoom ==
  ASSUME NEW h, Handlers = {h}, TailInv(h), TypeInv', Aloft(h), NextRoom(h),
         UNCHANGED <<broadcast, unpublished, failed>>,
         IsTail(buffer'[Head(handler[h].rooms)], broadcast[Head(handler[h].rooms)],
                Dropped(Head(handler[h].rooms)) \ {handler[h].p}),
         \A r \in Rooms : r # Head(handler[h].rooms) => buffer'[r] = buffer[r]
  PROVE  TailInv(h)'
<1>1. /\ ~Aloft(h)'
      /\ handler'[h].at # "read"
      /\ ToCome(h)' = ToCome(h)
      /\ handler'[h].at # "idle" => handler'[h].p = handler[h].p
      /\ \A r : InFlight(r)' = {}
  BY LeavesRoom DEF TailInv
<1>2. handler[h].at # "idle" /\ handler[h].p \in Publications
  BY AloftHas DEF TailInv
<1>3. BroadcastOnce(h)'
  <2>1. handler'[h].at = "idle" => ToCome(h)' = {}
    BY DEF ToCome
  <2>2. QED
    BY <1>1, <1>2, <2>1 DEF TailInv, BroadcastOnce
<1>4. LastAloft(h)' /\ ReadIsTail(h)'
  BY <1>1 DEF LastAloft, ReadIsTail
<1>5. ASSUME NEW r \in Rooms
      PROVE  IsTail(buffer'[r], broadcast'[r], Dropped(r)')
  <2>1. Dropped(r)' = {p \in Publications : <<r, p>> \in failed}
    BY <1>1 DEF Dropped
  <2>2. Dropped(r) = {p \in Publications : <<r, p>> \in failed} \cup InFlight(r)
        /\ <<r, handler[h].p>> \notin failed
    BY DroppedInRoom
  <2>3. CASE r = Head(handler[h].rooms)
    <3>1. InFlight(r) = {handler[h].p}
      BY <2>3, OneInFlight
    <3>2. Dropped(r)' = Dropped(r) \ {handler[h].p}
      BY <2>1, <2>2, <3>1
    <3>3. QED
      BY <2>3, <3>2
  <2>4. CASE r # Head(handler[h].rooms)
    <3>1. InFlight(r) = {}
      BY <2>4, OneInFlight
    <3>2. Dropped(r)' = Dropped(r)
      BY <2>1, <2>2, <3>1
    <3>3. QED
      BY <2>4, <3>2 DEF TailInv, BufferIsTailOfBroadcasts
  <2>5. QED
    BY <2>3, <2>4
<1>6. QED
  BY <1>3, <1>4, <1>5 DEF TailInv, BufferIsTailOfBroadcasts

(* Going on in a room, with what is read as it should be.                    *)
LEMMA WithinRoom ==
  ASSUME NEW h, Handlers = {h}, TailInv(h), TypeInv', Aloft(h), Aloft(h)',
         handler'[h].p = handler[h].p, handler'[h].rooms = handler[h].rooms,
         UNCHANGED <<buffer, broadcast, unpublished, failed>>,
         handler'[h].at = "read" =>
           IsTail(handler'[h].read, broadcast[Head(handler[h].rooms)],
                  Dropped(Head(handler[h].rooms)))
  PROVE  TailInv(h)'
<1>1. ToCome(h)' = ToCome(h)
  BY DEF ToCome, Aloft
<1>2. \A r : InFlight(r)' = InFlight(r)
  BY OneInFlight, OneInFlightNext
<1>3. \A r : Dropped(r)' = Dropped(r)
  BY <1>2 DEF Dropped
<1>4. BroadcastOnce(h)'
  BY <1>1 DEF TailInv, BroadcastOnce, Aloft
<1>5. LastAloft(h)'
  BY DEF TailInv, LastAloft
<1>6. ReadIsTail(h)'
  BY <1>3 DEF ReadIsTail
<1>7. BufferIsTailOfBroadcasts'
  BY <1>3 DEF TailInv, BufferIsTailOfBroadcasts
<1>8. QED
  BY <1>4, <1>5, <1>6, <1>7 DEF TailInv

LEMMA ToSetOfAppend ==
  ASSUME NEW S, NEW s \in Seq(S), NEW x
  PROVE  ToSet(Append(s, x)) = ToSet(s) \cup {x}
<1> DEFINE t == Append(s, x)
<1>1. /\ DOMAIN t = 1..(Len(s) + 1)
      /\ DOMAIN s = 1..Len(s)
      /\ Len(s) \in Nat
      /\ \A i \in 1..Len(s) : t[i] = s[i]
      /\ t[Len(s) + 1] = x
  OBVIOUS
<1> HIDE DEF t
<1>2. ToSet(t) \subseteq ToSet(s) \cup {x}
  <2>1. \A i \in DOMAIN t : i = Len(s) + 1 \/ i \in DOMAIN s
    BY <1>1
  <2>2. QED
    BY <1>1, <2>1 DEF ToSet
<1>3. ToSet(s) \cup {x} \subseteq ToSet(t)
  <2>1. \A i \in DOMAIN s : i \in DOMAIN t
    BY <1>1
  <2>2. Len(s) + 1 \in DOMAIN t
    BY <1>1
  <2>3. QED
    BY <1>1, <2>1, <2>2 DEF ToSet
<1>4. QED
  BY <1>2, <1>3 DEF t

LEMMA PublishesTail ==
  ASSUME NEW h, Handlers = {h}, TailInv(h), TypeInv', Publishes(h)
  PROVE  TailInv(h)'
<1>1. PICK p \in unpublished :
        /\ unpublished' = unpublished \ {p}
        /\ handler' = [handler EXCEPT ![h] =
                         [at |-> "room", p |-> p, rooms |-> RoomsOf[p], read |-> << >>]]
  BY DEF Publishes
<1>2. /\ handler[h].at = "idle"
      /\ UNCHANGED <<buffer, broadcast, failed>>
  BY DEF Publishes
<1>3. /\ handler'[h].at = "room"
      /\ handler'[h].p = p
  BY <1>1 DEF TailInv, TypeInv, RealtimeTypeOK
<1>4. ~Aloft(h) /\ ~Aloft(h)' /\ handler'[h].at # "read"
  BY <1>2, <1>3 DEF Aloft
<1>5. \A r : Dropped(r)' = Dropped(r)
  BY <1>2, <1>4, OneInFlight, OneInFlightNext DEF Dropped
<1>6. BroadcastOnce(h)'
  <2>1. \A r \in Rooms : \A q \in ToSet(broadcast[r]) : q # p
    BY DEF TailInv, BroadcastOnce
  <2>2. \A r \in Rooms, q \in Publications : <<r, q>> \in failed => q # p
    BY DEF TailInv, BroadcastOnce
  <2>3. QED
    BY <1>1, <1>2, <1>3, <2>1, <2>2 DEF TailInv, BroadcastOnce
<1>7. LastAloft(h)' /\ ReadIsTail(h)'
  BY <1>4 DEF LastAloft, ReadIsTail
<1>8. BufferIsTailOfBroadcasts'
  BY <1>2, <1>5 DEF TailInv, BufferIsTailOfBroadcasts
<1>9. QED
  BY <1>6, <1>7, <1>8 DEF TailInv

(* What a broadcast does to its room, where the event has not been before.    *)
LEMMA BroadcastsToRoom ==
  ASSUME NEW h, Handlers = {h}, TailInv(h), Broadcasts(h)
  PROVE  LET p == handler[h].p
             r == Head(handler[h].rooms)
         IN  /\ p \in Publications
             /\ r \in Rooms
             /\ p \notin ToSet(broadcast[r])
             /\ broadcast' = [broadcast EXCEPT ![r] = Append(@, p)]
             /\ handler'[h].at = "buffering"
             /\ handler'[h].p = p
             /\ handler'[h].rooms = handler[h].rooms
             /\ ToCome(h) = {r} \cup ToCome(h)'
             /\ r \notin ToCome(h)'
             /\ ~Aloft(h)
             /\ Aloft(h)'
<1>1. handler[h].at = "room" /\ handler[h].at # "idle" /\ ~Aloft(h) /\ h \in Handlers
  BY DEF Broadcasts, Aloft
<1>2. /\ handler[h].p \in Publications
      /\ handler[h].rooms \in Seq(Rooms)
      /\ handler[h].rooms # << >>
      /\ IsInjective(handler[h].rooms)
      /\ Head(handler[h].rooms) \in Rooms
  BY <1>1, HandlerMoves DEF TailInv
<1>3. /\ handler'[h].at = "buffering"
      /\ handler'[h].p = handler[h].p
      /\ handler'[h].rooms = handler[h].rooms
  <2>1. handler' = [handler EXCEPT ![h] = [handler[h] EXCEPT !.at = "buffering"]]
    BY DEF Broadcasts, Continue
  <2>2. handler'[h] = [handler[h] EXCEPT !.at = "buffering"]
    BY <2>1 DEF TailInv, TypeInv, RealtimeTypeOK
  <2>3. handler[h] = [at |-> handler[h].at, p |-> handler[h].p, rooms |-> handler[h].rooms,
                      read |-> handler[h].read]
    BY <1>1, SoundMeans DEF TailInv, TypeInv, Idle
  <2>4. QED
    BY <2>2, <2>3
<1>4. ToCome(h) = ToSet(handler[h].rooms) /\ ToCome(h)' = ToSet(Tail(handler[h].rooms))
      /\ Aloft(h)'
  BY <1>1, <1>3 DEF ToCome, Aloft
<1>5. ToCome(h) = {Head(handler[h].rooms)} \cup ToCome(h)' /\ Head(handler[h].rooms) \notin ToCome(h)'
  BY <1>2, <1>4, TailOfRooms
<1>6. handler[h].p \notin ToSet(broadcast[Head(handler[h].rooms)])
  BY <1>2, <1>5 DEF TailInv, BroadcastOnce
<1>7. QED
  BY <1>1, <1>2, <1>3, <1>4, <1>5, <1>6 DEF Broadcasts

LEMMA BroadcastsTail ==
  ASSUME NEW h, Handlers = {h}, TailInv(h), TypeInv', Broadcasts(h)
  PROVE  TailInv(h)'
<1> DEFINE p == handler[h].p
           r == Head(handler[h].rooms)
<1>1. /\ p \in Publications
      /\ r \in Rooms
      /\ p \notin ToSet(broadcast[r])
      /\ broadcast' = [broadcast EXCEPT ![r] = Append(@, p)]
      /\ handler'[h].at = "buffering"
      /\ handler'[h].p = p
      /\ handler'[h].rooms = handler[h].rooms
      /\ ToCome(h) = {r} \cup ToCome(h)'
      /\ r \notin ToCome(h)'
      /\ ~Aloft(h)
      /\ Aloft(h)'
  BY BroadcastsToRoom
<1>2. handler[h].at = "room" /\ UNCHANGED <<buffer, unpublished, failed>>
  BY DEF Broadcasts
<1>3. /\ broadcast \in [Rooms -> Seq(Publications)]
      /\ buffer \in [Rooms -> Seq(Publications)]
  BY DEF TailInv, TypeInv, RealtimeTypeOK
<1>4. Head(handler'[h].rooms) = r
  BY <1>1
<1> DEFINE s == broadcast[r]
<1>5. s \in Seq(Publications) /\ broadcast'[r] = Append(s, p)
      /\ \A q \in Rooms : q # r => broadcast'[q] = broadcast[q]
  BY <1>1, <1>3
<1>6. ToSet(broadcast'[r]) = ToSet(s) \cup {p}
  <2> HIDE DEF s, p, r
  <2> QED BY <1>5, ToSetOfAppend
<1>7. BroadcastOnce(h)'
  <2>1. handler'[h].at # "idle" => handler'[h].p \notin unpublished'
    BY <1>1, <1>2 DEF TailInv, BroadcastOnce
  <2>2. ASSUME NEW q \in Rooms, NEW e \in ToSet(broadcast'[q])
        PROVE  e \notin unpublished' /\ (q \in ToCome(h)' => e # handler'[h].p)
    <3>1. CASE q = r
      BY <3>1, <1>1, <1>2, <1>6, <2>1, <2>2 DEF TailInv, BroadcastOnce
    <3>2. CASE q # r
      BY <3>2, <1>1, <1>2, <1>5, <2>2 DEF TailInv, BroadcastOnce
    <3>3. QED
      BY <3>1, <3>2
  <2>3. \A q \in Rooms, e \in Publications : <<q, e>> \in failed' =>
          e \notin unpublished' /\ (handler'[h].at # "idle" => e # handler'[h].p)
    BY <1>1, <1>2 DEF TailInv, BroadcastOnce
  <2>4. QED
    BY <2>1, <2>2, <2>3 DEF BroadcastOnce
<1>8. LastAloft(h)'
  <2> DEFINE t == broadcast'[r]
  <2>1. t # << >> /\ \A i \in DOMAIN t : t[i] = p <=> i = Len(t)
    <3>1. \A i \in DOMAIN s : s[i] # p
      BY <1>1 DEF ToSet
    <3>2. t = Append(s, p)
      BY <1>5
    <3> HIDE DEF t, s, p, r
    <3>3. /\ DOMAIN s = 1..Len(s)
          /\ DOMAIN t = 1..(Len(s) + 1)
          /\ Len(t) = Len(s) + 1
          /\ Len(s) \in Nat
          /\ \A k \in 1..Len(s) : t[k] = s[k]
          /\ t[Len(s) + 1] = p
      BY <1>5, <3>2
    <3>4. t # << >>
      BY <1>5, <3>2
    <3>5. QED
      BY <3>1, <3>3, <3>4
  <2>2. QED
    BY <2>1, <1>1 DEF LastAloft
<1>9. ReadIsTail(h)'
  BY <1>1 DEF ReadIsTail
<1>10. ASSUME NEW q \in Rooms
       PROVE  IsTail(buffer'[q], broadcast'[q], Dropped(q)')
  <2>1. InFlight(q) = {} /\ InFlight(q)' = IF q = r THEN {p} ELSE {}
    BY <1>1, <1>4, OneInFlight, OneInFlightNext
  <2>2. IsTail(buffer[q], broadcast[q], Dropped(q))
    BY DEF TailInv, BufferIsTailOfBroadcasts
  <2>3. CASE q = r
    <3>1. Dropped(q)' = Dropped(q) \cup {p}
      BY <1>2, <2>1, <2>3 DEF Dropped
    <3> DEFINE b == buffer[r]
               d == Dropped(r)
    <3>2. b \in Seq(Publications) /\ IsTail(b, s, d) /\ p \notin ToSet(s)
      BY <1>1, <1>3, <2>2, <2>3
    <3>3. IsTail(b, Append(s, p), d \cup {p})
      <4> HIDE DEF b, d, s, p
      <4> QED BY <1>1, <1>5, <3>2, TailMeanwhile
    <3>4. QED
      BY <3>1, <3>3, <1>2, <1>5, <2>3
  <2>4. CASE q # r
    <3>1. Dropped(q)' = Dropped(q)
      BY <1>2, <2>1, <2>4 DEF Dropped
    <3>2. QED
      BY <3>1, <1>2, <1>5, <2>2, <2>4
  <2>5. QED
    BY <2>3, <2>4
<1>11. QED
  BY <1>7, <1>8, <1>9, <1>10 DEF TailInv, BufferIsTailOfBroadcasts

LEMMA HandlerTail ==
  ASSUME RealtimeAssumption, NEW h, Handlers = {h}, TailInv(h), HandlerStep(h)
  PROVE  TailInv(h)'
<1> DEFINE p == handler[h].p
           r == Head(handler[h].rooms)
<1>1. TypeInv'
  BY HandlerTyped DEF TailInv
<1>2. Aloft(h) => /\ p \in Publications
                  /\ r \in Rooms
                  /\ InFlight(r) = {p}
                  /\ p \in Dropped(r)
  <2>1. Aloft(h) => p \in Publications /\ r \in Rooms /\ InFlight(r) = {p}
    BY AloftHas, OneInFlight DEF TailInv
  <2>2. QED
    BY <2>1 DEF Dropped
<1>3. /\ broadcast \in [Rooms -> Seq(Publications)]
      /\ buffer \in [Rooms -> Seq(Publications)]
  BY DEF TailInv, TypeInv, RealtimeTypeOK
<1> DEFINE s == broadcast[r]
           d == Dropped(r)
<1>4. Aloft(h) => s \in Seq(Publications)
  BY <1>2, <1>3
<1>5. CASE Publishes(h)
  BY <1>1, <1>5, PublishesTail
<1>6. CASE Broadcasts(h)
  BY <1>1, <1>6, BroadcastsTail
<1>7. CASE ChecksKey(h)
  <2>1. Aloft(h) /\ handler[h].at = "buffering"
    BY <1>7 DEF ChecksKey, Aloft
  <2> DEFINE a == IF buffer[r] = << >> THEN "absent" ELSE "present"
  <2>2. handler' = [handler EXCEPT ![h] = [handler[h] EXCEPT !.at = a]]
    BY <1>7 DEF ChecksKey, Continue
  <2>3. handler[h] = [at |-> handler[h].at, p |-> handler[h].p, rooms |-> handler[h].rooms,
                      read |-> handler[h].read]
    BY <2>1, SoundMeans DEF TailInv, TypeInv, Idle
  <2>4. handler'[h] = [handler[h] EXCEPT !.at = a]
    BY <2>2 DEF TailInv, TypeInv, RealtimeTypeOK
  <2> HIDE DEF a
  <2>5. handler'[h].at = a /\ handler'[h].p = p /\ handler'[h].rooms = handler[h].rooms
    BY <2>3, <2>4
  <2>6. Aloft(h)' /\ handler'[h].at # "read"
    BY <2>5 DEF a, Aloft
  <2>7. QED
    BY <1>1, <1>7, <2>1, <2>5, <2>6, WithinRoom DEF ChecksKey
<1>alone. ASSUME Aloft(h), NextRoom(h), buffer' = [buffer EXCEPT ![r] = <<p>>],
                 UNCHANGED <<broadcast, unpublished, failed>>
          PROVE  TailInv(h)'
  <2>2. s # << >> /\ \A i \in DOMAIN s : s[i] = p <=> i = Len(s)
    BY <1>alone DEF TailInv, LastAloft
  <2>3. IsTail(<<p>>, s, d \ {p})
    <3>1. s \in Seq(Publications)
      BY <1>4, <1>alone
    <3> HIDE DEF s, d, p
    <3>2. s[Len(s)] = p
      <4>1. Len(s) \in DOMAIN s
        BY <3>1, <2>2
      <4>2. QED
        BY <4>1, <2>2
    <3>3. QED
      BY <3>1, <3>2, <2>2, LastIsTail
  <2>4. buffer'[r] = <<p>> /\ \A q \in Rooms : q # r => buffer'[q] = buffer[q]
    BY <1>alone, <1>2, <1>3
  <2>5. QED
    BY <1>1, <1>alone, <2>3, <2>4, AfterRoom
<1>8. CASE CreatesBuffer(h)
  <2>1. Aloft(h) /\ NextRoom(h) /\ buffer' = [buffer EXCEPT ![r] = <<p>>]
        /\ UNCHANGED <<broadcast, unpublished, failed>>
    BY <1>8 DEF CreatesBuffer, Aloft
  <2>2. QED
    BY <1>alone, <2>1
<1>9. CASE ReadsBuffer(h)
  <2>1. Aloft(h) /\ UNCHANGED <<buffer, broadcast, unpublished, failed>>
    BY <1>9 DEF ReadsBuffer, Aloft
  <2>2. CASE buffer[r] = << >>
    <3>1. NextRoom(h)
      BY <1>9, <2>2 DEF ReadsBuffer
    <3>2. IsTail(<< >>, s, d \ {p})
      <4>1. s \in Seq(Publications)
        BY <1>4, <2>1
      <4> HIDE DEF s, d, p
      <4> QED BY <4>1, NothingIsTail
    <3>3. QED
      BY <1>1, <2>1, <2>2, <3>1, <3>2, AfterRoom
  <2>3. CASE buffer[r] # << >>
    <3>1. handler' = [handler EXCEPT ![h] =
                        [at |-> "read", p |-> handler[h].p, rooms |-> handler[h].rooms,
                         read |-> buffer[r]]]
      BY <1>9, <2>3 DEF ReadsBuffer
    <3>2. handler'[h] = [at |-> "read", p |-> handler[h].p, rooms |-> handler[h].rooms,
                         read |-> buffer[r]]
      BY <3>1 DEF TailInv, TypeInv, RealtimeTypeOK
    <3>3. /\ handler'[h].at = "read"
          /\ handler'[h].p = p
          /\ handler'[h].rooms = handler[h].rooms
          /\ handler'[h].read = buffer[r]
      BY <3>2
    <3>4. Aloft(h)'
      BY <3>3 DEF Aloft
    <3>5. IsTail(buffer[r], s, d)
      BY <1>2, <2>1 DEF TailInv, BufferIsTailOfBroadcasts
    <3>6. QED
      BY <1>1, <2>1, <3>3, <3>4, <3>5, WithinRoom
  <2>4. QED
    BY <2>2, <2>3
<1>10. CASE WritesBuffer(h)
  <2> DEFINE b == handler[h].read
  <2>1. /\ Aloft(h) /\ NextRoom(h) /\ handler[h].at = "read"
        /\ buffer' = [buffer EXCEPT ![r] = Trimmed(Append(b, p))]
        /\ UNCHANGED <<broadcast, unpublished, failed>>
    BY <1>10 DEF WritesBuffer, Aloft
  <2>2. s # << >> /\ \A i \in DOMAIN s : s[i] = p <=> i = Len(s)
    BY <2>1 DEF TailInv, LastAloft
  <2>3. IsTail(b, s, d)
    BY <2>1 DEF TailInv, ReadIsTail
  <2>4. b \in Seq(Publications) /\ s \in Seq(Publications) /\ p \in Publications /\ p \in d
    BY <1>2, <1>4, <2>1, AloftHas DEF TailInv
  <2>5. IsTail(Trimmed(Append(b, p)), s, d \ {p})
    <3> HIDE DEF s, d, p, b
    <3>1. IsTail(Append(b, p), s, d \ {p})
      BY <2>2, <2>3, <2>4, TailGrows
    <3>2. Append(b, p) \in Seq(Publications)
      BY <2>4
    <3>3. QED
      BY <2>4, <3>1, <3>2, TrimmedIsTail
  <2>6. buffer'[r] = Trimmed(Append(b, p)) /\ \A q \in Rooms : q # r => buffer'[q] = buffer[q]
    BY <2>1, <1>2, <1>3
  <2>7. QED
    BY <1>1, <2>1, <2>5, <2>6, AfterRoom
<1>11. CASE ReplacesBuffer(h)
  <2>1. Aloft(h) /\ NextRoom(h) /\ buffer' = [buffer EXCEPT ![r] = <<p>>]
        /\ UNCHANGED <<broadcast, unpublished, failed>>
    BY <1>11 DEF ReplacesBuffer, Aloft
  <2>2. QED
    BY <1>alone, <2>1
<1>12. CASE HandlerFails(h)
  <2>1. Aloft(h) /\ handler[h].at # "idle"
    BY <1>12 DEF HandlerFails, Aloft
  <2>2. handler'[h].at = "idle" /\ ~Aloft(h)' /\ handler'[h].at # "read"
    BY <1>12 DEF HandlerFails, TailInv, TypeInv, RealtimeTypeOK, Idle, Aloft
  <2>3. failed' = failed \cup {<<r, p>>} /\ UNCHANGED <<buffer, broadcast, unpublished>>
    BY <1>12 DEF HandlerFails
  <2>4. \A q \in Rooms : Dropped(q)' = Dropped(q)
    BY <1>2, <2>1, <2>2, <2>3, OneInFlight, OneInFlightNext DEF Dropped
  <2>5. BroadcastOnce(h)'
    <3>1. ToCome(h)' = {} /\ p \notin unpublished
      BY <2>1, <2>2 DEF ToCome, TailInv, BroadcastOnce
    <3>2. QED
      BY <2>2, <2>3, <3>1 DEF TailInv, BroadcastOnce
  <2>6. LastAloft(h)' /\ ReadIsTail(h)'
    BY <2>2 DEF LastAloft, ReadIsTail
  <2>7. BufferIsTailOfBroadcasts'
    BY <2>3, <2>4 DEF TailInv, BufferIsTailOfBroadcasts
  <2>8. QED
    BY <1>1, <2>5, <2>6, <2>7 DEF TailInv
<1>13. QED
  BY <1>5, <1>6, <1>7, <1>8, <1>9, <1>10, <1>11, <1>12 DEF HandlerStep

(* Clients touch none of it, and a key that runs out leaves nothing to check.   *)
LEMMA OthersTail ==
  ASSUME NEW h, Handlers = {h}, TailInv(h), TypeInv',
         UNCHANGED <<broadcast, unpublished, handler, failed>>,
         \A r \in Rooms : buffer'[r] = buffer[r] \/ buffer'[r] = << >>
  PROVE  TailInv(h)'
<1>1. \A r : Dropped(r)' = Dropped(r)
  BY DEF Dropped, InFlight
<1>2. BroadcastOnce(h)' /\ LastAloft(h)'
  BY DEF TailInv, BroadcastOnce, LastAloft, ToCome, Aloft
<1>3. ReadIsTail(h)'
  BY <1>1 DEF TailInv, ReadIsTail
<1>4. ASSUME NEW r \in Rooms
      PROVE  IsTail(buffer'[r], broadcast'[r], Dropped(r)')
  <2>1. broadcast[r] \in Seq(Publications)
    BY DEF TailInv, TypeInv, RealtimeTypeOK
  <2>2. IsTail(<< >>, broadcast[r], Dropped(r))
    BY <2>1, NothingIsTail
  <2>3. QED
    BY <1>1, <2>2 DEF TailInv, BufferIsTailOfBroadcasts
<1>5. QED
  BY <1>2, <1>3, <1>4 DEF TailInv, BufferIsTailOfBroadcasts

LEMMA TailInvHolds ==
  ASSUME NEW h, Handlers = {h}
  PROVE  Spec => []TailInv(h)
<1>1. Init /\ TypeInv => TailInv(h)
  <2> SUFFICES ASSUME Init, TypeInv PROVE TailInv(h)
    OBVIOUS
  <2>1. handler[h].at = "idle" /\ ~Aloft(h) /\ handler[h].at # "read"
    BY DEF Init, Idle, Aloft
  <2>2. \A r \in Rooms : ToSet(broadcast[r]) = {}
    <3>1. DOMAIN << >> = {}
      OBVIOUS
    <3>2. QED
      BY <3>1 DEF Init, ToSet
  <2>3. BroadcastOnce(h) /\ LastAloft(h) /\ ReadIsTail(h)
    BY <2>1, <2>2 DEF Init, BroadcastOnce, LastAloft, ReadIsTail
  <2>4. BufferIsTailOfBroadcasts
    <3> SUFFICES ASSUME NEW r \in Rooms PROVE IsTail(buffer[r], broadcast[r], Dropped(r))
      BY DEF BufferIsTailOfBroadcasts
    <3>1. buffer[r] = << >> /\ broadcast[r] \in Seq(Publications)
      BY DEF Init
    <3>2. QED
      BY <3>1, NothingIsTail
  <2>5. QED
    BY <2>3, <2>4 DEF TailInv
<1>2. TailInv(h) /\ TypeInv' /\ [Next]_vars => TailInv(h)'
  <2> SUFFICES ASSUME TailInv(h), TypeInv', [Next]_vars PROVE TailInv(h)'
    OBVIOUS
  <2>1. CASE \E g \in Handlers : HandlerStep(g)
    BY <2>1, HandlerTail, RealtimeAssumption
  <2>2. CASE \E r \in Rooms : KeyExpires(r)
    <3>1. PICK r \in Rooms : KeyExpires(r)
      BY <2>2
    <3>2. \A q \in Rooms : buffer'[q] = buffer[q] \/ buffer'[q] = << >>
      BY <3>1 DEF KeyExpires, TailInv, TypeInv, RealtimeTypeOK
    <3>3. QED
      BY <3>1, <3>2, OthersTail DEF KeyExpires
  <2>3. CASE \E c \in Clients : ClientStep(c)
    <3>1. UNCHANGED serverVars
      BY <2>3 DEF ClientStep, Connects, Disconnects, TogglesTracking, AsksForMissed, Replays
    <3>2. QED
      BY <3>1, OthersTail DEF serverVars
  <2>4. CASE UNCHANGED vars
    BY <2>4, OthersTail DEF vars
  <2>5. QED
    BY <2>1, <2>2, <2>3, <2>4 DEF Next
<1>3. QED
  BY <1>1, <1>2, TypeInvHolds, PTL DEF Spec

(* Where one listener runs at a time, whatever was trimmed, has run out or       *)
(* failed, the buffer of a room is the tail of what was broadcast to it.        *)
THEOREM BuffersKeepTheNewest ==
  ASSUME OneHandler
  PROVE  Spec => []BufferIsTailOfBroadcasts
<1>1. PICK h : Handlers = {h}
  BY DEF OneHandler
<1>2. Spec => []TailInv(h)
  BY <1>1, TailInvHolds
<1>3. TailInv(h) => BufferIsTailOfBroadcasts
  BY DEF TailInv
<1>4. QED
  BY <1>2, <1>3, PTL

----------------------------------------------------------------------------
(* One listener at a time: what a client lacks                               *)

(* What a client lacks of a room: buffered, or about to be.                  *)
Lacks(c, r) == {p \in ToSet(buffer[r]) \cup InFlight(r) : <<r, p>> \notin received[c]}

LacksOne ==
  \A c \in Clients : \A r \in caughtUp[c] \ expired : \E p : Lacks(c, r) \subseteq {p}

(* A client that has caught up with a room is in it, as in all its own rooms.   *)
InOwnRooms(c) ==
  /\ joined[c] # {} => ToSet(DefaultRooms[c]) \subseteq joined[c]
  /\ caughtUp[c] # {} \/ sync[c] # << >> => joined[c] # {}
  /\ caughtUp[c] \subseteq ToSet(DefaultRooms[c])
  /\ sync[c] # << >> => ToSet(sync[c][1].rooms) \subseteq ToSet(DefaultRooms[c])

(* What the one listener read is in the buffer still, unless the key ran out.   *)
ReadIsCurrent(h) ==
  LET r == Head(handler[h].rooms) IN
  handler[h].at = "read" /\ r \notin expired => handler[h].read = buffer[r]

GapInv(h) ==
  /\ ReadIsCurrent(h)
  /\ \A c \in Clients : InOwnRooms(c)
  /\ LacksOne

LEMMA TrimmedFromIt ==
  ASSUME RealtimeAssumption, NEW S, NEW s \in Seq(S)
  PROVE  ToSet(Trimmed(s)) \subseteq ToSet(s)
<1>1. MAX_EVENTS_PER_ROOM \in Nat \ {0}
  BY DEF RealtimeAssumption
<1>2. CASE Len(s) > MAX_EVENTS_PER_ROOM
  <2> DEFINE n == Len(s) - MAX_EVENTS_PER_ROOM + 1
             t == SubSeq(s, n, Len(s))
  <2>1. Trimmed(s) = t /\ n \in 1..Len(s)
    BY <1>1, <1>2 DEF Trimmed
  <2> HIDE DEF n
  <2>2. /\ DOMAIN t = 1..(Len(s) - n + 1)
        /\ DOMAIN s = 1..Len(s)
        /\ \A i \in 1..(Len(s) - n + 1) : t[i] = s[n + i - 1]
        /\ \A i \in 1..(Len(s) - n + 1) : n + i - 1 \in 1..Len(s)
    BY <2>1
  <2> HIDE DEF t
  <2>3. QED
    BY <2>1, <2>2 DEF ToSet
<1>3. CASE ~(Len(s) > MAX_EVENTS_PER_ROOM)
  BY <1>3 DEF Trimmed
<1>4. QED
  BY <1>2, <1>3

(* A listener's step adds nothing to what a client that has caught up lacks.     *)
LEMMA HandlerAddsNothing ==
  ASSUME RealtimeAssumption, NEW h, Handlers = {h}, TailInv(h), TailInv(h)', GapInv(h),
         HandlerStep(h),
         NEW c \in Clients, NEW q \in caughtUp[c] \ expired
  PROVE  Lacks(c, q)' \subseteq Lacks(c, q)
<1> DEFINE p == handler[h].p
           r == Head(handler[h].rooms)
<1>1. q \in Rooms /\ q \in joined[c]
  <2>1. caughtUp[c] \subseteq Rooms
    BY DEF TailInv, TypeInv, RealtimeTypeOK
  <2>2. ToSet(DefaultRooms[c]) \subseteq joined[c] /\ q \in ToSet(DefaultRooms[c])
    BY DEF GapInv, InOwnRooms
  <2>3. QED
    BY <2>1, <2>2
<1>2. /\ buffer \in [Rooms -> Seq(Publications)]
      /\ received \in [Clients -> SUBSET (Rooms \X Publications)]
  BY DEF TailInv, TypeInv, RealtimeTypeOK
<1>3. Aloft(h) => /\ p \in Publications
                  /\ r \in Rooms
                  /\ InFlight(r) = {p}
                  /\ handler[h].read \in Seq(Publications)
  BY AloftHas, OneInFlight DEF TailInv
<1>4. CASE Publishes(h)
  <2>1. ~Aloft(h) /\ UNCHANGED <<buffer, received>>
    BY <1>4 DEF Publishes, Aloft, clientVars
  <2>2. handler'[h].at = "room"
    BY <1>4 DEF Publishes, TailInv, TypeInv, RealtimeTypeOK
  <2>3. InFlight(q)' = {}
    BY <2>2, OneInFlightNext DEF Aloft
  <2>4. QED
    BY <2>1, <2>3 DEF Lacks
<1>5. CASE Broadcasts(h)
  <2>1. /\ p \in Publications
        /\ ~Aloft(h) /\ Aloft(h)'
        /\ handler'[h].p = p
        /\ handler'[h].rooms = handler[h].rooms
    BY <1>5, BroadcastsToRoom
  <2>2. InFlight(q)' \subseteq {p} /\ (q # r => InFlight(q)' = {})
    BY <2>1, OneInFlightNext
  <2>3. UNCHANGED buffer
        /\ received' = [d \in Clients |-> IF r \in joined[d] THEN received[d] \cup {<<r, p>>}
                                                             ELSE received[d]]
    BY <1>5 DEF Broadcasts
  <2>4. received[c] \subseteq received'[c] /\ (q = r => <<r, p>> \in received'[c])
    BY <1>1, <2>3
  <2> HIDE DEF p, r
  <2>5. QED
    BY <2>2, <2>3, <2>4 DEF Lacks
<1>6. CASE ChecksKey(h) \/ HandlerFails(h)
  <2>1. UNCHANGED <<buffer, received>>
    BY <1>6 DEF ChecksKey, HandlerFails, clientVars
  <2>2. InFlight(q)' \subseteq InFlight(q)
    <3>1. CASE ChecksKey(h)
      <4>1. Aloft(h)
        BY <3>1 DEF ChecksKey, Aloft
      <4> DEFINE a == IF buffer[r] = << >> THEN "absent" ELSE "present"
      <4>2. handler'[h] = [handler[h] EXCEPT !.at = a]
        BY <3>1 DEF ChecksKey, Continue, TailInv, TypeInv, RealtimeTypeOK
      <4>3. handler[h] = [at |-> handler[h].at, p |-> handler[h].p,
                          rooms |-> handler[h].rooms, read |-> handler[h].read]
        BY <4>1, SoundMeans DEF Aloft, TailInv, TypeInv, Idle
      <4> HIDE DEF a
      <4>4. handler'[h].p = p /\ handler'[h].rooms = handler[h].rooms
        BY <4>2, <4>3
      <4>5. QED
        BY <4>1, <4>4, OneInFlight, OneInFlightNext
    <3>2. CASE HandlerFails(h)
      <4>1. handler'[h] = Idle
        BY <3>2 DEF HandlerFails, TailInv, TypeInv, RealtimeTypeOK
      <4>2. ~Aloft(h)'
        BY <4>1 DEF Aloft, Idle
      <4>3. QED
        BY <4>2, OneInFlightNext
    <3>3. QED
      BY <1>6, <3>1, <3>2
  <2>3. QED
    BY <2>1, <2>2 DEF Lacks
<1>7. CASE CreatesBuffer(h) \/ ReplacesBuffer(h)
  <2>1. Aloft(h) /\ NextRoom(h) /\ buffer' = [buffer EXCEPT ![r] = <<p>>] /\ UNCHANGED received
    BY <1>7 DEF CreatesBuffer, ReplacesBuffer, Aloft, clientVars
  <2>2. InFlight(q)' = {}
    BY <2>1, LeavesRoom DEF TailInv
  <2>3. ToSet(<<p>>) = {p}
    BY DEF ToSet
  <2>4. CASE q = r
    <3>1. ToSet(buffer'[q]) = InFlight(q)
      BY <1>2, <1>3, <2>1, <2>3, <2>4
    <3>2. QED
      BY <2>1, <2>2, <3>1 DEF Lacks
  <2>5. CASE q # r
    <3>1. buffer'[q] = buffer[q]
      BY <1>1, <1>2, <2>1, <2>5
    <3>2. QED
      BY <2>1, <2>2, <3>1 DEF Lacks
  <2>6. QED
    BY <2>4, <2>5
<1>8. CASE ReadsBuffer(h)
  <2>1. Aloft(h) /\ UNCHANGED <<buffer, received>>
    BY <1>8 DEF ReadsBuffer, Aloft, clientVars
  <2>2. InFlight(q)' \subseteq InFlight(q)
    <3>1. CASE NextRoom(h)
      BY <2>1, <3>1, LeavesRoom DEF TailInv
    <3>2. CASE handler' = [handler EXCEPT ![h] =
                             [at |-> "read", p |-> handler[h].p, rooms |-> handler[h].rooms,
                              read |-> buffer[r]]]
      <4>1. handler'[h] = [at |-> "read", p |-> handler[h].p, rooms |-> handler[h].rooms,
                           read |-> buffer[r]]
        BY <3>2 DEF TailInv, TypeInv, RealtimeTypeOK
      <4>2. handler'[h].p = p /\ handler'[h].rooms = handler[h].rooms
        BY <4>1
      <4>3. QED
        BY <2>1, <4>2, OneInFlight, OneInFlightNext
    <3>3. QED
      BY <1>8, <3>1, <3>2 DEF ReadsBuffer
  <2>3. QED
    BY <2>1, <2>2 DEF Lacks
<1>9. CASE WritesBuffer(h)
  <2> DEFINE b == handler[h].read
  <2>1. /\ Aloft(h) /\ NextRoom(h) /\ handler[h].at = "read"
        /\ buffer' = [buffer EXCEPT ![r] = Trimmed(Append(b, p))]
        /\ UNCHANGED received
    BY <1>9 DEF WritesBuffer, Aloft, clientVars
  <2>2. InFlight(q)' = {}
    BY <2>1, LeavesRoom DEF TailInv
  <2>3. CASE q = r
    <3>1. b = buffer[r]
      BY <2>1, <2>3 DEF GapInv, ReadIsCurrent
    <3>2. b \in Seq(Publications) /\ p \in Publications
      BY <1>3, <2>1
    <3>3. ToSet(Trimmed(Append(b, p))) \subseteq ToSet(b) \cup {p}
      <4> DEFINE t == Append(b, p)
      <4> HIDE DEF b, p
      <4>1. t \in Seq(Publications)
        BY <3>2
      <4>2. ToSet(t) = ToSet(b) \cup {p}
        BY <3>2, ToSetOfAppend
      <4> HIDE DEF t
      <4>3. ToSet(Trimmed(t)) \subseteq ToSet(t)
        BY <4>1, TrimmedFromIt
      <4>4. QED
        BY <4>2, <4>3 DEF t
    <3>4. buffer'[q] = Trimmed(Append(b, p))
      BY <1>1, <1>2, <2>1, <2>3
    <3>5. ToSet(buffer'[q]) \subseteq ToSet(buffer[q]) \cup InFlight(q)
      BY <1>3, <2>1, <2>3, <3>1, <3>3, <3>4
    <3>6. QED
      BY <2>1, <2>2, <3>5 DEF Lacks
  <2>4. CASE q # r
    <3>1. buffer'[q] = buffer[q]
      BY <1>1, <1>2, <2>1, <2>4
    <3>2. QED
      BY <2>1, <2>2, <3>1 DEF Lacks
  <2>5. QED
    BY <2>3, <2>4
<1>10. QED
  BY <1>4, <1>5, <1>6, <1>7, <1>8, <1>9 DEF HandlerStep

LEMMA HandlerGap ==
  ASSUME RealtimeAssumption, NEW h, Handlers = {h}, TailInv(h), TailInv(h)', GapInv(h),
         HandlerStep(h)
  PROVE  GapInv(h)'
<1>1. UNCHANGED <<joined, sync, caughtUp, expired>>
  BY DEF HandlerStep, Publishes, Broadcasts, ChecksKey, CreatesBuffer, ReadsBuffer,
         WritesBuffer, ReplacesBuffer, HandlerFails, clientVars
<1>2. \A c \in Clients : InOwnRooms(c)'
  BY <1>1 DEF GapInv, InOwnRooms
<1>3. LacksOne'
  <2> SUFFICES ASSUME NEW c \in Clients, NEW r \in caughtUp[c] \ expired
               PROVE  \E p : Lacks(c, r)' \subseteq {p}
    BY <1>1 DEF LacksOne
  <2>1. PICK p : Lacks(c, r) \subseteq {p}
    BY DEF GapInv, LacksOne
  <2>2. Lacks(c, r)' \subseteq Lacks(c, r)
    BY HandlerAddsNothing
  <2>3. QED
    BY <2>1, <2>2
<1>4. ReadIsCurrent(h)'
  <2>1. CASE Publishes(h)
    <3>1. handler'[h].at = "room"
      BY <2>1 DEF Publishes, TailInv, TypeInv, RealtimeTypeOK
    <3>2. QED
      BY <3>1 DEF ReadIsCurrent
  <2>2. CASE Broadcasts(h)
    <3>1. handler'[h].at = "buffering"
      BY <2>2, BroadcastsToRoom
    <3>2. QED
      BY <3>1 DEF ReadIsCurrent
  <2>3. CASE ChecksKey(h)
    <3> DEFINE a == IF buffer[Head(handler[h].rooms)] = << >> THEN "absent" ELSE "present"
    <3>1. handler'[h] = [handler[h] EXCEPT !.at = a]
      BY <2>3 DEF ChecksKey, Continue, TailInv, TypeInv, RealtimeTypeOK
    <3>2. handler[h] = [at |-> handler[h].at, p |-> handler[h].p,
                        rooms |-> handler[h].rooms, read |-> handler[h].read]
      BY <2>3, SoundMeans DEF ChecksKey, TailInv, TypeInv, Idle
    <3> HIDE DEF a
    <3>3. handler'[h].at = a
      BY <3>1, <3>2
    <3>4. QED
      BY <3>3 DEF ReadIsCurrent, a
  <2>4. CASE /\ CreatesBuffer(h) \/ ReadsBuffer(h) \/ WritesBuffer(h) \/ ReplacesBuffer(h)
             /\ NextRoom(h)
    <3>1. Aloft(h)
      BY <2>4 DEF CreatesBuffer, ReadsBuffer, WritesBuffer, ReplacesBuffer, Aloft
    <3>2. handler'[h].at # "read"
      BY <2>4, <3>1, LeavesRoom DEF TailInv
    <3>3. QED
      BY <3>2 DEF ReadIsCurrent
  <2>5. CASE ReadsBuffer(h) /\ ~NextRoom(h)
    <3> DEFINE r == Head(handler[h].rooms)
    <3>1. handler' = [handler EXCEPT ![h] =
                        [at |-> "read", p |-> handler[h].p, rooms |-> handler[h].rooms,
                         read |-> buffer[r]]]
      BY <2>5 DEF ReadsBuffer
    <3>2. handler'[h] = [at |-> "read", p |-> handler[h].p, rooms |-> handler[h].rooms,
                         read |-> buffer[r]]
      BY <3>1 DEF TailInv, TypeInv, RealtimeTypeOK
    <3>3. handler'[h].rooms = handler[h].rooms /\ handler'[h].read = buffer[r] /\ UNCHANGED buffer
      BY <3>2, <2>5 DEF ReadsBuffer
    <3>4. QED
      BY <3>3 DEF ReadIsCurrent
  <2>6. CASE HandlerFails(h)
    <3>1. handler'[h].at = "idle"
      BY <2>6 DEF HandlerFails, TailInv, TypeInv, RealtimeTypeOK, Idle
    <3>2. QED
      BY <3>1 DEF ReadIsCurrent
  <2>7. QED
    BY <2>1, <2>2, <2>3, <2>4, <2>5, <2>6
    DEF HandlerStep, CreatesBuffer, WritesBuffer, ReplacesBuffer
<1>5. QED
  BY <1>2, <1>3, <1>4 DEF GapInv

LEMMA ExpiryGap ==
  ASSUME NEW h, Handlers = {h}, TailInv(h), GapInv(h), NEW r \in Rooms, KeyExpires(r)
  PROVE  GapInv(h)'
<1>1. /\ expired' = expired \cup {r}
      /\ \A q \in Rooms : q # r => buffer'[q] = buffer[q]
      /\ UNCHANGED <<handler, joined, received, sync, caughtUp>>
  BY DEF KeyExpires, clientVars, TailInv, TypeInv, RealtimeTypeOK
<1>2. \A c \in Clients : InOwnRooms(c)'
  BY <1>1 DEF GapInv, InOwnRooms
<1>3. ASSUME NEW c \in Clients, NEW q \in caughtUp[c] \ expired'
      PROVE  \E p : Lacks(c, q)' \subseteq {p}
  <2>1. q \in Rooms /\ q # r /\ q \in caughtUp[c] \ expired
    BY <1>1 DEF TailInv, TypeInv, RealtimeTypeOK
  <2>2. Lacks(c, q)' = Lacks(c, q)
    BY <1>1, <2>1 DEF Lacks, InFlight
  <2>3. QED
    BY <2>1, <2>2 DEF GapInv, LacksOne
<1>4. ReadIsCurrent(h)'
  <2>1. handler[h].at = "read" => Head(handler[h].rooms) \in Rooms
    BY AloftHas DEF TailInv, Aloft
  <2>2. QED
    BY <1>1, <2>1 DEF GapInv, ReadIsCurrent
<1>5. QED
  BY <1>1, <1>2, <1>3, <1>4 DEF GapInv, LacksOne

(* A client's step that replays nothing.                                     *)
LEMMA QuietClient ==
  ASSUME NEW h, GapInv(h), UNCHANGED serverVars, UNCHANGED received,
         \A c \in Clients : InOwnRooms(c)',
         \A c \in Clients : caughtUp'[c] \subseteq caughtUp[c]
  PROVE  GapInv(h)'
<1>1. \A c, r : Lacks(c, r)' = Lacks(c, r)
  BY DEF Lacks, InFlight, serverVars
<1>2. LacksOne'
  BY <1>1 DEF GapInv, LacksOne, serverVars
<1>3. ReadIsCurrent(h)'
  BY DEF GapInv, ReadIsCurrent, serverVars
<1>4. QED
  BY <1>2, <1>3 DEF GapInv

LEMMA OwnRoomsAre ==
  ASSUME RealtimeAssumption, NEW c \in Clients
  PROVE  ToSet(DefaultRooms[c]) # {} /\ ToSet(DefaultRooms[c]) \cap TrackingRooms = {}
<1>1. DefaultRooms[c] \in Seq(Rooms) /\ DefaultRooms[c] # << >>
  BY DEF RealtimeAssumption
<1> DEFINE s == DefaultRooms[c]
<1>2. s \in Seq(Rooms) /\ s # << >> => 1 \in DOMAIN s
  <2> HIDE DEF s
  <2> QED OBVIOUS
<1>3. QED
  BY <1>1, <1>2 DEF ToSet, RealtimeAssumption

LEMMA QuietStep ==
  ASSUME RealtimeAssumption, NEW h, Handlers = {h}, TailInv(h), GapInv(h), NEW c \in Clients,
         Connects(c) \/ Disconnects(c) \/ TogglesTracking(c) \/ AsksForMissed(c)
  PROVE  GapInv(h)'
<1>1. UNCHANGED serverVars /\ UNCHANGED received
  BY DEF Connects, Disconnects, TogglesTracking, AsksForMissed
<1>2. /\ joined \in [Clients -> SUBSET Rooms]
      /\ caughtUp \in [Clients -> SUBSET Rooms]
      /\ sync \in [Clients -> Seq(Requests)]
  BY DEF TailInv, TypeInv, RealtimeTypeOK
<1>3. \A d \in Clients : caughtUp'[d] \subseteq caughtUp[d]
  BY <1>2 DEF Connects, Disconnects, TogglesTracking, AsksForMissed
<1>4. InOwnRooms(c) /\ ToSet(DefaultRooms[c]) # {} /\ ToSet(DefaultRooms[c]) \cap TrackingRooms = {}
  BY OwnRoomsAre DEF GapInv
<1>5. InOwnRooms(c)'
  <2>1. CASE Connects(c)
    BY <1>2, <1>4, <2>1 DEF Connects, InOwnRooms
  <2>2. CASE Disconnects(c)
    <3>1. joined'[c] = {} /\ caughtUp'[c] = {} /\ sync'[c] = << >>
      BY <1>2, <2>2 DEF Disconnects
    <3>2. QED
      BY <3>1 DEF InOwnRooms
  <2>3. CASE TogglesTracking(c)
    <3>1. PICK r \in TrackingRooms :
            joined' = [joined EXCEPT ![c] = IF r \in @ THEN @ \ {r} ELSE @ \cup {r}]
      BY <2>3 DEF TogglesTracking
    <3>2. ToSet(DefaultRooms[c]) \subseteq joined'[c]
      BY <1>2, <1>4, <2>3, <3>1 DEF TogglesTracking, InOwnRooms
    <3>3. UNCHANGED <<sync, caughtUp>>
      BY <2>3 DEF TogglesTracking
    <3>4. QED
      BY <1>4, <3>2, <3>3 DEF InOwnRooms
  <2>4. CASE AsksForMissed(c)
    <3>1. PICK last : sync' = [sync EXCEPT ![c] = <<[last |-> last, rooms |-> DefaultRooms[c]]>>]
      BY <2>4 DEF AsksForMissed
    <3>2. sync'[c] = <<[last |-> last, rooms |-> DefaultRooms[c]]>>
      BY <1>2, <3>1
    <3>3. sync'[c][1].rooms = DefaultRooms[c]
      BY <3>2
    <3>4. joined[c] # {} /\ UNCHANGED <<joined, caughtUp>>
      BY <2>4 DEF AsksForMissed
    <3>5. QED
      BY <1>4, <3>3, <3>4 DEF InOwnRooms
  <2>5. QED
    BY <2>1, <2>2, <2>3, <2>4
<1>6. ASSUME NEW d \in Clients, d # c PROVE InOwnRooms(d)'
  <2>1. joined'[d] = joined[d] /\ caughtUp'[d] = caughtUp[d] /\ sync'[d] = sync[d]
    BY <1>2, <1>6 DEF Connects, Disconnects, TogglesTracking, AsksForMissed
  <2>2. InOwnRooms(d)
    BY DEF GapInv
  <2>3. QED
    BY <2>1, <2>2 DEF InOwnRooms
<1>7. QED
  BY <1>1, <1>3, <1>5, <1>6, QuietClient

(* After the replay of a room a client has all that is buffered of it, if it has   *)
(* what comes before the entry it named.                                     *)
LEMMA ReplayFills ==
  ASSUME NEW c \in Clients, TypeInv, Replays(c)
  PROVE  LET r == Head(sync[c][1].rooms)
         IN  /\ r \in Rooms
             /\ r \in caughtUp'[c] \ caughtUp[c]
                  => \A p \in ToSet(buffer[r]) : <<r, p>> \in received'[c]
             /\ \A d \in Clients : received[d] \subseteq received'[d]
             /\ \A d \in Clients : d # c => caughtUp'[d] = caughtUp[d]
             /\ caughtUp'[c] \subseteq caughtUp[c] \cup {r}
<1> DEFINE request == sync[c][1]
           r       == Head(request.rooms)
           b       == buffer[r]
           last    == request.last
           missed  == ToSet(MissedAfter(b, last))
           early   == ToSet(SubSeq(b, 1, PlaceOf(last, b)))
           has     == {e \in Publications : <<r, e>> \in received[c]}
<1>1. /\ sync[c] # << >>
      /\ received' = [received EXCEPT ![c] = @ \cup ({r} \X missed)]
      /\ caughtUp' = [caughtUp EXCEPT ![c] = IF early \subseteq has THEN @ \cup {r} ELSE @]
  BY DEF Replays
<1>2. r \in Rooms
  BY <1>1, RequestIs
<1>3. /\ received \in [Clients -> SUBSET (Rooms \X Publications)]
      /\ caughtUp \in [Clients -> SUBSET Rooms]
      /\ b \in Seq(Publications)
  BY <1>2 DEF TypeInv, RealtimeTypeOK
<1>4. ToSet(b) \subseteq early \cup missed
  <2> HIDE DEF b, last
  <2> QED BY <1>3, MissedIsTheRest
<1> HIDE DEF request, r, missed, early, b, last
<1>5. received'[c] = received[c] \cup ({r} \X missed)
      /\ \A d \in Clients : d # c => received'[d] = received[d]
  BY <1>1, <1>3
<1>6. caughtUp'[c] = (IF early \subseteq has THEN caughtUp[c] \cup {r} ELSE caughtUp[c])
      /\ \A d \in Clients : d # c => caughtUp'[d] = caughtUp[d]
  BY <1>1, <1>3
<1>7. r \in caughtUp'[c] \ caughtUp[c] => \A p \in ToSet(b) : <<r, p>> \in received'[c]
  <2> SUFFICES ASSUME r \in caughtUp'[c] \ caughtUp[c], NEW p \in ToSet(b)
               PROVE  <<r, p>> \in received'[c]
    OBVIOUS
  <2>1. early \subseteq has
    BY <1>6
  <2>2. p \in has \/ p \in missed
    BY <1>4, <2>1
  <2>3. QED
    BY <1>5, <2>2
<1>8. QED
  BY <1>2, <1>5, <1>6, <1>7 DEF r, b, request

LEMMA ReplayGap ==
  ASSUME RealtimeAssumption, NEW h, Handlers = {h}, TailInv(h), GapInv(h),
         NEW c \in Clients, Replays(c)
  PROVE  GapInv(h)'
<1> DEFINE r == Head(sync[c][1].rooms)
<1>1. /\ r \in Rooms
      /\ r \in caughtUp'[c] \ caughtUp[c]
           => \A p \in ToSet(buffer[r]) : <<r, p>> \in received'[c]
      /\ \A d \in Clients : received[d] \subseteq received'[d]
      /\ \A d \in Clients : d # c => caughtUp'[d] = caughtUp[d]
      /\ caughtUp'[c] \subseteq caughtUp[c] \cup {r}
  BY ReplayFills DEF TailInv
<1>2. UNCHANGED serverVars /\ UNCHANGED joined /\ sync[c] # << >>
  BY DEF Replays
<1>3. /\ sync[c][1] \in Requests
      /\ sync[c][1].rooms \in Seq(Rooms)
      /\ sync[c][1].rooms # << >>
  BY <1>2, RequestIs DEF TailInv
<1> HIDE DEF r
<1>4. LacksOne'
  <2> SUFFICES ASSUME NEW d \in Clients, NEW q \in caughtUp'[d] \ expired
               PROVE  \E p : Lacks(d, q)' \subseteq {p}
    BY <1>2 DEF LacksOne, serverVars
  <2>1. InFlight(q)' = InFlight(q) /\ UNCHANGED buffer
    BY <1>2 DEF InFlight, serverVars
  <2>2. CASE q \in caughtUp[d]
    <3>1. Lacks(d, q)' \subseteq Lacks(d, q)
      BY <1>1, <2>1 DEF Lacks
    <3>2. QED
      BY <2>2, <3>1 DEF GapInv, LacksOne
  <2>3. CASE q \notin caughtUp[d]
    <3>1. d = c /\ q = r
      BY <1>1, <2>3
    <3>2. Lacks(d, q)' \subseteq InFlight(q)
      BY <1>1, <2>1, <2>3, <3>1 DEF Lacks
    <3>3. InFlight(q) \subseteq {handler[h].p}
      BY OneInFlight
    <3>4. QED
      BY <3>2, <3>3
  <2>4. QED
    BY <2>2, <2>3
<1>5. ReadIsCurrent(h)'
  BY <1>2 DEF GapInv, ReadIsCurrent, serverVars
<1>6. InOwnRooms(c)'
  <2> DEFINE rooms == sync[c][1].rooms
  <2>1. /\ InOwnRooms(c)
        /\ joined[c] # {}
        /\ ToSet(rooms) \subseteq ToSet(DefaultRooms[c])
    BY <1>2 DEF GapInv, InOwnRooms
  <2>2. r \in ToSet(rooms) /\ ToSet(Tail(rooms)) \subseteq ToSet(rooms)
    BY <1>3, HeadAndTail DEF r
  <2>3. sync'[c] # << >> => sync'[c][1].rooms = Tail(rooms)
    <3> DEFINE request == sync[c][1]
               q == [request EXCEPT !.rooms = Tail(@)]
    <3>1. sync' = [sync EXCEPT ![c] = IF Len(request.rooms) = 1 THEN << >> ELSE <<q>>]
      BY DEF Replays
    <3>2. sync'[c] = IF Len(request.rooms) = 1 THEN << >> ELSE <<q>>
      BY <3>1 DEF TailInv, TypeInv, RealtimeTypeOK
    <3>3. Len(request.rooms) # 1 => q.rooms = Tail(request.rooms)
      <4> HIDE DEF request
      <4> QED BY <1>3, RestOfRequest DEF request
    <3> HIDE DEF q
    <3>4. <<q>>[1] = q
      OBVIOUS
    <3>5. QED
      BY <3>2, <3>3, <3>4
  <2>4. QED
    BY <1>1, <1>2, <2>1, <2>2, <2>3 DEF InOwnRooms
<1>7. ASSUME NEW d \in Clients, d # c PROVE InOwnRooms(d)'
  <2>1. sync'[d] = sync[d]
    BY <1>7 DEF Replays, TailInv, TypeInv, RealtimeTypeOK
  <2>2. InOwnRooms(d)
    BY DEF GapInv
  <2>3. QED
    BY <1>1, <1>2, <1>7, <2>1, <2>2 DEF InOwnRooms
<1>8. QED
  BY <1>4, <1>5, <1>6, <1>7 DEF GapInv

LEMMA GapInvHolds ==
  ASSUME NEW h, Handlers = {h}
  PROVE  Spec => [](TailInv(h) /\ GapInv(h))
<1>1. Init => GapInv(h)
  <2> SUFFICES ASSUME Init PROVE GapInv(h)
    OBVIOUS
  <2>1. handler[h].at = "idle"
    BY DEF Init, Idle
  <2>2. QED
    BY <2>1 DEF Init, GapInv, ReadIsCurrent, InOwnRooms, LacksOne
<1>2. TailInv(h) /\ TailInv(h)' /\ GapInv(h) /\ [Next]_vars => GapInv(h)'
  <2> SUFFICES ASSUME TailInv(h), TailInv(h)', GapInv(h), [Next]_vars PROVE GapInv(h)'
    OBVIOUS
  <2>1. CASE \E g \in Handlers : HandlerStep(g)
    BY <2>1, HandlerGap, RealtimeAssumption
  <2>2. CASE \E r \in Rooms : KeyExpires(r)
    BY <2>2, ExpiryGap
  <2>3. CASE \E c \in Clients : ClientStep(c)
    BY <2>3, QuietStep, ReplayGap, RealtimeAssumption DEF ClientStep
  <2>4. CASE UNCHANGED vars
    <3>1. \A c \in Clients : InOwnRooms(c)'
      BY <2>4 DEF vars, GapInv, InOwnRooms
    <3>2. QED
      BY <2>4, <3>1, QuietClient DEF vars, serverVars
  <2>5. QED
    BY <2>1, <2>2, <2>3, <2>4 DEF Next
<1>3. QED
  BY <1>1, <1>2, TailInvHolds, PTL DEF Spec

(* Where one listener runs at a time, a client that has replayed a room lacks no  *)
(* buffered entry of it but the one that was in flight when it asked.          *)
THEOREM ReplayFillsTheGap ==
  ASSUME OneHandler
  PROVE  Spec => []GapIsInFlight
<1>1. PICK h : Handlers = {h}
  BY DEF OneHandler
<1>2. Spec => [](TailInv(h) /\ GapInv(h))
  BY <1>1, GapInvHolds
<1>3. GapInv(h) => GapIsInFlight
  <2> SUFFICES ASSUME GapInv(h), NEW c \in Clients, NEW r \in caughtUp[c] \ expired
               PROVE  Cardinality({e \in ToSet(buffer[r]) : <<r, e>> \notin received[c]})
                        <= Cardinality(Handlers)
    BY DEF GapIsInFlight
  <2> DEFINE lacked == {e \in ToSet(buffer[r]) : <<r, e>> \notin received[c]}
  <2>1. PICK p : Lacks(c, r) \subseteq {p}
    BY DEF GapInv, LacksOne
  <2>2. lacked \subseteq {p}
    BY <2>1 DEF Lacks
  <2>3. IsFiniteSet({p}) /\ Cardinality({p}) = 1 /\ Cardinality({h}) = 1
    BY FS_Singleton
  <2> HIDE DEF lacked
  <2>4. Cardinality(lacked) <= Cardinality({p})
    BY <2>2, <2>3, FS_Subset
  <2>5. QED
    BY <1>1, <2>3, <2>4 DEF lacked
<1>4. QED
  BY <1>2, <1>3, PTL

=============================================================================
