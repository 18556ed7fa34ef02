----------------------------- MODULE HubSessions -----------------------------
(***************************************************************************)
(* The connection registry of one ws.Hub (backend/internal/ws/hub.go):     *)
(* Register with its per-user device quota and FIFO eviction, JoinRoom,    *)
(* Unregister, the remote kicks, and the life of one WebSocket connection  *)
(* (ServeHTTP -> Register -> ReadPump -> Unregister) around them.          *)
(*                                                                         *)
(* Every critical section of Hub.mu is one action.  The goroutines that    *)
(* close an evicted or kicked socket after a grace period are the set      *)
(* "closing"; what they do races with everything else.                     *)
(***************************************************************************)
EXTENDS Integers, FiniteSets

CONSTANTS Conns,              \* the *Client values, one per accepted socket
          Users, Devices,
          NoDevice,           \* a handshake without device_id
          Rooms,
          UserOf, DeviceOf,   \* the identity bound to a connection at handshake
          MaxActiveDevices,   \* Hub.maxActiveDevices
          NoConn              \* a missing map entry

DevKeys == Devices \union {NoDevice}

ASSUME ConnAssumption == /\ NoConn \notin Conns
                         /\ UserOf \in [Conns -> Users]
                         /\ DeviceOf \in [Conns -> DevKeys]
ASSUME DeviceAssumption == NoDevice \notin Devices /\ IsFiniteSet(Devices)
ASSUME QuotaAssumption == MaxActiveDevices \in Nat \ {0}

VARIABLES
  pc,           \* where the connection's handler goroutine is
  sock,         \* the socket: "none", "open" or "closed"
  joinedAt,     \* Client.JoinedAt, in order of creation
  clock,        \* number of connections created so far
  clients,      \* sessionKey -> *Client
  userClients,  \* userID -> (deviceID -> *Client)
  rooms,        \* roomID -> (sessionKey -> *Client)
  asked,        \* the room of the join frame a handler is processing
  closing,      \* connections a kick or eviction goroutine is about to close
  sendClosed,   \* connections whose send channel was closed
  presence      \* users recorded in the ClientStore

vars == <<pc, sock, joinedAt, clock, clients, userClients, rooms, asked,
          closing, sendClosed, presence>>

(* sessionKey is "user:device", or the user alone without a device.        *)
Keys == Users \X DevKeys
KeyOf(c) == <<UserOf[c], DeviceOf[c]>>

MaybeConn == Conns \union {NoConn}

Phases == {"new", "upgraded", "registered", "reading", "joining", "leaving",
           "dropping", "done"}

(* The connected devices of a user: devs := h.userClients[userID].         *)
DevicesOn(u) == {d \in DevKeys : userClients[u][d] # NoConn}
SessionsOf(u) == {userClients[u][d] : d \in DevicesOn(u)}

(* A session that leaves a room takes along the entry of the user's        *)
(* session without a device: delete(room, cKey); delete(room, c.ID).       *)
Holds(c, r) == rooms[r][KeyOf(c)] = c
RoomKeys(c) == {KeyOf(c), <<UserOf[c], NoDevice>>}

Registered(c) == clients[KeyOf(c)] = c
InSomeRoom(c) == \E r \in Rooms, k \in Keys : rooms[r][k] = c

(* A handler that serves frames on a socket nobody has decided to close.   *)
Live(c) == pc[c] \in {"reading", "joining"} /\ sock[c] = "open" /\ c \notin closing

-----------------------------------------------------------------------------
Init == /\ pc = [c \in Conns |-> "new"]
        /\ sock = [c \in Conns |-> "none"]
        /\ joinedAt = [c \in Conns |-> 0]
        /\ clock = 0
        /\ clients = [k \in Keys |-> NoConn]
        /\ userClients = [u \in Users |-> [d \in DevKeys |-> NoConn]]
        /\ rooms = [r \in Rooms |-> [k \in Keys |-> NoConn]]
        /\ asked = [c \in Conns |-> {}]
        /\ closing = {}
        /\ sendClosed = {}
        /\ presence = {}

(* The tail of ServeHTTP up to NewClient: the upgrade succeeded and        *)
(* JoinedAt is stamped, but the hub does not know the connection yet.      *)
Upgrade(c) ==
  /\ pc[c] = "new"
  /\ pc' = [pc EXCEPT ![c] = "upgraded"]
  /\ sock' = [sock EXCEPT ![c] = "open"]
  /\ clock' = clock + 1
  /\ joinedAt' = [joinedAt EXCEPT ![c] = clock + 1]
  /\ UNCHANGED <<clients, userClients, rooms, asked, closing, sendClosed, presence>>

(* Case 1 of Register: the device already has another session here.        *)
Reconnects(c) == /\ DeviceOf[c] # NoDevice
                 /\ userClients[UserOf[c]][DeviceOf[c]] \notin {NoConn, c}

(* Mutant: the comparison of case 2 off by one.                            *)
QuotaExceeded(u) == Cardinality(DevicesOn(u)) > MaxActiveDevices

(* Case 2 of Register: the user's devices fill the quota.                  *)
QuotaReached(u) == Cardinality(DevicesOn(u)) >= MaxActiveDevices

IsOldest(v, u) == \A w \in SessionsOf(u) : joinedAt[v] <= joinedAt[w]

(* Mutant: the evicted session is not deleted from h.clients.              *)
EnterClientsOnly(c, gone) == [clients EXCEPT ![KeyOf(c)] = c]

EnterClients(c, gone) ==
  [k \in Keys |-> IF k = KeyOf(c) THEN c
                  ELSE IF k \in {KeyOf(v) : v \in gone} THEN NoConn ELSE clients[k]]

EnterUserClients(c, gone) ==
  [u \in Users |-> [d \in DevKeys |->
     IF <<u, d>> = KeyOf(c) THEN c
     ELSE IF <<u, d>> \in {KeyOf(v) : v \in gone} THEN NoConn
     ELSE userClients[u][d]]]

(* Mutant: the evicted session's socket is never closed.                   *)
CloseNothing(gone) == closing

(* The goroutines that close the sockets of "gone" after a grace period.   *)
CloseSoon(gone) == closing \union gone

(* Register's critical section, and the close goroutine it starts.         *)
Replace(c, gone) ==
  /\ clients' = EnterClients(c, gone)
  /\ userClients' = EnterUserClients(c, gone)
  /\ rooms' = [r \in Rooms |-> [k \in Keys |->
                 IF \E v \in gone : Holds(v, r) /\ k \in RoomKeys(v)
                 THEN NoConn ELSE rooms[r][k]]]
  /\ closing' = CloseSoon(gone)

Register(c) ==
  /\ pc[c] = "upgraded"
  /\ \/ Reconnects(c) /\ Replace(c, {userClients[UserOf[c]][DeviceOf[c]]})
     \/ /\ ~Reconnects(c) /\ QuotaReached(UserOf[c])
        /\ \E v \in SessionsOf(UserOf[c]) : IsOldest(v, UserOf[c]) /\ Replace(c, {v})
     \/ ~Reconnects(c) /\ ~QuotaReached(UserOf[c]) /\ Replace(c, {})
  /\ pc' = [pc EXCEPT ![c] = "registered"]
  /\ UNCHANGED <<sock, joinedAt, clock, asked, sendClosed, presence>>

(* clientStore.Set, after the hub's lock is released; ReadPump starts.     *)
PersistPresence(c) ==
  /\ pc[c] = "registered"
  /\ presence' = presence \union {UserOf[c]}
  /\ pc' = [pc EXCEPT ![c] = "reading"]
  /\ UNCHANGED <<sock, joinedAt, clock, clients, userClients, rooms, asked,
                 closing, sendClosed>>

(* ReadPump receives a join frame for a room the user may enter; onJoin    *)
(* authorizes it before it reaches the hub.                                *)
ReadJoin(c, r) ==
  /\ pc[c] = "reading"
  /\ sock[c] = "open"
  /\ asked' = [asked EXCEPT ![c] = {r}]
  /\ pc' = [pc EXCEPT ![c] = "joining"]
  /\ UNCHANGED <<sock, joinedAt, clock, clients, userClients, rooms, closing,
                 sendClosed, presence>>

(* JoinRoom: leave every other room, enter this one.  It runs whether or   *)
(* not the connection is still registered.                                 *)
JoinRoom(c) ==
  /\ pc[c] = "joining"
  /\ rooms' = [r \in Rooms |-> [k \in Keys |->
                 IF r \in asked[c] /\ k = KeyOf(c) THEN c
                 ELSE IF r \notin asked[c] /\ Holds(c, r) /\ k \in RoomKeys(c)
                 THEN NoConn ELSE rooms[r][k]]]
  /\ asked' = [asked EXCEPT ![c] = {}]
  /\ pc' = [pc EXCEPT ![c] = "reading"]
  /\ UNCHANGED <<sock, joinedAt, clock, clients, userClients, closing,
                 sendClosed, presence>>

(* ReadMessage fails on a closed socket; the deferred Unregister is next.  *)
ReadFails(c) ==
  /\ pc[c] = "reading"
  /\ sock[c] = "closed"
  /\ pc' = [pc EXCEPT ![c] = "leaving"]
  /\ UNCHANGED <<sock, joinedAt, clock, clients, userClients, rooms, asked,
                 closing, sendClosed, presence>>

(* Mutant: the session key stays registered.                               *)
ClientsKept(c) == clients

(* The entry at the connection's session key goes, whoever holds it.       *)
ClientsWithoutKey(c) == [clients EXCEPT ![KeyOf(c)] = NoConn]

(* Mutant: returning early when the session key has no entry.              *)
RoomsWithoutRegistered(c) ==
  [r \in Rooms |-> [k \in Keys |->
     IF clients[k] # NoConn /\ Holds(c, r) /\ k \in RoomKeys(c)
     THEN NoConn ELSE rooms[r][k]]]

(* Mutant: the entry at the session key goes, whoever holds it.            *)
RoomsWithoutKey(c) ==
  [r \in Rooms |-> [k \in Keys |-> IF k = KeyOf(c) THEN NoConn ELSE rooms[r][k]]]

(* Only rooms in which the connection itself is entered are touched.       *)
RoomsWithout(c) ==
  [r \in Rooms |-> [k \in Keys |->
     IF Holds(c, r) /\ k \in RoomKeys(c) THEN NoConn ELSE rooms[r][k]]]

(* Unregister's critical section.                                          *)
Unregister(c) ==
  LET exists == clients[KeyOf(c)] # NoConn
      remaining == DevicesOn(UserOf[c]) \ {DeviceOf[c]}
  IN /\ pc[c] = "leaving"
     /\ clients' = ClientsWithoutKey(c)
     /\ sendClosed' = IF exists THEN sendClosed \union {c} ELSE sendClosed
     /\ userClients' = [userClients EXCEPT ![UserOf[c]][DeviceOf[c]] = NoConn]
     /\ rooms' = RoomsWithout(c)
     /\ pc' = [pc EXCEPT ![c] = IF exists /\ remaining = {} THEN "dropping" ELSE "done"]
     /\ UNCHANGED <<sock, joinedAt, clock, asked, closing, presence>>

(* clientStore.Delete, after the lock is released.                         *)
DropPresence(c) ==
  /\ pc[c] = "dropping"
  /\ presence' = presence \ {UserOf[c]}
  /\ pc' = [pc EXCEPT ![c] = "done"]
  /\ UNCHANGED <<sock, joinedAt, clock, clients, userClients, rooms, asked,
                 closing, sendClosed>>

(* The grace period of an eviction or kick goroutine is over.              *)
CloseKicked(c) ==
  /\ c \in closing
  /\ closing' = closing \ {c}
  /\ sock' = [sock EXCEPT ![c] = "closed"]
  /\ UNCHANGED <<pc, joinedAt, clock, clients, userClients, rooms, asked,
                 sendClosed, presence>>

(* The peer leaves, the network drops, or a read or write deadline passes. *)
Disconnect(c) ==
  /\ sock[c] = "open"
  /\ sock' = [sock EXCEPT ![c] = "closed"]
  /\ UNCHANGED <<pc, joinedAt, clock, clients, userClients, rooms, asked,
                 closing, sendClosed, presence>>

(* kickClientByUserIDLocal: every session of the user, but the device the  *)
(* caller excepts (NoDevice excepts none).                                 *)
KickUser(u, except) ==
  /\ LET targets == {userClients[u][d] : d \in
                       {e \in DevicesOn(u) : except = NoDevice \/ e # except}}
     IN targets # {} /\ closing' = closing \union targets
  /\ UNCHANGED <<pc, sock, joinedAt, clock, clients, userClients, rooms, asked,
                 sendClosed, presence>>

SessionOn(u, d) == {userClients[u][d]} \ {NoConn}

(* kickClientByDeviceIDLocal: the one session of a device.                 *)
KickDevice(u, d) ==
  /\ SessionOn(u, d) # {}
  /\ closing' = closing \union SessionOn(u, d)
  /\ UNCHANGED <<pc, sock, joinedAt, clock, clients, userClients, rooms, asked,
                 sendClosed, presence>>

(* What a connection's own goroutine does without waiting for the peer.    *)
Handler(c) == \/ Register(c) \/ PersistPresence(c) \/ JoinRoom(c)
              \/ ReadFails(c) \/ Unregister(c) \/ DropPresence(c)

Next == \/ \E c \in Conns : \/ Upgrade(c) \/ Register(c) \/ PersistPresence(c)
                            \/ JoinRoom(c) \/ ReadFails(c) \/ Unregister(c)
                            \/ DropPresence(c) \/ CloseKicked(c) \/ Disconnect(c)
        \/ \E c \in Conns, r \in Rooms : ReadJoin(c, r)
        \/ \E u \in Users, d \in DevKeys : KickUser(u, d)
        \/ \E u \in Users, d \in Devices : KickDevice(u, d)

Spec == Init /\ [][Next]_vars

(* Goroutines are scheduled and timers fire; peers owe nothing.            *)
FairSpec == Spec /\ \A c \in Conns : WF_vars(Handler(c)) /\ WF_vars(CloseKicked(c))

-----------------------------------------------------------------------------
(* Each variable stays in its domain.                                      *)
TypeOK == /\ pc \in [Conns -> Phases]
          /\ sock \in [Conns -> {"none", "open", "closed"}]
          /\ joinedAt \in [Conns -> Nat]
          /\ clock \in Nat
          /\ clients \in [Keys -> MaybeConn]
          /\ userClients \in [Users -> [DevKeys -> MaybeConn]]
          /\ rooms \in [Rooms -> [Keys -> MaybeConn]]
          /\ asked \in [Conns -> SUBSET Rooms]
          /\ closing \subseteq Conns
          /\ sendClosed \subseteq Conns
          /\ presence \subseteq Users

(* The two registries of hub.go, by session key and by user and device,    *)
(* always name the same connection: a fan-out (userClients), a direct      *)
(* lookup (clients) and a kick never disagree about who is connected.      *)
RegistriesAgree == \A u \in Users, d \in DevKeys : clients[<<u, d>>] = userClients[u][d]

(* No interleaving of connects, reconnects, evictions, kicks and closes    *)
(* leaves a user with more registered devices than maxActiveDevices.       *)
DeviceQuota == \A u \in Users : Cardinality(DevicesOn(u)) <= MaxActiveDevices

(* A device that has connected once and whose connection serves frames is  *)
(* registered, whatever evictions, kicks and disconnects of the user's     *)
(* other devices do meanwhile: they never take its registration by mistake.*)
SoleSessionStaysRegistered ==
  \A c \in Conns :
    (Live(c) /\ \A o \in Conns \ {c} : KeyOf(o) = KeyOf(c) => pc[o] \in {"new", "upgraded"})
      => Registered(c)

(* Once a connection's Unregister ran, no registry and no room holds it,   *)
(* even when it was evicted first and joined a room inside the grace time. *)
NothingHeldAfterUnregister ==
  \A c \in Conns : pc[c] \in {"dropping", "done"} => ~Registered(c) /\ ~InSomeRoom(c)

(* A registered connection can still be sent to: its channel is open.      *)
RegisteredCanReceive == \A c \in Conns : Registered(c) => c \notin sendClosed

(* The registry implements the promise of SessionSlots.                    *)
Slots == INSTANCE SessionSlots WITH registered <- {c \in Conns : Registered(c)}
ImplementsSlots == Slots!Spec

(* What Register and Unregister are for (hub.go:343,488): a connection     *)
(* that serves frames is the registered one.                               *)
LiveIsRegistered == \A c \in Conns : Live(c) => Registered(c)

(* A connection's entry in a room goes only in a step of its own, when it  *)
(* is evicted, or when another connection of the same device takes it over *)
(* (hub.go:486,515): late joins and unregistrations of the user's other    *)
(* connections leave it alone.  A session without a device id has no such  *)
(* guarantee: its entry is at the key the others delete, too.              *)
LeavesOnlyItself ==
  [][\A c \in Conns, r \in Rooms :
       (DeviceOf[c] # NoDevice /\ Holds(c, r) /\ rooms'[r][KeyOf(c)] # c)
         => pc'[c] # pc[c] \/ c \in closing' \/ rooms'[r][KeyOf(c)] # NoConn]_vars

(* An evicted or kicked connection ends and holds nothing afterwards.      *)
EvictionCompletes ==
  \A c \in Conns : c \in closing ~> (pc[c] = "done" /\ ~Registered(c) /\ ~InSomeRoom(c))
=============================================================================
