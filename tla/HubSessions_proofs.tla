-------------------------- MODULE HubSessions_proofs --------------------------
(***************************************************************************)
(* Safety of the hub's connection registry, for any set of connections,    *)
(* users and rooms, any finite set of devices and any quota.               *)
(***************************************************************************)
EXTENDS HubSessions, FiniteSetTheorems, TLAPS

(* Registry and room entries sit at their own connection's keys.           *)
EntriesOwned ==
  /\ \A u \in Users, d \in DevKeys :
       userClients[u][d] # NoConn => KeyOf(userClients[u][d]) = <<u, d>>
  /\ \A r \in Rooms, k \in Keys : rooms[r][k] # NoConn => KeyOf(rooms[r][k]) = k

(* Only a connection between Register and Unregister is held anywhere.     *)
Outside == {"new", "upgraded", "dropping", "done"}
HeldOnlyWhileServing ==
  \A c \in Conns : pc[c] \in Outside => ~Registered(c) /\ ~InSomeRoom(c)

(* The strengthening of SoleSessionStaysRegistered to the whole time a     *)
(* connection is known to the hub.                                         *)
Sole(c) == \A o \in Conns \ {c} : KeyOf(o) = KeyOf(c) => pc[o] \in {"new", "upgraded"}
SoleRegistered ==
  \A c \in Conns :
    /\ pc[c] \in {"registered", "reading", "joining"}
    /\ sock[c] = "open"
    /\ c \notin closing
    /\ Sole(c)
    => Registered(c)

LEMMA ConnKeys ==
  /\ DevKeys = Devices \union {NoDevice}
  /\ \A c \in Conns : /\ UserOf[c] \in Users
                      /\ DeviceOf[c] \in DevKeys
                      /\ KeyOf(c) = <<UserOf[c], DeviceOf[c]>>
                      /\ KeyOf(c) \in Keys
                      /\ c # NoConn
  BY ConnAssumption DEF DevKeys, Keys, KeyOf

(* Every step keeps each variable in its domain.                           *)
THEOREM TypeCorrect == Spec => []TypeOK
<1>1. Init => TypeOK
  BY DEF Init, TypeOK, Phases, MaybeConn
<1>2. TypeOK /\ [Next]_vars => TypeOK'
  <2> SUFFICES ASSUME TypeOK, [Next]_vars PROVE TypeOK'
    OBVIOUS
  <2> USE DEF TypeOK, Phases, MaybeConn
  <2>1. ASSUME NEW c \in Conns, Upgrade(c) PROVE TypeOK'
    BY <2>1 DEF Upgrade
  <2>2. ASSUME NEW c \in Conns, Register(c) PROVE TypeOK'
    <3>1. ASSUME NEW gone \in SUBSET Conns, Replace(c, gone)
          PROVE /\ clients' \in [Keys -> MaybeConn]
                /\ userClients' \in [Users -> [DevKeys -> MaybeConn]]
                /\ rooms' \in [Rooms -> [Keys -> MaybeConn]]
                /\ closing' \subseteq Conns
      BY <3>1, ConnKeys DEF Replace, EnterClients, EnterUserClients, CloseSoon
    <3>2. PICK gone \in SUBSET Conns : Replace(c, gone)
      <4>1. CASE Reconnects(c) /\ Replace(c, {userClients[UserOf[c]][DeviceOf[c]]})
        BY <4>1, ConnKeys DEF Reconnects
      <4>2. CASE \E v \in SessionsOf(UserOf[c]) : Replace(c, {v})
        BY <4>2, ConnKeys DEF SessionsOf, DevicesOn
      <4>3. CASE Replace(c, {})
        BY <4>3
      <4> QED BY <2>2, <4>1, <4>2, <4>3 DEF Register
    <3> QED BY <2>2, <3>1, <3>2 DEF Register
  <2>3. ASSUME NEW c \in Conns, PersistPresence(c) PROVE TypeOK'
    BY <2>3, ConnKeys DEF PersistPresence
  <2>4. ASSUME NEW c \in Conns, JoinRoom(c) PROVE TypeOK'
    <3>1. rooms' \in [Rooms -> [Keys -> MaybeConn]]
      <4>1. \A r \in Rooms, k \in Keys :
              (IF r \in asked[c] /\ k = KeyOf(c) THEN c
               ELSE IF r \notin asked[c] /\ Holds(c, r) /\ k \in RoomKeys(c)
               THEN NoConn ELSE rooms[r][k]) \in MaybeConn
        BY SMTT(30)
      <4> QED BY <2>4, <4>1 DEF JoinRoom
    <3>2. asked' \in [Conns -> SUBSET Rooms] /\ pc' \in [Conns -> Phases]
      BY <2>4 DEF JoinRoom
    <3> QED BY <2>4, <3>1, <3>2 DEF JoinRoom
  <2>5. ASSUME NEW c \in Conns, ReadFails(c) PROVE TypeOK'
    BY <2>5 DEF ReadFails
  <2>6. ASSUME NEW c \in Conns, Unregister(c) PROVE TypeOK'
    <3>1. clients' \in [Keys -> MaybeConn] /\ userClients' \in [Users -> [DevKeys -> MaybeConn]]
      BY <2>6, ConnKeys DEF Unregister, ClientsWithoutKey
    <3>2. rooms' \in [Rooms -> [Keys -> MaybeConn]]
      BY <2>6 DEF Unregister, RoomsWithout
    <3>3. pc' \in [Conns -> Phases] /\ sendClosed' \subseteq Conns
      BY <2>6 DEF Unregister
    <3> QED BY <2>6, <3>1, <3>2, <3>3 DEF Unregister
  <2>7. ASSUME NEW c \in Conns, DropPresence(c) PROVE TypeOK'
    BY <2>7 DEF DropPresence
  <2>8. ASSUME NEW c \in Conns, CloseKicked(c) PROVE TypeOK'
    BY <2>8 DEF CloseKicked
  <2>9. ASSUME NEW c \in Conns, Disconnect(c) PROVE TypeOK'
    BY <2>9 DEF Disconnect
  <2>10. ASSUME NEW c \in Conns, NEW r \in Rooms, ReadJoin(c, r) PROVE TypeOK'
    BY <2>10 DEF ReadJoin
  <2>11. ASSUME NEW u \in Users, NEW d \in DevKeys, KickUser(u, d) PROVE TypeOK'
    BY <2>11 DEF KickUser, DevicesOn
  <2>12. ASSUME NEW u \in Users, NEW d \in Devices, KickDevice(u, d) PROVE TypeOK'
    <3>1. d \in DevKeys
      BY DEF DevKeys
    <3>2. SessionOn(u, d) \subseteq Conns
      BY <3>1 DEF SessionOn
    <3> QED BY <2>12, <3>2 DEF KickDevice
  <2>13. CASE UNCHANGED vars
    BY <2>13 DEF vars
  <2> QED BY <2>1, <2>2, <2>3, <2>4, <2>5, <2>6, <2>7, <2>8, <2>9, <2>10, <2>11,
             <2>12, <2>13 DEF Next
<1> QED BY <1>1, <1>2, PTL DEF Spec

-----------------------------------------------------------------------------
(* Replacing a registration, the three ways Register does it: which        *)
(* connections go, and what is known about them.                           *)
Replaced(c, gone) ==
  \/ Reconnects(c) /\ gone = {userClients[UserOf[c]][DeviceOf[c]]}
  \/ /\ ~Reconnects(c) /\ QuotaReached(UserOf[c])
     /\ \E v \in SessionsOf(UserOf[c]) : gone = {v}
  \/ ~Reconnects(c) /\ ~QuotaReached(UserOf[c]) /\ gone = {}

LEMMA RegisterReplaces ==
  ASSUME NEW c \in Conns, TypeOK, Register(c)
  PROVE \E gone \in SUBSET Conns : Replaced(c, gone) /\ Replace(c, gone)
<1> USE DEF TypeOK, MaybeConn
<1>1. CASE Reconnects(c) /\ Replace(c, {userClients[UserOf[c]][DeviceOf[c]]})
  <2> DEFINE gone == {userClients[UserOf[c]][DeviceOf[c]]}
  <2>1. gone \in SUBSET Conns
    BY <1>1, ConnKeys DEF Reconnects
  <2> QED BY <1>1, <2>1 DEF Replaced
<1>2. ASSUME ~Reconnects(c), QuotaReached(UserOf[c]),
             NEW v \in SessionsOf(UserOf[c]), Replace(c, {v})
      PROVE \E gone \in SUBSET Conns : Replaced(c, gone) /\ Replace(c, gone)
  <2>1. {v} \in SUBSET Conns
    BY ConnKeys DEF SessionsOf, DevicesOn
  <2> QED BY <1>2, <2>1 DEF Replaced
<1>3. CASE ~Reconnects(c) /\ ~QuotaReached(UserOf[c]) /\ Replace(c, {})
  BY <1>3 DEF Replaced
<1> QED BY <1>1, <1>2, <1>3 DEF Register

(* The registries' inductive invariant.                                    *)
RegistryInv == TypeOK /\ RegistriesAgree /\ EntriesOwned

LEMMA RegistryInvInit == Init => RegistryInv
<1> SUFFICES ASSUME Init PROVE RegistryInv
  OBVIOUS
<1>1. TypeOK
  BY DEF Init, TypeOK, Phases, MaybeConn
<1>2. RegistriesAgree /\ EntriesOwned
  BY DEF Init, RegistriesAgree, EntriesOwned, Keys
<1> QED BY <1>1, <1>2 DEF RegistryInv

(* Only Register, JoinRoom and Unregister write the maps of the hub.       *)
Maps == <<clients, userClients, rooms>>
Quiet == UNCHANGED Maps /\ \A c \in Conns : pc'[c] \in Outside => pc[c] \in Outside

LEMMA StepKinds ==
  ASSUME TypeOK, [Next]_vars
  PROVE \/ \E c \in Conns : Register(c)
        \/ \E c \in Conns : JoinRoom(c)
        \/ \E c \in Conns : Unregister(c)
        \/ Quiet
<1> USE DEF Quiet, Maps, Outside, TypeOK
<1>1. ASSUME NEW c \in Conns,
             Upgrade(c) \/ PersistPresence(c) \/ ReadFails(c) \/ DropPresence(c)
      PROVE Quiet
  BY <1>1 DEF Upgrade, PersistPresence, ReadFails, DropPresence
<1>2. ASSUME NEW c \in Conns, CloseKicked(c) \/ Disconnect(c) \/ \E r \in Rooms : ReadJoin(c, r)
      PROVE Quiet
  BY <1>2 DEF CloseKicked, Disconnect, ReadJoin
<1>3. ASSUME NEW u \in Users, (\E d \in DevKeys : KickUser(u, d)) \/ (\E d \in Devices : KickDevice(u, d))
      PROVE Quiet
  BY <1>3 DEF KickUser, KickDevice
<1>4. CASE UNCHANGED vars
  BY <1>4 DEF vars
<1> QED BY <1>1, <1>2, <1>3, <1>4 DEF Next

LEMMA RegistryInvNext ==
  ASSUME RegistryInv, [Next]_vars, TypeOK'
  PROVE RegistryInv'
<1> USE DEF RegistryInv, TypeOK
<1>1. ASSUME NEW c \in Conns, Register(c) PROVE RegistriesAgree' /\ EntriesOwned'
  <2>1. PICK gone \in SUBSET Conns : Replace(c, gone)
    BY <1>1, RegisterReplaces
  <2>2. RegistriesAgree'
    BY <2>1 DEF Replace, EnterClients, EnterUserClients, RegistriesAgree, Keys
  <2>3. \A u \in Users, d \in DevKeys :
          userClients'[u][d] # NoConn => KeyOf(userClients'[u][d]) = <<u, d>>
    BY <2>1, ConnKeys DEF Replace, EnterUserClients, EntriesOwned
  <2>4. \A r \in Rooms, k \in Keys :
          rooms'[r][k] # NoConn => KeyOf(rooms'[r][k]) = k
    BY <2>1 DEF Replace, EntriesOwned
  <2> QED BY <2>2, <2>3, <2>4 DEF EntriesOwned, KeyOf
<1>2. ASSUME NEW c \in Conns, JoinRoom(c) PROVE RegistriesAgree' /\ EntriesOwned'
  <2>1. RegistriesAgree'
    BY <1>2 DEF JoinRoom, RegistriesAgree
  <2>2. \A r \in Rooms, k \in Keys :
          rooms'[r][k] # NoConn => KeyOf(rooms'[r][k]) = k
    BY <1>2, ConnKeys DEF JoinRoom, EntriesOwned
  <2> QED BY <1>2, <2>1, <2>2 DEF EntriesOwned, KeyOf, JoinRoom
<1>3. ASSUME NEW c \in Conns, Unregister(c) PROVE RegistriesAgree' /\ EntriesOwned'
  <2>1. RegistriesAgree'
    <3>1. KeyOf(c) = <<UserOf[c], DeviceOf[c]>> /\ UserOf[c] \in Users /\ DeviceOf[c] \in DevKeys
      BY ConnKeys
    <3>2. /\ clients' = [clients EXCEPT ![KeyOf(c)] = NoConn]
          /\ userClients' = [userClients EXCEPT ![UserOf[c]][DeviceOf[c]] = NoConn]
      BY <1>3 DEF Unregister, ClientsWithoutKey
    <3> SUFFICES ASSUME NEW u \in Users, NEW d \in DevKeys
                 PROVE clients'[<<u, d>>] = userClients'[u][d]
      BY DEF RegistriesAgree
    <3>3. <<u, d>> \in Keys
      BY DEF Keys
    <3>4. clients[<<u, d>>] = userClients[u][d]
      BY DEF RegistriesAgree
    <3>5. CASE <<u, d>> = KeyOf(c)
      BY <3>1, <3>2, <3>3, <3>5
    <3>6. CASE <<u, d>> # KeyOf(c)
      BY <3>1, <3>2, <3>3, <3>4, <3>6
    <3> QED BY <3>5, <3>6
  <2>2. \A u \in Users, d \in DevKeys :
          userClients'[u][d] # NoConn => KeyOf(userClients'[u][d]) = <<u, d>>
    BY <1>3, ConnKeys DEF Unregister, EntriesOwned
  <2>3. \A r \in Rooms, k \in Keys :
          rooms'[r][k] # NoConn => KeyOf(rooms'[r][k]) = k
    BY <1>3 DEF Unregister, RoomsWithout, EntriesOwned
  <2> QED BY <2>1, <2>2, <2>3 DEF EntriesOwned, KeyOf
<1>4. CASE Quiet
  BY <1>4 DEF Quiet, Maps, RegistriesAgree, EntriesOwned, KeyOf
<1> QED BY <1>1, <1>2, <1>3, <1>4, StepKinds DEF RegistryInv

(* The two registries of the hub always name the same connections.         *)
THEOREM RegistriesAlwaysAgree == Spec => []RegistriesAgree
<1>1. RegistryInv /\ TypeOK' /\ [Next]_vars => RegistryInv'
  BY RegistryInvNext
<1>2. RegistryInv => RegistriesAgree
  BY DEF RegistryInv
<1> QED BY RegistryInvInit, TypeCorrect, <1>1, <1>2, PTL DEF Spec

-----------------------------------------------------------------------------
LEMMA DeviceSets ==
  /\ IsFiniteSet(DevKeys)
  /\ \A S : S \subseteq DevKeys => IsFiniteSet(S) /\ Cardinality(S) \in Nat
<1>1. IsFiniteSet(DevKeys)
  BY DeviceAssumption, FS_AddElement DEF DevKeys
<1> QED BY <1>1, FS_Subset, FS_CardinalityType

(* What Register leaves of a user's devices: the connection's own device   *)
(* comes in, the devices of the connections that go leave.                 *)
LEMMA DevicesAfterReplace ==
  ASSUME NEW c \in Conns, TypeOK, NEW gone \in SUBSET Conns, Replace(c, gone), NEW u \in Users
  PROVE DevicesOn(u)' = IF u = UserOf[c]
                        THEN (DevicesOn(u) \ {DeviceOf[v] : v \in {w \in gone : UserOf[w] = u}})
                               \union {DeviceOf[c]}
                        ELSE DevicesOn(u) \ {DeviceOf[v] : v \in {w \in gone : UserOf[w] = u}}
  BY ConnKeys, ConnAssumption DEF TypeOK, Replace, EnterUserClients, DevicesOn, KeyOf

LEMMA QuotaNext ==
  ASSUME RegistryInv, DeviceQuota, [Next]_vars
  PROVE DeviceQuota'
<1> USE DEF RegistryInv, DeviceQuota
<1>1. ASSUME NEW c \in Conns, Register(c) PROVE DeviceQuota'
  <2> SUFFICES ASSUME NEW u \in Users PROVE Cardinality(DevicesOn(u)') <= MaxActiveDevices
    OBVIOUS
  <2>1. PICK gone \in SUBSET Conns : Replaced(c, gone) /\ Replace(c, gone)
    BY <1>1, RegisterReplaces
  <2> DEFINE Left == {DeviceOf[v] : v \in {w \in gone : UserOf[w] = u}}
  <2>2. DevicesOn(u)' = IF u = UserOf[c] THEN (DevicesOn(u) \ Left) \union {DeviceOf[c]}
                                         ELSE DevicesOn(u) \ Left
    BY <2>1, DevicesAfterReplace
  <2>3. /\ IsFiniteSet(DevicesOn(u)) /\ Cardinality(DevicesOn(u)) \in Nat
        /\ Cardinality(DevicesOn(u)) <= MaxActiveDevices
    BY DeviceSets DEF DevicesOn
  <2>4. CASE u # UserOf[c]
    <3>1. DevicesOn(u)' \subseteq DevicesOn(u)
      BY <2>2, <2>4
    <3>2. Cardinality(DevicesOn(u)') <= Cardinality(DevicesOn(u)) /\ Cardinality(DevicesOn(u)') \in Nat
      BY <3>1, <2>3, FS_Subset, FS_CardinalityType
    <3> QED BY <3>2, <2>3, QuotaAssumption
  <2>5. CASE u = UserOf[c] /\ Reconnects(c)
    <3>1. DeviceOf[c] \in DevicesOn(u)
      BY <2>5, ConnKeys DEF Reconnects, DevicesOn
    <3>2. DevicesOn(u)' \subseteq DevicesOn(u)
      BY <2>2, <2>5, <3>1
    <3>3. Cardinality(DevicesOn(u)') <= Cardinality(DevicesOn(u)) /\ Cardinality(DevicesOn(u)') \in Nat
      BY <3>2, <2>3, FS_Subset, FS_CardinalityType
    <3> QED BY <3>3, <2>3, QuotaAssumption
  <2>6. CASE u = UserOf[c] /\ ~Reconnects(c) /\ QuotaReached(u)
    <3>1. PICK v \in SessionsOf(u) : gone = {v}
      BY <2>1, <2>6 DEF Replaced
    <3>2. PICK d \in DevicesOn(u) : v = userClients[u][d]
      BY <3>1 DEF SessionsOf
    <3>3. UserOf[v] = u /\ DeviceOf[v] = d
      BY <3>2 DEF DevicesOn, EntriesOwned, KeyOf
    <3>4. Left = {d}
      BY <3>1, <3>3
    <3>5. /\ IsFiniteSet(DevicesOn(u) \ {d})
          /\ Cardinality(DevicesOn(u) \ {d}) = Cardinality(DevicesOn(u)) - 1
      BY <2>3, <3>2, FS_RemoveElement
    <3>6. Cardinality((DevicesOn(u) \ {d}) \union {DeviceOf[c]})
            \in {Cardinality(DevicesOn(u)) - 1, Cardinality(DevicesOn(u))}
      <4>1. Cardinality((DevicesOn(u) \ {d}) \union {DeviceOf[c]})
              = IF DeviceOf[c] \in DevicesOn(u) \ {d} THEN Cardinality(DevicesOn(u) \ {d})
                ELSE Cardinality(DevicesOn(u) \ {d}) + 1
        BY <3>5, FS_AddElement
      <4> QED BY <4>1, <3>5, <2>3
    <3>7. DevicesOn(u)' = (DevicesOn(u) \ {d}) \union {DeviceOf[c]}
      BY <2>2, <2>6, <3>4
    <3> QED BY <3>6, <3>7, <2>3, QuotaAssumption
  <2>7. CASE u = UserOf[c] /\ ~Reconnects(c) /\ ~QuotaReached(u)
    <3>1. gone = {}
      BY <2>1, <2>7 DEF Replaced
    <3>2. DevicesOn(u)' = DevicesOn(u) \union {DeviceOf[c]}
      BY <2>2, <2>7, <3>1
    <3>3. Cardinality(DevicesOn(u)) < MaxActiveDevices
      BY <2>3, <2>7, QuotaAssumption DEF QuotaReached
    <3>4. Cardinality(DevicesOn(u) \union {DeviceOf[c]})
            \in {Cardinality(DevicesOn(u)), Cardinality(DevicesOn(u)) + 1}
      BY <2>3, FS_AddElement
    <3> QED BY <3>2, <3>3, <3>4, <2>3, QuotaAssumption
  <2> QED BY <2>4, <2>5, <2>6, <2>7
<1>2. ASSUME UNCHANGED userClients PROVE DeviceQuota'
  BY <1>2 DEF DevicesOn
<1>3. ASSUME NEW c \in Conns, Unregister(c) PROVE DeviceQuota'
  <2> SUFFICES ASSUME NEW u \in Users PROVE Cardinality(DevicesOn(u)') <= MaxActiveDevices
    OBVIOUS
  <2>1. DevicesOn(u)' \subseteq DevicesOn(u)
    BY <1>3, ConnKeys DEF Unregister, DevicesOn, TypeOK
  <2>2. /\ IsFiniteSet(DevicesOn(u)) /\ Cardinality(DevicesOn(u)) \in Nat
        /\ Cardinality(DevicesOn(u)) <= MaxActiveDevices
    BY DeviceSets DEF DevicesOn
  <2>3. Cardinality(DevicesOn(u)') <= Cardinality(DevicesOn(u)) /\ Cardinality(DevicesOn(u)') \in Nat
    BY <2>1, <2>2, FS_Subset, FS_CardinalityType
  <2> QED BY <2>2, <2>3, QuotaAssumption
<1> QED BY <1>1, <1>2, <1>3, StepKinds DEF Quiet, Maps, JoinRoom

(* A user never has more registered devices than the quota.                *)
THEOREM QuotaKept == Spec => []DeviceQuota
<1>1. Init => DeviceQuota
  <2> SUFFICES ASSUME Init, NEW u \in Users PROVE Cardinality(DevicesOn(u)) <= MaxActiveDevices
    BY DEF DeviceQuota
  <2>1. DevicesOn(u) = {}
    BY DEF Init, DevicesOn
  <2> QED BY <2>1, FS_EmptySet, QuotaAssumption
<1>2. RegistryInv /\ TypeOK' /\ [Next]_vars => RegistryInv'
  BY RegistryInvNext
<1>3. RegistryInv /\ DeviceQuota /\ [Next]_vars => DeviceQuota'
  BY QuotaNext
<1> QED BY RegistryInvInit, TypeCorrect, <1>1, <1>2, <1>3, PTL DEF Spec

-----------------------------------------------------------------------------
LEMMA HeldNext ==
  ASSUME RegistryInv, HeldOnlyWhileServing, [Next]_vars
  PROVE HeldOnlyWhileServing'
<1> USE DEF RegistryInv, TypeOK, HeldOnlyWhileServing, Outside, Registered, InSomeRoom
<1>1. ASSUME NEW c \in Conns, Register(c) PROVE HeldOnlyWhileServing'
  <2>1. PICK gone \in SUBSET Conns : Replace(c, gone)
    BY <1>1, RegisterReplaces
  <2>2. ASSUME NEW o \in Conns, pc'[o] \in Outside
        PROVE ~Registered(o)' /\ ~InSomeRoom(o)'
    <3>1. o # c /\ ~Registered(o) /\ ~InSomeRoom(o)
      BY <1>1, <2>2 DEF Register
    <3>2. ~Registered(o)'
      BY <2>1, <3>1, ConnKeys DEF Replace, EnterClients
    <3>3. ~InSomeRoom(o)'
      BY <2>1, <3>1, ConnKeys DEF Replace
    <3> QED BY <3>2, <3>3
  <2> QED BY <2>2
<1>2. ASSUME NEW c \in Conns, JoinRoom(c) PROVE HeldOnlyWhileServing'
  <2>1. ASSUME NEW o \in Conns, pc'[o] \in Outside
        PROVE ~Registered(o)' /\ ~InSomeRoom(o)'
    <3>1. o # c /\ ~Registered(o) /\ ~InSomeRoom(o)
      BY <1>2, <2>1 DEF JoinRoom
    <3> QED BY <1>2, <3>1, ConnKeys DEF JoinRoom
  <2> QED BY <2>1
<1>3. ASSUME NEW c \in Conns, Unregister(c) PROVE HeldOnlyWhileServing'
  <2>1. ASSUME NEW o \in Conns, pc'[o] \in Outside
        PROVE ~Registered(o)' /\ ~InSomeRoom(o)'
    <3>1. CASE o # c
      <4>1. ~Registered(o) /\ ~InSomeRoom(o)
        BY <1>3, <2>1, <3>1 DEF Unregister
      <4> QED BY <1>3, <4>1, ConnKeys DEF Unregister, ClientsWithoutKey, RoomsWithout
    <3>2. CASE o = c
      <4>1. ~Registered(c)'
        BY <1>3, ConnKeys DEF Unregister, ClientsWithoutKey
      <4>2. \A r \in Rooms, k \in Keys : rooms'[r][k] # c
        <5> SUFFICES ASSUME NEW r \in Rooms, NEW k \in Keys, rooms'[r][k] = c PROVE FALSE
          OBVIOUS
        <5>1. rooms'[r][k] = IF Holds(c, r) /\ k \in RoomKeys(c) THEN NoConn ELSE rooms[r][k]
          BY <1>3 DEF Unregister, RoomsWithout
        <5>2. rooms[r][k] = c /\ ~(Holds(c, r) /\ k \in RoomKeys(c))
          BY <5>1, ConnKeys
        <5>3. k = KeyOf(c)
          BY <5>2, ConnKeys DEF EntriesOwned
        <5> QED BY <5>2, <5>3 DEF Holds, RoomKeys
      <4> QED BY <4>1, <4>2, <3>2
    <3> QED BY <3>1, <3>2
  <2> QED BY <2>1
<1>4. CASE Quiet
  BY <1>4 DEF Quiet, Maps
<1> QED BY <1>1, <1>2, <1>3, <1>4, StepKinds

(* Once Unregister ran, neither a registry nor a room holds the connection.*)
THEOREM NothingHeld == Spec => []NothingHeldAfterUnregister
<1>1. Init => HeldOnlyWhileServing
  BY ConnKeys DEF Init, HeldOnlyWhileServing, Registered, InSomeRoom
<1>2. RegistryInv /\ TypeOK' /\ [Next]_vars => RegistryInv'
  BY RegistryInvNext
<1>3. RegistryInv /\ HeldOnlyWhileServing /\ [Next]_vars => HeldOnlyWhileServing'
  BY HeldNext
<1>4. HeldOnlyWhileServing => NothingHeldAfterUnregister
  BY DEF HeldOnlyWhileServing, Outside, NothingHeldAfterUnregister
<1> QED BY RegistryInvInit, TypeCorrect, <1>1, <1>2, <1>3, <1>4, PTL DEF Spec

-----------------------------------------------------------------------------
(* The steps of other connections leave a sole live session registered:    *)
(* Register takes an entry only for its own key or from a connection it    *)
(* also closes, and Unregister deletes only its own key.                   *)
LEMMA SoleNext ==
  ASSUME RegistryInv, SoleRegistered, [Next]_vars
  PROVE SoleRegistered'
<1> USE DEF RegistryInv, TypeOK, SoleRegistered, Sole, Registered
<1> DEFINE Known(c) == /\ pc[c] \in {"registered", "reading", "joining"}
                       /\ sock[c] = "open"
                       /\ c \notin closing
                       /\ Sole(c)
<1>1. ASSUME NEW c \in Conns, Register(c) PROVE SoleRegistered'
  <2>1. PICK gone \in SUBSET Conns : Replaced(c, gone) /\ Replace(c, gone)
    BY <1>1, RegisterReplaces
  <2>a. \A v \in gone : clients[KeyOf(v)] = v
    <3>1. \A v \in gone : \E u \in Users, d \in DevKeys : v = userClients[u][d] /\ v # NoConn
      BY <2>1, ConnKeys DEF Replaced, SessionsOf, DevicesOn, Reconnects
    <3> QED BY <3>1 DEF EntriesOwned, RegistriesAgree
  <2>2. ASSUME NEW o \in Conns, Known(o)' PROVE Registered(o)'
    <3>1. CASE o = c
      BY <2>1, <3>1, ConnKeys DEF Replace, EnterClients
    <3>2. CASE o # c
      <4>1. KeyOf(o) # KeyOf(c)
        BY <1>1, <2>2, <3>2 DEF Register, KeyOf
      <4>2. o \notin closing /\ o \notin gone
        BY <2>1, <2>2 DEF Replace, CloseSoon
      <4>3. Known(o)
        BY <1>1, <2>2, <3>2, <4>2 DEF Register, KeyOf
      <4>4. clients[KeyOf(o)] = o
        BY <4>3
      <4>5. \A v \in gone : KeyOf(v) = KeyOf(o) => clients[KeyOf(o)] = v
        BY <2>a
      <4> QED BY <2>1, <4>1, <4>2, <4>4, <4>5, ConnKeys DEF Replace, EnterClients
    <3> QED BY <3>1, <3>2
  <2> QED BY <2>2
<1>2. ASSUME NEW c \in Conns, Unregister(c) PROVE SoleRegistered'
  <2>1. ASSUME NEW o \in Conns, Known(o)' PROVE Registered(o)'
    <3>1. o # c
      BY <1>2, <2>1 DEF Unregister
    <3>2. KeyOf(o) # KeyOf(c)
      BY <1>2, <2>1, <3>1 DEF Unregister, KeyOf
    <3>3. Known(o)
      BY <1>2, <2>1, <3>1, <3>2 DEF Unregister, KeyOf
    <3> QED BY <1>2, <3>2, <3>3, ConnKeys DEF Unregister, ClientsWithoutKey
  <2> QED BY <2>1
<1>3. ASSUME UNCHANGED clients, \A o \in Conns : Known(o)' => Known(o) PROVE SoleRegistered'
  BY <1>3 DEF KeyOf
<1>4. ASSUME NEW c \in Conns, Upgrade(c) \/ PersistPresence(c) \/ JoinRoom(c) \/ ReadFails(c) \/ DropPresence(c)
      PROVE SoleRegistered'
  <2>1. UNCHANGED clients
    BY <1>4 DEF Upgrade, PersistPresence, JoinRoom, ReadFails, DropPresence
  <2>2. ASSUME NEW o \in Conns, Known(o)' PROVE Known(o)
    BY <1>4, <2>2 DEF Upgrade, PersistPresence, JoinRoom, ReadFails, DropPresence, KeyOf
  <2> QED BY <1>3, <2>1, <2>2
<1>5. ASSUME NEW c \in Conns, CloseKicked(c) \/ Disconnect(c) \/ \E r \in Rooms : ReadJoin(c, r)
      PROVE SoleRegistered'
  <2>1. UNCHANGED clients
    BY <1>5 DEF CloseKicked, Disconnect, ReadJoin
  <2>2. ASSUME NEW o \in Conns, Known(o)' PROVE Known(o)
    BY <1>5, <2>2 DEF CloseKicked, Disconnect, ReadJoin, KeyOf
  <2> QED BY <1>3, <2>1, <2>2
<1>6. ASSUME NEW u \in Users, (\E d \in DevKeys : KickUser(u, d)) \/ (\E d \in Devices : KickDevice(u, d))
      PROVE SoleRegistered'
  BY <1>3, <1>6 DEF KickUser, KickDevice, KeyOf
<1>7. CASE UNCHANGED vars
  BY <1>3, <1>7 DEF vars, KeyOf
<1> QED BY <1>1, <1>2, <1>4, <1>5, <1>6, <1>7 DEF Next

(* A serving connection with a device key to itself is registered.         *)
THEOREM SoleSessionKept == Spec => []SoleSessionStaysRegistered
<1>1. Init => SoleRegistered
  BY DEF Init, SoleRegistered
<1>2. RegistryInv /\ TypeOK' /\ [Next]_vars => RegistryInv'
  BY RegistryInvNext
<1>3. RegistryInv /\ SoleRegistered /\ [Next]_vars => SoleRegistered'
  BY SoleNext
<1>4. SoleRegistered => SoleSessionStaysRegistered
  BY DEF SoleRegistered, Sole, SoleSessionStaysRegistered, Live
<1> QED BY RegistryInvInit, TypeCorrect, <1>1, <1>2, <1>3, <1>4, PTL DEF Spec

-----------------------------------------------------------------------------
(* A channel is closed only by its connection's own Unregister, after      *)
(* which nothing holds the connection.                                     *)
SendClosedLate == \A c \in sendClosed : pc[c] \in {"dropping", "done"}

LEMMA SendClosedNext ==
  ASSUME TypeOK, SendClosedLate, [Next]_vars
  PROVE SendClosedLate'
<1> USE DEF TypeOK, SendClosedLate
<1>1. ASSUME NEW c \in Conns,
             Upgrade(c) \/ Register(c) \/ PersistPresence(c) \/ JoinRoom(c) \/ ReadFails(c)
      PROVE SendClosedLate'
  BY <1>1 DEF Upgrade, Register, PersistPresence, JoinRoom, ReadFails
<1>2. ASSUME NEW c \in Conns, Unregister(c) PROVE SendClosedLate'
  BY <1>2 DEF Unregister
<1>3. ASSUME NEW c \in Conns,
             DropPresence(c) \/ CloseKicked(c) \/ Disconnect(c) \/ \E r \in Rooms : ReadJoin(c, r)
      PROVE SendClosedLate'
  BY <1>3 DEF DropPresence, CloseKicked, Disconnect, ReadJoin
<1>4. ASSUME NEW u \in Users,
             (\E d \in DevKeys : KickUser(u, d)) \/ (\E d \in Devices : KickDevice(u, d))
      PROVE SendClosedLate'
  BY <1>4 DEF KickUser, KickDevice
<1>5. CASE UNCHANGED vars
  BY <1>5 DEF vars
<1> QED BY <1>1, <1>2, <1>3, <1>4, <1>5 DEF Next

(* A registered connection can be sent to: its channel is open.            *)
THEOREM ReceiversKept == Spec => []RegisteredCanReceive
<1>1. Init => HeldOnlyWhileServing /\ SendClosedLate
  BY ConnKeys DEF Init, HeldOnlyWhileServing, Registered, InSomeRoom, SendClosedLate
<1>2. RegistryInv /\ TypeOK' /\ [Next]_vars => RegistryInv'
  BY RegistryInvNext
<1>3. RegistryInv /\ HeldOnlyWhileServing /\ [Next]_vars => HeldOnlyWhileServing'
  BY HeldNext
<1>4. TypeOK /\ SendClosedLate /\ [Next]_vars => SendClosedLate'
  BY SendClosedNext
<1>5. HeldOnlyWhileServing /\ SendClosedLate => RegisteredCanReceive
  BY DEF HeldOnlyWhileServing, Outside, SendClosedLate, RegisteredCanReceive
<1> QED BY RegistryInvInit, TypeCorrect, <1>1, <1>2, <1>3, <1>4, <1>5, PTL DEF Spec

-----------------------------------------------------------------------------
(* What a step may do to an entry in a room: LeavesOnlyItself, of one step.*)
OwnDoing == \A c \in Conns, r \in Rooms :
              (DeviceOf[c] # NoDevice /\ Holds(c, r) /\ rooms'[r][KeyOf(c)] # c)
                => pc'[c] # pc[c] \/ c \in closing' \/ rooms'[r][KeyOf(c)] # NoConn

(* The keys of two sessions meet in a room only if they are one key.       *)
LEMMA SharedRoomKey ==
  ASSUME NEW c \in Conns, NEW v \in Conns, NEW r \in Rooms, DeviceOf[c] # NoDevice,
         Holds(c, r), Holds(v, r), KeyOf(c) \in RoomKeys(v)
  PROVE c = v
<1>1. KeyOf(c) = KeyOf(v)
  BY DEF RoomKeys, KeyOf
<1> QED BY <1>1 DEF Holds

LEMMA OwnDoingNext ==
  ASSUME RegistryInv, [Next]_vars
  PROVE OwnDoing
<1> USE DEF RegistryInv, TypeOK
<1> SUFFICES ASSUME NEW c \in Conns, NEW r \in Rooms,
                    DeviceOf[c] # NoDevice, Holds(c, r), rooms'[r][KeyOf(c)] # c
             PROVE pc'[c] # pc[c] \/ c \in closing' \/ rooms'[r][KeyOf(c)] # NoConn
  BY DEF OwnDoing
<1>1. ASSUME NEW o \in Conns, Register(o) PROVE c \in closing'
  <2>1. PICK gone \in SUBSET Conns : Replace(o, gone)
    BY <1>1, RegisterReplaces
  <2>2. PICK v \in gone : Holds(v, r) /\ KeyOf(c) \in RoomKeys(v)
    BY <2>1, ConnKeys DEF Replace, Holds
  <2>3. v = c
    BY <2>2, SharedRoomKey
  <2> QED BY <2>1, <2>3 DEF Replace, CloseSoon
<1>2. ASSUME NEW o \in Conns, JoinRoom(o) PROVE pc'[c] # pc[c] \/ rooms'[r][KeyOf(c)] # NoConn
  <2>1. CASE r \in asked[o] /\ KeyOf(c) = KeyOf(o)
    BY <1>2, <2>1, ConnKeys DEF JoinRoom
  <2>2. CASE Holds(o, r) /\ KeyOf(c) \in RoomKeys(o)
    <3>1. o = c
      BY <2>2, SharedRoomKey
    <3> QED BY <1>2, <3>1 DEF JoinRoom
  <2> QED BY <1>2, <2>1, <2>2, ConnKeys DEF JoinRoom, Holds
<1>3. ASSUME NEW o \in Conns, Unregister(o) PROVE pc'[c] # pc[c]
  <2>1. Holds(o, r) /\ KeyOf(c) \in RoomKeys(o)
    BY <1>3, ConnKeys DEF Unregister, RoomsWithout, Holds
  <2>2. o = c
    BY <2>1, SharedRoomKey
  <2> QED BY <1>3, <2>2 DEF Unregister
<1>4. CASE Quiet
  BY <1>4 DEF Quiet, Maps, Holds
<1> QED BY <1>1, <1>2, <1>3, <1>4, StepKinds

(* A session with a device id leaves a room only by its own doing.         *)
THEOREM RoomsLeftByOneself == Spec => LeavesOnlyItself
<1>1. RegistryInv /\ TypeOK' /\ [Next]_vars => RegistryInv'
  BY RegistryInvNext
<1>2. RegistryInv /\ [Next]_vars => [OwnDoing]_vars
  BY OwnDoingNext
<1>3. Spec => [][OwnDoing]_vars
  BY RegistryInvInit, TypeCorrect, <1>1, <1>2, PTL DEF Spec
<1> QED BY <1>3 DEF LeavesOnlyItself, OwnDoing

-----------------------------------------------------------------------------
(* The refinement: the registered connections are the sessions in force.   *)
InForce == {c \in Conns : Registered(c)}

(* A user's sessions in force are as many as his devices in the registry.  *)
SlotsCounted ==
  \A c \in Conns : Cardinality(Slots!SessionsWith(c)) = Cardinality(DevicesOn(UserOf[c]))

LEMMA SlotsCount == RegistryInv => SlotsCounted
<1> SUFFICES ASSUME RegistryInv, NEW c \in Conns
             PROVE Cardinality(Slots!SessionsWith(c)) = Cardinality(DevicesOn(UserOf[c]))
  BY DEF SlotsCounted
<1> DEFINE u == UserOf[c]
           D == DevicesOn(u)
           S == Slots!SessionsWith(c)
           f == [d \in D |-> userClients[u][d]]
<1>1. u \in Users /\ D \subseteq DevKeys
  BY ConnKeys DEF DevicesOn
<1>2. \A d \in D : userClients[u][d] \in Conns /\ KeyOf(userClients[u][d]) = <<u, d>>
                   /\ clients[<<u, d>>] = userClients[u][d]
  BY <1>1 DEF RegistryInv, TypeOK, MaybeConn, EntriesOwned, RegistriesAgree, DevicesOn
<1>3. S = {o \in Conns : Registered(o) /\ UserOf[o] = u}
  BY DEF Slots!SessionsWith
<1>4. f \in [D -> S]
  <2> SUFFICES ASSUME NEW d \in D PROVE userClients[u][d] \in S
    OBVIOUS
  <2> QED BY <1>2, <1>3 DEF Registered, KeyOf
<1>5. ASSUME NEW a \in D, NEW b \in D, f[a] = f[b] PROVE a = b
  <2>1. <<u, a>> = <<u, b>>
    BY <1>2, <1>5
  <2> QED BY <2>1
<1>6. \A o \in S : \E d \in D : f[d] = o
  <2> SUFFICES ASSUME NEW o \in S PROVE \E d \in D : f[d] = o
    OBVIOUS
  <2>1. o \in Conns /\ clients[KeyOf(o)] = o /\ KeyOf(o) = <<u, DeviceOf[o]>>
    BY <1>3 DEF Registered, KeyOf
  <2>2. DeviceOf[o] \in DevKeys /\ userClients[u][DeviceOf[o]] = o /\ o # NoConn
    BY <1>1, <2>1, ConnKeys DEF RegistryInv, RegistriesAgree
  <2> QED BY <2>2 DEF DevicesOn
<1>7. f \in Bijection(D, S)
  BY <1>4, <1>5, <1>6 DEF Bijection, Injection, Surjection, IsInjective
<1>8. ExistsBijection(D, S)
  BY <1>7 DEF ExistsBijection
<1>9. IsFiniteSet(D)
  BY <1>1, DeviceSets
<1> QED BY <1>8, <1>9, FS_Bijection

(* What Replace makes of the sessions in force.                            *)
LEMMA InForceAfterReplace ==
  ASSUME RegistryInv, NEW c \in Conns, NEW gone \in SUBSET InForce, Replace(c, gone)
  PROVE InForce' = (InForce \ (Slots!SlotHolder(c) \union gone)) \union {c}
<1> SUFFICES ASSUME NEW o \in Conns
             PROVE clients'[KeyOf(o)] = o
                     <=> o = c \/ (clients[KeyOf(o)] = o /\ KeyOf(o) # KeyOf(c) /\ o \notin gone)
  BY DEF InForce, Registered, Slots!SlotHolder, KeyOf
<1>1. KeyOf(o) \in Keys /\ o # NoConn
  BY ConnKeys
<1>2. clients'[KeyOf(o)] = IF KeyOf(o) = KeyOf(c) THEN c
                           ELSE IF KeyOf(o) \in {KeyOf(v) : v \in gone} THEN NoConn
                           ELSE clients[KeyOf(o)]
  BY <1>1 DEF Replace, EnterClients
<1>3. \A v \in gone : clients[KeyOf(v)] = v
  BY DEF InForce, Registered
<1> QED BY <1>1, <1>2, <1>3

LEMMA SlotsCardinality == \A S : Slots!Cardinality(S) = Cardinality(S)
  BY DEF Slots!Cardinality, Cardinality

LEMMA EnterBy ==
  ASSUME NEW c \in Conns, NEW out \in SUBSET Slots!SessionsWith(c),
         Cardinality(out) <= 1,
         out # {} => /\ Cardinality(Slots!SessionsWith(c)) >= MaxActiveDevices
                     /\ DeviceOf[c] = NoDevice \/ Slots!SlotHolder(c) = {},
         InForce' = (InForce \ (Slots!SlotHolder(c) \union out)) \union {c},
         Cardinality(Slots!SessionsWith(c)') <= MaxActiveDevices
  PROVE Slots!Enter(c)
  BY SlotsCardinality DEF Slots!Enter, InForce

(* A Register is the entering of a session.                                *)
LEMMA RegisterEnters ==
  ASSUME RegistryInv, RegistryInv', HeldOnlyWhileServing, DeviceQuota, DeviceQuota',
         SlotsCounted, SlotsCounted', NEW c \in Conns, Register(c)
  PROVE Slots!Enter(c)
<1> DEFINE u == UserOf[c]
<1> USE DEF RegistryInv, TypeOK
<1>1. u \in Users /\ DeviceOf[c] \in DevKeys /\ KeyOf(c) = <<u, DeviceOf[c]>> /\ c # NoConn
  BY ConnKeys
<1>2. ~Registered(c)
  BY DEF Register, HeldOnlyWhileServing, Outside
<1>3. PICK gone \in SUBSET Conns : Replaced(c, gone) /\ Replace(c, gone)
  BY RegisterReplaces
<1>4. \A v \in SessionsOf(u) : v \in InForce /\ UserOf[v] = u
  <2> SUFFICES ASSUME NEW d \in DevicesOn(u)
               PROVE userClients[u][d] \in InForce /\ UserOf[userClients[u][d]] = u
    BY DEF SessionsOf
  <2>1. userClients[u][d] \in Conns /\ KeyOf(userClients[u][d]) = <<u, d>>
    BY <1>1 DEF MaybeConn, EntriesOwned, DevicesOn
  <2>2. clients[<<u, d>>] = userClients[u][d]
    BY <1>1 DEF RegistriesAgree, DevicesOn
  <2> QED BY <2>1, <2>2 DEF InForce, Registered, KeyOf
<1>5. Cardinality(Slots!SessionsWith(c)') <= MaxActiveDevices
  BY <1>1 DEF SlotsCounted, DeviceQuota
<1>6. /\ Slots!SlotHolder(c) = {o \in InForce : KeyOf(o) = KeyOf(c)}
      /\ Slots!SessionsWith(c) = {o \in InForce : UserOf[o] = u}
  BY DEF InForce, Slots!SlotHolder, Slots!SessionsWith, KeyOf
<1>7. CASE Reconnects(c) /\ gone = {userClients[u][DeviceOf[c]]}
  <2>1. DeviceOf[c] \in DevicesOn(u) /\ userClients[u][DeviceOf[c]] \in SessionsOf(u)
    BY <1>1, <1>7 DEF Reconnects, DevicesOn, SessionsOf
  <2>2. gone \in SUBSET InForce /\ gone \subseteq Slots!SlotHolder(c)
    BY <1>1, <1>4, <1>6, <1>7, <2>1 DEF EntriesOwned, DevicesOn
  <2>3. InForce' = (InForce \ (Slots!SlotHolder(c) \union {})) \union {c}
    BY <1>3, <2>2, InForceAfterReplace
  <2> QED BY <1>5, <2>3, FS_EmptySet, EnterBy
<1>8. ASSUME ~Reconnects(c), QuotaReached(u), NEW v \in SessionsOf(u), gone = {v}
      PROVE Slots!Enter(c)
  <2>1. v \in Slots!SessionsWith(c) /\ gone \in SUBSET InForce
    BY <1>4, <1>6, <1>8
  <2>2. Cardinality(gone) <= 1
    <3>1. Cardinality(gone) = 1
      BY <1>8, FS_Singleton, Zenon
    <3> QED BY <3>1
  <2>3. Cardinality(Slots!SessionsWith(c)) >= MaxActiveDevices
    BY <1>8 DEF SlotsCounted, QuotaReached
  <2>4. DeviceOf[c] = NoDevice \/ Slots!SlotHolder(c) = {}
    <3> SUFFICES ASSUME DeviceOf[c] # NoDevice PROVE Slots!SlotHolder(c) = {}
      OBVIOUS
    <3>1. userClients[u][DeviceOf[c]] \in {NoConn, c}
      BY <1>8 DEF Reconnects
    <3>2. clients[KeyOf(c)] = NoConn
      BY <1>1, <1>2, <3>1 DEF RegistriesAgree, Registered
    <3> QED BY <1>6, <3>2, ConnKeys DEF InForce, Registered
  <2>5. InForce' = (InForce \ (Slots!SlotHolder(c) \union gone)) \union {c}
    BY <1>3, <2>1, InForceAfterReplace
  <2>6. gone \in SUBSET Slots!SessionsWith(c)
    BY <2>1, <1>8
  <2> QED BY <1>5, <2>2, <2>3, <2>4, <2>5, <2>6, EnterBy
<1>9. CASE gone = {}
  <2>1. InForce' = (InForce \ (Slots!SlotHolder(c) \union {})) \union {c}
    BY <1>3, <1>9, InForceAfterReplace
  <2> QED BY <1>5, <2>1, FS_EmptySet, EnterBy
<1> QED BY <1>3, <1>7, <1>8, <1>9 DEF Replaced

LEMMA SlotsNext ==
  ASSUME RegistryInv, RegistryInv', HeldOnlyWhileServing, DeviceQuota, DeviceQuota',
         SlotsCounted, SlotsCounted', [Next]_vars
  PROVE [Slots!Next]_InForce
<1> USE DEF RegistryInv, TypeOK
<1>1. ASSUME NEW c \in Conns, Register(c) PROVE Slots!Next
  BY <1>1, RegisterEnters DEF Slots!Next
<1>2. ASSUME NEW c \in Conns, Unregister(c) PROVE Slots!Next
  <2>1. InForce' = InForce \ Slots!SlotHolder(c)
    <3> SUFFICES ASSUME NEW o \in Conns
                 PROVE clients'[KeyOf(o)] = o <=> clients[KeyOf(o)] = o /\ KeyOf(o) # KeyOf(c)
      BY DEF InForce, Registered, Slots!SlotHolder, KeyOf
    <3> QED BY <1>2, ConnKeys DEF Unregister, ClientsWithoutKey
  <2> QED BY <2>1 DEF Slots!Next, Slots!Leave, InForce
<1>3. CASE UNCHANGED clients
  BY <1>3 DEF InForce, Registered, KeyOf
<1> QED BY <1>1, <1>2, <1>3, StepKinds DEF Quiet, Maps, JoinRoom

(* The registry of the hub implements the promise of SessionSlots.         *)
THEOREM KeepsPromise == Spec => ImplementsSlots
<1>1. Init => HeldOnlyWhileServing /\ DeviceQuota /\ Slots!Init
  <2>1. ASSUME Init PROVE HeldOnlyWhileServing /\ Slots!Init
    BY <2>1, ConnKeys DEF Init, HeldOnlyWhileServing, Registered, InSomeRoom, Slots!Init
  <2>2. ASSUME Init, NEW u \in Users PROVE Cardinality(DevicesOn(u)) <= MaxActiveDevices
    <3>1. DevicesOn(u) = {}
      BY <2>2 DEF Init, DevicesOn
    <3> QED BY <3>1, FS_EmptySet, QuotaAssumption
  <2> QED BY <2>1, <2>2 DEF DeviceQuota
<1>2. RegistryInv /\ TypeOK' /\ [Next]_vars => RegistryInv'
  BY RegistryInvNext
<1>3. RegistryInv /\ HeldOnlyWhileServing /\ [Next]_vars => HeldOnlyWhileServing'
  BY HeldNext
<1>4. RegistryInv /\ DeviceQuota /\ [Next]_vars => DeviceQuota'
  BY QuotaNext
<1>5. RegistryInv /\ RegistryInv' /\ HeldOnlyWhileServing /\ DeviceQuota /\ DeviceQuota'
        /\ SlotsCounted /\ SlotsCounted' /\ [Next]_vars => [Slots!Next]_InForce
  BY SlotsNext
<1>6. Spec => Slots!Init /\ [][Slots!Next]_InForce
  BY RegistryInvInit, TypeCorrect, SlotsCount, <1>1, <1>2, <1>3, <1>4, <1>5, PTL DEF Spec
<1> QED BY <1>6, PTL DEF ImplementsSlots, Slots!Spec, InForce
=============================================================================
