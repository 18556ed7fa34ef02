------------------------ MODULE MembershipFanout_proofs ------------------------
(***************************************************************************)
(* Who hears a conversation, for any users, rooms, nodes and handlers and  *)
(* any number of changes and messages.                                     *)
(***************************************************************************)
EXTENDS MembershipFanout, SequenceTheorems, TLAPS

Caches == {Unknown} \union {Known(s) : s \in SUBSET Users}
Events == [room : Rooms, entitled : SUBSET Users]
Fetches == [step : {"fetch"}, node : Nodes, room : Rooms, entitled : SUBSET Users]
Deliveries == [step : {"deliver"}, node : Nodes, room : Rooms, entitled : SUBSET Users,
               fill : BOOLEAN, list : SUBSET Users]
Announcements == [step : {"announce"}, node : Nodes, room : Rooms]
Entries == [step : {"enter"}, user : Users, room : Rooms]
Jobs == {Idle} \union Fetches \union Deliveries \union Announcements \union Entries

TypeOK == /\ members \in [Rooms -> SUBSET Users]
          /\ been \in [Rooms -> SUBSET Users]
          /\ viewers \in [Rooms -> SUBSET Users]
          /\ cache \in [Nodes -> [Rooms -> Caches]]
          /\ work \in [Workers -> Jobs]
          /\ relay \in [Nodes -> Seq(Events)]

(* Whoever is named as a listener anywhere, in the database, a cache, a    *)
(* room or a handler's variables, has been a member.                       *)
ListenersHaveBeen ==
  /\ \A r \in Rooms : members[r] \union viewers[r] \subseteq been[r]
  /\ \A n \in Nodes, r \in Rooms : cache[n][r].known => cache[n][r].list \subseteq been[r]
  /\ \A w \in Workers : /\ work[w].step = "deliver" => work[w].list \subseteq been[work[w].room]
                        /\ work[w].step = "enter" => work[w].user \in been[work[w].room]

FanoutInv == TypeOK /\ ListenersHaveBeen /\ OutsidersNeverHear

LEMMA JobFields ==
  ASSUME NEW x \in Jobs
  PROVE /\ x.step = "fetch" => x \in Fetches
        /\ x.step = "deliver" => x \in Deliveries
        /\ x.step = "announce" => x \in Announcements
        /\ x.step = "enter" => x \in Entries
  BY DEF Jobs, Idle, Fetches, Deliveries, Announcements, Entries

LEMMA Topology ==
  /\ \A u \in Users : NodeOf[u] \in Nodes
  /\ \A r \in Rooms : GroupOf(r) \in Rooms
  /\ Founders \subseteq Users
  BY FanoutAssumption DEF GroupOf

LEMMA FanoutInit == Init => FanoutInv
<1> SUFFICES ASSUME Init PROVE FanoutInv
  OBVIOUS
<1>1. TypeOK
  BY Topology DEF Init, TypeOK, Caches, Jobs
<1>2. ListenersHaveBeen
  BY DEF Init, ListenersHaveBeen, Unknown, Idle
<1> QED BY <1>1, <1>2 DEF FanoutInv, Init, OutsidersNeverHear

(* A step that gives one worker a new job, and leaves what listeners are   *)
(* named in the database, the caches and the rooms alone.                  *)
LEMMA NewJob ==
  ASSUME FanoutInv, NEW w \in Workers, NEW x \in Jobs, Do(w, x),
         x.step = "deliver" => x.list \subseteq been[x.room],
         x.step = "enter" => x.user \in been[x.room],
         UNCHANGED <<members, cache, viewers, been, overheard>>,
         relay' \in [Nodes -> Seq(Events)]
  PROVE FanoutInv'
<1> USE DEF FanoutInv, TypeOK
<1>1. work' \in [Workers -> Jobs]
  BY DEF Do
<1>2. \A v \in Workers : work'[v] = IF v = w THEN x ELSE work[v]
  BY DEF Do
<1>3. ListenersHaveBeen'
  BY <1>2 DEF ListenersHaveBeen
<1> QED BY <1>1, <1>3 DEF OutsidersNeverHear

LEMMA BroadcastJob ==
  ASSUME TypeOK, NEW t \in Tasks, NEW n \in Nodes, NEW r \in Rooms, NEW from
  PROVE Broadcast(t, n, r, from) \in Jobs /\ Broadcast(t, n, r, from).step = "fetch"
<1>1. Access(r) \subseteq Users
  BY Topology DEF TypeOK, Access
<1> QED BY <1>1 DEF Broadcast, Jobs, Fetches

(* Taking somebody's entitlement away changes nothing else of a handler's  *)
(* variables and of the events under way.                                  *)
Loses(u, r, q) == r \in {q, GroupOf(q)}

LEMMA DeprivedJobs ==
  ASSUME TypeOK, NEW u \in Users, NEW r \in Rooms
  PROVE /\ Deprived(u, r) \in [Workers -> Jobs]
        /\ \A w \in Workers :
             /\ work[w].step \notin {"fetch", "deliver"} => Deprived(u, r)[w] = work[w]
             /\ Deprived(u, r)[w].step = work[w].step
             /\ work[w].step \in {"fetch", "deliver"} =>
                  /\ Deprived(u, r)[w].room = work[w].room
                  /\ Deprived(u, r)[w].node = work[w].node
                  /\ Deprived(u, r)[w].entitled
                       = IF Loses(u, r, work[w].room) THEN work[w].entitled \ {u}
                         ELSE work[w].entitled
             /\ work[w].step = "deliver" =>
                  /\ Deprived(u, r)[w].list = work[w].list
                  /\ Deprived(u, r)[w].fill = work[w].fill
<1> SUFFICES ASSUME NEW w \in Workers, work[w].step \in {"fetch", "deliver"}
             PROVE LET x == work[w]
                       y == Without(u, r, x)
                   IN /\ y \in Jobs
                      /\ y.step = x.step /\ y.room = x.room /\ y.node = x.node
                      /\ y.entitled = IF Loses(u, r, x.room) THEN x.entitled \ {u} ELSE x.entitled
                      /\ x.step = "deliver" => y.list = x.list /\ y.fill = x.fill
  BY DEF Deprived, TypeOK
<1>1. CASE work[w].step = "fetch"
  <2>1. work[w] \in Fetches
    BY <1>1, JobFields DEF TypeOK
  <2>2. Without(u, r, work[w]) \in Fetches
    BY <2>1 DEF Fetches, Without
  <2> QED BY <1>1, <2>1, <2>2 DEF Without, Fetches, Jobs, Loses
<1>2. CASE work[w].step = "deliver"
  <2>1. work[w] \in Deliveries
    BY <1>2, JobFields DEF TypeOK
  <2>2. Without(u, r, work[w]) \in Deliveries
    BY <2>1 DEF Deliveries, Without
  <2> QED BY <1>2, <2>1, <2>2 DEF Without, Deliveries, Jobs, Loses
<1> QED BY <1>1, <1>2

LEMMA DeprivedEvents ==
  ASSUME TypeOK, NEW u \in Users, NEW r \in Rooms
  PROVE LET after == [o \in Nodes |-> [i \in DOMAIN relay[o] |-> Without(u, r, relay[o][i])]]
        IN /\ after \in [Nodes -> Seq(Events)]
           /\ \A o \in Nodes :
                /\ DOMAIN after[o] = DOMAIN relay[o]
                /\ \A i \in DOMAIN relay[o] :
                     /\ after[o][i].room = relay[o][i].room
                     /\ after[o][i].entitled
                          = IF Loses(u, r, relay[o][i].room) THEN relay[o][i].entitled \ {u}
                            ELSE relay[o][i].entitled
<1>1. ASSUME NEW o \in Nodes, NEW i \in DOMAIN relay[o]
      PROVE /\ Without(u, r, relay[o][i]) \in Events
            /\ Without(u, r, relay[o][i]).room = relay[o][i].room
            /\ Without(u, r, relay[o][i]).entitled
                 = IF Loses(u, r, relay[o][i].room) THEN relay[o][i].entitled \ {u}
                   ELSE relay[o][i].entitled
  <2>1. relay[o][i] \in Events
    BY LenProperties, ElementOfSeq DEF TypeOK
  <2> QED BY <2>1 DEF Events, Without, Loses
<1>2. ASSUME NEW o \in Nodes
      PROVE [i \in DOMAIN relay[o] |-> Without(u, r, relay[o][i])] \in Seq(Events)
  <2>1. DOMAIN relay[o] = 1 .. Len(relay[o]) /\ Len(relay[o]) \in Nat
    BY LenProperties DEF TypeOK
  <2>2. \A i \in 1 .. Len(relay[o]) : Without(u, r, relay[o][i]) \in Events
    BY <1>1, <2>1
  <2>3. [i \in 1 .. Len(relay[o]) |-> Without(u, r, relay[o][i])] \in Seq(Events)
    BY <2>1, <2>2, IsASeq
  <2> QED BY <2>1, <2>3
<1> QED BY <1>1, <1>2

LEMMA FanoutNext == FanoutInv /\ [Next]_vars => FanoutInv'
<1> SUFFICES ASSUME FanoutInv, [Next]_vars PROVE FanoutInv'
  OBVIOUS
<1> USE DEF FanoutInv
<1>w. Tasks \subseteq Workers /\ Nodes \subseteq Workers
  BY DEF Workers
<1>1. ASSUME NEW t \in Tasks, NEW u \in Users, NEW r \in Rooms, SendMessage(t, u, r)
      PROVE FanoutInv'
  <2>1. /\ Broadcast(t, NodeOf[u], r, u) \in Jobs
        /\ Broadcast(t, NodeOf[u], r, u).step = "fetch"
    BY BroadcastJob, Topology
  <2> QED BY <1>1, <1>w, <2>1, NewJob DEF SendMessage, TypeOK
<1>2. ASSUME NEW t \in Tasks, NEW u \in Users, NEW r \in Rooms, CheckJoin(t, u, r)
      PROVE FanoutInv'
  <2> DEFINE x == [step |-> "enter", user |-> u, room |-> r]
  <2>1. x \in Jobs /\ x.step = "enter"
    BY DEF Jobs, Entries
  <2>2. u \in been[r]
    BY <1>2 DEF CheckJoin, MayOpen, Access, ListenersHaveBeen
  <2>3. x.user = u /\ x.room = r
    OBVIOUS
  <2>4. relay' = relay
    BY <1>2 DEF CheckJoin
  <2>5. Do(t, x) /\ UNCHANGED <<members, cache, viewers, been, overheard>>
    BY <1>2 DEF CheckJoin
  <2> HIDE DEF x
  <2> QED BY <1>w, <2>1, <2>2, <2>3, <2>4, <2>5, NewJob DEF TypeOK
<1>3. ASSUME NEW t \in Tasks, NEW u \in Users, NEW r \in Rooms, NEW n \in Nodes,
             AddMember(t, n, r, u)
      PROVE FanoutInv'
  <2> DEFINE x == [step |-> "announce", node |-> n, room |-> r]
  <2>1. x \in Jobs /\ x.step = "announce"
    BY DEF Jobs, Announcements
  <2>2. Do(t, x) /\ UNCHANGED <<cache, viewers, relay, overheard>>
    BY <1>3 DEF AddMember
  <2> HIDE DEF x
  <2>3. /\ members' \in [Rooms -> SUBSET Users] /\ been' \in [Rooms -> SUBSET Users]
        /\ \A q \in Rooms : been[q] \subseteq been'[q] /\ members'[q] \subseteq been'[q]
    <3>1. /\ members' = [members EXCEPT ![r] = @ \union {u}]
          /\ been' = [been EXCEPT ![r] = @ \union {u}]
      BY <1>3 DEF AddMember
    <3>2. \A q \in Rooms : /\ members'[q] = IF q = r THEN members[q] \union {u} ELSE members[q]
                           /\ been'[q] = IF q = r THEN been[q] \union {u} ELSE been[q]
      BY <3>1 DEF TypeOK
    <3>3. members' \in [Rooms -> SUBSET Users] /\ been' \in [Rooms -> SUBSET Users]
      BY <3>1 DEF TypeOK
    <3> QED BY <3>2, <3>3 DEF ListenersHaveBeen
  <2>4. /\ work' \in [Workers -> Jobs]
        /\ \A v \in Workers : work'[v] = IF v = t THEN x ELSE work[v]
    BY <1>w, <2>1, <2>2 DEF Do, TypeOK
  <2>5. \A v \in Workers :
          /\ work'[v].step = "deliver" => work'[v].list \subseteq been'[work'[v].room]
          /\ work'[v].step = "enter" => work'[v].user \in been'[work'[v].room]
    <3> SUFFICES ASSUME NEW v \in Workers, v # t
                 PROVE /\ work[v].step = "deliver" => work[v].list \subseteq been'[work[v].room]
                       /\ work[v].step = "enter" => work[v].user \in been'[work[v].room]
      BY <2>1, <2>4
    <3>1. work[v].step \in {"deliver", "enter"} => work[v].room \in Rooms
      BY JobFields DEF TypeOK, Deliveries, Entries
    <3> QED BY <2>3, <3>1 DEF ListenersHaveBeen
  <2>6. ListenersHaveBeen'
    BY <2>2, <2>3, <2>5 DEF ListenersHaveBeen
  <2> QED BY <2>2, <2>3, <2>4, <2>6 DEF TypeOK, OutsidersNeverHear
<1>11. ASSUME NEW t \in Tasks, NEW u \in Users, NEW r \in Rooms, NEW n \in Nodes,
              RemoveMember(t, n, r, u)
       PROVE FanoutInv'
  <2> DEFINE x == [step |-> "announce", node |-> n, room |-> r]
  <2>1. x \in Jobs /\ x.step = "announce"
    BY DEF Jobs, Announcements
  <2>2. work' = [Deprived(u, r) EXCEPT ![t] = x] /\ UNCHANGED <<cache, viewers, been, overheard>>
    BY <1>11 DEF RemoveMember
  <2> HIDE DEF x
  <2>3. /\ members' \in [Rooms -> SUBSET Users]
        /\ \A q \in Rooms : members'[q] \subseteq members[q]
    BY <1>11 DEF RemoveMember, TypeOK
  <2>4. /\ work' \in [Workers -> Jobs]
        /\ \A v \in Workers : work'[v] = IF v = t THEN x ELSE Deprived(u, r)[v]
    BY <1>w, <2>1, <2>2, DeprivedJobs
  <2>5. \A v \in Workers :
          /\ work'[v].step = "deliver" => work'[v].list \subseteq been[work'[v].room]
          /\ work'[v].step = "enter" => work'[v].user \in been[work'[v].room]
    <3> SUFFICES ASSUME NEW v \in Workers, v # t
                 PROVE LET y == Deprived(u, r)[v]
                       IN /\ y.step = "deliver" => y.list \subseteq been[y.room]
                          /\ y.step = "enter" => y.user \in been[y.room]
      BY <2>1, <2>4
    <3>1. CASE work[v].step \in {"fetch", "deliver"}
      <4>1. /\ Deprived(u, r)[v].step = work[v].step
            /\ Deprived(u, r)[v].room = work[v].room
            /\ work[v].step = "deliver" => Deprived(u, r)[v].list = work[v].list
        BY <3>1, DeprivedJobs
      <4> QED BY <3>1, <4>1 DEF ListenersHaveBeen
    <3>2. CASE work[v].step \notin {"fetch", "deliver"}
      <4>1. Deprived(u, r)[v] = work[v]
        BY <3>2, DeprivedJobs
      <4> QED BY <4>1 DEF ListenersHaveBeen
    <3> QED BY <3>1, <3>2
  <2>6. ListenersHaveBeen'
    BY <2>2, <2>3, <2>5 DEF ListenersHaveBeen
  <2>7. relay' \in [Nodes -> Seq(Events)]
    BY <1>11, DeprivedEvents DEF RemoveMember
  <2> QED BY <2>2, <2>3, <2>4, <2>6, <2>7 DEF TypeOK, OutsidersNeverHear
<1>4. ASSUME NEW w \in Workers, FetchMembers(w) PROVE FanoutInv'
  <2> DEFINE y == work[w]
             c == cache[y.node][y.room]
             l == IF c.known THEN c.list ELSE members[y.room]
             x == [step |-> "deliver", node |-> y.node, room |-> y.room,
                   entitled |-> y.entitled, fill |-> ~c.known, list |-> l]
  <2>1. y.node \in Nodes /\ y.room \in Rooms /\ y.entitled \in SUBSET Users
    BY <1>4, JobFields DEF FetchMembers, TypeOK, Fetches
  <2>2. l \subseteq been[y.room] /\ l \in SUBSET Users /\ (~c.known) \in BOOLEAN
    <3>1. been[y.room] \in SUBSET Users
      BY <2>1 DEF TypeOK
    <3>2. (~c.known) \in BOOLEAN
      BY Zenon
    <3>3. l \subseteq been[y.room]
      BY <2>1 DEF ListenersHaveBeen
    <3> QED BY <3>1, <3>2, <3>3
  <2>3. Do(w, x) /\ UNCHANGED <<members, cache, viewers, been, overheard, relay>>
    BY <1>4 DEF FetchMembers
  <2> HIDE DEF c, l, y
  <2>4. x \in Jobs
    BY <2>1, <2>2 DEF Jobs, Deliveries
  <2>5. x.step = "deliver" /\ x.list = l /\ x.room = y.room
    OBVIOUS
  <2> HIDE DEF x
  <2> QED BY <2>2, <2>3, <2>4, <2>5, NewJob DEF TypeOK
<1>5. ASSUME NEW w \in Workers, Deliver(w) PROVE FanoutInv'
  <2> DEFINE x == work[w]
             to == Reached(x.node, x.room, x.list)
             event == [room |-> x.room, entitled |-> x.entitled]
  <2>1. x \in Deliveries
    BY <1>5, JobFields DEF Deliver, TypeOK
  <2>2. /\ x.node \in Nodes /\ x.room \in Rooms /\ x.list \in SUBSET Users
        /\ x.entitled \in SUBSET Users /\ x.list \subseteq been[x.room]
    BY <1>5, <2>1 DEF Deliver, Deliveries, ListenersHaveBeen
  <2>3. to \subseteq been[x.room]
    BY <2>2 DEF Reached, ListenersHaveBeen
  <2>4. overheard' = {}
    BY <1>5, <2>3 DEF Deliver, OutsidersNeverHear
  <2>5. /\ cache' \in [Nodes -> [Rooms -> Caches]]
        /\ \A n \in Nodes, r \in Rooms : cache'[n][r].known => cache'[n][r].list \subseteq been[r]
    <3>1. CASE cache' = cache
      BY <3>1 DEF TypeOK, ListenersHaveBeen
    <3>2. CASE cache' = [cache EXCEPT ![x.node][x.room] = Known(x.list)]
      <4>1. Known(x.list) \in Caches /\ Known(x.list).list = x.list
        BY <2>2 DEF Caches, Known
      <4> QED BY <2>2, <3>2, <4>1 DEF TypeOK, ListenersHaveBeen
    <3> QED BY <1>5, <3>1, <3>2 DEF Deliver
  <2>6. relay' \in [Nodes -> Seq(Events)]
    <3>1. event \in Events
      BY <2>2 DEF Events
    <3>2. \A n \in Nodes : relay[n] \in Seq(Events) /\ Append(relay[n], event) \in Seq(Events)
      BY <3>1, AppendProperties DEF TypeOK
    <3>3. relay' = [n \in Nodes |-> IF w \in Tasks /\ n # x.node THEN Append(relay[n], event)
                                    ELSE relay[n]]
      BY <1>5 DEF Deliver
    <3> HIDE DEF event
    <3> QED BY <3>2, <3>3
  <2>7. /\ work' \in [Workers -> Jobs]
        /\ \A v \in Workers : work'[v] = IF v = w THEN Idle ELSE work[v]
    BY <1>5 DEF Deliver, Do, TypeOK, Jobs
  <2>8. UNCHANGED <<members, viewers, been>>
    BY <1>5 DEF Deliver
  <2>9. ListenersHaveBeen'
    BY <2>5, <2>7, <2>8 DEF ListenersHaveBeen, Idle
  <2> QED BY <2>4, <2>5, <2>6, <2>7, <2>8, <2>9 DEF TypeOK, OutsidersNeverHear
<1>6. ASSUME NEW t \in Tasks, Announce(t) PROVE FanoutInv'
  <2> DEFINE x == work[t]
  <2>1. x.node \in Nodes /\ x.room \in Rooms
    BY <1>6, <1>w, JobFields DEF Announce, TypeOK, Announcements
  <2>2. /\ cache' \in [Nodes -> [Rooms -> Caches]]
        /\ \A n \in Nodes, r \in Rooms : cache'[n][r].known => cache'[n][r].list \subseteq been[r]
    BY <1>6, <2>1 DEF Announce, Invalidated, TypeOK, ListenersHaveBeen, Caches, Unknown
  <2>3. PICK j \in Jobs : Do(t, j) /\ j.step \in {"fetch", "idle"}
    <3>1. /\ Broadcast(t, x.node, x.room, NoRoom) \in Jobs
          /\ Broadcast(t, x.node, x.room, NoRoom).step = "fetch"
      BY <2>1, BroadcastJob
    <3>2. Idle \in Jobs /\ Idle.step = "idle"
      BY DEF Jobs, Idle
    <3> QED BY <1>6, <3>1, <3>2 DEF Announce
  <2>4. /\ work' \in [Workers -> Jobs]
        /\ \A v \in Workers : work'[v] = IF v = t THEN j ELSE work[v]
    BY <1>w, <2>3 DEF Do, TypeOK
  <2>5. UNCHANGED <<members, viewers, relay, been, overheard>>
    BY <1>6 DEF Announce
  <2>6. ListenersHaveBeen'
    BY <2>2, <2>3, <2>4, <2>5 DEF ListenersHaveBeen
  <2> QED BY <2>2, <2>4, <2>5, <2>6 DEF TypeOK, OutsidersNeverHear
<1>7. ASSUME NEW t \in Tasks, JoinRoom(t) PROVE FanoutInv'
  <2> DEFINE x == work[t]
  <2>1. x.user \in Users /\ x.room \in Rooms /\ x.user \in been[x.room]
    BY <1>7, <1>w, JobFields DEF JoinRoom, TypeOK, Entries, ListenersHaveBeen
  <2>2. /\ viewers' \in [Rooms -> SUBSET Users]
        /\ \A r \in Rooms : viewers'[r] \subseteq been[r]
    BY <1>7, <2>1 DEF JoinRoom, Entered, TypeOK, ListenersHaveBeen
  <2>3. /\ work' \in [Workers -> Jobs]
        /\ \A v \in Workers : work'[v] = IF v = t THEN Idle ELSE work[v]
    BY <1>7, <1>w DEF JoinRoom, Do, TypeOK, Jobs
  <2>4. UNCHANGED <<members, cache, relay, been, overheard>>
    BY <1>7 DEF JoinRoom
  <2>5. ListenersHaveBeen'
    BY <2>2, <2>3, <2>4 DEF ListenersHaveBeen, Idle
  <2> QED BY <2>2, <2>3, <2>4, <2>5 DEF TypeOK, OutsidersNeverHear
<1>8. ASSUME NEW n \in Nodes, FromCluster(n) PROVE FanoutInv'
  <2> DEFINE e == Head(relay[n])
             x == [step |-> "fetch", node |-> n, room |-> e.room, entitled |-> e.entitled]
  <2>1. relay[n] \in Seq(Events) /\ relay[n] # <<>>
    BY <1>8 DEF FromCluster, TypeOK
  <2>2. e \in Events /\ Tail(relay[n]) \in Seq(Events)
    BY <2>1, HeadTailProperties
  <2>3. relay' \in [Nodes -> Seq(Events)]
    BY <1>8, <2>2 DEF FromCluster, TypeOK
  <2>4. Do(n, x) /\ UNCHANGED <<members, cache, viewers, been, overheard>>
    BY <1>8 DEF FromCluster
  <2> HIDE DEF e
  <2>5. x \in Jobs /\ x.step = "fetch"
    BY <2>2 DEF Events, Jobs, Fetches
  <2> HIDE DEF x
  <2> QED BY <1>w, <2>3, <2>4, <2>5, NewJob
<1>9. ASSUME NEW u \in Users, LeaveRooms(u) PROVE FanoutInv'
  <2>1. /\ viewers' \in [Rooms -> SUBSET Users]
        /\ \A r \in Rooms : viewers'[r] \subseteq been[r]
    BY <1>9 DEF LeaveRooms, TypeOK, ListenersHaveBeen
  <2>2. UNCHANGED <<members, cache, work, relay, been, overheard>>
    BY <1>9 DEF LeaveRooms
  <2> QED BY <2>1, <2>2 DEF TypeOK, ListenersHaveBeen, OutsidersNeverHear
<1>10. CASE UNCHANGED vars
  BY <1>10 DEF vars, TypeOK, ListenersHaveBeen, OutsidersNeverHear
<1> QED BY <1>1, <1>2, <1>3, <1>4, <1>5, <1>6, <1>7, <1>8, <1>9, <1>10, <1>11 DEF Next

(* A conversation is only ever sent to people who were once members of it. *)
THEOREM OnlyMembersHear == Spec => []OutsidersNeverHear
<1>1. FanoutInv => OutsidersNeverHear
  BY DEF FanoutInv
<1> QED BY FanoutInit, FanoutNext, <1>1, PTL DEF Spec

--------------------------------------------------------------------------------
(* Whoever must still hear a message of room r has access, and is in every *)
(* cache of it that changes of the membership have reached.                *)
Fresh(n, r) == <<n, r>> \notin doubtful
Owed(who, r) ==
  /\ who \subseteq Access(r)
  /\ \A n \in Nodes : Fresh(n, r) /\ cache[n][r].known => who \subseteq cache[n][r].list
Claims == /\ \A w \in Workers : work[w].step \in {"fetch", "deliver"}
                                  => Owed(work[w].entitled, work[w].room)
          /\ \A n \in Nodes : \A i \in DOMAIN relay[n] :
               Owed(relay[n][i].entitled, relay[n][i].room)

(* A list about to be used has those who must hear the message, and all    *)
(* members if it is about to fill a cache.                                 *)
ListsServe ==
  \A w \in Workers :
    work[w].step = "deliver" /\ Fresh(work[w].node, work[w].room)
      => /\ work[w].entitled \subseteq work[w].list
         /\ work[w].fill => members[work[w].room] \subseteq work[w].list

(* A change still to be announced is one no other node will learn of.      *)
Announcing(t, r) == work[t].step = "announce" /\ work[t].room = r
OneNodeTold ==
  \A t \in Tasks, n \in Nodes :
    work[t].step = "announce" /\ n # work[t].node => ~Fresh(n, work[t].room)

(* A cache a change has not bypassed, and no announcement is due, is full. *)
CachesServe ==
  \A n \in Nodes, r \in Rooms :
    Fresh(n, r) /\ cache[n][r].known /\ (\A t \in Tasks : ~Announcing(t, r))
      => members[r] \subseteq cache[n][r].list

HearInv == /\ FanoutInv /\ Claims /\ ListsServe /\ OneNodeTold /\ CachesServe
           /\ EveryMemberHears

LEMMA HearInit == Init => HearInv
<1> SUFFICES ASSUME Init PROVE HearInv
  OBVIOUS
<1>1. FanoutInv
  BY FanoutInit
<1>2. \A w \in Workers : work[w].step = "idle"
  BY DEF Init, Idle
<1>3. Claims /\ ListsServe /\ OneNodeTold
  BY <1>2 DEF Init, Claims, ListsServe, OneNodeTold, Workers
<1>4. CachesServe /\ EveryMemberHears
  BY DEF Init, CachesServe, EveryMemberHears, Unknown
<1> QED BY <1>1, <1>3, <1>4 DEF HearInv

(* Nobody else's claim suffers while members, caches and doubts stay.      *)
LEMMA SameOwed ==
  ASSUME UNCHANGED <<members, cache, doubtful>>, NEW who, NEW r, Owed(who, r)
  PROVE Owed(who, r)'
  BY DEF Owed, Access, Fresh

(* A step of one worker that leaves members, caches and doubts alone.      *)
LEMMA OneWorker ==
  ASSUME HearInv, NEW w \in Workers, NEW x,
         x.step # "announce",
         x.step \in {"fetch", "deliver"} => Owed(x.entitled, x.room),
         x.step = "deliver" /\ Fresh(x.node, x.room)
           => x.entitled \subseteq x.list /\ (x.fill => members[x.room] \subseteq x.list),
         work[w].step # "announce",
         \A v \in Workers : work'[v] = IF v = w THEN x ELSE work[v],
         UNCHANGED <<members, cache, doubtful, missed>>,
         \A n \in Nodes : \A i \in DOMAIN relay'[n] :
           Owed(relay'[n][i].entitled, relay'[n][i].room)
  PROVE Claims' /\ ListsServe' /\ OneNodeTold' /\ CachesServe' /\ EveryMemberHears'
<1> USE DEF HearInv
<1>1. Claims'
  <2>1. \A v \in Workers : work'[v].step \in {"fetch", "deliver"}
                             => Owed(work'[v].entitled, work'[v].room)
    BY DEF Claims
  <2> QED BY <2>1, SameOwed DEF Claims
<1>2. ListsServe'
  BY DEF ListsServe, Fresh
<1>3. OneNodeTold'
  BY DEF OneNodeTold, Fresh, Workers
<1>4. CachesServe'
  <2>1. \A t \in Tasks, r \in Rooms : Announcing(t, r)' <=> Announcing(t, r)
    BY DEF Announcing, Workers
  <2> QED BY <2>1 DEF CachesServe, Fresh
<1> QED BY <1>1, <1>2, <1>3, <1>4 DEF EveryMemberHears

(* Who is entitled to a message sent now can claim it.                     *)
LEMMA FreshClaim ==
  ASSUME HearInv, NEW t \in Tasks, NEW r \in Rooms, NEW from, NEW node,
         \A n \in Nodes : Fresh(n, r) /\ cache[n][r].known => ~Announcing(t, r)
  PROVE Owed(Broadcast(t, node, r, from).entitled, r)
<1> DEFINE who == Broadcast(t, node, r, from).entitled
<1>1. who = IF Changing(t, r) THEN {} ELSE Access(r) \ {from}
  BY DEF Broadcast
<1>2. who \subseteq Access(r)
  BY <1>1
<1>3. ASSUME NEW n \in Nodes, Fresh(n, r), cache[n][r].known PROVE who \subseteq cache[n][r].list
  <2>1. CASE Changing(t, r)
    BY <1>1, <2>1
  <2>2. CASE ~Changing(t, r)
    <3>1. \A o \in Tasks : ~Announcing(o, r)
      BY <1>3, <2>2 DEF Changing, Announcing
    <3>2. members[r] \subseteq cache[n][r].list
      BY <1>3, <3>1 DEF HearInv, CachesServe
    <3> QED BY <1>2, <3>2 DEF Access
  <2> QED BY <2>1, <2>2
<1> QED BY <1>2, <1>3 DEF Owed

(* Every claim is about a room.                                            *)
LEMMA ClaimRooms ==
  ASSUME TypeOK
  PROVE /\ \A w \in Workers : work[w].step \in {"fetch", "deliver"} => work[w].room \in Rooms
        /\ \A n \in Nodes : \A i \in DOMAIN relay[n] : relay[n][i] \in Events
<1>1. ASSUME NEW n \in Nodes, NEW i \in DOMAIN relay[n] PROVE relay[n][i] \in Events
  BY LenProperties, ElementOfSeq DEF TypeOK
<1> QED BY <1>1, JobFields DEF TypeOK, Fetches, Deliveries

LEMMA HearNext == HearInv /\ [Next]_vars => HearInv'
<1> SUFFICES ASSUME HearInv, [Next]_vars PROVE HearInv'
  OBVIOUS
<1> USE DEF HearInv
<1>i. FanoutInv'
  BY FanoutNext
<1>t. TypeOK
  BY DEF FanoutInv
<1>w. Tasks \subseteq Workers /\ Nodes \subseteq Workers /\ Tasks \intersect Nodes = {}
  BY FanoutAssumption DEF Workers
<1>d. ASSUME NEW w \in Workers, NEW x, Do(w, x)
      PROVE \A v \in Workers : work'[v] = IF v = w THEN x ELSE work[v]
  BY <1>t, <1>d DEF Do, TypeOK
<1> DEFINE Rest == Claims /\ ListsServe /\ OneNodeTold /\ CachesServe /\ EveryMemberHears
<1>1. ASSUME NEW t \in Tasks, NEW u \in Users, NEW r \in Rooms, SendMessage(t, u, r)
      PROVE Rest'
  <2> DEFINE x == Broadcast(t, NodeOf[u], r, u)
  <2>1. /\ Do(t, x) /\ work[t].step = "idle"
        /\ UNCHANGED <<members, cache, doubtful, missed, relay>>
    BY <1>1 DEF SendMessage, Idle
  <2>2. x.step = "fetch" /\ x.room = r
    BY DEF Broadcast
  <2>3. Owed(x.entitled, r)
    BY <2>1, FreshClaim DEF Announcing
  <2> HIDE DEF x
  <2>4. \A v \in Workers : work'[v] = IF v = t THEN x ELSE work[v]
    BY <1>w, <1>d, <2>1
  <2> QED BY <1>w, <2>1, <2>2, <2>3, <2>4, OneWorker DEF Claims
<1>2. ASSUME NEW t \in Tasks, NEW u \in Users, NEW r \in Rooms, CheckJoin(t, u, r)
      PROVE Rest'
  <2> DEFINE x == [step |-> "enter", user |-> u, room |-> r]
  <2>1. /\ Do(t, x) /\ work[t].step = "idle"
        /\ UNCHANGED <<members, cache, doubtful, missed, relay>>
    BY <1>2 DEF CheckJoin, Idle
  <2>2. x.step = "enter"
    OBVIOUS
  <2> HIDE DEF x
  <2>3. \A v \in Workers : work'[v] = IF v = t THEN x ELSE work[v]
    BY <1>w, <1>d, <2>1
  <2> QED BY <1>w, <2>1, <2>2, <2>3, OneWorker DEF Claims
<1>3. ASSUME NEW t \in Tasks, JoinRoom(t) PROVE Rest'
  <2>1. /\ Do(t, Idle) /\ work[t].step = "enter" /\ Idle.step = "idle"
        /\ UNCHANGED <<members, cache, doubtful, missed, relay>>
    BY <1>3 DEF JoinRoom, Idle
  <2>2. \A v \in Workers : work'[v] = IF v = t THEN Idle ELSE work[v]
    BY <1>w, <1>d, <2>1
  <2> QED BY <1>w, <2>1, <2>2, OneWorker DEF Claims
<1>4. ASSUME NEW w \in Workers, FetchMembers(w) PROVE Rest'
  <2> DEFINE y == work[w]
             c == cache[y.node][y.room]
             l == IF c.known THEN c.list ELSE members[y.room]
             x == [step |-> "deliver", node |-> y.node, room |-> y.room,
                   entitled |-> y.entitled, fill |-> ~c.known, list |-> l]
  <2>1. y.step = "fetch" /\ y.node \in Nodes /\ y.room \in Rooms
    BY <1>4, <1>t, JobFields DEF FetchMembers, TypeOK, Fetches
  <2>2. /\ Do(w, x)
        /\ UNCHANGED <<members, cache, doubtful, missed, relay>>
    BY <1>4 DEF FetchMembers
  <2>3. Owed(y.entitled, y.room)
    BY <2>1 DEF Claims
  <2>4. x.fill => ~c.known
    BY Zenon
  <2>5. /\ x.step = "deliver" /\ x.node = y.node /\ x.room = y.room /\ x.list = l
        /\ x.entitled = y.entitled
    OBVIOUS
  <2>6. Fresh(y.node, y.room) => y.entitled \subseteq l /\ (~c.known => members[y.room] \subseteq l)
    BY <2>1, <2>3 DEF Owed, Access
  <2> HIDE DEF x, l, c
  <2>7. \A v \in Workers : work'[v] = IF v = w THEN x ELSE work[v]
    BY <1>d, <2>2
  <2>8. x.step = "deliver" /\ Fresh(x.node, x.room)
          => x.entitled \subseteq x.list /\ (x.fill => members[x.room] \subseteq x.list)
    BY <2>4, <2>5, <2>6
  <2> QED BY <2>1, <2>2, <2>3, <2>5, <2>7, <2>8, OneWorker DEF Claims
<1>5. ASSUME NEW n \in Nodes, FromCluster(n) PROVE Rest'
  <2> DEFINE e == Head(relay[n])
             x == [step |-> "fetch", node |-> n, room |-> e.room, entitled |-> e.entitled]
  <2>1. relay[n] \in Seq(Events) /\ relay[n] # <<>>
    BY <1>5, <1>t DEF FromCluster, TypeOK
  <2>2. /\ Len(relay[n]) \in Nat \ {0} /\ DOMAIN relay[n] = 1 .. Len(relay[n])
        /\ e = relay[n][1]
    BY <2>1, EmptySeq, LenProperties
  <2>3. Owed(e.entitled, e.room)
    BY <2>2 DEF Claims
  <2>4. relay' = [relay EXCEPT ![n] = Tail(relay[n])]
    BY <1>5 DEF FromCluster
  <2>5. \A o \in Nodes : \A i \in DOMAIN relay'[o] :
          Owed(relay'[o][i].entitled, relay'[o][i].room)
    <3>1. \A o \in Nodes : relay'[o] = IF o = n THEN Tail(relay[n]) ELSE relay[o]
      BY <1>t, <2>4 DEF TypeOK
    <3>2. /\ Tail(relay[n]) \in Seq(Events) /\ Len(Tail(relay[n])) = Len(relay[n]) - 1
          /\ \A i \in 1 .. Len(Tail(relay[n])) : Tail(relay[n])[i] = relay[n][i + 1]
      BY <2>1, HeadTailProperties
    <3>3. DOMAIN Tail(relay[n]) = 1 .. Len(Tail(relay[n]))
      BY <3>2, LenProperties
    <3>4. \A i \in DOMAIN Tail(relay[n]) :
            Tail(relay[n])[i] = relay[n][i + 1] /\ i + 1 \in DOMAIN relay[n]
      BY <2>2, <3>2, <3>3
    <3> QED BY <3>1, <3>4 DEF Claims
  <2>6. /\ Do(n, x) /\ work[n].step = "idle"
        /\ UNCHANGED <<members, cache, doubtful, missed>>
    BY <1>5 DEF FromCluster, Idle
  <2>7. x.step = "fetch" /\ x.room = e.room /\ x.entitled = e.entitled
    OBVIOUS
  <2> HIDE DEF x, e
  <2>8. \A v \in Workers : work'[v] = IF v = n THEN x ELSE work[v]
    BY <1>w, <1>d, <2>6
  <2> QED BY <1>w, <2>3, <2>5, <2>6, <2>7, <2>8, OneWorker
<1>6. ASSUME NEW w \in Workers, Deliver(w) PROVE Rest'
  <2> DEFINE x == work[w]
             to == Reached(x.node, x.room, x.list)
             event == [room |-> x.room, entitled |-> x.entitled]
  <2>1. x \in Deliveries /\ x.step = "deliver" /\ x.node \in Nodes /\ x.room \in Rooms
    BY <1>6, <1>t, JobFields DEF Deliver, TypeOK, Deliveries
  <2>2. /\ \A v \in Workers : work'[v] = IF v = w THEN Idle ELSE work[v]
        /\ Idle.step = "idle" /\ UNCHANGED <<members, doubtful>>
    BY <1>d, <1>6 DEF Deliver, Idle
  <2>3. Owed(x.entitled, x.room)
    BY <2>1 DEF Claims
  <2>4. ASSUME NEW n \in Nodes, NEW r \in Rooms, Fresh(n, r)
        PROVE cache'[n][r] = cache[n][r] \/ members[r] \subseteq cache'[n][r].list
    <3>1. CASE cache' = cache
      BY <3>1
    <3>2. CASE x.fill /\ cache' = [cache EXCEPT ![x.node][x.room] = Known(x.list)]
      <4>1. n # x.node \/ r # x.room => cache'[n][r] = cache[n][r]
        BY <1>t, <3>2 DEF TypeOK
      <4>2. n = x.node /\ r = x.room => cache'[n][r] = Known(x.list)
        BY <1>t, <3>2 DEF TypeOK
      <4>3. n = x.node /\ r = x.room => members[r] \subseteq x.list
        BY <2>1, <2>4, <3>2 DEF ListsServe
      <4> QED BY <4>1, <4>2, <4>3 DEF Known
    <3> QED BY <1>6, <3>1, <3>2 DEF Deliver
  <2>5. ASSUME NEW who, NEW r \in Rooms, Owed(who, r) PROVE Owed(who, r)'
    <3>1. who \subseteq members[r] /\ Access(r)' = Access(r)
      BY <2>2, <2>5 DEF Owed, Access
    <3> QED BY <2>2, <2>4, <2>5, <3>1 DEF Owed, Fresh
  <2>6. Claims'
    <3>1. \A v \in Workers : work'[v].step \in {"fetch", "deliver"}
                               => Owed(work[v].entitled, work[v].room)'
      BY <1>t, <2>2, <2>5, ClaimRooms DEF Claims
    <3>2. ASSUME NEW n \in Nodes, NEW i \in DOMAIN relay'[n]
          PROVE Owed(relay[n][i].entitled, relay[n][i].room)'
      <4>1. relay'[n] \in {relay[n], Append(relay[n], event)}
        BY <1>6 DEF Deliver
      <4>2. /\ relay[n] \in Seq(Events) /\ event \in Events
            /\ Len(relay[n]) \in Nat /\ DOMAIN relay[n] = 1 .. Len(relay[n])
        BY <1>t, <2>1, LenProperties DEF TypeOK, Events, Deliveries
      <4>3. event.room = x.room /\ event.entitled = x.entitled
        OBVIOUS
      <4> HIDE DEF event
      <4>4. relay'[n][i] = event \/ (i \in DOMAIN relay[n] /\ relay'[n][i] = relay[n][i])
        BY <4>1, <4>2, AppendProperties
      <4> QED BY <1>t, <2>1, <2>3, <2>5, <4>3, <4>4, ClaimRooms DEF Claims, Events
    <3> QED BY <3>1, <3>2 DEF Claims
  <2>7. ListsServe' /\ OneNodeTold'
    BY <1>w, <2>2 DEF ListsServe, OneNodeTold, Fresh
  <2>8. CachesServe'
    <3>1. \A t \in Tasks, r \in Rooms : Announcing(t, r)' <=> Announcing(t, r)
      BY <1>w, <2>1, <2>2 DEF Announcing
    <3> QED BY <2>2, <2>4, <3>1 DEF CachesServe, Fresh
  <2>9. EveryMemberHears'
    <3>1. CASE Fresh(x.node, x.room)
      <4>1. x.entitled \intersect {u \in Users : NodeOf[u] = x.node} \subseteq to
        BY <2>1, <3>1 DEF ListsServe, Reached
      <4> QED BY <1>6, <2>2, <4>1 DEF Deliver, EveryMemberHears
    <3>2. CASE ~Fresh(x.node, x.room)
      BY <1>6, <2>2, <3>2 DEF Deliver, EveryMemberHears, Fresh
    <3> QED BY <3>1, <3>2
  <2> QED BY <2>6, <2>7, <2>8, <2>9
<1>7. ASSUME NEW t \in Tasks, NEW u \in Users, NEW r \in Rooms, NEW n \in Nodes,
             AddMember(t, n, r, u)
      PROVE Rest'
  <2> DEFINE x == [step |-> "announce", node |-> n, room |-> r]
  <2>1. x.step = "announce" /\ x.node = n /\ x.room = r
    OBVIOUS
  <2>2. /\ Do(t, x) /\ work[t].step = "idle" /\ UNCHANGED <<cache, relay, missed>>
        /\ doubtful' = doubtful \union OutOfReach(n, r)
        /\ members' = [members EXCEPT ![r] = @ \union {u}]
    BY <1>7 DEF AddMember, Idle
  <2> HIDE DEF x
  <2>3. \A v \in Workers : work'[v] = IF v = t THEN x ELSE work[v]
    BY <1>w, <1>d, <2>2
  <2>4. \A q \in Rooms : /\ members[q] \subseteq members'[q]
                         /\ q # r => members'[q] = members[q]
    BY <1>t, <2>2 DEF TypeOK
  <2>5. \A o \in Nodes, q \in Rooms : Fresh(o, q)' => Fresh(o, q) /\ (q = r => o = n)
    BY <2>2 DEF Fresh, OutOfReach
  <2>6. ASSUME NEW who, NEW q \in Rooms, Owed(who, q) PROVE Owed(who, q)'
    <3>1. Access(q) \subseteq Access(q)'
      BY <2>4, Topology DEF Access, GroupOf
    <3> QED BY <2>2, <2>5, <2>6, <3>1 DEF Owed
  <2>7. Claims'
    BY <1>t, <1>w, <2>1, <2>2, <2>3, <2>6, ClaimRooms DEF Claims, Events
  <2>8. ListsServe'
    <3> SUFFICES ASSUME NEW v \in Workers, v # t, work[v].step = "deliver",
                        Fresh(work[v].node, work[v].room)'
                 PROVE /\ work[v].entitled \subseteq work[v].list
                       /\ work[v].fill => members'[work[v].room] \subseteq work[v].list
      BY <2>1, <2>3 DEF ListsServe, Fresh
    <3>1. <<work[v].node, work[v].room>> \notin doubtful'
      BY <2>3 DEF Fresh
    <3>2. Fresh(work[v].node, work[v].room) /\ ~(work[v].room = r /\ work[v].fill)
      BY <2>2, <3>1 DEF Fresh, OutOfReach
    <3> QED BY <1>t, <2>4, <3>2, ClaimRooms DEF ListsServe
  <2>9. OneNodeTold'
    <3>1. \A o \in Nodes : o # n => ~Fresh(o, r)'
      BY <2>2 DEF Fresh, OutOfReach
    <3> QED BY <1>w, <2>1, <2>2, <2>3, <3>1 DEF OneNodeTold, Fresh
  <2>10. CachesServe'
    <3> SUFFICES ASSUME NEW o \in Nodes, NEW q \in Rooms, Fresh(o, q)', cache[o][q].known,
                        \A s \in Tasks : ~Announcing(s, q)'
                 PROVE members'[q] \subseteq cache[o][q].list
      BY <2>2 DEF CachesServe
    <3>1. q # r /\ \A s \in Tasks : ~Announcing(s, q)
      BY <1>w, <2>1, <2>2, <2>3 DEF Announcing
    <3> QED BY <2>4, <2>5, <3>1 DEF CachesServe
  <2>11. EveryMemberHears'
    BY <2>2 DEF EveryMemberHears
  <2> QED BY <2>7, <2>8, <2>9, <2>10, <2>11
<1>8. ASSUME NEW t \in Tasks, NEW u \in Users, NEW r \in Rooms, NEW n \in Nodes,
             RemoveMember(t, n, r, u)
      PROVE Rest'
  <2> DEFINE x == [step |-> "announce", node |-> n, room |-> r]
             after == [o \in Nodes |-> [i \in DOMAIN relay[o] |-> Without(u, r, relay[o][i])]]
             old == Deprived(u, r)
  <2>1. x.step = "announce" /\ x.node = n /\ x.room = r
    OBVIOUS
  <2>2. /\ work' = [old EXCEPT ![t] = x] /\ work[t].step = "idle" /\ UNCHANGED <<cache, missed>>
        /\ doubtful' = doubtful \union OutOfReach(n, r) /\ relay' = after
        /\ members' = [members EXCEPT ![r] = @ \ {u}]
    BY <1>8 DEF RemoveMember, Idle
  <2> HIDE DEF x
  <2>d. /\ old \in [Workers -> Jobs]
        /\ \A w \in Workers :
             /\ work[w].step \notin {"fetch", "deliver"} => old[w] = work[w]
             /\ old[w].step = work[w].step
             /\ work[w].step \in {"fetch", "deliver"} =>
                  /\ old[w].room = work[w].room /\ old[w].node = work[w].node
                  /\ old[w].entitled = IF Loses(u, r, work[w].room) THEN work[w].entitled \ {u}
                                       ELSE work[w].entitled
             /\ work[w].step = "deliver" => old[w].list = work[w].list /\ old[w].fill = work[w].fill
    BY <1>t, DeprivedJobs
  <2> HIDE DEF old
  <2>3. \A v \in Workers : work'[v] = IF v = t THEN x ELSE old[v]
    BY <1>w, <2>2, <2>d
  <2>4. \A q \in Rooms : members'[q] = IF q = r THEN members[q] \ {u} ELSE members[q]
    BY <1>t, <2>2 DEF TypeOK
  <2>5. \A o \in Nodes, q \in Rooms : Fresh(o, q)' => Fresh(o, q) /\ (q = r => o = n)
    BY <2>2 DEF Fresh, OutOfReach
  <2>6. ASSUME NEW who, NEW q \in Rooms, Owed(who, q)
        PROVE Owed(IF Loses(u, r, q) THEN who \ {u} ELSE who, q)'
    <3>1. Access(q)' = IF Loses(u, r, q) THEN Access(q) \ {u} ELSE Access(q)
      BY <2>4, Topology DEF Access, GroupOf, Loses
    <3> QED BY <2>2, <2>5, <2>6, <3>1 DEF Owed
  <2>7. Claims'
    <3>1. ASSUME NEW v \in Workers, work'[v].step \in {"fetch", "deliver"}
          PROVE Owed(work[v].entitled, work[v].room)'
      <4>1. v # t /\ work[v].step \in {"fetch", "deliver"}
        BY <2>1, <2>3, <2>d, <3>1
      <4>2. /\ work'[v].room = work[v].room /\ work[v].room \in Rooms
            /\ work'[v].entitled = IF Loses(u, r, work[v].room) THEN work[v].entitled \ {u}
                                   ELSE work[v].entitled
        BY <1>t, <2>3, <2>d, <4>1, ClaimRooms
      <4>3. Owed(work[v].entitled, work[v].room)
        BY <4>1 DEF Claims
      <4> QED BY <2>6, <4>2, <4>3
    <3>2. ASSUME NEW o \in Nodes, NEW i \in DOMAIN relay'[o]
          PROVE Owed(relay[o][i].entitled, relay[o][i].room)'
      <4>1. /\ i \in DOMAIN relay[o] /\ relay'[o][i].room = relay[o][i].room
            /\ relay'[o][i].entitled
                 = IF Loses(u, r, relay[o][i].room) THEN relay[o][i].entitled \ {u}
                   ELSE relay[o][i].entitled
        BY <1>t, <2>2, <3>2, DeprivedEvents
      <4>2. relay[o][i].room \in Rooms /\ Owed(relay[o][i].entitled, relay[o][i].room)
        BY <1>t, <4>1, ClaimRooms DEF Claims, Events
      <4> QED BY <2>6, <4>1, <4>2
    <3> QED BY <3>1, <3>2 DEF Claims
  <2>8. ListsServe'
    <3> SUFFICES ASSUME NEW v \in Workers, work'[v].step = "deliver",
                        Fresh(work[v].node, work[v].room)'
                 PROVE /\ work'[v].entitled \subseteq work'[v].list
                       /\ work'[v].fill => members'[work'[v].room] \subseteq work'[v].list
      BY DEF ListsServe, Fresh
    <3>1. v # t /\ work[v].step = "deliver"
      BY <2>1, <2>3, <2>d
    <3>2. /\ work'[v].room = work[v].room /\ work'[v].node = work[v].node
          /\ work'[v].entitled \subseteq work[v].entitled
          /\ work'[v].list = work[v].list /\ work'[v].fill = work[v].fill
          /\ work[v].room \in Rooms
      BY <1>t, <2>3, <2>d, <3>1, ClaimRooms
    <3>3. Fresh(work[v].node, work[v].room)
      BY <2>2, <3>2 DEF Fresh
    <3>4. members'[work[v].room] \subseteq members[work[v].room]
      BY <2>4, <3>2
    <3> QED BY <3>1, <3>2, <3>3, <3>4 DEF ListsServe
  <2>9. OneNodeTold'
    <3>1. \A o \in Nodes : o # n => ~Fresh(o, r)'
      BY <2>2 DEF Fresh, OutOfReach
    <3>2. \A s \in Tasks : s # t /\ work'[s].step = "announce" => work'[s] = work[s]
      BY <1>w, <2>3, <2>d
    <3> QED BY <1>w, <2>1, <2>2, <2>3, <3>1, <3>2 DEF OneNodeTold, Fresh
  <2>10. CachesServe'
    <3> SUFFICES ASSUME NEW o \in Nodes, NEW q \in Rooms, Fresh(o, q)', cache[o][q].known,
                        \A s \in Tasks : ~Announcing(s, q)'
                 PROVE members'[q] \subseteq cache[o][q].list
      BY <2>2 DEF CachesServe
    <3>1. ASSUME NEW s \in Tasks PROVE ~Announcing(s, q)
      <4>1. CASE s = t
        BY <2>2, <4>1 DEF Announcing
      <4>2. CASE s # t /\ Announcing(s, q)
        <5>1. work'[s] = work[s]
          BY <1>w, <2>3, <2>d, <4>2 DEF Announcing
        <5> QED BY <4>2, <5>1 DEF Announcing
      <4> QED BY <4>1, <4>2
    <3> QED BY <2>4, <2>5, <3>1 DEF CachesServe
  <2>11. EveryMemberHears'
    BY <2>2 DEF EveryMemberHears
  <2> QED BY <2>7, <2>8, <2>9, <2>10, <2>11
<1>9. ASSUME NEW t \in Tasks, Announce(t) PROVE Rest'
  <2> DEFINE x == work[t]
             b == Broadcast(t, x.node, x.room, NoRoom)
  <2>1. x.step = "announce" /\ x.node \in Nodes /\ x.room \in Rooms
    BY <1>9, <1>t, <1>w, JobFields DEF Announce, TypeOK, Announcements
  <2>2. /\ cache' = [cache EXCEPT ![x.node][x.room] = Unknown]
        /\ UNCHANGED <<members, relay, missed, doubtful>>
    BY <1>9 DEF Announce, Invalidated
  <2>3. \A n \in Nodes, q \in Rooms : cache'[n][q].known
                                       => cache'[n][q] = cache[n][q] /\ <<n, q>> # <<x.node, x.room>>
    <3>1. \A n \in Nodes, q \in Rooms :
            cache'[n][q] = IF n = x.node /\ q = x.room THEN Unknown ELSE cache[n][q]
      BY <1>t, <2>1, <2>2 DEF TypeOK
    <3> QED BY <3>1 DEF Unknown
  <2>4. \A n \in Nodes : Fresh(n, x.room) => n = x.node
    BY <2>1 DEF OneNodeTold
  <2>5. ASSUME NEW who, NEW q \in Rooms, Owed(who, q) PROVE Owed(who, q)'
    BY <2>2, <2>3, <2>5 DEF Owed, Access, Fresh
  <2>6. ASSUME NEW who, who \subseteq Access(x.room), NEW room, room = x.room
        PROVE Owed(who, room)'
    <3>1. \A n \in Nodes : Fresh(n, room) => ~cache'[n][room].known
      BY <2>1, <2>3, <2>4, <2>6
    <3>2. who \subseteq Access(room)
      BY <2>6
    <3> QED BY <2>2, <3>1, <3>2 DEF Owed, Access, Fresh
  <2>7. PICK j : /\ \A v \in Workers : work'[v] = IF v = t THEN j ELSE work[v]
                 /\ j.step \in {"fetch", "idle"}
                 /\ j.step = "fetch" => j.room = x.room /\ j.entitled \subseteq Access(x.room)
    <3>1. CASE Do(t, b)
      <4>1. b.step = "fetch" /\ b.room = x.room /\ b.entitled \subseteq Access(x.room)
        BY DEF Broadcast
      <4>2. \A v \in Workers : work'[v] = IF v = t THEN b ELSE work[v]
        BY <1>w, <1>d, <3>1
      <4> HIDE DEF b
      <4> QED BY <4>1, <4>2
    <3>2. CASE Do(t, Idle)
      <4>1. Idle.step = "idle" /\ \A v \in Workers : work'[v] = IF v = t THEN Idle ELSE work[v]
        BY <1>w, <1>d, <3>2 DEF Idle
      <4> QED BY <4>1
    <3> QED BY <1>9, <3>1, <3>2 DEF Announce
  <2>8. Claims'
    <3>1. ASSUME NEW v \in Workers, work'[v].step \in {"fetch", "deliver"}
          PROVE Owed(work[v].entitled, work[v].room)'
      <4>1. CASE v = t
        BY <2>6, <2>7, <3>1, <4>1
      <4>2. CASE v # t
        BY <1>t, <2>5, <2>7, <3>1, <4>2, ClaimRooms DEF Claims
      <4> QED BY <4>1, <4>2
    <3>2. ASSUME NEW n \in Nodes, NEW i \in DOMAIN relay'[n]
          PROVE Owed(relay[n][i].entitled, relay[n][i].room)'
      BY <1>t, <2>2, <2>5, <3>2, ClaimRooms DEF Claims, Events
    <3> QED BY <3>1, <3>2 DEF Claims
  <2>9. ListsServe' /\ OneNodeTold'
    BY <1>w, <2>2, <2>7 DEF ListsServe, OneNodeTold, Fresh
  <2>10. CachesServe'
    <3> SUFFICES ASSUME NEW n \in Nodes, NEW q \in Rooms, Fresh(n, q), cache'[n][q].known,
                        \A s \in Tasks : ~Announcing(s, q)'
                 PROVE members[q] \subseteq cache'[n][q].list
      BY <2>2 DEF CachesServe, Fresh
    <3>1. q # x.room /\ cache'[n][q] = cache[n][q]
      BY <2>3, <2>4
    <3>2. \A s \in Tasks : ~Announcing(s, q)
      BY <1>w, <2>7, <3>1 DEF Announcing
    <3> QED BY <3>1, <3>2 DEF CachesServe
  <2>11. EveryMemberHears'
    BY <2>2 DEF EveryMemberHears
  <2> QED BY <2>8, <2>9, <2>10, <2>11
<1>10. ASSUME NEW u \in Users, LeaveRooms(u) PROVE Rest'
  BY <1>10, SameOwed DEF LeaveRooms, Claims, ListsServe, OneNodeTold, CachesServe, Fresh, Announcing,
                         EveryMemberHears
<1>11. CASE UNCHANGED vars
  <2>1. Claims'
    BY <1>11 DEF vars, Claims, Owed, Access, Fresh
  <2>2. ListsServe' /\ OneNodeTold'
    BY <1>11 DEF vars, ListsServe, OneNodeTold, Fresh
  <2>3. CachesServe' /\ EveryMemberHears'
    BY <1>11 DEF vars, CachesServe, Fresh, Announcing, EveryMemberHears
  <2> QED BY <1>i, <2>1, <2>2, <2>3
<1> QED BY <1>i, <1>1, <1>2, <1>3, <1>4, <1>5, <1>6, <1>7, <1>8, <1>9, <1>10, <1>11 DEF Next

(* Everyone in the conversation from when a message is sent until it is    *)
(* delivered gets it, except through caches a change does not reach.       *)
THEOREM MembersHear == Spec => []EveryMemberHears
<1>1. HearInv => EveryMemberHears
  BY DEF HearInv
<1> QED BY HearInit, HearNext, <1>1, PTL DEF Spec
================================================================================
