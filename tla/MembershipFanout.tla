---------------------------- MODULE MembershipFanout ----------------------------
(***************************************************************************)
(* Who gets a group's messages: the membership in the database, the hub's  *)
(* roomMembersCache and its rooms (backend/internal/ws/hub.go), when       *)
(* members are added and removed (backend/internal/group/service.go) while *)
(* messages are sent, on one node or several.  A topic is a conversation   *)
(* with a parent, whose membership it presupposes.                         *)
(*                                                                         *)
(* Every user is connected all the time, to a fixed node; reading the      *)
(* members does not fail.                                                  *)
(***************************************************************************)
EXTENDS Naturals, Sequences

CONSTANTS Users, Rooms, Nodes,
          NodeOf,       \* the node each user is connected to
          ParentOf,     \* of each room: a room, or NoRoom
          NoRoom,
          Founders,     \* members of every room from the start
          Tasks,        \* request handlers that run side by side
          MaxChanges,   \* bound: members added or removed
          MaxMessages   \* bound: messages sent

ASSUME FanoutAssumption ==
  /\ NodeOf \in [Users -> Nodes]
  /\ ParentOf \in [Rooms -> Rooms \union {NoRoom}] /\ NoRoom \notin Rooms
  /\ Founders \subseteq Users
  /\ Tasks \intersect Nodes = {}
  /\ {MaxChanges, MaxMessages} \subseteq Nat

VARIABLES
  members,   \* conversation_members
  cache,     \* Hub.roomMembersCache of each node
  viewers,   \* Hub.rooms: users who have the room open
  work,      \* what each handler, and each node's cluster subscriber, is doing
  relay,     \* cluster events on their way to each node
  been,      \* users who were ever members of a room
  overheard, \* <<user, room>>: was sent a message before he ever was a member
  missed,    \* <<node, room>> where a message missed a user with access throughout
  doubtful,  \* <<node, room>> whose cache a change of membership did not reach
  changes, messages

vars == <<members, cache, viewers, work, relay, been, overheard, missed, doubtful, changes,
          messages>>

Unknown == [known |-> FALSE]
Known(s) == [known |-> TRUE, list |-> s]
Idle == [step |-> "idle"]
Workers == Tasks \union Nodes

Init == /\ members = [r \in Rooms |-> Founders]
        /\ cache = [n \in Nodes |-> [r \in Rooms |-> Unknown]]
        /\ viewers = [r \in Rooms |-> {}]
        /\ work = [w \in Workers |-> Idle]
        /\ relay = [n \in Nodes |-> <<>>]
        /\ overheard = {} /\ been = [r \in Rooms |-> Founders]
        /\ missed = {} /\ doubtful = {}
        /\ changes = 0 /\ messages = 0

Do(w, x) == work' = [work EXCEPT ![w] = x]

(* The group a room belongs to: itself, or the parent of a topic.          *)
GroupOf(r) == IF ParentOf[r] = NoRoom THEN r ELSE ParentOf[r]

(* IsUserInConversation: a member of the room and of its parent.           *)
Access(r) == members[r] \intersect members[GroupOf(r)]

(* Another handler has changed the room's membership and not announced it. *)
Changing(t, r) == \E o \in Tasks \ {t} : work[o].step = "announce" /\ work[o].room = r

(* About to broadcast to room r on node n what was sent just now.          *)
(* "entitled" is who must hear it: all with access from then on, unless a  *)
(* change of the room is still to be announced.                            *)
Broadcast(t, n, r, from) == [step |-> "fetch", node |-> n, room |-> r,
                             entitled |-> IF Changing(t, r) THEN {} ELSE Access(r) \ {from}]

(* onMessage: the sender's membership is checked with every message.       *)
SendMessage(t, u, r) ==
  /\ work[t] = Idle /\ u \in Access(r) /\ messages < MaxMessages
  /\ messages' = messages + 1
  /\ Do(t, Broadcast(t, NodeOf[u], r, u))
  /\ UNCHANGED <<members, cache, viewers, relay, been, overheard, missed, doubtful, changes>>

(* getRoomMembers: from the cache, or else from the database.              *)
FetchMembers(w) ==
  /\ work[w].step = "fetch"
  /\ LET x == work[w]
         c == cache[x.node][x.room]
     IN Do(w, [step |-> "deliver", node |-> x.node, room |-> x.room,
               entitled |-> x.entitled, fill |-> ~c.known,
               list |-> IF c.known THEN c.list ELSE members[x.room]])
  /\ UNCHANGED <<members, cache, viewers, relay, been, overheard, missed, doubtful, changes,
                 messages>>

(* Whoever of this node's users has the room open or is in the list.       *)
Reached(n, r, list) == {u \in Users : NodeOf[u] = n /\ u \in viewers[r] \union list}

(* getRoomMembers fills the cache with what it read, broadcastLocal sends, *)
(* and a handler (not the subscriber) publishes to the other nodes.        *)
Deliver(w) ==
  LET x == work[w]
      to == Reached(x.node, x.room, x.list)
      here == {u \in Users : NodeOf[u] = x.node}
      event == [room |-> x.room, entitled |-> x.entitled]
  IN /\ x.step = "deliver"
     /\ cache' = IF x.fill /\ x.list # {}
                 THEN [cache EXCEPT ![x.node][x.room] = Known(x.list)] ELSE cache
     /\ overheard' = overheard \union {<<u, x.room>> : u \in to \ been[x.room]}
     /\ missed' = IF x.entitled \intersect here \subseteq to THEN missed
                  ELSE missed \union {<<x.node, x.room>>}
     /\ relay' = [n \in Nodes |-> IF w \in Tasks /\ n # x.node THEN Append(relay[n], event)
                                  ELSE relay[n]]
     /\ Do(w, Idle)
     /\ UNCHANGED <<members, viewers, been, doubtful, changes, messages>>

(* SetBroker's subscriber: a local broadcast of the event, and nothing else. *)
FromCluster(n) ==
  /\ work[n] = Idle /\ relay[n] # <<>>
  /\ LET e == Head(relay[n])
     IN Do(n, [step |-> "fetch", node |-> n, room |-> e.room, entitled |-> e.entitled])
  /\ relay' = [relay EXCEPT ![n] = Tail(@)]
  /\ UNCHANGED <<members, cache, viewers, been, overheard, missed, doubtful, changes, messages>>

(* The other nodes' caches are not told of a change on node n, and a fill  *)
(* under way on n itself will store the list it read before.               *)
OutOfReach(n, r) ==
  {<<o, r>> : o \in Nodes \ {n}}
    \union {<<work[w].node, r>> : w \in {v \in Workers : work[v].step = "deliver"
                                                       /\ work[v].room = r /\ work[v].fill}}

(* AddGroupMembers, JoinPublicGroup, JoinSubGroup or an approved request:  *)
(* the row, then the announcement.  JoinSubGroup asks for a membership of  *)
(* the parent, AddGroupMembers of a topic does not.                        *)
AddMember(t, n, r, u) ==
  /\ work[t] = Idle /\ changes < MaxChanges
  /\ u \notin members[r]
  /\ changes' = changes + 1
  /\ members' = [members EXCEPT ![r] = @ \union {u}]
  /\ been' = [been EXCEPT ![r] = @ \union {u}]
  /\ doubtful' = doubtful \union OutOfReach(n, r)
  /\ Do(t, [step |-> "announce", node |-> n, room |-> r])
  /\ UNCHANGED <<cache, viewers, relay, overheard, missed, messages>>

(* Whoever loses access to a room, or to its group, is no longer entitled. *)
Without(u, r, x) ==
  IF r \in {x.room, GroupOf(x.room)} THEN [x EXCEPT !.entitled = @ \ {u}] ELSE x
Deprived(u, r) ==
  [w \in Workers |-> IF work[w].step \in {"fetch", "deliver"} THEN Without(u, r, work[w])
                     ELSE work[w]]

(* RemoveGroupMember: the row of this room only, then the announcement.    *)
RemoveMember(t, n, r, u) ==
  /\ work[t] = Idle /\ changes < MaxChanges
  /\ u \in members[r] \ Founders
  /\ changes' = changes + 1
  /\ members' = [members EXCEPT ![r] = @ \ {u}]
  /\ doubtful' = doubtful \union OutOfReach(n, r)
  /\ work' = [Deprived(u, r) EXCEPT ![t] = [step |-> "announce", node |-> n, room |-> r]]
  /\ relay' = [o \in Nodes |-> [i \in DOMAIN relay[o] |-> Without(u, r, relay[o][i])]]
  /\ UNCHANGED <<cache, viewers, been, overheard, missed, messages>>

(* Mutant: nobody invalidates the cache.                                   *)
NotInvalidated(n, r) == cache
(* InvalidateRoomMembersCache, of this node.                               *)
Invalidated(n, r) == [cache EXCEPT ![n][r] = Unknown]

(* BroadcastGroupSystemEvent; an approved request to join a topic only     *)
(* invalidates the cache.                                                  *)
Announce(t) ==
  LET x == work[t]
  IN /\ x.step = "announce"
     /\ cache' = Invalidated(x.node, x.room)
     /\ \/ Do(t, Broadcast(t, x.node, x.room, NoRoom))
        \/ ParentOf[x.room] # NoRoom /\ Do(t, Idle)
     /\ UNCHANGED <<members, viewers, relay, been, overheard, missed, doubtful, changes, messages>>

(* Mutant: whoever knows the room's id may open it.                        *)
MayOpenAny(u, r) == TRUE
MayOpen(u, r) == u \in Access(r)

(* onJoin: the check, then the entry in the room, which leaves all others. *)
CheckJoin(t, u, r) ==
  /\ work[t] = Idle /\ u \notin viewers[r]
  /\ MayOpen(u, r)
  /\ Do(t, [step |-> "enter", user |-> u, room |-> r])
  /\ UNCHANGED <<members, cache, viewers, relay, been, overheard, missed, doubtful, changes,
                 messages>>

Entered(u, q) == [r \in Rooms |-> IF r = q THEN viewers[r] \union {u} ELSE viewers[r] \ {u}]

JoinRoom(t) ==
  /\ work[t].step = "enter"
  /\ viewers' = Entered(work[t].user, work[t].room)
  /\ Do(t, Idle)
  /\ UNCHANGED <<members, cache, relay, been, overheard, missed, doubtful, changes, messages>>

(* The user's socket is replaced by a new one, which has no room open.     *)
LeaveRooms(u) ==
  /\ \E r \in Rooms : u \in viewers[r]
  /\ viewers' = [r \in Rooms |-> viewers[r] \ {u}]
  /\ UNCHANGED <<members, cache, work, relay, been, overheard, missed, doubtful, changes, messages>>

Next == \/ \E t \in Tasks, u \in Users, r \in Rooms :
             \/ SendMessage(t, u, r) \/ CheckJoin(t, u, r)
             \/ \E n \in Nodes : AddMember(t, n, r, u) \/ RemoveMember(t, n, r, u)
        \/ \E w \in Workers : FetchMembers(w) \/ Deliver(w)
        \/ \E t \in Tasks : Announce(t) \/ JoinRoom(t)
        \/ \E n \in Nodes : FromCluster(n)
        \/ \E u \in Users : LeaveRooms(u)

Spec == Init /\ [][Next]_vars

-----------------------------------------------------------------------------
(* A conversation is only ever sent to people who were once members of it, *)
(* however checks, changes, fills and cluster events interleave.           *)
OutsidersNeverHear == overheard = {}

(* Everyone who is in the conversation from when a message is sent until   *)
(* it is delivered gets it: the cache is invalidated when the membership   *)
(* changes (ARCHITECTURE.md:452).  Except where a change does not reach:   *)
(* the caches of other nodes (hub.go:305) and the cache of a node that was *)
(* being filled when it happened (hub.go:684).                             *)
EveryMemberHears == missed \subseteq doubtful
=============================================================================
