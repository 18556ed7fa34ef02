----------------------------- MODULE MessageStatus -----------------------------
(***************************************************************************)
(* The receipt status of stored messages: what Client.onMessage, onJoin    *)
(* and onReceipt (backend/internal/ws/client.go), UpdateReceipt and        *)
(* ForwardMessage (messaging/service.go) do to messages.status, with the   *)
(* statements of store/sql.go.  Two conversations, so that a user may be   *)
(* a member of one only.                                                   *)
(***************************************************************************)
EXTENDS Naturals

CONSTANTS Users, Rooms, Msgs,
          MemberOf,    \* the rooms of each user
          RoomOf,      \* the room each message is sent to
          AuthorOf     \* and by whom

ASSUME StatusAssumption ==
  /\ MemberOf \in [Users -> SUBSET Rooms]
  /\ RoomOf \in [Msgs -> Rooms]
  /\ AuthorOf \in [Msgs -> Users]
  /\ \A m \in Msgs : RoomOf[m] \in MemberOf[AuthorOf[m]]

VARIABLES
  status,    \* messages.status, or "none" before the row exists
  sending,   \* what the handler that stores the message is about to do
  online,    \* users with a connection
  reached,   \* members other than the author the message has reached
  opened     \* members other than the author who opened the room since

vars == <<status, sending, online, reached, opened>>

Statuses == {"none", "sent", "delivered", "read"}
Rank == [s \in Statuses |-> CASE s = "none" -> 0 [] s = "sent" -> 1
                              [] s = "delivered" -> 2 [] s = "read" -> 3]

Readers(m) == {u \in Users \ {AuthorOf[m]} : RoomOf[m] \in MemberOf[u]}

Init == /\ status = [m \in Msgs |-> "none"]
        /\ sending = [m \in Msgs |-> "new"]
        /\ online = {}
        /\ reached = [m \in Msgs |-> {}]
        /\ opened = [m \in Msgs |-> {}]

Connect(u) == /\ u \notin online
              /\ online' = online \union {u}
              /\ UNCHANGED <<status, sending, reached, opened>>

Disconnect(u) == /\ u \in online
                 /\ online' = online \ {u}
                 /\ UNCHANGED <<status, sending, reached, opened>>

(* onMessage looks, under the hub's lock, for another entry in the room or *)
(* a member who is connected.  The sender's own entry, under its session   *)
(* key, counts as another: a message may be "delivered" with nobody there. *)
LookForPeer(m) ==
  /\ sending[m] = "new"
  /\ \E s \in {"sent", "delivered"} :
       /\ Readers(m) \intersect online # {} => s = "delivered"
       /\ s = "delivered" => (Readers(m) \union {AuthorOf[m]}) \intersect online # {}
       /\ sending' = [sending EXCEPT ![m] = s]
  /\ UNCHANGED <<status, online, reached, opened>>

(* Mutant: saving again overwrites the row.                                *)
SaveOver(m, s) == [status EXCEPT ![m] = s]

(* INSERT ... ON CONFLICT DO NOTHING.                                      *)
SaveIfAbsent(m, s) == IF status[m] = "none" THEN [status EXCEPT ![m] = s] ELSE status

(* Those of the members who are connected by now.                          *)
ReachesNow(m) == Readers(m) \intersect online

(* BroadcastRoom: to whoever of the members is connected by now, then the  *)
(* row with the status computed before.                                    *)
Save(m) ==
  /\ sending[m] \in {"sent", "delivered"}
  /\ reached' = [reached EXCEPT ![m] = @ \union ReachesNow(m)]
  /\ status' = SaveIfAbsent(m, sending[m])
  /\ sending' = [sending EXCEPT ![m] = "stored"]
  /\ UNCHANGED <<online, opened>>

(* ForwardMessage stores the copy as "sent" and only then broadcasts it,   *)
(* which stores it once more.                                              *)
Forward(m) ==
  /\ sending[m] = "new"
  /\ status' = SaveIfAbsent(m, "sent")
  /\ sending' = [sending EXCEPT ![m] = "again"]
  /\ UNCHANGED <<online, reached, opened>>

ForwardBroadcast(m) ==
  /\ sending[m] = "again"
  /\ reached' = [reached EXCEPT ![m] = @ \union ReachesNow(m)]
  /\ status' = SaveIfAbsent(m, "sent")
  /\ sending' = [sending EXCEPT ![m] = "stored"]
  /\ UNCHANGED <<online, opened>>

(* MarkUserMessagesAsDelivered: every "sent" message not from this user.   *)
MarkedDelivered(u) ==
  [m \in Msgs |-> IF status[m] = "sent" /\ AuthorOf[m] # u THEN "delivered" ELSE status[m]]

(* Mutant: the author's own messages are marked, too.                      *)
MarkedReadByAll(r, u, st) ==
  [m \in Msgs |-> IF st[m] # "none" /\ RoomOf[m] = r THEN "read" ELSE st[m]]

(* MarkRoomMessagesAsRead: the room's messages not from this user.         *)
MarkedRead(r, u, st) ==
  [m \in Msgs |-> IF st[m] # "none" /\ RoomOf[m] = r /\ AuthorOf[m] # u THEN "read" ELSE st[m]]

(* What a user who fetches room r (or all his rooms) has before him.       *)
Seen(old, u, inRooms) ==
  [m \in Msgs |-> IF status[m] # "none" /\ u \in Readers(m) /\ RoomOf[m] \in inRooms
                  THEN old[m] \union {u} ELSE old[m]]

(* onJoin: the user's pending messages become delivered, the messages of   *)
(* the room he opens read, and its history is sent to him.  He may as well *)
(* join a room of his own that has no messages.                            *)
Join(u, r) ==
  /\ u \in online /\ r \in MemberOf[u]
  /\ status' = MarkedRead(r, u, MarkedDelivered(u))
  /\ reached' = Seen(reached, u, {r})
  /\ opened' = Seen(opened, u, {r})
  /\ UNCHANGED <<sending, online>>

(* onReceipt or UpdateReceipt for a whole room.                            *)
ReceiptForRoom(u, r) ==
  /\ r \in MemberOf[u]
  /\ status' = MarkedRead(r, u, status)
  /\ reached' = Seen(reached, u, {r})
  /\ opened' = Seen(opened, u, {r})
  /\ UNCHANGED <<sending, online>>

(* UpdateReceipt "delivered" without a message: all that is pending.       *)
ReceiptForAll(u) ==
  /\ status' = MarkedDelivered(u)
  /\ UNCHANGED <<sending, online, reached, opened>>

(* UpdateMessageStatus: "delivered" never replaces "read".                 *)
Updated(m, s) == IF s = "delivered" /\ status[m] = "read" THEN status
                 ELSE [status EXCEPT ![m] = s]

(* A receipt for one message, from a client that has received it: the      *)
(* clients send "delivered" and "read" (mobile websocket.ts sendReceipt).  *)
Receipt(u, m, s) ==
  /\ u \in reached[m]
  /\ status[m] # "none"
  /\ status' = Updated(m, s)
  /\ opened' = IF s = "read" THEN [opened EXCEPT ![m] = @ \union {u}] ELSE opened
  /\ UNCHANGED <<sending, online, reached>>

Next == \/ \E u \in Users : Connect(u) \/ Disconnect(u) \/ ReceiptForAll(u)
        \/ \E m \in Msgs : LookForPeer(m) \/ Save(m) \/ Forward(m) \/ ForwardBroadcast(m)
        \/ \E u \in Users, r \in Rooms : Join(u, r) \/ ReceiptForRoom(u, r)
        \/ \E u \in Users, m \in Msgs, s \in {"delivered", "read"} : Receipt(u, m, s)

Spec == Init /\ [][Next]_vars

-----------------------------------------------------------------------------
(* A receipt never goes back: late saves, late "delivered" receipts and    *)
(* forwards that save twice leave the furthest status in place.            *)
StatusNeverRegresses == [][\A m \in Msgs : Rank[status'[m]] >= Rank[status[m]]]_vars

(* The blue ticks mean that a reader opened the conversation: the author's *)
(* own joins and receipts never set them.                                  *)
ReadMeansOpened == \A m \in Msgs : status[m] = "read" => opened[m] # {}
=============================================================================
