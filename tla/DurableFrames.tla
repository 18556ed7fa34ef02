----------------------------- MODULE DurableFrames -----------------------------
(***************************************************************************)
(* The reactions and receipts of the browser client.  WsClient             *)
(* (frontend/lib/ws-client.ts) queues them like chat messages and writes   *)
(* the queue again whenever a socket opens; the server answers neither     *)
(* with an ack nor with a receipt, so they stay.  One user (the client)    *)
(* and one conversation, in which a peer writes; frontend/app/chat/page.tsx *)
(* decides which frames are sent, Client.onReceipt, onJoin and onReaction  *)
(* (backend/internal/ws/client.go) what they do.                           *)
(*                                                                         *)
(* A socket carries a frame at once or turns out to be broken; frames in   *)
(* flight are the subject of OutboundDelivery.                             *)
(***************************************************************************)
EXTENDS Naturals, Sequences, SequencesExt, FiniteSets

CONSTANTS Incoming,    \* the peer's messages
          MaxQueue,    \* MAX_QUEUE_SIZE
          MaxBreaks,   \* bound: sockets that break
          MaxActs      \* bound: openings of the room and clicks on a reaction

ASSUME FramesAssumption ==
  MaxQueue \in Nat \ {0} /\ MaxBreaks \in Nat /\ MaxActs \in Nat

VARIABLES
  queue,     \* WsClient.outboundQueue
  open,      \* the socket is open
  onScreen,  \* the conversation is open in a visible window
  told,      \* messages.status of the peer's messages, "none" before they exist
  arrived,   \* messages the client has received
  seen,      \* messages the user has had on the screen
  clicked,   \* whether the user's last click put the reaction or took it away
  reacted,   \* whether the stored reactions hold the user's
  overflown, \* the full queue has dropped a frame
  took,      \* kinds of frames the server has processed
  rewritten, \* kinds of frames written from the queue by an onopen
  replayed,  \* those that the server had processed before
  breaks, acts

served == <<told, reacted, took>>
resent == <<rewritten, replayed>>
user == <<arrived, seen, clicked>>
framesVars == <<queue, open, onScreen, served, user, overflown, resent, breaks, acts>>

ReadRoom == [kind |-> "readRoom"]
Reaction == [kind |-> "reaction"]
ReceiptOf(m, s) == [kind |-> "receipt", msg |-> m, says |-> s]
KindsOf(frames) == {f.kind : f \in ToSet(frames)}

Stored == {m \in Incoming : told[m] # "none"}

FramesInit ==
  /\ queue = <<>> /\ open = FALSE /\ onScreen = FALSE
  /\ told = [m \in Incoming |-> "none"]
  /\ arrived = {} /\ seen = {}
  /\ clicked = FALSE /\ reacted = FALSE
  /\ overflown = FALSE /\ took = {} /\ rewritten = {} /\ replayed = {}
  /\ breaks = 0 /\ acts = 0

-----------------------------------------------------------------------------
(* What the server does with a frame.                                      *)

(* MarkRoomMessagesAsRead, of every message of the peer, or a receipt.     *)
ReadBy(m, frames) == {ReadRoom, ReceiptOf(m, "read")} \intersect frames # {}

(* UpdateMessageStatus: "delivered" never replaces "read".                 *)
DeliveredBy(m, frames) == told[m] # "read" /\ ReceiptOf(m, "delivered") \in frames

(* The frames in any order; a message that is not stored yet has no row.   *)
AfterFrames(frames) ==
  LET read == {m \in Stored : ReadBy(m, frames)}
      delivered == {m \in Stored \ read : DeliveredBy(m, frames)}
  IN [m \in Incoming |-> CASE m \in read -> "read"
                            [] m \in delivered -> "delivered"
                            [] OTHER -> told[m]]

(* Mutant: a reaction frame only ever adds.                                *)
AfterAdds(r, frames) == r \/ Reaction \in ToSet(frames)

(* Each reaction frame toggles.                                            *)
Toggles(frames) == Cardinality({i \in DOMAIN frames : frames[i] = Reaction})
AfterToggles(r, frames) == r # (Toggles(frames) % 2 = 1)

(* The socket carries the frames, or breaks after the first n of them.     *)
Carry(frames, n) ==
  /\ told' = AfterFrames(ToSet(SubSeq(frames, 1, n)))
  /\ reacted' = AfterToggles(reacted, SubSeq(frames, 1, n))
  /\ took' = took \union KindsOf(SubSeq(frames, 1, n))
  /\ IF n = Len(frames) THEN open' = TRUE /\ UNCHANGED breaks
     ELSE breaks < MaxBreaks /\ breaks' = breaks + 1 /\ open' = FALSE

-----------------------------------------------------------------------------
(* What the client does.                                                   *)

SameId(q, f) ==
  f.kind = "receipt" /\ \E i \in 1..Len(q) : q[i].kind = "receipt" /\ q[i].msg = f.msg

(* The queueing of send: once for each id, which a reaction and a receipt  *)
(* for the whole room lack.  Frames sent together have one id, so that     *)
(* none after the first is queued.                                         *)
Queued(q, frames) ==
  IF frames = <<>> \/ SameId(q, Head(frames)) THEN q ELSE Append(q, Head(frames))

(* A full queue drops its oldest frames.                                   *)
Limited(q) == IF Len(q) > MaxQueue THEN SubSeq(q, Len(q) - MaxQueue + 1, Len(q)) ELSE q

Enqueue(frames) == /\ queue' = Limited(Queued(queue, frames))
                   /\ overflown' = (overflown \/ Len(Queued(queue, frames)) > MaxQueue)

(* send, for frames sent one after the other.                              *)
Send(frames) ==
  /\ Enqueue(frames)
  /\ IF open THEN \E n \in 0..Len(frames) : Carry(frames, n)
     ELSE UNCHANGED <<open, served, breaks>>

(* The user opens the room: a receipt for all of it and, on the open       *)
(* socket, the join, which marks its messages and is answered with them.   *)
(* (The answer makes the client send the same receipt once more; one       *)
(* stands for both.)  Without a socket he sees what had arrived before.    *)
OpenRoom ==
  /\ ~onScreen /\ acts < MaxActs
  /\ acts' = acts + 1
  /\ onScreen' = TRUE
  /\ Send(<<ReadRoom>>)
  /\ arrived' = IF open' THEN arrived \union Stored ELSE arrived
  /\ seen' = seen \union arrived'
  /\ UNCHANGED <<clicked, resent>>

LeaveRoom ==
  /\ onScreen
  /\ onScreen' = FALSE
  /\ UNCHANGED <<queue, open, served, user, overflown, resent, breaks, acts>>

(* handleReact.                                                            *)
React ==
  /\ onScreen /\ acts < MaxActs
  /\ acts' = acts + 1
  /\ clicked' = ~clicked
  /\ Send(<<Reaction>>)
  /\ UNCHANGED <<onScreen, arrived, seen, resent>>

(* The peer writes; the sender's handler may find the client connected.    *)
PeerWrites(m) ==
  /\ told[m] = "none"
  /\ \E s \in {"sent", "delivered"} : told' = [told EXCEPT ![m] = s]
  /\ UNCHANGED <<queue, open, onScreen, reacted, took, user, overflown, resent, breaks, acts>>

(* Mutant: "read" whether or not the room is on the screen.                *)
ReadOnArrival(m) == <<ReceiptOf(m, "delivered"), ReceiptOf(m, "read")>>

OnArrival(m) ==
  <<ReceiptOf(m, "delivered")>> \o IF onScreen THEN <<ReceiptOf(m, "read")>> ELSE <<>>

(* The message arrives: a receipt "delivered" and, with the room on the    *)
(* screen, a receipt "read".                                               *)
Arrives(m) ==
  /\ open /\ m \in Stored \ arrived
  /\ arrived' = arrived \union {m}
  /\ seen' = IF onScreen THEN seen \union {m} ELSE seen
  /\ Send(OnArrival(m))
  /\ UNCHANGED <<onScreen, clicked, resent, acts>>

Break ==
  /\ open /\ breaks < MaxBreaks
  /\ breaks' = breaks + 1
  /\ open' = FALSE
  /\ UNCHANGED <<queue, onScreen, served, user, overflown, resent, acts>>

(* Mutant: the queue is not written again.                                 *)
ResendNothing(q) == <<>>

Resend(q) == q

(* onopen: a room on the screen is read and joined again, and the whole    *)
(* queue is written again.                                                 *)
Reopen ==
  /\ ~open
  /\ LET fresh == IF onScreen THEN <<ReadRoom>> ELSE <<>>
     IN /\ Enqueue(fresh)
        /\ \E n \in 0..Len(fresh \o Resend(queue')) : Carry(fresh \o Resend(queue'), n)
  /\ rewritten' = rewritten \union KindsOf(queue')
  /\ replayed' = replayed \union (took \intersect KindsOf(queue'))
  /\ arrived' = IF open' /\ onScreen THEN arrived \union Stored ELSE arrived
  /\ seen' = IF onScreen THEN seen \union arrived' ELSE seen
  /\ UNCHANGED <<onScreen, clicked, acts>>

FramesNext == \/ OpenRoom \/ LeaveRoom \/ React \/ Break \/ Reopen
              \/ \E m \in Incoming : PeerWrites(m) \/ Arrives(m)

FramesSpec == FramesInit /\ [][FramesNext]_framesVars

(* The reconnect timer fires.                                              *)
FairFrames == FramesSpec /\ WF_framesVars(Reopen)

-----------------------------------------------------------------------------
(* The peer learns that a message was read, even if the socket broke while *)
(* the receipt was sent, as long as the queue does not overflow: the       *)
(* receipt for the message is not queued next to its "delivered" one, the  *)
(* one for the room is.                                                    *)
SeenBecomesRead == \A m \in Incoming : m \in seen ~> (told[m] = "read" \/ overflown)

(* "read" means opened and seen in the recipient's chat window             *)
(* (MESSAGING_CHAT.md:13), unless an onopen wrote a receipt for the whole  *)
(* room, whose age nobody knows (ws-client.ts:74).                         *)
ReadMeansSeen ==
  \A m \in Incoming : told[m] = "read" => m \in seen \/ "readRoom" \in rewritten

(* Once the socket is open again and the queue written, the stored         *)
(* reaction is the one the user clicked (sql.go:907), unless the queue     *)
(* held a reaction the server had already toggled (ws-client.ts:74) or     *)
(* overflowed.                                                             *)
ReactionAsClicked ==
  open => reacted = clicked \/ "reaction" \in replayed \/ overflown

(* What replayed frames tell the server is what the user saw and clicked,  *)
(* but for those two causes.                                               *)
ToldAsItWas == ReadMeansSeen /\ ReactionAsClicked
=============================================================================
