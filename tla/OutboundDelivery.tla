--------------------------- MODULE OutboundDelivery ---------------------------
(***************************************************************************)
(* A chat message from the sender's outbound queue to the store.           *)
(*                                                                         *)
(* The sender is the browser client (frontend/lib/ws-client.ts): it queues *)
(* every message, writes it on the open socket, writes the whole queue     *)
(* again when a socket opens, and takes a message out of the queue on an   *)
(* ack or a receipt.  The server is Client.onMessage on one of the Nodes:  *)
(* rate limit, duplicate guard, local broadcast, save, cluster publish,    *)
(* receipt and ack.  Handlers of an old and a new socket run side by side, *)
(* sockets break with frames in flight and nodes crash.                    *)
(***************************************************************************)
EXTENDS Naturals, Sequences, FiniteSets, SequencesExt

CONSTANTS MaxMsgs,        \* bound: messages the user writes
          MaxFaults,      \* bound: broken sockets, crashes and forgotten ids
          Nodes,
          MaxQueue,       \* MAX_QUEUE_SIZE
          MaxAttempts,    \* RECONNECT_MAX_ATTEMPTS
          RateLimit,      \* messages per connection and window
          SendBuffer,     \* capacity of Client.send
          StoreMayFail    \* whether SaveMessage may return an error

ASSUME DeliveryAssumption ==
  /\ {MaxMsgs, MaxQueue, MaxAttempts, RateLimit, SendBuffer} \subseteq Nat \ {0}
  /\ MaxFaults \in Nat /\ StoreMayFail \in BOOLEAN /\ Nodes # {}

VARIABLES
  written,    \* messages the user has written so far, numbered from 1
  queue,      \* WsClient.outboundQueue
  overflown,  \* messages the full queue dropped
  confirmed,  \* messages taken out by an ack "ok" or a receipt
  refused,    \* messages the server refused over its rate limit
  link,       \* the client's socket: "connecting", "open" or "stopped"
  attempts,   \* WsClient.reconnectAttempts
  conn,       \* number of the latest socket, 0 before the first
  node,       \* the node each socket reached
  up, down,   \* frames in flight on each socket
  handler,    \* what each socket's ReadPump is doing
  recent,     \* messages each socket sent in the current rate window
  history,    \* Hub.dedupHistory of each node
  heard,      \* how often each node broadcast each message
  saved,      \* ids in the messages table
  unsaved,    \* messages whose save failed
  abandoned,  \* messages whose handler died before it saved them
  breaks, crashes, forgets  \* the faults so far

clientVars == <<written, queue, overflown, confirmed, refused, link, attempts, conn>>
counts == <<breaks, crashes, forgets>>
vars == <<clientVars, node, up, down, handler, recent, history, heard, saved, unsaved, abandoned, counts>>

Msgs == 1..MaxMsgs
Sockets == 1..(MaxFaults + 1)
FaultsLeft == breaks + crashes + forgets < MaxFaults
(* Idle until a message passed the guard; then what has been done with it. *)
Idle == [step |-> "idle", msg |-> 0]

Queued(m) == m \in ToSet(queue)
BeforeSave(k) == handler[k].step \in {"guarded", "broadcast"}
InHand(m) == \E k \in Sockets : handler[k] # Idle /\ handler[k].msg = m

-----------------------------------------------------------------------------
Init == /\ written = 0 /\ queue = <<>>
        /\ overflown = {} /\ confirmed = {} /\ refused = {}
        /\ link = "connecting" /\ attempts = 0 /\ conn = 0
        /\ node = [k \in Sockets |-> CHOOSE n \in Nodes : TRUE]
        /\ up = [k \in Sockets |-> <<>>] /\ down = [k \in Sockets |-> <<>>]
        /\ handler = [k \in Sockets |-> Idle]
        /\ recent = [k \in Sockets |-> 0]
        /\ history = [n \in Nodes |-> {}]
        /\ heard = [n \in Nodes |-> [m \in Msgs |-> 0]]
        /\ saved = {} /\ unsaved = {} /\ abandoned = {} /\ breaks = 0 /\ crashes = 0 /\ forgets = 0

-----------------------------------------------------------------------------
(* The client.                                                             *)

(* send: queue the message, dropping the oldest of a full queue, and write *)
(* it if the socket is open.                                               *)
Send ==
  LET m == written + 1
      full == Len(queue) >= MaxQueue
  IN /\ written < MaxMsgs
     /\ written' = m
     /\ queue' = Append(IF full THEN Tail(queue) ELSE queue, m)
     /\ overflown' = IF full THEN overflown \union {Head(queue)} ELSE overflown
     /\ up' = IF link = "open" THEN [up EXCEPT ![conn] = Append(@, m)] ELSE up
     /\ UNCHANGED <<confirmed, refused, link, attempts, conn, node, down, handler,
                    recent, history, heard, saved, unsaved, abandoned, counts>>

(* Mutant: onopen forgets to write the queue again.                        *)
ResendNothing == <<>>
Resend == queue

(* onopen: the attempts start over and the whole queue is written again.   *)
Open(n) ==
  /\ link = "connecting"
  /\ conn' = conn + 1
  /\ node' = [node EXCEPT ![conn + 1] = n]
  /\ link' = "open"
  /\ attempts' = 0
  /\ up' = [up EXCEPT ![conn + 1] = Resend]
  /\ UNCHANGED <<written, queue, overflown, confirmed, refused, down,
                 handler, recent, history, heard, saved, unsaved, abandoned, counts>>

(* onclose, _scheduleReconnect: give up after MaxAttempts in a row.        *)
Reconnect == /\ link' = IF attempts >= MaxAttempts THEN "stopped" ELSE "connecting"
             /\ attempts' = IF attempts >= MaxAttempts THEN attempts ELSE attempts + 1

(* An attempt to open a socket fails.                                      *)
OpenFails ==
  /\ link = "connecting"
  /\ Reconnect
  /\ UNCHANGED <<written, queue, overflown, confirmed, refused, conn, node,
                 up, down, handler, recent, history, heard, saved, unsaved, abandoned, counts>>

(* The open socket breaks.  The server still reads the frames that made    *)
(* it; nothing it sends any more arrives.                                  *)
Break ==
  /\ link = "open" /\ FaultsLeft
  /\ breaks' = breaks + 1
  /\ Reconnect
  /\ \E i \in 0..Len(up[conn]) : up' = [up EXCEPT ![conn] = SubSeq(@, 1, i)]
  /\ down' = [down EXCEPT ![conn] = <<>>]
  /\ UNCHANGED <<written, queue, overflown, confirmed, refused, conn, node,
                 handler, recent, history, heard, saved, unsaved, abandoned,
                 crashes, forgets>>

(* Mutant: an ack ends the queueing of the oldest message, whatever its id. *)
WithoutOldest(s, m) == IF s = <<>> THEN s ELSE Tail(s)

(* The queue holds a message once.                                         *)
Without(s, m) ==
  IF m \in ToSet(s) THEN RemoveAt(s, CHOOSE i \in DOMAIN s : s[i] = m) ELSE s

(* onmessage: an ack of either status, or a receipt, ends the queueing.    *)
Receive ==
  /\ link = "open"
  /\ down[conn] # <<>>
  /\ LET f == Head(down[conn])
     IN /\ down' = [down EXCEPT ![conn] = Tail(@)]
        /\ queue' = Without(queue, f.msg)
        /\ confirmed' = IF f.kind = "error" THEN confirmed ELSE confirmed \union {f.msg}
  /\ UNCHANGED <<written, overflown, refused, link, attempts, conn, node, up, handler,
                 recent, history, heard, saved, unsaved, abandoned, counts>>

-----------------------------------------------------------------------------
(* The server.                                                             *)

(* SafeSend: frames beyond the buffer are dropped; a broken socket's are   *)
(* lost anyway.                                                            *)
Sent(k, frames) ==
  IF k # conn \/ link # "open" THEN down
  ELSE LET room == IF Len(down[k] \o frames) < SendBuffer THEN Len(down[k] \o frames) ELSE SendBuffer
       IN [down EXCEPT ![k] = SubSeq(@ \o frames, 1, room)]

Done(m) == <<[kind |-> "receipt", msg |-> m], [kind |-> "ok", msg |-> m]>>

(* Mutant: no duplicate guard.                                             *)
NeverDuplicate(n, m) == FALSE

(* IsDuplicateAndRecord, its test.                                         *)
Duplicate(n, m) == m \in history[n]

(* onMessage up to the guard: over the rate limit the frame is refused, a  *)
(* duplicate is confirmed at once, anything else is recorded as processed  *)
(* before it has been.                                                     *)
Read(k) ==
  /\ handler[k] = Idle
  /\ up[k] # <<>>
  /\ LET m == Head(up[k])
         n == node[k]
     IN /\ up' = [up EXCEPT ![k] = Tail(@)]
        /\ \/ /\ recent[k] >= RateLimit
              /\ down' = Sent(k, <<[kind |-> "error", msg |-> m]>>)
              /\ refused' = refused \union {m}
              /\ UNCHANGED <<recent, history, handler>>
           \/ /\ recent[k] < RateLimit
              /\ recent' = [recent EXCEPT ![k] = @ + 1]
              /\ Duplicate(n, m)
              /\ down' = Sent(k, Reverse(Done(m)))
              /\ UNCHANGED <<refused, history, handler>>
           \/ /\ recent[k] < RateLimit
              /\ recent' = [recent EXCEPT ![k] = @ + 1]
              /\ ~Duplicate(n, m)
              /\ history' = [history EXCEPT ![n] = @ \union {m}]
              /\ handler' = [handler EXCEPT ![k] = [step |-> "guarded", msg |-> m]]
              /\ UNCHANGED <<refused, down>>
  /\ UNCHANGED <<written, queue, overflown, confirmed, link, attempts, conn, node,
                 heard, saved, unsaved, abandoned, counts>>

At(k, step) == handler[k].step = step
GoOn(k, step) == handler' = [handler EXCEPT ![k].step = step]

(* broadcastLocal to the peers connected to this node.                     *)
BroadcastLocal(k) ==
  /\ At(k, "guarded")
  /\ heard' = [heard EXCEPT ![node[k]][handler[k].msg] = @ + 1]
  /\ GoOn(k, "broadcast")
  /\ UNCHANGED <<clientVars, node, up, down, recent, history, saved, unsaved, abandoned, counts>>

(* Mutant: the handler goes on without saving.                             *)
SaveSkipped(m) == saved

(* INSERT ... ON CONFLICT DO NOTHING.                                      *)
Saving(m) == saved \union {m}

(* SaveMessage; an error is only logged.                                   *)
SaveMessage(k) ==
  /\ At(k, "broadcast")
  /\ \/ /\ saved' = Saving(handler[k].msg)
        /\ UNCHANGED unsaved
     \/ /\ StoreMayFail
        /\ unsaved' = unsaved \union {handler[k].msg}
        /\ UNCHANGED saved
  /\ GoOn(k, "stored")
  /\ UNCHANGED <<clientVars, node, up, down, recent, history, heard, abandoned, counts>>

(* The publish on the cluster channel, then the receipt and the ack that   *)
(* end onMessage.                                                          *)
Confirm(k) ==
  /\ At(k, "stored")
  /\ down' = Sent(k, Done(handler[k].msg))
  /\ handler' = [handler EXCEPT ![k] = Idle]
  /\ UNCHANGED <<clientVars, node, up, recent, history, heard, saved, unsaved, abandoned, counts>>

(* The rate window slides past what the socket sent; it matters only while *)
(* another frame waits.                                                    *)
WindowPasses(k) ==
  /\ recent[k] > 0 /\ up[k] # <<>>
  /\ recent' = [recent EXCEPT ![k] = 0]
  /\ UNCHANGED <<clientVars, node, up, down, handler, history, heard, saved, unsaved, abandoned, counts>>

(* Two minutes after it was recorded an id no longer counts.               *)
GuardForgets(n, m) ==
  /\ FaultsLeft
  /\ forgets' = forgets + 1
  /\ m \in history[n]
  /\ history' = [history EXCEPT ![n] = @ \ {m}]
  /\ UNCHANGED <<clientVars, node, up, down, handler, recent, heard, saved, unsaved, abandoned,
                 breaks, crashes>>

(* A node dies with its sockets, handlers and guard, and comes back.       *)
Crash(n) ==
  LET here == {k \in Sockets : node[k] = n}
  IN /\ FaultsLeft
     /\ crashes' = crashes + 1
     /\ history' = [history EXCEPT ![n] = {}]
     /\ abandoned' = abandoned \union {handler[k].msg : k \in {h \in here : BeforeSave(h)}}
     /\ handler' = [k \in Sockets |-> IF k \in here THEN Idle ELSE handler[k]]
     /\ up' = [k \in Sockets |-> IF k \in here THEN <<>> ELSE up[k]]
     /\ down' = [k \in Sockets |-> IF k \in here THEN <<>> ELSE down[k]]
     /\ IF link = "open" /\ conn \in here THEN Reconnect ELSE UNCHANGED <<link, attempts>>
     /\ UNCHANGED <<written, queue, overflown, confirmed, refused, conn, node,
                    recent, heard, saved, unsaved, breaks, forgets>>

Serve(k) == Read(k) \/ BroadcastLocal(k) \/ SaveMessage(k) \/ Confirm(k)

Next == \/ Send \/ OpenFails \/ Break \/ Receive
        \/ \E n \in Nodes : Open(n) \/ Crash(n)
        \/ \E k \in Sockets : \/ Read(k) \/ BroadcastLocal(k) \/ SaveMessage(k)
                              \/ Confirm(k) \/ WindowPasses(k)
        \/ \E n \in Nodes, m \in Msgs : GuardForgets(n, m)

Spec == Init /\ [][Next]_vars

(* Goroutines run, frames on an open socket arrive, and the client's       *)
(* reconnect timer fires; nothing makes a network failure happen.          *)
FairSpec == /\ Spec
            /\ WF_vars(Receive)
            /\ WF_vars(\E n \in Nodes : Open(n))
            /\ \A k \in Sockets : WF_vars(Serve(k))

-----------------------------------------------------------------------------
(* A message leaves the browser's queue only if the queue overflowed, the  *)
(* server refused it over its rate limit, or a handler has it or had it:   *)
(* reconnects, resends, lost frames and lost acks lose nothing.            *)
NothingVanishes ==
  \A m \in 1..written :
    \/ Queued(m)
    \/ m \in overflown \union refused \union saved \union unsaved \union abandoned
    \/ InHand(m)

(* The guard's promise (client.go:357): a node does not broadcast a message *)
(* again that it processed before, however often the client resends it,    *)
(* unless the node crashed or two minutes passed in between.               *)
BroadcastOnce ==
  \A n \in Nodes, m \in Msgs : heard[n][m] <= 1 + crashes + forgets

(* "sent" means received and stored (MESSAGING_CHAT.md, receipts): a       *)
(* message the client was told is sent is stored or about to be, except    *)
(* that a handler's failed save, or its death before the save, is hidden   *)
(* from the client: the failure is only logged (hub.go:946), and the guard *)
(* confirms a resend of what was recorded and never saved (client.go:360). *)
ConfirmedIsSaved ==
  \A m \in confirmed : m \in saved \union unsaved \union abandoned \/ InHand(m)

(* Every message the user writes ends up stored or confirmed, unless its   *)
(* save failed, the server refused it, the queue overflowed or the client  *)
(* gave up reconnecting.                                                   *)
EventuallySettled ==
  \A m \in Msgs : written >= m ~>
    (\/ m \in saved \union confirmed \union unsaved \union refused \union overflown
     \/ link = "stopped")
=============================================================================
