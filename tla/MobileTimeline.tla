---------------------------- MODULE MobileTimeline ----------------------------
(***************************************************************************)
(* One conversation on the phone: the list MessageContext shows            *)
(* (mobile/src/context/MessageContext.tsx), its copy in SQLite             *)
(* (services/sqliteStorage.ts), the optimistic changes of ChatScreen.tsx,  *)
(* and the hub's frames about it: messages broadcast before they are       *)
(* saved, the history a join returns, receipts, edits and deletions.       *)
(*                                                                         *)
(* The user has this one connection.  A handler that needs the room's key  *)
(* waits for it (held), and the key is always found in the end.  Writes to *)
(* SQLite take effect in the order they are asked for.  Of a message the   *)
(* model keeps whether its text is the first, the edited one or the        *)
(* placeholder of an erased one, the erased flag, and, of one's own, the   *)
(* status.                                                                 *)
(***************************************************************************)
EXTENDS Naturals, Sequences, FiniteSets, Functions

CONSTANTS Written, Coming, \* the messages of the user and of the peer, in order
          HistoryLimit,    \* rows of a history (50)
          Encrypted,       \* the room has a key that must be fetched first
          TimelineBudgets  \* bound: how often each kind of event may happen

Mine == Range(Written)
Theirs == Range(Coming)
Messages == Mine \union Theirs
TimelineEvents == {"write", "peer", "change", "receipt", "break", "restart", "fault", "request"}

ASSUME TimelineAssumption ==
  /\ Written \in Seq(Mine) /\ Coming \in Seq(Theirs) /\ IsInjective(Written \o Coming)
  /\ HistoryLimit \in Nat \ {0}
  /\ Encrypted \in BOOLEAN
  /\ TimelineBudgets \subseteq [TimelineEvents -> Nat]

VARIABLES
  order,     \* the messages in the order of their timestamps
  row,       \* messages table: the stored messages
  hidden,    \* deleted_for_users: messages the user deleted for himself
  saving,    \* the peer's messages broadcast and not saved yet
  inRoom,    \* Hub.rooms has the connection
  joining,   \* the history onJoin has read and not sent, or the step before
  open,      \* the phone's socket is open
  toServer, toPhone,
  keyed,     \* roomKeysCacheRef has the room's key
  held,      \* frames whose handler waits for the key
  shown,     \* messagesByRoom[roomId]
  disk,      \* local_messages of the room
  queue,     \* persistQueueRef: changes to write in 300 ms
  request,   \* the REST call under way
  excuse,    \* messages the phone may show wrongly, by cause
  timelineLeft \* what is left of the bounds

phone == <<shown, disk, queue>>
network == <<open, toServer, toPhone>>
server == <<order, row, hidden, saving, inRoom, joining>>
timelineVars == <<server, network, keyed, held, phone, request, excuse, timelineLeft>>

Empty == [m \in {} |-> 0]
(* Both lists, f where they have the same message; and a list of one.      *)
Over(f, g) == [m \in DOMAIN f \union DOMAIN g |-> IF m \in DOMAIN f THEN f[m] ELSE g[m]]
One(m, e) == [n \in {m} |-> e]
Without(f, S) == Restrict(f, DOMAIN f \ S)
Entry(text, erased, status) == [text |-> text, erased |-> erased, status |-> status]
NoRequest == [kind |-> "none"]

TimelineInit ==
  /\ order = <<>> /\ row = Empty /\ hidden = {} /\ saving = {}
  /\ inRoom = FALSE /\ joining = [step |-> "no"]
  /\ open = FALSE /\ toServer = <<>> /\ toPhone = <<>>
  /\ keyed = ~Encrypted /\ held = {}
  /\ shown = Empty /\ disk = Empty /\ queue = Empty
  /\ request = NoRequest
  /\ excuse = [lost |-> {}, text |-> {}, erased |-> {}, status |-> {}, back |-> {}]
  /\ timelineLeft \in TimelineBudgets

May(e) == timelineLeft[e] > 0
SpendOne(e) == May(e) /\ timelineLeft' = [timelineLeft EXCEPT ![e] = @ - 1]

(* m is the first of the list that was not written yet.                    *)
IsNext(m, list) == \E i \in DOMAIN list : /\ list[i] = m /\ m \notin Range(order)
                                          /\ \A j \in 1 .. i - 1 : list[j] \in Range(order)

Rank(s) == CASE s = "read" -> 3 [] s = "delivered" -> 2 [] s = "sent" -> 1 [] OTHER -> 0
Stored(m) == IF m \in DOMAIN row THEN Rank(row[m].status) ELSE 0
Unlike(m, field) ==
  m \in DOMAIN shown' /\ m \in DOMAIN row' => shown'[m][field] # row'[m][field]

(* A cause excuses a message for as long as the difference lasts.          *)
Excuse(new) ==
  LET all(cause) == excuse[cause] \union (IF cause \in DOMAIN new THEN new[cause] ELSE {})
  IN excuse' = [lost |-> all("lost") \ DOMAIN shown',
                text |-> {m \in all("text") : Unlike(m, "text")},
                erased |-> {m \in all("erased") : Unlike(m, "erased")},
                status |-> {m \in all("status") : Unlike(m, "status")},
                back |-> all("back") \intersect (DOMAIN shown' \union DOMAIN disk')]
NoExcuse == Excuse(<<>>)
--------------------------------------------------------------------------------
(* The phone's list and its copy on disk.                                  *)

Before(m, n) == \E i, j \in DOMAIN order : i < j /\ order[i] = m /\ order[j] = n

(* Mutant: pages loaded earlier are dropped. *)
BesideUnsent(list, window) ==
  {m \in DOMAIN list \ DOMAIN window : list[m].status = "sending"}
(* Mutant: unconfirmed messages are dropped. *)
BesideOlder(list, window) ==
  {m \in DOMAIN list \ DOMAIN window :
      DOMAIN window # {} /\ \A w \in DOMAIN window : Before(m, w)}
(* mergeHistoryWindow, less the window itself: what is kept beside it.     *)
Beside(list, window) ==
  {m \in DOMAIN list \ DOMAIN window :
      \/ list[m].status = "sending"
      \/ DOMAIN window # {} /\ \A w \in DOMAIN window : Before(m, w)}

(* Mutant: the server's text replaces the one shown. *)
MappedAnew(m, r) == r
(* The entry a row of the history becomes: the text already shown stays.   *)
Mapped(m, r) == IF m \in DOMAIN shown THEN [r EXCEPT !.text = shown[m].text] ELSE r

(* Mutant: a change of a dropped message is still written. *)
AllPending(window) == queue
(* The changes still to be written, after a history: those it keeps.       *)
StillPending(window) ==
  Restrict(queue, DOMAIN queue \intersect (DOMAIN window \union Beside(queue, window)))

Reconcile(rows) ==
  LET window == [m \in DOMAIN rows |-> Mapped(m, rows[m])]
      merged == Over(window, Restrict(shown, Beside(shown, window)))
  IN /\ shown' = merged
     /\ disk' = Over(merged, Restrict(disk, Beside(disk, window)))
     /\ queue' = StillPending(window)

QueuePersist(changed) ==
  queue' = Over(Restrict(changed, {m \in DOMAIN changed : changed[m].status # "sending"}), queue)

AppendMessage(m) ==
  LET new == Entry("first", FALSE, "delivered")
  IN /\ shown' = Over(shown, One(m, new))
     /\ disk' = Over(One(m, new), disk)
     /\ UNCHANGED queue

(* updateMessage: entries of shown, changed and written a little later.    *)
Update(changed) ==
  /\ shown' = Over(changed, shown)
  /\ QueuePersist(changed)
  /\ UNCHANGED disk

RemoveMessage(m) ==
  /\ shown' = Without(shown, {m})
  /\ queue' = Without(queue, {m})
  /\ disk' = Without(disk, {m})

Changed(m, entry) == IF m \in DOMAIN shown THEN One(m, entry) ELSE Empty
Reword(e) == [e EXCEPT !.text = "second"]
(* Mutant: only the text is replaced. *)
BlankText(e) == [e EXCEPT !.text = "gone"]
Blank(e) == [e EXCEPT !.text = "gone", !.erased = TRUE]

--------------------------------------------------------------------------------
(* The user writes.                                                        *)

(* Mutant: the message counts as sent from the start. *)
FirstSent == "sent"
(* The entry handleSendMessage leaves once the socket took the message.    *)
FirstStatus == "sending"

(* WebSocketClient.send takes what the open socket takes.                  *)
HandOver(m) ==
  toServer' = IF open THEN Append(toServer, [kind |-> "message", id |-> m]) ELSE toServer

(* handleSendMessage, after any upload.                                    *)
Send(m) ==
  /\ IsNext(m, Written) /\ SpendOne("write")
  /\ order' = Append(order, m) /\ HandOver(m)
  /\ shown' = Over(shown, One(m, Entry("first", FALSE, IF open THEN FirstStatus ELSE "failed")))
  /\ UNCHANGED <<row, hidden, saving, inRoom, joining, open, toPhone, keyed, held, disk, queue, request, excuse>>

(* handleSendAudio shows the message, uploads, and takes what it handed to *)
(* the socket for sent.                                                    *)
SendAudio(m) ==
  /\ request = NoRequest /\ IsNext(m, Written) /\ SpendOne("write")
  /\ order' = Append(order, m)
  /\ shown' = Over(shown, One(m, Entry("first", FALSE, "sending")))
  /\ request' = [kind |-> "audio", id |-> m]
  /\ UNCHANGED <<row, hidden, saving, inRoom, joining, network, keyed, held, disk, queue, excuse>>

AudioUploaded(fails) ==
  LET m == request.id
      status == IF open /\ ~fails THEN "sent" ELSE "failed"
  IN /\ request.kind = "audio" /\ request' = NoRequest
     /\ IF fails THEN SpendOne("fault") /\ UNCHANGED toServer ELSE HandOver(m) /\ UNCHANGED timelineLeft
     /\ shown' = Over(Changed(m, [shown[m] EXCEPT !.status = status]), shown)
     /\ UNCHANGED <<server, open, toPhone, keyed, held, disk, queue>>
     /\ Excuse([status |-> IF status = "sent" THEN {m} ELSE {}])

(* handleDeleteMessage and handleSaveEdit: the list changes at once, and   *)
(* only deletions remember what it was.                                    *)
Ask(m, kind) ==
  /\ request = NoRequest /\ SpendOne("request")
  /\ m \in DOMAIN shown /\ ~shown[m].erased
  /\ kind \in {"erase", "edit"} => m \in Mine
  /\ request' = [kind |-> kind, id |-> m, step |-> "asked", before |-> shown]
  /\ shown' = CASE kind = "hide" -> Without(shown, {m})
                [] kind = "erase" -> Over(Changed(m, Blank(shown[m])), shown)
                [] kind = "edit" -> Over(Changed(m, Reword(shown[m])), shown)
  /\ UNCHANGED <<server, network, keyed, held, disk, queue>>
  /\ Excuse([text |-> IF kind = "edit" THEN {m} ELSE {}])

(* loadOlderMessages asks for what is before the first message shown.      *)
AskOlder ==
  LET older == {m \in DOMAIN row \ hidden : \A n \in DOMAIN shown : Before(m, n)}
  IN /\ request = NoRequest /\ DOMAIN shown # {} /\ older # {} /\ SpendOne("request")
     /\ request' = [kind |-> "older", rows |-> Restrict(row, older)]
     /\ UNCHANGED <<server, network, keyed, held, phone, excuse>>

OlderArrives ==
  /\ request.kind = "older" /\ request' = NoRequest
  /\ shown' = Over(shown, request.rows)
  /\ UNCHANGED <<server, network, keyed, held, disk, queue, timelineLeft>>
  /\ LET late == DOMAIN request.rows \ DOMAIN shown
     IN Excuse([text |-> late, erased |-> late, status |-> late, back |-> late \intersect hidden])

(* The answer to a deletion.  A failed one puts the whole list back.       *)
Answered(m) == IF request.kind = "hide" THEN RemoveMessage(m) ELSE Update(Changed(m, Blank(shown[m])))
PutBack ==
  /\ shown' = request.before
  /\ UNCHANGED <<disk, queue>>

DeleteAnswered ==
  /\ request.kind \in {"hide", "erase"} /\ request.step # "asked" /\ request' = NoRequest
  /\ IF request.step = "done" THEN Answered(request.id) ELSE PutBack
  /\ UNCHANGED <<server, network, keyed, held, timelineLeft>>
  /\ IF request.step = "done" THEN NoExcuse
     ELSE LET was == DOMAIN request.before
          IN Excuse([lost |-> DOMAIN shown \ was, text |-> was, erased |-> was, status |-> was,
                     back |-> was \intersect hidden])
--------------------------------------------------------------------------------
(* The server.  A frame for the room reaches the phone while its           *)
(* connection is in the room; one about a change that does not is missed.  *)

Wiped(r) == [r EXCEPT !.text = "gone", !.erased = TRUE]
Reaches(frame) == toPhone' = IF inRoom THEN Append(toPhone, frame) ELSE toPhone

(* onJoin: join the room, read the history, send it.                       *)
Join ==
  /\ toServer # <<>> /\ Head(toServer).kind = "join" /\ joining.step = "no"
  /\ toServer' = Tail(toServer)
  /\ inRoom' = TRUE /\ joining' = [step |-> "joined"]
  /\ UNCHANGED <<order, row, hidden, saving, open, toPhone, keyed, held, phone, request, excuse, timelineLeft>>

(* GetRoomHistoryForUser: the last rows, less those deleted for the user.  *)
Latest == {m \in DOMAIN row : Cardinality({n \in DOMAIN row : Before(m, n)}) < HistoryLimit}

(* A failure to read is answered with an empty history.                    *)
ReadHistory(fails) ==
  /\ joining.step = "joined"
  /\ IF fails THEN SpendOne("fault") ELSE UNCHANGED timelineLeft
  /\ joining' = [step |-> "read", saved |-> IF fails THEN {} ELSE DOMAIN row,
                 rows |-> IF fails THEN Empty ELSE Restrict(row, Latest \ hidden)]
  /\ UNCHANGED <<order, row, hidden, saving, inRoom, network, keyed, held, phone, request>>
  /\ Excuse([lost |-> saving \union (IF fails THEN DOMAIN row ELSE {})])

SendHistory ==
  /\ joining.step = "read" /\ joining' = [step |-> "no"]
  /\ toPhone' = Append(toPhone, [kind |-> "history", rows |-> joining.rows, saved |-> joining.saved])
  /\ UNCHANGED <<order, row, hidden, saving, inRoom, open, toServer, keyed, held, phone, request, excuse, timelineLeft>>

(* onMessage: saved and confirmed by a receipt and an ack; or rejected, or *)
(* not saved for an error that is only logged.                             *)
Take(outcome, status) ==
  LET m == Head(toServer).id
      receipt == [kind |-> "receipt", req |-> {m}, status |-> status]
      ack == [kind |-> "ack", id |-> m]
  IN /\ toServer # <<>> /\ Head(toServer).kind = "message" /\ joining.step = "no"
     /\ toServer' = Tail(toServer)
     /\ IF outcome = "saved" THEN UNCHANGED timelineLeft ELSE SpendOne("fault")
     /\ row' = IF outcome = "saved" THEN Over(row, One(m, Entry("first", FALSE, status))) ELSE row
     /\ toPhone' = toPhone \o (IF outcome = "rejected" THEN <<ack>> ELSE <<receipt, ack>>)
     /\ UNCHANGED <<order, hidden, saving, inRoom, joining, open, keyed, held, phone, request>>
     /\ NoExcuse

(* The peer's message is broadcast, then saved.                            *)
PeerSends(m) ==
  /\ IsNext(m, Coming) /\ SpendOne("peer")
  /\ order' = Append(order, m) /\ saving' = saving \union {m}
  /\ Reaches([kind |-> "message", id |-> m])
  /\ UNCHANGED <<row, hidden, inRoom, joining, open, toServer, keyed, held, phone, request, excuse>>

PeerSaved(m) ==
  /\ m \in saving /\ saving' = saving \ {m}
  /\ row' = Over(row, One(m, Entry("first", FALSE, "delivered")))
  /\ UNCHANGED <<order, hidden, inRoom, joining, network, keyed, held, phone, request, excuse, timelineLeft>>

(* EditMessage and DeleteMessage: the row changes and the room is told.    *)
ChangeRow(m, kind) ==
  /\ m \in DOMAIN row /\ ~row[m].erased
  /\ kind = "edit" => row[m].text = "first"
  /\ row' = [row EXCEPT ![m] = IF kind = "edit" THEN Reword(@) ELSE Wiped(@)]
  /\ Reaches([kind |-> kind, id |-> m])
  /\ UNCHANGED phone
  /\ LET unheard == IF inRoom THEN {} ELSE {m} IN Excuse([text |-> unheard, erased |-> unheard])

PeerChanges(m, kind) ==
  /\ m \in Theirs /\ SpendOne("change")
  /\ ChangeRow(m, kind)
  /\ UNCHANGED <<order, hidden, saving, inRoom, joining, open, toServer, keyed, held, request>>

(* The user's own request, whose answer may be lost.                       *)
Finish(answer) ==
  request' = IF request.kind = "edit" THEN NoRequest ELSE [request EXCEPT !.step = answer]

Asked == request.kind \in {"hide", "erase", "edit"} /\ request.step = "asked"
Grantable == request.id \in DOMAIN row /\ ~row[request.id].erased

Serve(answer) ==
  /\ Asked /\ Grantable /\ Finish(answer)
  /\ IF answer = "done" THEN UNCHANGED timelineLeft ELSE SpendOne("fault")
  /\ IF request.kind = "hide"
     THEN hidden' = hidden \union {request.id} /\ UNCHANGED <<row, toPhone, phone, excuse>>
     ELSE ChangeRow(request.id, request.kind) /\ UNCHANGED hidden
  /\ UNCHANGED <<order, saving, inRoom, joining, open, toServer, keyed, held>>

Refuse ==
  /\ Asked /\ Finish("failed")
  /\ IF Grantable THEN SpendOne("fault") ELSE UNCHANGED timelineLeft
  /\ UNCHANGED <<server, network, keyed, held, phone, excuse>>

(* The peer opens the room, connects, or sends a receipt for one message:  *)
(* the rows change and the room hears a receipt without a request.         *)
PeerReceipt(S, status) ==
  LET marked == {m \in S \intersect DOMAIN row : Stored(m) < Rank(status)}
  IN /\ S \subseteq Mine /\ S \intersect DOMAIN row # {} /\ SpendOne("receipt")
     /\ row' = [m \in DOMAIN row |-> IF m \in marked THEN [row[m] EXCEPT !.status = status] ELSE row[m]]
     /\ Reaches([kind |-> "receipt", req |-> {}, status |-> status])
     /\ UNCHANGED <<order, hidden, saving, inRoom, joining, open, toServer, keyed, held, phone, request>>
     /\ Excuse([status |-> IF inRoom THEN {} ELSE marked])
--------------------------------------------------------------------------------
(* The phone's listeners.                                                  *)

(* A receipt with a request's id confirms that message, and, like any      *)
(* other "delivered" or "read", is taken for all the user's messages.      *)
Receipted(frame) ==
  [m \in {n \in DOMAIN shown \intersect Mine : /\ n \in frame.req \/ frame.status # "sent"
                                               /\ shown[n].status # frame.status}
     |-> [shown[m] EXCEPT !.status = frame.status]]

(* The ack listener does not look at the ack's status.                     *)
Acked(m) == Changed(m, [shown[m] EXCEPT !.status = "sent"])

(* What waited for the key may have been overtaken.                        *)
Late(m) == IF held' = held THEN {} ELSE {m}

OnMessage(frame) ==
  /\ AppendMessage(frame.id)
  /\ UNCHANGED <<server, request>>
  /\ Excuse([text |-> Late(frame.id), erased |-> Late(frame.id), back |-> {frame.id} \intersect hidden])

OnEdited(frame) ==
  /\ Update(Changed(frame.id, Reword(shown[frame.id])))
  /\ UNCHANGED <<server, request>>
  /\ Excuse([text |-> Late(frame.id) \union ({frame.id} \ DOMAIN shown)])

OnDeleted(frame) ==
  /\ Update(Changed(frame.id, Blank(shown[frame.id])))
  /\ UNCHANGED <<server, request>>
  /\ Excuse([text |-> {frame.id} \ DOMAIN shown, erased |-> {frame.id} \ DOMAIN shown])

OnReceipt(frame) ==
  /\ Update(Receipted(frame))
  /\ UNCHANGED <<server, request>>
  /\ Excuse([status |-> DOMAIN Receipted(frame) \ (frame.req \intersect DOMAIN row)])

OnAck(frame) ==
  /\ Update(Acked(frame.id))
  /\ UNCHANGED <<server, request>>
  /\ Excuse([status |-> {frame.id}])

(* A history that is empty drops everything but what is being sent; one    *)
(* that is older than what the phone heard drops that.                     *)
OnHistory(frame) ==
  /\ Reconcile(frame.rows)
  /\ UNCHANGED <<server, request>>
  /\ LET dropped == {m \in DOMAIN shown \ DOMAIN shown' : shown[m].status # "sending"}
         rows == DOMAIN frame.rows
     IN Excuse([lost |-> IF rows = {} THEN dropped ELSE dropped \ frame.saved,
                text |-> rows \ DOMAIN shown,
                erased |-> {m \in rows : ~frame.rows[m].erased},
                status |-> rows, back |-> rows \intersect hidden])

(* What a listener does with a frame, now or once it has the key.          *)
Handle(frame) ==
  CASE frame.kind = "history" -> OnHistory(frame)
    [] frame.kind = "message" -> OnMessage(frame)
    [] frame.kind = "edit" -> OnEdited(frame)
    [] frame.kind = "erase" -> OnDeleted(frame)
    [] frame.kind = "receipt" -> OnReceipt(frame)
    [] frame.kind = "ack" -> OnAck(frame)

NeedsKey(frame) == frame.kind \in {"history", "message", "edit"}

Receive ==
  /\ toPhone # <<>> /\ toPhone' = Tail(toPhone)
  /\ UNCHANGED <<open, toServer, keyed, timelineLeft>>
  /\ IF NeedsKey(Head(toPhone)) /\ ~keyed
     THEN held' = held \union {Head(toPhone)} /\ UNCHANGED <<server, phone, request, excuse>>
     ELSE UNCHANGED held /\ Handle(Head(toPhone))

(* getRoomAESKey returns; the waiting handlers go on in any order.         *)
GoOn(frame) ==
  /\ frame \in held /\ held' = held \ {frame} /\ keyed' = TRUE
  /\ UNCHANGED <<network, timelineLeft>>
  /\ Handle(frame)

(* The debounced write of the changes; a message on its way is not in it.  *)
Flush == /\ queue # Empty
         /\ disk' = Over(queue, disk) /\ queue' = Empty
         /\ UNCHANGED <<server, network, keyed, held, shown, request, excuse, timelineLeft>>
--------------------------------------------------------------------------------
(* The connection and the app.                                             *)

(* Mutant: only the first connection joins. *)
JoinOnce == IF order = <<>> THEN <<[kind |-> "join"]>> ELSE <<>>
(* On every "connected" ChatScreen joins the room again.                   *)
Rejoin == <<[kind |-> "join"]>>

SocketOpens ==
  /\ ~open /\ open' = TRUE
  /\ toServer' = Rejoin
  /\ UNCHANGED <<server, toPhone, keyed, held, phone, request, excuse, timelineLeft>>

(* What is on its way is lost, both ways.                                  *)
Cut ==
  /\ open' = FALSE /\ toServer' = <<>> /\ toPhone' = <<>>
  /\ inRoom' = FALSE /\ joining' = [step |-> "no"]
  /\ UNCHANGED <<order, row, hidden, saving>>

Unheard(kinds) == {m \in Messages : \E i \in DOMAIN toPhone : toPhone[i].kind \in kinds
                                                              /\ toPhone[i].id = m}
UnheardReceipts == IF \E i \in DOMAIN toPhone : toPhone[i].kind = "receipt" THEN Mine ELSE {}

Break ==
  /\ open /\ SpendOne("break") /\ Cut
  /\ UNCHANGED <<keyed, held, phone, request>>
  /\ Excuse([text |-> Unheard({"edit", "erase"}), erased |-> Unheard({"erase"}), status |-> UnheardReceipts])

(* The app is stopped and opened again on what is on disk.                 *)
StartAgain ==
  /\ SpendOne("restart") /\ Cut
  /\ shown' = disk /\ queue' = Empty /\ UNCHANGED disk
  /\ keyed' = ~Encrypted /\ held' = {} /\ request' = NoRequest
  /\ LET behind == {m \in DOMAIN disk : m \in DOMAIN shown => disk[m] # shown[m]}
         waiting == {f.id : f \in {g \in held : g.kind = "edit"}}
         asked == IF request.kind = "erase" THEN {request.id} ELSE {}
     IN Excuse([text |-> behind \union waiting \union asked \union Unheard({"edit", "erase"}),
                erased |-> behind \union asked \union Unheard({"erase"}),
                status |-> behind \union UnheardReceipts, back |-> DOMAIN disk \intersect hidden])
--------------------------------------------------------------------------------
Phone == \/ \E m \in Mine : Send(m) \/ SendAudio(m)
         \/ \E fails \in BOOLEAN : AudioUploaded(fails)
         \/ \E m \in Messages, kind \in {"hide", "erase", "edit"} : Ask(m, kind)
         \/ AskOlder \/ OlderArrives \/ DeleteAnswered
         \/ Receive \/ Flush
         \/ \E frame \in held : GoOn(frame)
         \/ SocketOpens \/ Break \/ StartAgain

Server == \/ Join \/ SendHistory
          \/ \E fails \in BOOLEAN : ReadHistory(fails)
          \/ \E outcome \in {"saved", "unsaved"}, status \in {"sent", "delivered"} : Take(outcome, status)
          \/ Take("rejected", "sent")
          \/ \E answer \in {"done", "failed"} : Serve(answer)
          \/ Refuse

Peer == \/ \E m \in Theirs : PeerSends(m) \/ PeerSaved(m)
        \/ \E m \in Theirs, kind \in {"erase", "edit"} : PeerChanges(m, kind)
        \/ \E status \in {"delivered", "read"} :
             \/ PeerReceipt(Mine, status)
             \/ \E m \in Mine : PeerReceipt({m}, status)

TimelineNext == Phone \/ Server \/ Peer

TimelineSpec == TimelineInit /\ [][TimelineNext]_timelineVars

(* The event loop handles what has arrived, timers fire, keys are found,   *)
(* and the server answers what reaches it.                                 *)
Progress == \/ Receive \/ Flush \/ AudioUploaded(FALSE) \/ OlderArrives \/ DeleteAnswered \/ SocketOpens
            \/ \E frame \in held : GoOn(frame)
            \/ Server
            \/ \E m \in Theirs : PeerSaved(m)
FairTimeline == TimelineSpec /\ WF_timelineVars(Progress)
--------------------------------------------------------------------------------
(* Nothing is under way between the phone and the server.                  *)
Settled == /\ open /\ inRoom /\ joining.step = "no"
           /\ toServer = <<>> /\ toPhone = <<>> /\ held = {}
           /\ request = NoRequest /\ saving = {}

(* Once all is quiet every message of the latest history is on the screen, *)
(* except those a history that was read too early, or could not be read,   *)
(* took off it, and those a failed deletion took back with it.             *)
Complete == Settled => Latest \ hidden \subseteq DOMAIN shown \union excuse.lost

(* The frames whose listener ran in this step.                             *)
Handled == (held \ held') \union (IF held = held' /\ open' THEN Range(toPhone) \ Range(toPhone') ELSE {})

(* A history takes nothing off the screen that the server had when it was  *)
(* read and that the user did not delete, unless the history was empty.    *)
HistoryKeepsStored ==
  [][timelineLeft' = timelineLeft => \A frame \in Handled :
       frame.kind = "history" /\ DOMAIN frame.rows # {}
         => frame.saved \intersect DOMAIN shown \subseteq DOMAIN shown' \union hidden]_timelineVars

(* Once all is quiet a message reads as the server has it, except when the *)
(* phone did not hear of the edit, when its own edit or deletion failed,   *)
(* or when what it heard was overtaken while waiting for the key.          *)
TextIsCurrent ==
  Settled => \A m \in DOMAIN shown \intersect DOMAIN row :
               shown[m].text = row[m].text \/ m \in excuse.text

(* ... and a message erased for everyone is shown as erased.               *)
ErasureIsShown ==
  Settled => \A m \in DOMAIN shown \intersect DOMAIN row :
               shown[m].erased = row[m].erased \/ m \in excuse.erased

(* ... and one's own message has the status the server has, none if it is  *)
(* not there, except after an ack, a receipt for another message or for    *)
(* one that was not saved, a voice message handed to the socket, or a      *)
(* receipt that was missed or lost.                                        *)
StatusIsCurrent ==
  Settled => \A m \in DOMAIN shown \intersect Mine :
               \/ m \in excuse.status
               \/ IF m \in DOMAIN row THEN shown[m].status = row[m].status
                                      ELSE Rank(shown[m].status) = 0

(* Once all is quiet the phone shows what the server has: all of the latest *)
(* history, with its texts, erasures and statuses, but for those races.    *)
ShownIsCurrent == Complete /\ TextIsCurrent /\ ErasureIsShown /\ StatusIsCurrent

(* What left the screen does not stay on disk: a change that was waiting   *)
(* to be written does not bring it back, and what the user deleted for     *)
(* himself is in neither place, except by an answer older than the         *)
(* deletion or a deletion whose answer was lost.                           *)
DiscardedStaysAway ==
  Settled /\ queue = Empty =>
    /\ DOMAIN disk \subseteq DOMAIN shown \union excuse.lost \union hidden
    /\ (DOMAIN disk \union DOMAIN shown) \intersect hidden \subseteq excuse.back

(* In the end everything is quiet for good, every change is on disk and    *)
(* the latest messages are on the screen, save those named above: after a  *)
(* broken connection too, and whatever waited for the key.                 *)
EverythingSettles ==
  <>[](Settled /\ queue = Empty /\ Latest \ hidden \subseteq DOMAIN shown \union excuse.lost)
================================================================================
