---------------------------- MODULE Messages_proofs ----------------------------
(*****************************************************************************)
(* Messages, for any users, rooms and conversations, any limit of pins and   *)
(* any length of queue: the row of one message under overlapping requests,   *)
(* its receipts, the pins of one conversation, and the receipts and          *)
(* reactions a browser client sends again.                                   *)
(*****************************************************************************)
EXTENDS MessageRow, MessageStatus, PinnedMessages, DurableFrames, FiniteSetTheorems,
        SequenceTheorems, TLAPS

(* The row of one message, under any number of overlapping requests.       *)
RowShape == [text : {"original", "edited", "placeholder"}, media : BOOLEAN, deleted : BOOLEAN,
             hidden : SUBSET Members, reacted : SUBSET Members]

(* A request in progress; an edit found the message there.                 *)
RowReqs == {Idle} \union [op : {"edit"}, user : Members, seen : [deleted : {FALSE}]]
               \union [op : {"erase"}, user : Members, seen : [deleted : BOOLEAN]]
               \union [op : {"hide"}, user : Members, seen : [hidden : SUBSET Members]]
               \union [op : {"react"}, user : Members, seen : [reacted : SUBSET Members]]

RowTypeOK == /\ row \in RowShape
          /\ req \in [Requests -> RowReqs]
          /\ hiders \subseteq Members /\ reactors \subseteq Members

(* The inductive invariant.                                                *)
RowInv == RowTypeOK /\ RowAsRequested

LEMMA RowStarts == RowInit => RowInv
  BY DEF RowInit, RowInv, RowTypeOK, RowShape, RowReqs, RowAsRequested, DeletedIsPlaceholder,
         HiddenStaysHidden, ReactionsAreTheUsers

LEMMA BeginStep ==
  ASSUME RowInv, NEW p \in Requests, NEW op \in Ops, NEW u \in Members, Begin(p, op, u)
  PROVE RowInv'
<1> DEFINE r == [op |-> op, user |-> u, seen |-> Column(op)]
<1>1. row.hidden \subseteq Members /\ row.reacted \subseteq Members /\ row.deleted \in BOOLEAN
  BY DEF RowInv, RowTypeOK, RowShape
<1>2. r \in RowReqs
  <2>1. CASE op = "edit"
    <3>1. row.deleted = FALSE
      BY <1>1, <2>1 DEF Begin, Allowed
    <3> QED BY <2>1, <3>1 DEF RowReqs, Column
  <2>2. CASE op = "erase"
    BY <1>1, <2>2 DEF RowReqs, Column
  <2>3. CASE op = "hide"
    BY <1>1, <2>3 DEF RowReqs, Column
  <2>4. CASE op = "react"
    BY <1>1, <2>4 DEF RowReqs, Column
  <2> QED BY <2>1, <2>2, <2>3, <2>4 DEF Ops
<1>3. req' = [req EXCEPT ![p] = r]
  BY DEF Begin
<1> HIDE DEF r
<1>4. req' \in [Requests -> RowReqs]
  BY <1>2, <1>3 DEF RowInv, RowTypeOK
<1>5. UNCHANGED <<row, hiders, reactors, lost>>
  BY DEF Begin
<1> QED BY <1>4, <1>5 DEF RowInv, RowTypeOK, RowAsRequested, DeletedIsPlaceholder,
                          HiddenStaysHidden, ReactionsAreTheUsers

(* Each UPDATE keeps what it does not touch, and what it touches is what   *)
(* it read unless the request was overtaken.                               *)
LEMMA FinishStep ==
  ASSUME RowInv, NEW p \in Requests, Finish(p)
  PROVE RowInv'
<1> DEFINE r == req[p]
<1>1. r \in RowReqs /\ r # Idle /\ row \in RowShape
  BY DEF RowInv, RowTypeOK, Finish
<1>2. lost \subseteq lost' /\ (Overtaken(r) => r.op \in lost')
  BY DEF Finish
<1>3. req' \in [Requests -> RowReqs]
  BY DEF Finish, RowInv, RowTypeOK, RowReqs
<1>4. CASE r.op = "edit" /\ row' = Edited(r) /\ UNCHANGED <<hiders, reactors>>
  <2>1. /\ row' \in RowShape /\ row'.media = row.media /\ row'.deleted = row.deleted
        /\ row'.hidden = row.hidden /\ row'.reacted = row.reacted
    BY <1>1, <1>4 DEF Edited, RowShape
  <2>2. r.seen = [deleted |-> FALSE]
    <3>1. r \in [op : {"edit"}, user : Members, seen : [deleted : {FALSE}]]
      BY <1>1, <1>4 DEF RowReqs, Idle
    <3> QED BY <3>1
  <2>3. row.deleted => "edit" \in lost'
    <3>1. ASSUME row.deleted PROVE Column("edit") # r.seen
      <4>1. Column("edit") = [deleted |-> row.deleted]
        BY DEF Column
      <4> QED BY <2>2, <3>1, <4>1
    <3> QED BY <1>2, <1>4, <3>1 DEF Overtaken
  <2> QED BY <1>2, <1>3, <1>4, <2>1, <2>3
          DEF RowInv, RowTypeOK, RowAsRequested, DeletedIsPlaceholder, HiddenStaysHidden,
              ReactionsAreTheUsers
<1>5. CASE r.op = "erase" /\ row' = Erased(r) /\ reactors' = {} /\ UNCHANGED hiders
  <2>1. /\ row' \in RowShape /\ row'.media = FALSE /\ row'.deleted = TRUE
        /\ row'.hidden = row.hidden /\ row'.reacted = {} /\ row'.text = "placeholder"
    BY <1>1, <1>5 DEF Erased, RowShape
  <2> QED BY <1>2, <1>3, <1>5, <2>1
          DEF RowInv, RowTypeOK, RowAsRequested, DeletedIsPlaceholder, HiddenStaysHidden,
              ReactionsAreTheUsers
<1>6. CASE r.op = "hide" /\ row' = HiddenFrom(r) /\ hiders' = hiders \union {r.user} /\ UNCHANGED reactors
  <2>1. r \in [op : {"hide"}, user : Members, seen : [hidden : SUBSET Members]]
    BY <1>1, <1>6 DEF RowReqs, Idle
  <2>2. /\ row' \in RowShape /\ row'.media = row.media /\ row'.deleted = row.deleted
        /\ row'.hidden = r.seen.hidden \union {r.user} /\ row'.reacted = row.reacted
        /\ row'.text = row.text
    BY <1>1, <1>6, <2>1 DEF HiddenFrom, RowShape
  <2>3. r.seen.hidden = row.hidden \/ "hide" \in lost'
    <3>1. Column("hide") = [hidden |-> row.hidden]
      BY DEF Column
    <3> QED BY <1>2, <1>6, <3>1 DEF Overtaken
  <2>4. HiddenStaysHidden'
    BY <1>2, <1>6, <2>2, <2>3 DEF RowInv, RowAsRequested, HiddenStaysHidden
  <2> QED BY <1>2, <1>3, <1>6, <2>1, <2>2, <2>4
          DEF RowInv, RowTypeOK, RowAsRequested, DeletedIsPlaceholder, ReactionsAreTheUsers
<1>7. CASE r.op = "react" /\ row' = Reacted(r) /\ reactors' = Toggled(reactors, r.user) /\ UNCHANGED hiders
  <2>1. r \in [op : {"react"}, user : Members, seen : [reacted : SUBSET Members]]
    BY <1>1, <1>7 DEF RowReqs, Idle
  <2>2. Toggled(r.seen.reacted, r.user) \subseteq Members /\ Toggled(reactors, r.user) \subseteq Members
    BY <2>1 DEF RowInv, RowTypeOK, Toggled
  <2>3. /\ row' \in RowShape /\ row'.media = row.media /\ row'.deleted = row.deleted
        /\ row'.reacted = Toggled(r.seen.reacted, r.user) /\ row'.hidden = row.hidden
        /\ row'.text = row.text
    BY <1>1, <1>7, <2>2 DEF Reacted, RowShape
  <2>4. r.seen.reacted = row.reacted \/ "react" \in lost'
    <3>1. Column("react") = [reacted |-> row.reacted]
      BY DEF Column
    <3> QED BY <1>2, <1>7, <3>1 DEF Overtaken
  <2>5. ReactionsAreTheUsers'
    BY <1>2, <1>7, <2>3, <2>4 DEF RowInv, RowAsRequested, ReactionsAreTheUsers
  <2> QED BY <1>2, <1>3, <1>7, <2>2, <2>3, <2>5
          DEF RowInv, RowTypeOK, RowAsRequested, DeletedIsPlaceholder, HiddenStaysHidden
<1> QED BY <1>4, <1>5, <1>6, <1>7 DEF Finish

LEMMA RowGoesOn == RowInv /\ [RowNext]_rowVars => RowInv'
<1>1. ASSUME RowInv, UNCHANGED <<row, req, hiders, reactors, lost>> PROVE RowInv'
  BY <1>1 DEF RowInv, RowTypeOK, RowAsRequested, DeletedIsPlaceholder, HiddenStaysHidden,
              ReactionsAreTheUsers
<1>2. TimePasses \/ UNCHANGED rowVars => UNCHANGED <<row, req, hiders, reactors, lost>>
  BY DEF TimePasses, rowVars
<1> QED BY <1>1, <1>2, BeginStep, FinishStep DEF RowNext

(* The row shows what the requests made of it: an erased message is gone,  *)
(* a hidden one hidden, the reactions are the users', but for the three    *)
(* overlaps that the store's statements allow.                             *)
THEOREM RowFollowsRequests == RowSpec => []RowAsRequested
<1>1. RowSpec => []RowInv
  BY RowStarts, RowGoesOn, PTL DEF RowSpec
<1> QED BY <1>1, PTL DEF RowInv

-------------------------------------------------------------------------------
(* Receipts.                                                               *)
StatusTypeOK ==
  /\ status \in [Msgs -> Statuses]
  /\ sending \in [Msgs -> {"new", "sent", "delivered", "again", "stored"}]
  /\ opened \in [Msgs -> SUBSET Users]

(* The inductive invariant.                                                *)
StatusInv == StatusTypeOK /\ ReadMeansOpened

(* What every step does to a message: its status only goes forward, and it *)
(* becomes "read" only with somebody in opened.                            *)
GoesForward(m) ==
  /\ status'[m] \in Statuses /\ Rank[status'[m]] >= Rank[status[m]]
  /\ opened[m] \subseteq opened'[m] /\ opened'[m] \subseteq Users
  /\ status'[m] = "read" => status[m] = "read" \/ opened'[m] # {}

StatusRows == status' \in [Msgs -> Statuses] /\ opened' \in [Msgs -> SUBSET Users]
-------------------------------------------------------------------------------
LEMMA RanksAre ==
  /\ Rank["none"] = 0 /\ Rank["sent"] = 1 /\ Rank["delivered"] = 2 /\ Rank["read"] = 3
  BY DEF Rank, Statuses

(* The handler that stores a message: the row of a message that is there   *)
(* is left alone.                                                          *)
LEMMA SavingStep ==
  ASSUME StatusTypeOK, NEW m \in Msgs, NEW s \in {"sent", "delivered"},
         status' = SaveIfAbsent(m, s), UNCHANGED opened
  PROVE StatusRows /\ \A i \in Msgs : GoesForward(i)
<1>1. status[m] \in Statuses
  BY DEF StatusTypeOK
<1>2. ASSUME NEW i \in Msgs
      PROVE status'[i] = IF i = m /\ status[m] = "none" THEN s ELSE status[i]
  BY DEF StatusTypeOK, SaveIfAbsent
<1>3. StatusRows
  BY DEF StatusTypeOK, SaveIfAbsent, StatusRows, Statuses
<1> QED BY <1>2, <1>3, RanksAre DEF StatusTypeOK, GoesForward, Statuses

(* A receipt for a room, or for all rooms and then for one: whoever is not *)
(* the author of a message of the room is one of its readers.              *)
LEMMA RoomStep ==
  ASSUME StatusTypeOK, NEW u \in Users, NEW r \in MemberOf[u], NEW st \in {status, MarkedDelivered(u)},
         status' = MarkedRead(r, u, st), opened' = Seen(opened, u, {r})
  PROVE StatusRows /\ \A i \in Msgs : GoesForward(i)
<1>1. st \in [Msgs -> Statuses]
      /\ \A i \in Msgs : st[i] = status[i] \/ (status[i] = "sent" /\ st[i] = "delivered")
  BY DEF StatusTypeOK, MarkedDelivered, Statuses
<1>2. ASSUME NEW i \in Msgs
      PROVE status'[i] = IF st[i] # "none" /\ RoomOf[i] = r /\ AuthorOf[i] # u THEN "read" ELSE st[i]
  BY DEF MarkedRead
<1>3. ASSUME NEW i \in Msgs
      PROVE opened'[i] = IF status[i] # "none" /\ u \in Readers(i) /\ RoomOf[i] = r
                         THEN opened[i] \union {u} ELSE opened[i]
  BY DEF Seen
<1>4. StatusRows
  BY <1>1, <1>3 DEF StatusTypeOK, StatusRows, MarkedRead, Seen, Statuses
<1>5. ASSUME NEW i \in Msgs PROVE GoesForward(i)
  <2>1. status[i] \in Statuses /\ st[i] \in Statuses /\ status'[i] \in Statuses
    BY <1>1, <1>4 DEF StatusTypeOK, StatusRows
  <2>2. Rank[status'[i]] >= Rank[status[i]]
    BY <1>1, <1>2, <2>1, RanksAre DEF Statuses
  <2>3. opened[i] \subseteq opened'[i] /\ opened'[i] \subseteq Users
    BY <1>3 DEF StatusTypeOK
  <2>4. ASSUME status'[i] = "read", status[i] # "read" PROVE u \in opened'[i]
    <3>1. status[i] # "none" /\ RoomOf[i] = r /\ AuthorOf[i] # u
      BY <1>1, <1>2, <2>4
    <3>2. u \in Readers(i)
      BY <3>1 DEF Readers
    <3> QED BY <1>3, <3>1, <3>2
  <2> QED BY <2>1, <2>2, <2>3, <2>4 DEF GoesForward
<1> QED BY <1>4, <1>5

LEMMA ReceiptStep ==
  ASSUME StatusTypeOK, NEW u \in Users, NEW m \in Msgs, NEW s \in {"delivered", "read"}, Receipt(u, m, s)
  PROVE StatusRows /\ \A i \in Msgs : GoesForward(i)
<1>1. status[m] \in {"sent", "delivered", "read"}
  BY DEF StatusTypeOK, Statuses, Receipt
<1>2. ASSUME NEW i \in Msgs
      PROVE status'[i] = IF i = m /\ ~(s = "delivered" /\ status[m] = "read") THEN s ELSE status[i]
  BY DEF StatusTypeOK, Receipt, Updated
<1>3. ASSUME NEW i \in Msgs
      PROVE opened'[i] = IF i = m /\ s = "read" THEN opened[m] \union {u} ELSE opened[i]
  BY DEF StatusTypeOK, Receipt
<1>4. StatusRows
  BY DEF StatusTypeOK, Receipt, Updated, StatusRows, Statuses
<1> QED BY <1>1, <1>2, <1>3, <1>4, RanksAre DEF StatusTypeOK, GoesForward, Statuses, StatusRows

LEMMA StillStep ==
  ASSUME StatusTypeOK, UNCHANGED <<status, opened>>
  PROVE StatusRows /\ \A i \in Msgs : GoesForward(i)
<1>1. \A i \in Msgs : Rank[status[i]] >= Rank[status[i]]
  BY RanksAre DEF StatusTypeOK, Statuses
<1> QED BY <1>1 DEF StatusTypeOK, StatusRows, GoesForward

LEMMA StatusStep ==
  ASSUME StatusTypeOK, [Next]_vars
  PROVE StatusRows /\ \A i \in Msgs : GoesForward(i)
<1>1. CASE UNCHANGED vars
  BY <1>1, StillStep DEF vars
<1>2. ASSUME NEW u \in Users, Connect(u) \/ Disconnect(u) PROVE StatusRows /\ \A i \in Msgs : GoesForward(i)
  BY <1>2, StillStep DEF Connect, Disconnect
<1>3. ASSUME NEW u \in Users, ReceiptForAll(u) PROVE StatusRows /\ \A i \in Msgs : GoesForward(i)
  <2>1. ASSUME NEW i \in Msgs
        PROVE status'[i] = IF status[i] = "sent" /\ AuthorOf[i] # u THEN "delivered" ELSE status[i]
    BY <1>3 DEF ReceiptForAll, MarkedDelivered
  <2>2. StatusRows
    BY <1>3 DEF StatusTypeOK, StatusRows, ReceiptForAll, MarkedDelivered, Statuses
  <2> QED BY <1>3, <2>1, <2>2, RanksAre DEF StatusTypeOK, GoesForward, Statuses, ReceiptForAll
<1>4. ASSUME NEW m \in Msgs, LookForPeer(m) PROVE StatusRows /\ \A i \in Msgs : GoesForward(i)
  BY <1>4, StillStep DEF LookForPeer
<1>5. ASSUME NEW m \in Msgs, Save(m) PROVE StatusRows /\ \A i \in Msgs : GoesForward(i)
  BY <1>5, SavingStep DEF Save
<1>6. ASSUME NEW m \in Msgs, Forward(m) \/ ForwardBroadcast(m)
      PROVE StatusRows /\ \A i \in Msgs : GoesForward(i)
  BY <1>6, SavingStep DEF Forward, ForwardBroadcast
<1>7. ASSUME NEW u \in Users, NEW r \in Rooms, Join(u, r) \/ ReceiptForRoom(u, r)
      PROVE StatusRows /\ \A i \in Msgs : GoesForward(i)
  BY <1>7, RoomStep DEF Join, ReceiptForRoom
<1> QED BY <1>1, <1>2, <1>3, <1>4, <1>5, <1>6, <1>7, ReceiptStep DEF Next
-------------------------------------------------------------------------------
LEMMA StatusInit == Init => StatusInv
  BY DEF Init, StatusInv, StatusTypeOK, ReadMeansOpened, Statuses

LEMMA StatusNext == StatusInv /\ [Next]_vars => StatusInv'
<1> SUFFICES ASSUME StatusInv, [Next]_vars PROVE StatusInv'
  OBVIOUS
<1> USE DEF StatusInv
<1>1. StatusRows /\ \A i \in Msgs : GoesForward(i)
  BY StatusStep
<1>2. sending' \in [Msgs -> {"new", "sent", "delivered", "again", "stored"}]
  <2>1. sending \in [Msgs -> {"new", "sent", "delivered", "again", "stored"}]
    BY DEF StatusTypeOK
  <2> QED BY <2>1 DEF Next, vars, Connect, Disconnect, ReceiptForAll, LookForPeer, Save, Forward,
                      ForwardBroadcast, Join, ReceiptForRoom, Receipt
<1>3. ReadMeansOpened'
  BY <1>1 DEF ReadMeansOpened, GoesForward
<1> QED BY <1>1, <1>2, <1>3 DEF StatusTypeOK, StatusRows

(* The inductive invariant holds of every state.                           *)
THEOREM StatusInvariant == Spec => []StatusInv
  BY StatusInit, StatusNext, PTL DEF Spec

(* "read" means that a recipient opened the conversation.                  *)
THEOREM ReadIsOpened == Spec => []ReadMeansOpened
  BY StatusInvariant, PTL DEF StatusInv

(* The receipt status of a message never goes back.                        *)
THEOREM StatusGoesForward == Spec => StatusNeverRegresses
<1>1. StatusInv /\ [Next]_vars => [\A m \in Msgs : Rank[status'[m]] >= Rank[status[m]]]_vars
  BY StatusStep DEF StatusInv, GoesForward
<1> QED BY <1>1, StatusInvariant, PTL DEF Spec, StatusNeverRegresses

-------------------------------------------------------------------------------
(* The pins of one conversation.                                           *)
PinSteps == {"checked", "refreshing", "counting", "dropping", "inserting", "erased"}
PinWorks == {NoPin} \union [step : PinSteps, msg : Pinnable]
                    \union [step : {"picked"}, msg : Pinnable, row : Pinnable]

PinTypeOK == /\ pins \in Seq(Pinnable) /\ pinReq \in [PinRequests -> PinWorks]
             /\ deleted \subseteq Pinnable /\ pinCrossed \subseteq Pinnable
             /\ overlooked \in Nat

(* A message has one pin, and who is about to write a row will find it.    *)
Distinct(s) == \A i, j \in 1..Len(s) : s[i] = s[j] => i = j
RowsThere == \A p \in PinRequests : /\ At(p, "refreshing") => Pinned(pinReq[p].msg)
                                    /\ At(p, "picked") => Pinned(pinReq[p].row)

(* Each request about to insert has a place of its own, but for those for  *)
(* which nothing was dropped: the last one that counted found one free.    *)
Inserting == {p \in PinRequests : At(p, "inserting")}
PlacesLeft ==
  Len(pins) + Cardinality(Inserting) <= MaxPins + Cardinality(PinRequests) - 1 + overlooked

NobodyPinsDeleted == \A m \in deleted \ pinCrossed : ~BeingPinned(m)

(* The inductive invariant.                                                *)
PinsInv == /\ PinTypeOK /\ Distinct(pins) /\ RowsThere /\ PlacesLeft
           /\ NobodyPinsDeleted /\ PinnedIsNotDeleted
-------------------------------------------------------------------------------
LEMMA PinKinds ==
  ASSUME NEW x \in PinWorks
  PROVE /\ x # NoPin => x.msg \in Pinnable /\ x.step \in PinSteps \union {"picked"}
        /\ x.step \in PinSteps => x = [step |-> x.step, msg |-> x.msg]
        /\ x.step = "picked" => x.row \in Pinnable
        /\ NoPin.step = "idle" /\ (x.step = "idle" => x = NoPin) /\ "idle" \notin PinSteps
  BY DEF PinWorks, NoPin, PinSteps

(* The sequence of pins after each operation on it.                        *)
LEMMA PinSequences ==
  ASSUME NEW S, NEW s \in Seq(S), Distinct(s)
  PROVE /\ \A i \in 1..Len(s) : /\ RemoveAt(s, i) \in Seq(S) /\ Distinct(RemoveAt(s, i))
                                /\ Len(RemoveAt(s, i)) = Len(s) - 1
                                /\ ToSet(RemoveAt(s, i)) = ToSet(s) \ {s[i]}
        /\ \A m \in S \ ToSet(s) : /\ Append(s, m) \in Seq(S) /\ Distinct(Append(s, m))
                                   /\ Len(Append(s, m)) = Len(s) + 1
                                   /\ ToSet(Append(s, m)) = ToSet(s) \union {m}
<1> USE DEF Distinct, ToSet
<1>1. ASSUME NEW i \in 1..Len(s)
      PROVE /\ RemoveAt(s, i) \in Seq(S) /\ Distinct(RemoveAt(s, i))
            /\ Len(RemoveAt(s, i)) = Len(s) - 1
            /\ ToSet(RemoveAt(s, i)) = ToSet(s) \ {s[i]}
  <2> DEFINE r == RemoveAt(s, i)
  <2>1. /\ r \in Seq(S) /\ Len(r) = Len(s) - 1
        /\ \A j \in 1..Len(s) - 1 : r[j] = IF j < i THEN s[j] ELSE s[j + 1]
    <3> DEFINE a == SubSeq(s, 1, i - 1)
               b == SubSeq(s, i + 1, Len(s))
    <3>1. a \in Seq(S) /\ Len(a) = i - 1 /\ \A j \in 1..i - 1 : a[j] = s[j]
      BY SubSeqProperties
    <3>2. /\ b \in Seq(S) /\ Len(b) = Len(s) - i
          /\ \A j \in 1..Len(s) - i : b[j] = s[j + i]
      BY SubSeqProperties
    <3>3. r = a \o b
      BY DEF RemoveAt
    <3> HIDE DEF r, a, b
    <3>4. r \in Seq(S) /\ Len(r) = Len(s) - 1
      BY <3>1, <3>2, <3>3, ConcatProperties
    <3>5. ASSUME NEW j \in 1..Len(s) - 1 PROVE r[j] = IF j < i THEN s[j] ELSE s[j + 1]
      <4>1. r[j] = IF j <= Len(a) THEN a[j] ELSE b[j - Len(a)]
        BY <3>1, <3>2, <3>3, ConcatProperties
      <4>2. CASE j < i
        BY <3>1, <4>1, <4>2
      <4>3. CASE ~(j < i)
        <5>1. j - Len(a) \in 1..Len(s) - i /\ j - Len(a) + i = j + 1
          BY <3>1, <4>3
        <5> QED BY <3>1, <3>2, <4>1, <4>3, <5>1
      <4> QED BY <4>2, <4>3
    <3> QED BY <3>4, <3>5
  <2> HIDE DEF r
  <2>2. Distinct(r)
    <3> DEFINE place(j) == IF j < i THEN j ELSE j + 1
    <3>1. \A j \in 1..Len(s) - 1 : place(j) \in 1..Len(s) /\ r[j] = s[place(j)]
      BY <2>1
    <3>2. \A j, k \in 1..Len(s) - 1 : place(j) = place(k) => j = k
      OBVIOUS
    <3> HIDE DEF place
    <3> QED BY <2>1, <3>1, <3>2 DEF Distinct
  <2>3. ASSUME NEW j \in 1..Len(s), j # i PROVE \E k \in 1..Len(r) : r[k] = s[j]
    <3>1. CASE j < i
      BY <2>1, <3>1
    <3>2. CASE j > i
      <4>1. j - 1 \in 1..Len(r) /\ r[j - 1] = s[j]
        BY <2>1, <3>2
      <4> QED BY <4>1
    <3> QED BY <2>3, <3>1, <3>2
  <2>4. \A k \in 1..Len(r) : \E j \in 1..Len(s) : j # i /\ r[k] = s[j]
    BY <2>1
  <2>5. ToSet(r) = ToSet(s) \ {s[i]}
    <3>1. DOMAIN r = 1..Len(r) /\ DOMAIN s = 1..Len(s)
      BY <2>1
    <3>2. \A x : x \in ToSet(r) <=> \E k \in 1..Len(r) : r[k] = x
      BY <3>1
    <3>3. \A x : x \in ToSet(s) <=> \E k \in 1..Len(s) : s[k] = x
      BY <3>1
    <3>4. \A x \in ToSet(r) : x \in ToSet(s) /\ x # s[i]
      BY <2>4, <3>2, <3>3
    <3>5. \A x \in ToSet(s) : x # s[i] => x \in ToSet(r)
      BY <2>3, <3>2, <3>3
    <3> HIDE DEF ToSet
    <3> QED BY <3>4, <3>5
  <2> QED BY <2>1, <2>2, <2>5 DEF r
<1>2. ASSUME NEW m \in S \ ToSet(s)
      PROVE /\ Append(s, m) \in Seq(S) /\ Distinct(Append(s, m))
            /\ Len(Append(s, m)) = Len(s) + 1
            /\ ToSet(Append(s, m)) = ToSet(s) \union {m}
  OBVIOUS
<1> QED BY <1>1, <1>2

LEMMA WithoutPinIs ==
  ASSUME PinTypeOK, Distinct(pins), NEW m
  PROVE /\ WithoutPin(m) \in Seq(Pinnable) /\ Distinct(WithoutPin(m))
        /\ ToSet(WithoutPin(m)) = ToSet(pins) \ {m}
        /\ Len(WithoutPin(m)) = IF Pinned(m) THEN Len(pins) - 1 ELSE Len(pins)
<1>1. CASE Pinned(m)
  <2>1. \E i \in DOMAIN pins : pins[i] = m
    BY <1>1 DEF Pinned, ToSet
  <2> DEFINE i == CHOOSE j \in DOMAIN pins : pins[j] = m
  <2>2. i \in 1..Len(pins) /\ pins[i] = m
    BY <2>1 DEF PinTypeOK
  <2>3. WithoutPin(m) = RemoveAt(pins, i)
    BY <1>1 DEF WithoutPin
  <2> HIDE DEF i
  <2> QED BY <1>1, <2>2, <2>3, PinSequences DEF PinTypeOK
<1>2. CASE ~Pinned(m)
  BY <1>2 DEF WithoutPin, Pinned, PinTypeOK
<1> QED BY <1>1, <1>2

-------------------------------------------------------------------------------
LEMMA InsertingIsFinite ==
  /\ IsFiniteSet(PinRequests) /\ IsFiniteSet(Inserting)
  /\ Cardinality(Inserting) \in Nat /\ Cardinality(PinRequests) \in Nat
  /\ Cardinality(Inserting) <= Cardinality(PinRequests)
  /\ MaxPins \in Nat /\ MaxPins > 0
  BY PinsAssumption, FS_Subset, FS_CardinalityType DEF PinsAssumption, Inserting

(* One request p goes on to x, and what that may do to the places.         *)
Moves(p, x) == /\ pinReq' \in [PinRequests -> PinWorks] /\ pinReq'[p] = x
               /\ \A q \in PinRequests : q # p => pinReq'[q] = pinReq[q]

Places(p, x) ==
  /\ Len(pins) \in Nat /\ Len(pins') \in Nat /\ overlooked \in Nat /\ overlooked' \in Nat
  /\ \/ x.step = "inserting" /\ Len(pins) < MaxPins /\ Len(pins') = Len(pins)
     \/ x.step = "inserting" /\ Len(pins') = Len(pins) /\ overlooked' = overlooked + 1
     \/ x.step # "inserting" /\ Len(pins') <= Len(pins) /\ overlooked' = overlooked
     \/ /\ x.step # "inserting" /\ At(p, "inserting")
        /\ \/ Len(pins') <= Len(pins) + 1 /\ overlooked' = overlooked
           \/ Len(pins') <= Len(pins) /\ overlooked' = Lessened(overlooked)

LEMMA PlacesStep ==
  ASSUME PinsInv, NEW p \in PinRequests, NEW x, Moves(p, x), Places(p, x)
  PROVE PlacesLeft'
<1>1. Inserting' = IF x.step = "inserting" THEN Inserting \union {p} ELSE Inserting \ {p}
  BY DEF Inserting, At, Moves
<1>2. /\ Cardinality(Inserting \union {p}) <= Cardinality(Inserting) + 1
      /\ Cardinality(Inserting \ {p}) = IF At(p, "inserting") THEN Cardinality(Inserting) - 1
                                        ELSE Cardinality(Inserting)
      /\ Cardinality(Inserting \union {p}) \in Nat
  <2>1. p \in Inserting <=> At(p, "inserting")
    BY DEF Inserting
  <2>2. Cardinality(Inserting \union {p}) = IF p \in Inserting THEN Cardinality(Inserting)
                                            ELSE Cardinality(Inserting) + 1
    BY InsertingIsFinite, FS_AddElement
  <2>3. Cardinality(Inserting \ {p}) = IF p \in Inserting THEN Cardinality(Inserting) - 1
                                       ELSE Cardinality(Inserting)
    BY InsertingIsFinite, FS_RemoveElement
  <2> QED BY <2>1, <2>2, <2>3, InsertingIsFinite
<1>3. Cardinality(Inserting)' <= Cardinality(PinRequests) /\ Cardinality(Inserting)' \in Nat
  <2>1. Inserting' \subseteq PinRequests
    BY DEF Inserting
  <2> QED BY <2>1, InsertingIsFinite, FS_Subset, FS_CardinalityType
<1>4. Len(pins) + Cardinality(Inserting) <= MaxPins + Cardinality(PinRequests) - 1 + overlooked
  BY DEF PinsInv, PlacesLeft
<1> DEFINE c == Cardinality(Inserting)
           d == Cardinality(Inserting)'
           n == Cardinality(PinRequests)
<1>5. /\ c \in Nat /\ d \in Nat /\ n \in Nat /\ d <= n /\ MaxPins \in Nat
      /\ x.step = "inserting" => d <= c + 1
      /\ x.step # "inserting" => d <= c /\ (At(p, "inserting") => d = c - 1)
  BY <1>1, <1>2, <1>3, InsertingIsFinite
<1>6. Len(pins) + c <= MaxPins + n - 1 + overlooked
  BY <1>4
<1> HIDE DEF c, d, n
<1>7. Len(pins') + d <= MaxPins + n - 1 + overlooked'
  BY <1>5, <1>6 DEF Places, Lessened
<1> QED BY <1>7 DEF PlacesLeft, c, d, n

(* The rest of the invariant, by what the step does to requests and pins.  *)
LEMMA PinsStep ==
  ASSUME PinsInv, PlacesLeft', pins' \in Seq(Pinnable), Distinct(pins'),
         pinReq' \in [PinRequests -> PinWorks], overlooked' \in Nat,
         deleted' = deleted, pinCrossed \subseteq pinCrossed', pinCrossed' \subseteq Pinnable,
         \A q \in PinRequests :
           \/ pinReq'[q] = pinReq[q] \/ pinReq'[q] = NoPin
           \/ At(q, "idle") /\ pinReq'[q].msg \notin deleted
           \/ pinReq[q] # NoPin /\ ~At(q, "erased") /\ pinReq'[q].msg = pinReq[q].msg,
         \A q \in PinRequests : /\ pinReq'[q].step = "refreshing" => pinReq'[q].msg \in ToSet(pins')
                                /\ pinReq'[q].step = "picked" => pinReq'[q].row \in ToSet(pins'),
         \A m \in ToSet(pins') : Pinned(m) \/ BeingPinned(m),
         \A q \in PinRequests : At(q, "erased") /\ pinReq'[q] # pinReq[q]
           => pinReq[q].msg \notin ToSet(pins') \/ pinReq[q].msg \in pinCrossed'
  PROVE PinsInv'
<1>1. PinTypeOK'
  BY DEF PinsInv, PinTypeOK
<1>2. RowsThere'
  BY DEF RowsThere, At, Pinned
<1>3. NobodyPinsDeleted'
  <2> SUFFICES ASSUME NEW m \in deleted \ pinCrossed, NEW q \in PinRequests,
                      pinReq'[q] # NoPin, pinReq'[q].msg = m, pinReq'[q].step # "erased"
               PROVE FALSE
    BY DEF NobodyPinsDeleted, BeingPinned
  <2>1. \A u \in PinRequests : pinReq[u] # NoPin /\ pinReq[u].msg = m => pinReq[u].step = "erased"
    BY DEF PinsInv, NobodyPinsDeleted, BeingPinned
  <2> QED BY <2>1 DEF At
<1>4. PinnedIsNotDeleted'
  <2> SUFFICES ASSUME NEW m \in deleted \ pinCrossed', Pinned(m)'
               PROVE \E q \in PinRequests : pinReq'[q] = [step |-> "erased", msg |-> m]
    BY DEF PinnedIsNotDeleted
  <2>1. Pinned(m)
    BY DEF PinsInv, NobodyPinsDeleted, Pinned
  <2>2. PICK q \in PinRequests : pinReq[q] = [step |-> "erased", msg |-> m]
    BY <2>1 DEF PinsInv, PinnedIsNotDeleted
  <2>3. pinReq'[q] = pinReq[q]
    BY <2>2 DEF At, Pinned
  <2> QED BY <2>2, <2>3
<1> QED BY <1>1, <1>2, <1>3, <1>4 DEF PinsInv

(* A step of one request p that takes no pin away.                         *)
PinsStay == /\ pins' \in Seq(Pinnable) /\ Distinct(pins') /\ ToSet(pins) \subseteq ToSet(pins')
            /\ \A m \in ToSet(pins') : Pinned(m) \/ BeingPinned(m)
            /\ deleted' = deleted /\ pinCrossed \subseteq pinCrossed' /\ pinCrossed' \subseteq Pinnable

GoesTo(p, x) ==
  /\ x.step = "refreshing" => x.msg \in ToSet(pins')
  /\ x.step = "picked" => x.row \in ToSet(pins')
  /\ \/ x = NoPin \/ (At(p, "idle") /\ x.msg \notin deleted)
     \/ pinReq[p] # NoPin /\ ~At(p, "erased") /\ x.msg = pinReq[p].msg
  /\ At(p, "erased") => pinReq[p].msg \in pinCrossed'

LEMMA OwnStep ==
  ASSUME PinsInv, NEW p \in PinRequests, NEW x, Moves(p, x), Places(p, x), PinsStay, GoesTo(p, x)
  PROVE PinsInv'
<1>1. PlacesLeft'
  BY PlacesStep
<1>2. \A q \in PinRequests : /\ pinReq'[q].step = "refreshing" => pinReq'[q].msg \in ToSet(pins')
                             /\ pinReq'[q].step = "picked" => pinReq'[q].row \in ToSet(pins')
  BY DEF PinsInv, RowsThere, At, Pinned, Moves, PinsStay, GoesTo
<1>3. \A q \in PinRequests : At(q, "erased") /\ pinReq'[q] # pinReq[q] => pinReq[q].msg \in pinCrossed'
  BY DEF Moves, GoesTo
<1>4. \A q \in PinRequests :
        \/ pinReq'[q] = pinReq[q] \/ pinReq'[q] = NoPin
        \/ At(q, "idle") /\ pinReq'[q].msg \notin deleted
        \/ pinReq[q] # NoPin /\ ~At(q, "erased") /\ pinReq'[q].msg = pinReq[q].msg
  BY DEF Moves, GoesTo
<1>5. pinReq' \in [PinRequests -> PinWorks] /\ overlooked' \in Nat
  BY DEF Moves, Places
<1>6. /\ pins' \in Seq(Pinnable) /\ Distinct(pins') /\ deleted' = deleted
      /\ pinCrossed \subseteq pinCrossed' /\ pinCrossed' \subseteq Pinnable
      /\ \A m \in ToSet(pins') : Pinned(m) \/ BeingPinned(m)
  BY DEF PinsStay
<1> QED BY <1>1, <1>2, <1>3, <1>4, <1>5, <1>6, PinsStep

(* What holds before the step, as the premises above want it.              *)
LEMMA PinsBefore ==
  ASSUME PinsInv, NEW p \in PinRequests, NEW x \in PinWorks, pinReq' = [pinReq EXCEPT ![p] = x]
  PROVE /\ Moves(p, x) /\ overlooked \in Nat /\ Lessened(overlooked) \in Nat
        /\ pins \in Seq(Pinnable) /\ Len(pins) \in Nat /\ Distinct(pins) /\ pinCrossed \subseteq Pinnable
        /\ UNCHANGED <<pins, deleted, pinCrossed>> => PinsStay
  BY DEF PinsInv, PinTypeOK, Moves, Lessened, PinsStay, Pinned

LEMMA Working ==
  ASSUME PinTypeOK, NEW p \in PinRequests, pinReq[p].step \in PinSteps \union {"picked"}
  PROVE /\ pinReq[p] # NoPin /\ pinReq[p].msg \in Pinnable
        /\ pinReq[p].step # "erased" => BeingPinned(pinReq[p].msg)
<1>1. pinReq[p] \in PinWorks /\ pinReq[p] # NoPin
  BY DEF PinTypeOK, NoPin, PinSteps
<1> QED BY <1>1, PinKinds DEF BeingPinned

(* Requests that only go on, the pins as they are.                         *)
LEMMA CheckStep ==
  ASSUME PinsInv, NEW p \in PinRequests, NEW m \in Pinnable, PinCheck(p, m)
  PROVE PinsInv'
<1> DEFINE x == [step |-> "checked", msg |-> m]
<1>1. /\ x \in PinWorks /\ x.step = "checked" /\ x.msg = m
      /\ pinReq' = [pinReq EXCEPT ![p] = x]
      /\ At(p, "idle") /\ m \notin deleted /\ ~At(p, "erased")
      /\ UNCHANGED <<pins, deleted, pinCrossed>> /\ overlooked' = overlooked
  BY DEF PinCheck, GoTo, PinWorks, PinSteps, At
<1> HIDE DEF x
<1>2. Moves(p, x) /\ PinsStay /\ Places(p, x)
  <2>1. Moves(p, x) /\ PinsStay /\ overlooked \in Nat /\ Len(pins) \in Nat
    BY <1>1, PinsBefore
  <2> QED BY <1>1, <2>1 DEF Places
<1>3. GoesTo(p, x)
  BY <1>1 DEF GoesTo
<1> QED BY <1>2, <1>3, OwnStep

LEMMA GoOnStep ==
  ASSUME PinsInv, NEW p \in PinRequests,
         PinLookup(p) \/ PinCount(p) \/ PinOverlooks(p) \/ PinPick(p)
  PROVE PinsInv'
<1> DEFINE m == pinReq[p].msg
<1>1. /\ pinReq[p] # NoPin /\ m \in Pinnable /\ ~At(p, "erased")
      /\ pins' = pins /\ UNCHANGED <<deleted, pinCrossed>> /\ overlooked' \in Nat
      /\ pins \in Seq(Pinnable) /\ Distinct(pins) /\ pinCrossed \subseteq Pinnable
      /\ Len(pins) \in Nat
  BY Working DEF PinsInv, PinTypeOK, PinLookup, PinCount, PinOverlooks, PinPick, At, PinSteps
<1>2. PICK x \in PinWorks :
        /\ pinReq' = [pinReq EXCEPT ![p] = x] /\ x.msg = m
        /\ x.step = "refreshing" => Pinned(m)
        /\ x.step = "picked" => Pinned(x.row)
        /\ \/ x.step = "inserting" /\ Len(pins) < MaxPins
           \/ x.step = "inserting" /\ overlooked' = overlooked + 1
           \/ x.step # "inserting" /\ overlooked' = overlooked
  <2>1. \A s \in PinSteps : [step |-> s, msg |-> m] \in PinWorks
    BY <1>1 DEF PinWorks
  <2>2. CASE PinLookup(p)
    BY <2>1, <2>2 DEF PinLookup, GoTo, PinSteps
  <2>3. CASE PinCount(p)
    <3>1. Full \/ Len(pins) < MaxPins
      BY <1>1, InsertingIsFinite DEF Full
    <3>2. PICK s \in {"dropping", "inserting"} :
            GoTo(p, s, m) /\ (s = "inserting" => Len(pins) < MaxPins)
      BY <2>3, <3>1 DEF PinCount
    <3>3. overlooked' = overlooked
      BY <2>3 DEF PinCount
    <3> QED BY <2>1, <3>2, <3>3 DEF GoTo, PinSteps
  <2>4. CASE PinOverlooks(p)
    BY <2>1, <2>4 DEF PinOverlooks, GoTo, PinSteps
  <2>5. CASE PinPick(p)
    <3>1. CASE pins = <<>>
      <4>1. GoTo(p, "inserting", m) /\ Len(pins) < MaxPins
        BY <2>5, <3>1, InsertingIsFinite DEF PinPick
      <4> QED BY <2>1, <4>1 DEF GoTo, PinSteps
    <3>2. CASE pins # <<>>
      <4> DEFINE x == [step |-> "picked", msg |-> m, row |-> Head(pins)]
      <4>1. Head(pins) \in Pinnable /\ Pinned(Head(pins))
        BY <1>1, <3>2 DEF Pinned, ToSet
      <4>2. x \in PinWorks
        BY <1>1, <4>1 DEF PinWorks
      <4>3. pinReq' = [pinReq EXCEPT ![p] = x] /\ overlooked' = overlooked
        BY <2>5, <3>2 DEF PinPick
      <4> QED BY <4>1, <4>2, <4>3
    <3> QED BY <3>1, <3>2
  <2> QED BY <2>2, <2>3, <2>4, <2>5
<1>3. Moves(p, x) /\ PinsStay /\ overlooked \in Nat
  BY <1>1, <1>2, PinsBefore
<1>4. Places(p, x)
  BY <1>1, <1>2, <1>3 DEF Places
<1>5. GoesTo(p, x)
  BY <1>1, <1>2 DEF GoesTo, Pinned
<1> QED BY <1>3, <1>4, <1>5, OwnStep

(* Requests that end: an update, an INSERT, one that goes no further.      *)
LEMMA NoWork ==
  NoPin \in PinWorks /\ NoPin.step \notin {"inserting", "refreshing", "picked", "erased"}
  BY DEF PinWorks, NoPin

LEMMA RefreshStep ==
  ASSUME PinsInv, NEW p \in PinRequests, PinRefresh(p)
  PROVE PinsInv'
<1> PICK m : m = pinReq[p].msg
  OBVIOUS
<1>1. /\ m \in Pinnable /\ Pinned(m) /\ ~At(p, "erased") /\ UNCHANGED <<deleted, pinCrossed, overlooked>>
      /\ pins' = Append(WithoutPin(m), m) /\ pinReq' = [pinReq EXCEPT ![p] = NoPin]
  BY Working DEF PinsInv, RowsThere, PinRefresh, PinDone, At, PinSteps
<1>2. /\ WithoutPin(m) \in Seq(Pinnable) /\ Distinct(WithoutPin(m))
      /\ ToSet(WithoutPin(m)) = ToSet(pins) \ {m} /\ Len(WithoutPin(m)) = Len(pins) - 1
  BY <1>1, WithoutPinIs DEF PinsInv
<1>3. /\ pins' \in Seq(Pinnable) /\ Distinct(pins') /\ Len(pins') = Len(pins) - 1 + 1
      /\ ToSet(pins') = (ToSet(pins) \ {m}) \union {m}
  <2>1. m \in Pinnable \ ToSet(WithoutPin(m))
    BY <1>1, <1>2
  <2> QED BY <1>1, <1>2, <2>1, PinSequences
<1>4. ToSet(pins') = ToSet(pins) /\ Len(pins') <= Len(pins) /\ \A k \in ToSet(pins') : Pinned(k)
  BY <1>1, <1>3 DEF PinsInv, PinTypeOK, Pinned
<1>5. Moves(p, NoPin) /\ Places(p, NoPin)
  <2>1. Moves(p, NoPin) /\ overlooked \in Nat /\ Len(pins) \in Nat
    BY <1>1, NoWork, PinsBefore
  <2> QED BY <1>1, <1>3, <1>4, <2>1, NoWork DEF Places
<1>6. PinsStay /\ GoesTo(p, NoPin)
  BY <1>1, <1>3, <1>4, NoWork, PinsBefore DEF PinsStay, GoesTo
<1> QED BY <1>5, <1>6, OwnStep

LEMMA InsertStep ==
  ASSUME PinsInv, NEW p \in PinRequests, PinInsert(p)
  PROVE PinsInv'
<1> PICK m : m = pinReq[p].msg
  OBVIOUS
<1>1. /\ m \in Pinnable /\ ~At(p, "erased") /\ UNCHANGED <<deleted, pinCrossed>>
      /\ At(p, "inserting") /\ BeingPinned(m)
      /\ pins' = IF Pinned(m) THEN pins ELSE Append(pins, m)
      /\ overlooked' = IF Pinned(m) THEN Lessened(overlooked) ELSE overlooked
      /\ pinReq' = [pinReq EXCEPT ![p] = NoPin]
  BY Working DEF PinsInv, PinInsert, PinDone, At, PinSteps
<1>2. /\ Moves(p, NoPin) /\ overlooked \in Nat /\ Lessened(overlooked) \in Nat
      /\ pins \in Seq(Pinnable) /\ Len(pins) \in Nat /\ Distinct(pins)
  BY <1>1, NoWork, PinsBefore
<1>3. GoesTo(p, NoPin)
  BY <1>1, NoWork DEF GoesTo
<1>4. CASE Pinned(m)
  <2>1. PinsStay
    BY <1>1, <1>4, NoWork, PinsBefore
  <2>2. Places(p, NoPin)
    BY <1>1, <1>2, <1>4, NoWork DEF Places
  <2> QED BY <1>2, <1>3, <2>1, <2>2, OwnStep
<1>5. CASE ~Pinned(m)
  <2>1. m \in Pinnable \ ToSet(pins) /\ pins' = Append(pins, m)
    BY <1>1, <1>5 DEF Pinned
  <2>2. /\ pins' \in Seq(Pinnable) /\ Distinct(pins') /\ Len(pins') = Len(pins) + 1
        /\ ToSet(pins') = ToSet(pins) \union {m}
    BY <1>2, <2>1, PinSequences
  <2>3. \A k \in ToSet(pins') : Pinned(k) \/ BeingPinned(k)
    BY <1>1, <2>2 DEF Pinned
  <2>4. PinsStay
    BY <1>1, <2>2, <2>3 DEF PinsStay, PinsInv, PinTypeOK
  <2>5. Places(p, NoPin)
    BY <1>1, <1>2, <1>5, <2>2, NoWork DEF Places
  <2> QED BY <1>2, <1>3, <2>4, <2>5, OwnStep
<1> QED BY <1>4, <1>5

LEMMA StopStep ==
  ASSUME PinsInv, NEW p \in PinRequests, PinStops(p)
  PROVE PinsInv'
<1>1. /\ pinReq' = [pinReq EXCEPT ![p] = NoPin] /\ UNCHANGED <<pins, deleted>>
      /\ pinCrossed \subseteq pinCrossed' /\ (At(p, "erased") => pinReq[p].msg \in pinCrossed')
      /\ overlooked' = IF At(p, "inserting") THEN Lessened(overlooked) ELSE overlooked
  BY DEF PinStops, PinDone
<1>2. pinReq[p].msg \in Pinnable
  BY PinKinds DEF PinsInv, PinTypeOK, PinStops
<1>3. PinsStay
  BY <1>1, <1>2 DEF PinsInv, PinTypeOK, PinStops, PinsStay, Pinned
<1>4. /\ Moves(p, NoPin) /\ overlooked \in Nat /\ Lessened(overlooked) \in Nat
      /\ Len(pins) \in Nat
  BY <1>1, NoWork, PinsBefore
<1>5. Places(p, NoPin)
  BY <1>1, <1>4, NoWork DEF Places
<1>6. GoesTo(p, NoPin)
  BY <1>1, NoWork DEF GoesTo
<1> QED BY <1>3, <1>4, <1>5, <1>6, OwnStep

(* A row that goes: its place is free, and of those who were about to drop *)
(* it, one has it.                                                         *)
LEMMA RowGoneIs ==
  ASSUME PinsInv, NEW rs \in [PinRequests -> PinWorks], NEW m, pinReq' = RowGone(rs, m),
         \A q \in PinRequests : rs[q] = pinReq[q] \/ (At(q, "erased") /\ rs[q] = NoPin)
  PROVE /\ pinReq' \in [PinRequests -> PinWorks]
        /\ \A q \in PinRequests :
             \/ At(q, "picked") /\ pinReq[q].row = m
                /\ pinReq'[q] = [step |-> "inserting", msg |-> pinReq[q].msg]
             \/ At(q, "refreshing") /\ pinReq'[q] = NoPin
             \/ At(q, "erased") /\ pinReq'[q] = NoPin /\ rs[q] = NoPin
             \/ /\ pinReq'[q] = pinReq[q] /\ rs[q] = pinReq[q]
                /\ At(q, "picked") => pinReq[q].row # m
                /\ At(q, "refreshing") => pinReq[q].msg # m
<1>1. NoPin \in PinWorks
  BY NoWork
<1>2. ASSUME NEW q \in PinRequests
      PROVE /\ pinReq'[q] \in PinWorks
            /\ \/ At(q, "picked") /\ pinReq[q].row = m
                  /\ pinReq'[q] = [step |-> "inserting", msg |-> pinReq[q].msg]
               \/ At(q, "refreshing") /\ pinReq'[q] = NoPin
               \/ At(q, "erased") /\ pinReq'[q] = NoPin /\ rs[q] = NoPin
               \/ /\ pinReq'[q] = pinReq[q] /\ rs[q] = pinReq[q]
                  /\ At(q, "picked") => pinReq[q].row # m
                  /\ At(q, "refreshing") => pinReq[q].msg # m
  <2>1. pinReq[q] \in PinWorks
    BY DEF PinsInv, PinTypeOK
  <2>2. pinReq'[q] = IF q \in Dropping(m) THEN [step |-> "inserting", msg |-> rs[q].msg]
                     ELSE IF rs[q] = [step |-> "refreshing", msg |-> m] THEN NoPin ELSE rs[q]
    BY DEF RowGone
  <2>3. CASE q \in Dropping(m)
    <3>1. At(q, "picked") /\ pinReq[q].row = m /\ rs[q] = pinReq[q]
      BY <2>3 DEF Dropping, At
    <3>2. pinReq[q].msg \in Pinnable
      BY <2>1, <3>1, PinKinds DEF At
    <3>3. [step |-> "inserting", msg |-> pinReq[q].msg] \in PinWorks
      BY <3>2 DEF PinWorks, PinSteps
    <3> QED BY <2>2, <2>3, <3>1, <3>3
  <2>4. CASE q \notin Dropping(m) /\ rs[q] = [step |-> "refreshing", msg |-> m]
    <3>1. rs[q] # NoPin /\ rs[q].step = "refreshing"
      BY <2>4 DEF NoPin
    <3> QED BY <1>1, <2>2, <2>4, <3>1 DEF At
  <2>5. CASE q \notin Dropping(m) /\ rs[q] # [step |-> "refreshing", msg |-> m]
    <3>1. pinReq'[q] = rs[q] /\ rs[q] \in PinWorks
      BY <2>2, <2>5
    <3>2. At(q, "picked") => pinReq[q].row # m
      BY <2>5 DEF Dropping
    <3>3. rs[q] = pinReq[q] /\ At(q, "refreshing") => pinReq[q].msg # m
      BY <2>1, <2>5, PinKinds DEF At, PinSteps
    <3> QED BY <3>1, <3>2, <3>3
  <2> QED BY <2>3, <2>4, <2>5
<1>3. pinReq' \in [PinRequests -> PinWorks]
  BY <1>2 DEF RowGone
<1> QED BY <1>2, <1>3

LEMMA RemovalStep ==
  ASSUME PinsInv, NEW rs \in [PinRequests -> PinWorks], NEW m, pinReq' = RowGone(rs, m),
         \A q \in PinRequests :
           rs[q] = pinReq[q] \/ (At(q, "erased") /\ rs[q] = NoPin /\ pinReq[q].msg = m),
         DeleteRow(m), UNCHANGED <<deleted, pinCrossed>>
  PROVE PinsInv'
<1> DEFINE gone == Dropping(m)
<1>1. /\ pinReq' \in [PinRequests -> PinWorks]
      /\ \A q \in PinRequests :
           \/ At(q, "picked") /\ pinReq[q].row = m
              /\ pinReq'[q] = [step |-> "inserting", msg |-> pinReq[q].msg]
           \/ At(q, "refreshing") /\ pinReq'[q] = NoPin
           \/ At(q, "erased") /\ pinReq'[q] = NoPin /\ rs[q] = NoPin
           \/ /\ pinReq'[q] = pinReq[q] /\ rs[q] = pinReq[q]
              /\ At(q, "picked") => pinReq[q].row # m
              /\ At(q, "refreshing") => pinReq[q].msg # m
  BY RowGoneIs
<1>2. /\ pins' \in Seq(Pinnable) /\ Distinct(pins') /\ ToSet(pins') = ToSet(pins) \ {m}
      /\ Len(pins') = IF Pinned(m) THEN Len(pins) - 1 ELSE Len(pins)
  BY WithoutPinIs DEF PinsInv, DeleteRow
<1>3. /\ Inserting' = Inserting \union gone /\ Inserting \intersect gone = {}
      /\ ~Pinned(m) => gone = {}
  <2>1. ASSUME NEW q \in PinRequests
        PROVE pinReq'[q].step = "inserting" <=> pinReq[q].step = "inserting" \/ q \in gone
    BY <1>1, NoWork DEF At, Dropping
  <2>2. Inserting' = Inserting \union gone
    BY <2>1 DEF Inserting, At, Dropping
  <2>3. Inserting \intersect gone = {}
    BY DEF Inserting, At, Dropping
  <2>4. ~Pinned(m) => gone = {}
    BY DEF Dropping, PinsInv, RowsThere
  <2> QED BY <2>2, <2>3, <2>4
<1>4. /\ Cardinality(gone) \in Nat /\ Cardinality(Inserting)' = Cardinality(Inserting) + Cardinality(gone)
      /\ Cardinality({}) = 0
  <2>1. IsFiniteSet(gone) /\ Cardinality({}) = 0
    BY InsertingIsFinite, FS_Subset, FS_EmptySet DEF Dropping
  <2>2. Cardinality(Inserting \union gone)
          = Cardinality(Inserting) + Cardinality(gone) - Cardinality(Inserting \intersect gone)
    BY <2>1, InsertingIsFinite, FS_Union
  <2>3. Cardinality(gone) \in Nat /\ Cardinality(Inserting \intersect gone) = 0
    BY <1>3, <2>1, FS_CardinalityType
  <2> QED BY <1>3, <2>1, <2>2, <2>3, InsertingIsFinite
<1>5. overlooked' = IF Pinned(m) THEN Lessened(overlooked + Cardinality(gone)) ELSE overlooked
  BY DEF DeleteRow
<1>6. ~Pinned(m) => Cardinality(gone) = 0
  BY <1>3, <1>4
<1> HIDE DEF gone
<1>7. overlooked \in Nat /\ Len(pins) \in Nat /\ Len(pins') \in Nat
  BY <1>2 DEF PinsInv, PinTypeOK
<1>8. overlooked' \in Nat /\ PlacesLeft'
  <2> DEFINE c == Cardinality(Inserting)
             d == Cardinality(Inserting)'
             n == Cardinality(PinRequests)
             k == Cardinality(gone)
  <2>1. Len(pins) + c <= MaxPins + n - 1 + overlooked
    BY DEF PinsInv, PlacesLeft
  <2>2. c \in Nat /\ n \in Nat /\ MaxPins \in Nat /\ k \in Nat /\ d = c + k
    BY <1>4, InsertingIsFinite
  <2>3. /\ Pinned(m) => overlooked' = Lessened(overlooked + k) /\ Len(pins') = Len(pins) - 1
        /\ ~Pinned(m) => overlooked' = overlooked /\ Len(pins') = Len(pins) /\ k = 0
    BY <1>2, <1>5, <1>6
  <2> HIDE DEF c, d, n, k
  <2>4. overlooked' \in Nat
    BY <1>7, <2>2, <2>3 DEF Lessened
  <2>5. Len(pins') + d <= MaxPins + n - 1 + overlooked'
    BY <1>7, <2>1, <2>2, <2>3 DEF Lessened
  <2> QED BY <2>4, <2>5 DEF PlacesLeft, c, d, n, k
<1>9. \A q \in PinRequests : /\ pinReq'[q].step = "refreshing" => pinReq'[q].msg \in ToSet(pins')
                             /\ pinReq'[q].step = "picked" => pinReq'[q].row \in ToSet(pins')
  <2> SUFFICES ASSUME NEW q \in PinRequests, pinReq'[q].step \in {"refreshing", "picked"}
               PROVE /\ pinReq'[q].step = "refreshing" => pinReq'[q].msg \in ToSet(pins')
                     /\ pinReq'[q].step = "picked" => pinReq'[q].row \in ToSet(pins')
    OBVIOUS
  <2>1. /\ pinReq'[q] = pinReq[q]
        /\ pinReq[q].step = "picked" => pinReq[q].row # m
        /\ pinReq[q].step = "refreshing" => pinReq[q].msg # m
    BY <1>1, NoWork DEF At
  <2> QED BY <1>2, <2>1 DEF PinsInv, RowsThere, At, Pinned
<1>10. \A q \in PinRequests :
         \/ pinReq'[q] = pinReq[q] \/ pinReq'[q] = NoPin
         \/ pinReq[q] # NoPin /\ ~At(q, "erased") /\ pinReq'[q].msg = pinReq[q].msg
  <2> SUFFICES ASSUME NEW q \in PinRequests, At(q, "picked"),
                      pinReq'[q] = [step |-> "inserting", msg |-> pinReq[q].msg]
               PROVE pinReq[q] # NoPin /\ ~At(q, "erased") /\ pinReq'[q].msg = pinReq[q].msg
    BY <1>1
  <2> QED BY NoWork DEF At
<1>11. \A k \in ToSet(pins') : Pinned(k)
  BY <1>2 DEF Pinned
<1>12. \A q \in PinRequests : At(q, "erased") /\ pinReq'[q] # pinReq[q]
                                => pinReq[q].msg \notin ToSet(pins')
  <2> SUFFICES ASSUME NEW q \in PinRequests, At(q, "erased"), pinReq'[q] # pinReq[q]
               PROVE pinReq[q].msg = m
    BY <1>2
  <2>1. rs[q] = NoPin
    BY <1>1 DEF At
  <2>2. pinReq[q] # NoPin
    BY NoWork DEF At
  <2> QED BY <2>1, <2>2
<1>13. pinCrossed \subseteq Pinnable
  BY DEF PinsInv, PinTypeOK
<1> QED BY <1>1, <1>2, <1>8, <1>9, <1>10, <1>11, <1>12, <1>13, PinsStep

LEMMA DropStep ==
  ASSUME PinsInv, NEW p \in PinRequests, NEW m \in Pinnable, PinDrop(p) \/ Unpin(p, m)
  PROVE PinsInv'
<1>1. PICK x : DeleteRow(x) /\ pinReq' = RowGone(pinReq, x) /\ UNCHANGED <<deleted, pinCrossed>>
  BY DEF PinDrop, Unpin
<1>2. pinReq \in [PinRequests -> PinWorks]
  BY DEF PinsInv, PinTypeOK
<1> QED BY <1>1, <1>2, RemovalStep

LEMMA EraseUnpinsStep ==
  ASSUME PinsInv, NEW p \in PinRequests, EraseUnpins(p)
  PROVE PinsInv'
<1> DEFINE m == pinReq[p].msg
           rs == [pinReq EXCEPT ![p] = NoPin]
<1>1. /\ At(p, "erased") /\ DeleteRow(m) /\ pinReq' = RowGone(rs, m)
      /\ UNCHANGED <<deleted, pinCrossed>>
  BY DEF EraseUnpins, PinGone
<1>2. /\ rs \in [PinRequests -> PinWorks]
      /\ \A q \in PinRequests :
           rs[q] = pinReq[q] \/ (At(q, "erased") /\ rs[q] = NoPin /\ pinReq[q].msg = m)
  BY <1>1, NoWork DEF PinsInv, PinTypeOK
<1> HIDE DEF m, rs
<1> QED BY <1>1, <1>2, RemovalStep

(* The erasure of a message: those about to pin it are crossed by it, and  *)
(* its own pin waits for the erasure's second step.                        *)
LEMMA EraseStep ==
  ASSUME PinsInv, NEW p \in PinRequests, NEW m \in Pinnable, Erase(p, m)
  PROVE PinsInv'
<1> DEFINE x == [step |-> "erased", msg |-> m]
<1> USE DEF PinsInv
<1>1. /\ x \in PinWorks /\ x.step = "erased" /\ x.msg = m
      /\ pins' = pins /\ overlooked' = overlooked /\ pinReq[p] = NoPin /\ At(p, "idle")
      /\ \A q \in PinRequests : q # p => pinReq'[q] = pinReq[q]
      /\ pinReq'[p] = x /\ pinReq' \in [PinRequests -> PinWorks]
  <2>1. /\ x \in PinWorks /\ pinReq' = [pinReq EXCEPT ![p] = x] /\ UNCHANGED <<pins, overlooked>>
        /\ At(p, "idle")
    BY DEF Erase, GoTo, PinWorks, PinSteps
  <2>2. pinReq[p] = NoPin
    BY <2>1, PinKinds DEF PinTypeOK, At
  <2> QED BY <2>1, <2>2 DEF PinTypeOK
<1>2. deleted' = deleted \union {m} /\ pinCrossed' \subseteq pinCrossed \union {m}
      /\ pinCrossed \subseteq pinCrossed' /\ (BeingPinned(m) => m \in pinCrossed')
  BY DEF Erase
<1> HIDE DEF x
<1>3. PinTypeOK' /\ Distinct(pins)'
  BY <1>1, <1>2 DEF PinTypeOK
<1>4. RowsThere'
  BY <1>1, <1>2 DEF RowsThere, At, Pinned
<1>5. PlacesLeft'
  <2>1. Moves(p, x) /\ Places(p, x)
    BY <1>1 DEF PinTypeOK, Moves, Places
  <2> QED BY <2>1, PlacesStep
<1>6. NobodyPinsDeleted'
  <2> SUFFICES ASSUME NEW k \in deleted' \ pinCrossed', NEW q \in PinRequests,
                      pinReq'[q] # NoPin, pinReq'[q].msg = k, pinReq'[q].step # "erased"
               PROVE FALSE
    BY DEF NobodyPinsDeleted, BeingPinned
  <2>1. pinReq'[q] = pinReq[q]
    BY <1>1
  <2>2. BeingPinned(k)
    BY <2>1 DEF BeingPinned
  <2> QED BY <1>2, <2>2 DEF NobodyPinsDeleted
<1>7. PinnedIsNotDeleted'
  <2> SUFFICES ASSUME NEW k \in deleted' \ pinCrossed', Pinned(k)'
               PROVE \E q \in PinRequests : pinReq'[q] = [step |-> "erased", msg |-> k]
    BY DEF PinnedIsNotDeleted
  <2>1. CASE k = m
    BY <1>1, <2>1 DEF x
  <2>2. CASE k # m
    <3>1. k \in deleted \ pinCrossed /\ Pinned(k)
      BY <1>1, <1>2, <2>2 DEF Pinned
    <3>2. PICK q \in PinRequests : pinReq[q] = [step |-> "erased", msg |-> k]
      BY <3>1 DEF PinnedIsNotDeleted
    <3>3. q # p
      BY <1>1, <3>2 DEF NoPin, At
    <3> QED BY <1>1, <3>2, <3>3
  <2> QED BY <2>1, <2>2
<1> QED BY <1>3, <1>4, <1>5, <1>6, <1>7

(* At any time a conversation has at most one pin more than the limit for  *)
(* each further request in progress and for each pin whose predecessor was *)
(* overlooked and not made up for, and a deleted message has none once its *)
(* deletion is complete, but one erased while it was being pinned or whose *)
(* unpinning failed: PinMessage, UnpinMessage and DeleteMessage            *)
(* (sql.go:1679, 2024, 2074).                                              *)
THEOREM PinsKeepOrder == PinsSpec => []PinsInOrder
<1>1. PinsInit => PinsInv
  <2> SUFFICES ASSUME PinsInit
               PROVE PinsInv
    OBVIOUS
  <2>1. PinTypeOK /\ Distinct(pins)
    BY DEF PinsInit, PinTypeOK, Distinct, PinWorks
  <2>2. RowsThere /\ NobodyPinsDeleted /\ PinnedIsNotDeleted
    BY DEF PinsInit, RowsThere, NobodyPinsDeleted, PinnedIsNotDeleted, At, NoPin
  <2>3. PlacesLeft
    <3>1. Inserting = {} /\ Len(pins) = 0 /\ overlooked = 0
      BY DEF PinsInit, Inserting, At, NoPin
    <3> QED BY <3>1, InsertingIsFinite, FS_EmptySet DEF PlacesLeft
  <2> QED BY <2>1, <2>2, <2>3 DEF PinsInv
<1>2. PinsInv /\ [PinsNext]_pinsVars => PinsInv'
  <2> SUFFICES ASSUME PinsInv, [PinsNext]_pinsVars
               PROVE PinsInv'
    OBVIOUS
  <2>1. CASE PinsNext
    <3> PICK p \in PinRequests :
          \/ PinLookup(p) \/ PinRefresh(p) \/ PinCount(p) \/ PinOverlooks(p) \/ PinPick(p)
          \/ PinDrop(p) \/ PinInsert(p) \/ EraseUnpins(p) \/ PinStops(p)
          \/ \E m \in Pinnable : PinCheck(p, m) \/ Unpin(p, m) \/ Erase(p, m)
      BY <2>1 DEF PinsNext
    <3>1. CASE PinLookup(p) \/ PinCount(p) \/ PinOverlooks(p) \/ PinPick(p)
      BY <3>1, GoOnStep
    <3>2. CASE PinRefresh(p)
      BY <3>2, RefreshStep
    <3>3. CASE PinDrop(p)
      <4>1. pinReq[p].msg \in Pinnable
        BY <3>3, Working DEF PinsInv, PinDrop, At
      <4> QED BY <3>3, <4>1, DropStep
    <3>4. CASE PinInsert(p)
      BY <3>4, InsertStep
    <3>5. CASE EraseUnpins(p)
      BY <3>5, EraseUnpinsStep
    <3>6. CASE \E m \in Pinnable : PinCheck(p, m)
      BY <3>6, CheckStep
    <3>7. CASE \E m \in Pinnable : Unpin(p, m)
      BY <3>7, DropStep
    <3>8. CASE \E m \in Pinnable : Erase(p, m)
      BY <3>8, EraseStep
    <3>9. CASE PinStops(p)
      BY <3>9, StopStep
    <3> QED BY <3>1, <3>2, <3>3, <3>4, <3>5, <3>6, <3>7, <3>8, <3>9
  <2>2. CASE UNCHANGED pinsVars
    BY <2>2 DEF pinsVars, PinsInv, PinTypeOK, RowsThere, PlacesLeft, Inserting, At,
                NobodyPinsDeleted, BeingPinned, PinnedIsNotDeleted, Pinned
  <2> QED BY <2>1, <2>2
<1>3. PinsInv => PinsInOrder
  <2> SUFFICES ASSUME PinsInv
               PROVE OverrunBounded
    BY DEF PinsInOrder, PinsInv
  <2>1. Len(pins) \in Nat /\ overlooked \in Nat
    BY DEF PinsInv, PinTypeOK
  <2>2. Len(pins) + Cardinality(Inserting) <= MaxPins + Cardinality(PinRequests) - 1 + overlooked
    BY DEF PinsInv, PlacesLeft
  <2> QED BY <2>1, <2>2, InsertingIsFinite DEF OverrunBounded
<1> QED BY <1>1, <1>2, <1>3, PTL DEF PinsSpec

-------------------------------------------------------------------------------
(* DurableFrames: receipts and reactions.                                  *)

(* The frames the client sends; those it may send first, and so queue.     *)
Firsts == {ReadRoom, Reaction} \union {ReceiptOf(m, "delivered") : m \in Incoming}
Frames == Firsts \union {ReceiptOf(m, "read") : m \in Incoming}

LEMMA FrameKinds ==
  /\ ReadRoom \in Firsts /\ Reaction \in Firsts /\ Firsts \subseteq Frames
  /\ Reaction # ReadRoom
  /\ \A m \in Incoming : ReceiptOf(m, "delivered") \in Firsts /\ ReceiptOf(m, "read") \in Frames
  /\ \A m \in Incoming, s \in {"delivered", "read"} :
       ReceiptOf(m, s) # ReadRoom /\ ReceiptOf(m, s) # Reaction
  /\ \A m, k \in Incoming : ReceiptOf(m, "read") # ReceiptOf(k, "delivered")
  /\ \A m, k \in Incoming : ReceiptOf(m, "read") = ReceiptOf(k, "read") => m = k
  /\ \A f \in Frames : f.kind = "readRoom" => f = ReadRoom
  /\ \A f \in Frames : f.kind = "reaction" => f = Reaction
  /\ ReadRoom.kind = "readRoom" /\ Reaction.kind = "reaction"
<1>1. \A m, k \in Incoming, s, t \in {"delivered", "read"} :
        ReceiptOf(m, s) = ReceiptOf(k, t) => m = k /\ s = t
  BY DEF ReceiptOf
<1>2. \A m \in Incoming, s \in {"delivered", "read"} : ReceiptOf(m, s).kind = "receipt"
  BY DEF ReceiptOf
<1>3. ReadRoom.kind = "readRoom" /\ Reaction.kind = "reaction"
  BY DEF ReadRoom, Reaction
<1>4. Reaction # ReadRoom
  BY <1>3
<1>5. \A m \in Incoming, s \in {"delivered", "read"} :
        ReceiptOf(m, s) # ReadRoom /\ ReceiptOf(m, s) # Reaction
  BY <1>2, <1>3
<1> QED BY <1>1, <1>2, <1>3, <1>4, <1>5 DEF Firsts, Frames

(* The members of a sequence, by their places.                             *)
LEMMA PlacesOf ==
  ASSUME NEW S, NEW s \in Seq(S)
  PROVE /\ ToSet(s) \subseteq S /\ DOMAIN s = 1..Len(s) /\ Len(s) \in Nat
        /\ \A x : x \in ToSet(s) <=> \E i \in 1..Len(s) : s[i] = x
  BY DEF ToSet

LEMMA AppendedPlaces ==
  ASSUME NEW S, NEW s \in Seq(S), NEW x \in S
  PROVE /\ Append(s, x) \in Seq(S) /\ ToSet(Append(s, x)) = ToSet(s) \union {x}
        /\ Len(Append(s, x)) = Len(s) + 1 /\ Append(s, x)[Len(s) + 1] = x
        /\ \A i \in 1..Len(s) : Append(s, x)[i] = s[i]
<1>1. /\ Append(s, x) \in Seq(S) /\ Len(Append(s, x)) = Len(s) + 1 /\ Len(s) \in Nat
      /\ \A i \in 1..Len(s) : Append(s, x)[i] = s[i]
      /\ Append(s, x)[Len(s) + 1] = x
  OBVIOUS
<1>2. \A i \in 1..Len(s) + 1 : i \in 1..Len(s) \/ i = Len(s) + 1
  BY <1>1
<1>3. 1..Len(s) \subseteq 1..Len(s) + 1 /\ Len(s) + 1 \in 1..Len(s) + 1
  BY <1>1
<1>4. \A y : y \in ToSet(Append(s, x)) <=> \E i \in 1..Len(s) + 1 : Append(s, x)[i] = y
  <2>1. Append(s, x) \in Seq(S)
    BY <1>1
  <2>2. \A y : y \in ToSet(Append(s, x)) <=> \E i \in 1..Len(Append(s, x)) : Append(s, x)[i] = y
    BY <2>1, PlacesOf
  <2> QED BY <1>1, <2>2
<1>5. \A y : y \in ToSet(s) <=> \E i \in 1..Len(s) : s[i] = y
  BY PlacesOf
<1>6. \A y : y \in ToSet(Append(s, x)) <=> (y \in ToSet(s) \/ y = x)
  BY <1>1, <1>2, <1>3, <1>4, <1>5
<1> QED BY <1>1, <1>6

LEMMA PrefixMembers ==
  ASSUME NEW S, NEW s \in Seq(S), NEW n \in 0..Len(s)
  PROVE SubSeq(s, 1, n) \in Seq(S) /\ ToSet(SubSeq(s, 1, n)) \subseteq ToSet(s)
<1>1. /\ SubSeq(s, 1, n) \in Seq(S) /\ Len(SubSeq(s, 1, n)) = n
      /\ \A i \in 1..n : SubSeq(s, 1, n)[i] = s[i]
  BY SubSeqProperties
<1> QED BY <1>1 DEF ToSet

(* A full queue keeps its newest frame, and a queue that is not full all.  *)
LEMMA LimitedQueue ==
  ASSUME NEW S, NEW q \in Seq(S)
  PROVE /\ Limited(q) \in Seq(S) /\ ToSet(Limited(q)) \subseteq ToSet(q)
        /\ Len(q) <= MaxQueue => Limited(q) = q
        /\ q # <<>> => q[Len(q)] \in ToSet(Limited(q))
<1> USE FramesAssumption DEF FramesAssumption
<1>1. Len(q) \in Nat /\ Limited(q) = IF Len(q) > MaxQueue
                                     THEN SubSeq(q, Len(q) - MaxQueue + 1, Len(q)) ELSE q
  BY DEF Limited
<1>2. CASE Len(q) > MaxQueue
  <2> DEFINE a == Len(q) - MaxQueue
             t == SubSeq(q, a + 1, Len(q))
  <2>1. a \in Nat /\ a + MaxQueue = Len(q) /\ Limited(q) = t /\ MaxQueue \in Nat \ {0}
    BY <1>1, <1>2
  <2> HIDE DEF a
  <2>2. \A i \in a + 1..Len(q) : q[i] \in S
    BY <2>1
  <2>3. /\ t \in Seq(S) /\ Len(t) = MaxQueue
        /\ \A i \in 1..MaxQueue : t[i] = q[a + i]
    <3>1. /\ t \in Seq(S)
          /\ Len(t) = IF a + 1 <= Len(q) THEN Len(q) - (a + 1) + 1 ELSE 0
          /\ \A i \in 1..Len(q) - (a + 1) + 1 : t[i] = q[a + 1 + i - 1]
      BY <2>1, <2>2, <1>1, SubSeqProperties
    <3>2. Len(q) - (a + 1) + 1 = MaxQueue /\ a + 1 <= Len(q)
      BY <2>1, <1>1
    <3>3. \A i \in 1..MaxQueue : a + 1 + i - 1 = a + i
      BY <2>1
    <3> QED BY <3>1, <3>2, <3>3
  <2> HIDE DEF t
  <2>4. \A i \in 1..MaxQueue : a + i \in 1..Len(q)
    BY <2>1, <1>1
  <2>5. ToSet(t) \subseteq ToSet(q)
    BY <2>3, <2>4, PlacesOf
  <2>6. t[MaxQueue] = q[Len(q)] /\ MaxQueue \in 1..MaxQueue
    BY <2>1, <2>3
  <2>7. q[Len(q)] \in ToSet(t)
    BY <2>3, <2>6, PlacesOf
  <2> QED BY <2>1, <2>3, <2>5, <2>7, <1>2
<1>3. CASE ~(Len(q) > MaxQueue)
  <2>1. Limited(q) = q
    BY <1>1, <1>3
  <2>2. q # <<>> => Len(q) \in 1..Len(q)
    BY <1>1
  <2> QED BY <2>1, <2>2, PlacesOf
<1> QED BY <1>2, <1>3

(* How often a sequence of frames toggles the reaction.                    *)
LEMMA TogglesOfAppended ==
  ASSUME NEW q \in Seq(Frames), NEW f \in Frames
  PROVE /\ Toggles(q) \in Nat
        /\ Toggles(Append(q, f)) = IF f = Reaction THEN Toggles(q) + 1 ELSE Toggles(q)
<1> DEFINE P(s) == {i \in DOMAIN s : s[i] = Reaction}
<1>1. /\ P(q) = {i \in 1..Len(q) : q[i] = Reaction} /\ Len(q) \in Nat
      /\ P(q) \subseteq 1..Len(q) /\ Len(q) + 1 \notin P(q)
  OBVIOUS
<1>2. IsFiniteSet(P(q))
  BY <1>1, FS_Interval, FS_Subset
<1>3. P(Append(q, f)) = IF f = Reaction THEN P(q) \union {Len(q) + 1} ELSE P(q)
  <2>1. /\ DOMAIN Append(q, f) = 1..Len(q) + 1 /\ Append(q, f)[Len(q) + 1] = f
        /\ \A i \in 1..Len(q) : Append(q, f)[i] = q[i]
    BY AppendedPlaces, PlacesOf
  <2>2. 1..Len(q) + 1 = (1..Len(q)) \union {Len(q) + 1}
    BY <1>1
  <2> QED BY <1>1, <2>1, <2>2
<1>4. Toggles(q) = Cardinality(P(q)) /\ Toggles(Append(q, f)) = Cardinality(P(Append(q, f)))
  BY DEF Toggles
<1> HIDE DEF P
<1>5. Cardinality(P(q)) \in Nat
  BY <1>2, FS_CardinalityType
<1>6. Len(q) + 1 \notin P(q) => Cardinality(P(q) \union {Len(q) + 1}) = Cardinality(P(q)) + 1
  BY <1>2, FS_AddElement
<1> QED BY <1>1, <1>3, <1>4, <1>5, <1>6

LEMMA TogglesOfNone ==
  ASSUME NEW q \in Seq(Frames), Reaction \notin ToSet(q)
  PROVE Toggles(q) = 0
<1>1. {i \in DOMAIN q : q[i] = Reaction} = {}
  BY PlacesOf
<1> QED BY <1>1, FS_EmptySet DEF Toggles

LEMMA TogglesAfterRead ==
  ASSUME NEW q \in Seq(Frames)
  PROVE Toggles(<<ReadRoom>> \o q) = Toggles(q) /\ <<ReadRoom>> \o q \in Seq(Frames)
<1> DEFINE A == {i \in DOMAIN q : q[i] = Reaction}
           s == <<ReadRoom>> \o q
           B == {i \in DOMAIN s : s[i] = Reaction}
           f == [i \in A |-> i + 1]
<1>1. <<ReadRoom>> \in Seq(Frames) /\ <<ReadRoom>>[1] = ReadRoom /\ Len(<<ReadRoom>>) = 1
  BY FrameKinds
<1>2. /\ s \in Seq(Frames) /\ Len(s) = 1 + Len(q) /\ s[1] = ReadRoom
      /\ \A i \in 1..Len(q) : s[i + 1] = q[i]
  <2>1. /\ s \in Seq(Frames) /\ Len(s) = 1 + Len(q)
        /\ \A i \in 1..1 + Len(q) : s[i] = IF i <= 1 THEN <<ReadRoom>>[i] ELSE q[i - 1]
    BY <1>1, ConcatProperties
  <2>2. Len(q) \in Nat /\ 1 \in 1..1 + Len(q)
    OBVIOUS
  <2>3. \A i \in 1..Len(q) : i + 1 \in 1..1 + Len(q) /\ ~(i + 1 <= 1) /\ i + 1 - 1 = i
    BY <2>2
  <2> QED BY <1>1, <2>1, <2>2, <2>3
<1> HIDE DEF s
<1>3. A = {i \in 1..Len(q) : q[i] = Reaction} /\ IsFiniteSet(A) /\ Len(q) \in Nat
  <2>1. A = {i \in 1..Len(q) : q[i] = Reaction} /\ A \subseteq 1..Len(q) /\ Len(q) \in Nat
    OBVIOUS
  <2>2. IsFiniteSet(1..Len(q))
    BY <2>1, FS_Interval
  <2>3. IsFiniteSet(A)
    BY <2>1, <2>2, FS_Subset
  <2> QED BY <2>1, <2>3
<1>4. f \in Bijection(A, B)
  <2>1. \A i \in A : i + 1 \in B /\ i \in Int
    BY <1>2, <1>3
  <2>2. \A j \in B : j - 1 \in A /\ (j - 1) + 1 = j
    <3> SUFFICES ASSUME NEW j \in B
                 PROVE j - 1 \in A /\ (j - 1) + 1 = j
      OBVIOUS
    <3>1. j \in 1..1 + Len(q) /\ s[j] = Reaction
      BY <1>2
    <3>2. j # 1
      BY <1>2, <3>1, FrameKinds
    <3>3. j - 1 \in 1..Len(q) /\ (j - 1) + 1 = j
      BY <1>3, <3>1, <3>2
    <3> QED BY <1>2, <1>3, <3>1, <3>3
  <2> HIDE DEF A, B
  <2>3. f \in [A -> B]
    BY <2>1
  <2>4. \A i, j \in A : f[i] = f[j] => i = j
    BY <2>1
  <2>5. \A j \in B : \E i \in A : f[i] = j
    <3> SUFFICES ASSUME NEW j \in B
                 PROVE \E i \in A : f[i] = j
      OBVIOUS
    <3> QED BY <2>2
  <2> QED BY <2>3, <2>4, <2>5 DEF Bijection, Injection, Surjection, IsInjective
<1>5. Cardinality(B) = Cardinality(A)
  <2>1. ExistsBijection(A, B)
    BY <1>4 DEF ExistsBijection
  <2> HIDE DEF A, B
  <2> QED BY <1>3, <2>1, FS_Bijection
<1> QED BY <1>2, <1>5 DEF Toggles, s

Odd(frames) == Toggles(frames) % 2 = 1

LEMMA OddFrames ==
  /\ \A q \in Seq(Frames) : Reaction \notin ToSet(q) => ~Odd(q)
  /\ \A q \in Seq(Frames), f \in Frames : f # Reaction => (Odd(Append(q, f)) <=> Odd(q))
  /\ \A q \in Seq(Frames) : Odd(Append(q, Reaction)) <=> ~Odd(q)
  /\ \A q \in Seq(Frames) : Odd(<<ReadRoom>> \o q) <=> Odd(q)
<1>1. ASSUME NEW q \in Seq(Frames), Reaction \notin ToSet(q)
      PROVE ~Odd(q)
  BY <1>1, TogglesOfNone DEF Odd
<1>2. ASSUME NEW q \in Seq(Frames), NEW f \in Frames, f # Reaction
      PROVE Odd(Append(q, f)) <=> Odd(q)
  BY <1>2, TogglesOfAppended DEF Odd
<1>3. ASSUME NEW q \in Seq(Frames)
      PROVE Odd(Append(q, Reaction)) <=> ~Odd(q)
  <2>1. Toggles(q) \in Nat /\ Toggles(Append(q, Reaction)) = Toggles(q) + 1
    BY TogglesOfAppended, FrameKinds
  <2> QED BY <2>1 DEF Odd
<1>4. ASSUME NEW q \in Seq(Frames)
      PROVE Odd(<<ReadRoom>> \o q) <=> Odd(q)
  BY TogglesAfterRead DEF Odd
<1> QED BY <1>1, <1>2, <1>3, <1>4

FramesTypeOK ==
  /\ queue \in Seq(Firsts)
  /\ told \in [Incoming -> {"none", "sent", "delivered", "read"}]
  /\ open \in BOOLEAN /\ onScreen \in BOOLEAN /\ overflown \in BOOLEAN
  /\ clicked \in BOOLEAN /\ reacted \in BOOLEAN

(* Until a frame is dropped, the queue remembers every click, and a        *)
(* reaction the server has processed is still in it; without one the       *)
(* server has none.                                                        *)
ClicksQueued == ~overflown => (clicked <=> Odd(queue))
TookStillQueued == ~overflown /\ "reaction" \in took => Reaction \in ToSet(queue)
NoneTaken == "reaction" \notin took => ~reacted
ReactionInv == ClicksQueued /\ TookStillQueued /\ NoneTaken /\ ReactionAsClicked

FramesInv == FramesTypeOK /\ ReadMeansSeen /\ ReactionInv

LEMMA WiderSequence ==
  ASSUME NEW q \in Seq(Firsts)
  PROVE q \in Seq(Frames)
  BY FrameKinds

(* What the socket carries, all of it or the first of it.                  *)
LEMMA CarryStep ==
  ASSUME FramesTypeOK, NEW frames \in Seq(Frames), NEW n \in 0..Len(frames), Carry(frames, n)
  PROVE LET sent == ToSet(SubSeq(frames, 1, n))
        IN /\ sent \subseteq ToSet(frames)
           /\ n = 0 => sent = {}
           /\ told' \in [Incoming -> {"none", "sent", "delivered", "read"}]
           /\ \A m \in Incoming : told'[m] = "read" /\ told[m] # "read"
                => m \in Stored /\ (ReadRoom \in sent \/ ReceiptOf(m, "read") \in sent)
           /\ reacted' \in BOOLEAN /\ open' \in BOOLEAN
           /\ Reaction \notin sent => reacted' = reacted
           /\ open' => n = Len(frames) /\ (reacted' <=> ~(reacted <=> Odd(frames)))
           /\ n = Len(frames) => open'
           /\ "reaction" \in took' <=> ("reaction" \in took \/ Reaction \in sent)
<1> DEFINE s == SubSeq(frames, 1, n)
           sent == ToSet(s)
<1>1. s \in Seq(Frames) /\ sent \subseteq ToSet(frames)
  BY PrefixMembers
<1>2. n = 0 => sent = {}
  <2>1. n = 0 => s = <<>>
    BY SubSeqEmpty
  <2> QED BY <2>1 DEF ToSet
<1>3. n = Len(frames) => s = frames
  BY SubSeqFull
<1>4. /\ told' = AfterFrames(sent) /\ reacted' = AfterToggles(reacted, s)
      /\ took' = took \union KindsOf(s)
      /\ open' \in BOOLEAN /\ (open' <=> n = Len(frames))
  BY DEF Carry
<1> HIDE DEF s
<1>5. told' \in [Incoming -> {"none", "sent", "delivered", "read"}]
  BY <1>4 DEF AfterFrames, FramesTypeOK
<1>6. \A m \in Incoming : told'[m] = "read" /\ told[m] # "read"
                => m \in Stored /\ (ReadRoom \in sent \/ ReceiptOf(m, "read") \in sent)
  <2> SUFFICES ASSUME NEW m \in Incoming, told'[m] = "read", told[m] # "read"
               PROVE m \in Stored /\ ReadBy(m, sent)
    BY DEF ReadBy
  <2> HIDE DEF sent
  <2> QED BY <1>4 DEF AfterFrames
<1>7. reacted' \in BOOLEAN /\ (reacted' <=> ~(reacted <=> Odd(s)))
  BY <1>4 DEF AfterToggles, Odd, FramesTypeOK
<1>8. Reaction \notin sent => reacted' = reacted
  BY <1>1, <1>7, OddFrames DEF FramesTypeOK
<1>9. "reaction" \in KindsOf(s) <=> Reaction \in sent
  BY <1>1, FrameKinds, PlacesOf DEF KindsOf
<1> QED BY <1>1, <1>2, <1>3, <1>4, <1>5, <1>6, <1>7, <1>8, <1>9 DEF s

(* What is queued of frames sent together.                                 *)
LEMMA EnqueueStep ==
  ASSUME FramesTypeOK, NEW frames, frames = <<>> \/ Head(frames) \in Firsts, Enqueue(frames)
  PROVE /\ queue' \in Seq(Firsts) /\ overflown' \in BOOLEAN /\ (overflown => overflown')
        /\ ~overflown' => ToSet(queue) \subseteq ToSet(queue')
        /\ ~overflown' /\ (frames = <<>> \/ Head(frames) # Reaction)
             => (Odd(queue') <=> Odd(queue))
        /\ ~overflown' /\ frames # <<>> /\ Head(frames) = Reaction
             => (Odd(queue') <=> ~Odd(queue)) /\ Reaction \in ToSet(queue')
        /\ frames # <<>> /\ Head(frames) = ReadRoom => ReadRoom \in ToSet(queue')
<1> DEFINE q == Queued(queue, frames)
<1>1. /\ queue \in Seq(Firsts) /\ queue' = Limited(q)
      /\ overflown' = (overflown \/ Len(q) > MaxQueue)
  BY DEF FramesTypeOK, Enqueue
<1>2. /\ q = queue \/ (frames # <<>> /\ q = Append(queue, Head(frames)))
      /\ frames = <<>> => q = queue
      /\ frames # <<>> /\ Head(frames) \in {ReadRoom, Reaction} => q = Append(queue, Head(frames))
  <2>1. frames # <<>> /\ Head(frames) \in {ReadRoom, Reaction} => ~SameId(queue, Head(frames))
    BY FrameKinds DEF SameId
  <2> QED BY <2>1 DEF Queued
<1> HIDE DEF q
<1>3. q \in Seq(Firsts) /\ Len(q) \in Nat
  BY <1>1, <1>2
<1>4. /\ queue' \in Seq(Firsts) /\ (Len(q) <= MaxQueue => queue' = q)
      /\ q # <<>> => q[Len(q)] \in ToSet(queue')
  BY <1>1, <1>3, LimitedQueue
<1>5. overflown' \in BOOLEAN /\ (overflown => overflown') /\ (~overflown' => queue' = q)
  <2>1. ~(Len(q) > MaxQueue) => Len(q) <= MaxQueue
    BY <1>3, FramesAssumption DEF FramesAssumption
  <2>2. overflown \in BOOLEAN /\ (Len(q) > MaxQueue) \in BOOLEAN
    BY DEF FramesTypeOK
  <2> QED BY <1>1, <1>4, <2>1, <2>2
<1>6. CASE q = queue
  BY <1>2, <1>4, <1>5, <1>6, FrameKinds
<1>7. CASE q # queue
  <2>1. /\ frames # <<>> /\ Head(frames) \in Firsts /\ q = Append(queue, Head(frames))
    BY <1>2, <1>7
  <2>2. ToSet(q) = ToSet(queue) \union {Head(frames)} /\ q # <<>> /\ q[Len(q)] = Head(frames)
    BY <1>1, <2>1, AppendedPlaces
  <2>3. queue \in Seq(Frames) /\ Head(frames) \in Frames
    BY <1>1, <2>1, WiderSequence, FrameKinds
  <2>4. /\ Head(frames) # Reaction => (Odd(q) <=> Odd(queue))
        /\ Head(frames) = Reaction => (Odd(q) <=> ~Odd(queue))
    BY <2>1, <2>3, OddFrames
  <2> QED BY <1>4, <1>5, <2>1, <2>2, <2>4
<1> QED BY <1>6, <1>7

(* The reaction, when frames go out that do not touch it.                  *)
LEMMA OtherFramesSent ==
  ASSUME FramesInv, NEW frames \in Seq(Frames), frames # <<>>, Head(frames) \in Firsts,
         Reaction \notin ToSet(frames), Send(frames), UNCHANGED <<clicked, replayed>>
  PROVE ReactionInv' /\ reacted' = reacted
<1>1. frames # <<>> /\ Head(frames) # Reaction
  BY DEF ToSet
<1>2. /\ overflown => overflown'
      /\ ~overflown' => (Odd(queue') <=> Odd(queue)) /\ ToSet(queue) \subseteq ToSet(queue')
  BY <1>1, EnqueueStep DEF FramesInv, Send
<1>3. /\ reacted' = reacted /\ ("reaction" \in took' <=> "reaction" \in took)
      /\ open' => open
  <2>1. CASE open
    <3>1. PICK n \in 0..Len(frames) : Carry(frames, n)
      BY <2>1 DEF Send
    <3> QED BY <2>1, <3>1, CarryStep DEF FramesInv
  <2>2. CASE ~open
    BY <2>2 DEF Send, served
  <2> QED BY <2>1, <2>2
<1> QED BY <1>2, <1>3 DEF FramesInv, ReactionInv, ClicksQueued, TookStillQueued, NoneTaken,
                          ReactionAsClicked

LEMMA SendTypes ==
  ASSUME FramesInv, NEW frames \in Seq(Frames), frames # <<>>, Head(frames) \in Firsts,
         Send(frames)
  PROVE /\ queue' \in Seq(Firsts) /\ overflown' \in BOOLEAN
        /\ told' \in [Incoming -> {"none", "sent", "delivered", "read"}]
        /\ open' \in BOOLEAN /\ reacted' \in BOOLEAN
<1>1. queue' \in Seq(Firsts) /\ overflown' \in BOOLEAN
  BY EnqueueStep DEF FramesInv, Send
<1>2. CASE open
  <2>1. PICK n \in 0..Len(frames) : Carry(frames, n)
    BY <1>2 DEF Send
  <2> QED BY <1>1, <2>1, CarryStep DEF FramesInv
<1>3. CASE ~open
  BY <1>1, <1>3 DEF Send, served, FramesInv, FramesTypeOK
<1> QED BY <1>2, <1>3

LEMMA OpenRoomStep ==
  ASSUME FramesInv, OpenRoom
  PROVE FramesInv'
<1> DEFINE sent == <<ReadRoom>>
<1>1. /\ sent \in Seq(Frames) /\ sent # <<>> /\ Head(sent) = ReadRoom /\ Len(sent) = 1
      /\ Reaction \notin ToSet(sent) /\ Send(sent) /\ UNCHANGED <<clicked, resent>>
  BY FrameKinds DEF OpenRoom, ToSet
<1>2. onScreen' = TRUE /\ seen' = seen \union arrived'
      /\ arrived' = IF open' THEN arrived \union Stored ELSE arrived
  BY DEF OpenRoom
<1>3. UNCHANGED <<rewritten, replayed>>
  BY <1>1 DEF resent
<1> HIDE DEF sent
<1>4. FramesTypeOK'
  BY <1>1, <1>2, SendTypes, FrameKinds DEF FramesInv, FramesTypeOK
<1>5. ReactionInv'
  BY <1>1, <1>3, OtherFramesSent, FrameKinds
<1>6. ReadMeansSeen'
  <2> SUFFICES ASSUME NEW m \in Incoming, told'[m] = "read", told[m] # "read"
               PROVE m \in seen'
    BY <1>2, <1>3 DEF ReadMeansSeen, FramesInv
  <2>1. open
    BY <1>1 DEF Send, served
  <2>2. PICK n \in 0..1 : Carry(sent, n)
    BY <1>1, <2>1 DEF Send
  <2>3. n = 1 /\ m \in Stored
    BY <1>1, <2>2, CarryStep DEF FramesInv
  <2>4. open'
    BY <1>1, <2>2, <2>3, CarryStep DEF FramesInv
  <2> QED BY <1>2, <2>3, <2>4
<1> QED BY <1>4, <1>5, <1>6 DEF FramesInv

LEMMA ReactStep ==
  ASSUME FramesInv, React
  PROVE FramesInv'
<1> DEFINE sent == <<Reaction>>
<1>1. /\ sent \in Seq(Frames) /\ sent # <<>> /\ Head(sent) = Reaction /\ Len(sent) = 1
      /\ Send(sent) /\ UNCHANGED <<onScreen, seen>> /\ clicked' = ~clicked
      /\ ToSet(sent) = {Reaction}
  BY FrameKinds DEF React, ToSet
<1>2. UNCHANGED <<rewritten, replayed>>
  BY DEF React, resent
<1>3. Odd(sent)
  <2>1. <<>> \in Seq(Frames) /\ Reaction \notin ToSet(<<>>) /\ sent = Append(<<>>, Reaction)
    BY DEF ToSet
  <2> QED BY <2>1, OddFrames
<1> HIDE DEF sent
<1>4. FramesTypeOK'
  BY <1>1, SendTypes, FrameKinds DEF FramesInv, FramesTypeOK
<1>5. /\ overflown => overflown'
      /\ ~overflown' => (Odd(queue') <=> ~Odd(queue)) /\ Reaction \in ToSet(queue')
  BY <1>1, EnqueueStep, FrameKinds DEF FramesInv, Send
<1>6. /\ "reaction" \notin took' => reacted' = reacted /\ "reaction" \notin took
      /\ open' => open /\ (reacted' <=> ~reacted)
      /\ \A m \in Incoming : told'[m] = "read" => told[m] = "read"
  <2>1. CASE open
    <3>1. PICK n \in 0..1 : Carry(sent, n)
      BY <1>1, <2>1 DEF Send
    <3>2. \A m \in Incoming : Reaction # ReceiptOf(m, "read") /\ Reaction # ReadRoom
      BY FrameKinds
    <3> QED BY <1>1, <1>3, <2>1, <3>1, <3>2, CarryStep DEF FramesInv, FramesTypeOK
  <2>2. CASE ~open
    BY <1>1, <2>2 DEF Send, served
  <2> QED BY <2>1, <2>2
<1>7. ReadMeansSeen'
  BY <1>1, <1>2, <1>6 DEF FramesInv, ReadMeansSeen
<1>8. ReactionInv'
  <2>1. clicked' \in BOOLEAN /\ clicked \in BOOLEAN /\ reacted \in BOOLEAN /\ (clicked' <=> ~clicked)
    BY <1>1, <1>4 DEF FramesInv, FramesTypeOK
  <2>2. ClicksQueued'
    BY <1>5, <2>1 DEF FramesInv, ReactionInv, ClicksQueued
  <2>3. TookStillQueued' /\ NoneTaken'
    BY <1>5, <1>6 DEF FramesInv, ReactionInv, TookStillQueued, NoneTaken
  <2>4. ReactionAsClicked'
    <3> SUFFICES ASSUME open', "reaction" \notin replayed', ~overflown'
                 PROVE reacted' <=> clicked'
      BY <2>1, <1>4 DEF ReactionAsClicked, FramesTypeOK
    <3>1. reacted = clicked
      BY <1>2, <1>5, <1>6 DEF FramesInv, ReactionInv, ReactionAsClicked
    <3> QED BY <1>6, <2>1, <3>1
  <2> QED BY <2>2, <2>3, <2>4 DEF ReactionInv
<1> QED BY <1>4, <1>7, <1>8 DEF FramesInv

LEMMA ArrivesStep ==
  ASSUME FramesInv, NEW m \in Incoming, Arrives(m)
  PROVE FramesInv'
<1> DEFINE sent == OnArrival(m)
<1>1. /\ sent \in Seq(Frames) /\ sent # <<>> /\ Head(sent) = ReceiptOf(m, "delivered")
      /\ ToSet(sent) \subseteq {ReceiptOf(m, "delivered"), ReceiptOf(m, "read")}
      /\ ReceiptOf(m, "read") \in ToSet(sent) => onScreen
  <2>1. ReceiptOf(m, "delivered") \in Frames /\ ReceiptOf(m, "read") \in Frames
    BY FrameKinds
  <2>2. CASE onScreen
    <3> DEFINE a == <<ReceiptOf(m, "delivered")>>
               b == <<ReceiptOf(m, "read")>>
    <3>1. /\ a \in Seq(Frames) /\ b \in Seq(Frames) /\ Len(a) = 1 /\ Len(b) = 1
          /\ a[1] = ReceiptOf(m, "delivered") /\ b[1] = ReceiptOf(m, "read")
      BY <2>1
    <3>2. sent = a \o b
      BY <2>2 DEF OnArrival
    <3> HIDE DEF a, b, sent
    <3>3. /\ sent \in Seq(Frames) /\ Len(sent) = 2
          /\ sent[1] = ReceiptOf(m, "delivered") /\ sent[2] = ReceiptOf(m, "read")
      <4>1. /\ sent \in Seq(Frames) /\ Len(sent) = Len(a) + Len(b)
            /\ \A i \in 1..Len(a) + Len(b) : sent[i] = IF i <= Len(a) THEN a[i] ELSE b[i - Len(a)]
        BY <3>1, <3>2, ConcatProperties
      <4>2. 1 \in 1..1 + 1 /\ 2 \in 1..1 + 1 /\ 2 - 1 = 1 /\ ~(2 <= 1) /\ 1 <= 1
        OBVIOUS
      <4> QED BY <3>1, <4>1, <4>2
    <3>4. sent # <<>> /\ Head(sent) = sent[1] /\ \A i \in 1..Len(sent) : i = 1 \/ i = 2
      BY <3>3
    <3> QED BY <2>2, <3>3, <3>4, PlacesOf
  <2>3. CASE ~onScreen
    <3>1. sent = <<ReceiptOf(m, "delivered")>>
      BY <2>3 DEF OnArrival
    <3>2. ReceiptOf(m, "read") \notin ToSet(sent)
      BY <3>1, FrameKinds DEF ToSet
    <3> QED BY <2>1, <3>1, <3>2 DEF ToSet
  <2> QED BY <2>2, <2>3
<1>2. /\ open /\ Send(sent) /\ UNCHANGED <<onScreen, clicked, resent>>
      /\ seen' = IF onScreen THEN seen \union {m} ELSE seen
  BY DEF Arrives
<1>3. UNCHANGED <<rewritten, replayed>>
  BY <1>2 DEF resent
<1> HIDE DEF sent
<1>4. FramesTypeOK'
  BY <1>1, <1>2, SendTypes, FrameKinds DEF FramesInv, FramesTypeOK
<1>5. ReactionInv'
  <2>1. Reaction \notin ToSet(sent)
    BY <1>1, FrameKinds
  <2> QED BY <1>1, <1>2, <1>3, <2>1, OtherFramesSent, FrameKinds
<1>6. ReadMeansSeen'
  <2> SUFFICES ASSUME NEW k \in Incoming, told'[k] = "read", told[k] # "read"
               PROVE k \in seen'
    BY <1>2, <1>3 DEF ReadMeansSeen, FramesInv
  <2>1. PICK n \in 0..Len(sent) : Carry(sent, n)
    BY <1>2 DEF Send
  <2>2. ReadRoom \in ToSet(sent) \/ ReceiptOf(k, "read") \in ToSet(sent)
    BY <1>1, <2>1, CarryStep DEF FramesInv
  <2>3. ReceiptOf(k, "read") = ReceiptOf(m, "read") /\ ReceiptOf(m, "read") \in ToSet(sent)
    BY <1>1, <2>2, FrameKinds
  <2>4. k = m
    BY <2>3, FrameKinds
  <2> QED BY <1>1, <1>2, <2>3, <2>4
<1> QED BY <1>4, <1>5, <1>6 DEF FramesInv

(* What an onopen writes, and what it tells.                               *)
LEMMA ReopenStep ==
  ASSUME FramesInv, Reopen
  PROVE FramesInv'
<1> DEFINE fresh == IF onScreen THEN <<ReadRoom>> ELSE <<>>
           sent == fresh \o queue'
<1>1. PICK n \in 0..Len(sent) : Carry(sent, n)
  BY DEF Reopen, Resend
<1>2. /\ Enqueue(fresh) /\ UNCHANGED <<onScreen, clicked>>
      /\ rewritten' = rewritten \union KindsOf(queue')
      /\ replayed' = replayed \union (took \intersect KindsOf(queue'))
      /\ seen' = IF onScreen THEN seen \union arrived' ELSE seen
  BY DEF Reopen
<1>3. fresh = <<>> \/ fresh = <<ReadRoom>>
  OBVIOUS
<1>4. fresh = <<>> \/ (fresh # <<>> /\ Head(fresh) = ReadRoom /\ Head(fresh) \in Firsts)
  BY <1>3, FrameKinds
<1> HIDE DEF fresh
<1>5. /\ queue' \in Seq(Firsts) /\ overflown' \in BOOLEAN /\ (overflown => overflown')
      /\ ~overflown' => ToSet(queue) \subseteq ToSet(queue')
      /\ ~overflown' => (Odd(queue') <=> Odd(queue))
      /\ fresh = <<ReadRoom>> => ReadRoom \in ToSet(queue')
  <2>1. FramesTypeOK /\ (fresh = <<>> \/ Head(fresh) \in Firsts) /\ <<ReadRoom>> # <<>>
    BY <1>4 DEF FramesInv
  <2>2. CASE fresh = <<>>
    BY <1>2, <2>1, <2>2, EnqueueStep
  <2>3. CASE fresh # <<>> /\ Head(fresh) = ReadRoom
    BY <1>2, <2>1, <2>3, EnqueueStep, FrameKinds
  <2> QED BY <1>4, <2>2, <2>3
<1>6. queue' \in Seq(Frames)
  BY <1>5, FrameKinds
<1>7. /\ sent \in Seq(Frames) /\ (Odd(sent) <=> Odd(queue'))
      /\ \A f \in Frames : f \in ToSet(sent) => f \in ToSet(queue')
  <2>1. CASE fresh = <<>>
    <3>1. sent = queue'
      BY <1>6, <2>1, ConcatEmptySeq
    <3> QED BY <1>6, <3>1
  <2>2. CASE fresh = <<ReadRoom>>
    <3>1. sent = <<ReadRoom>> \o queue'
      BY <2>2
    <3>2. sent \in Seq(Frames) /\ (Odd(sent) <=> Odd(queue'))
      BY <1>6, <3>1, TogglesAfterRead, OddFrames
    <3>3. \A f \in Frames : f \in ToSet(sent) => f = ReadRoom \/ f \in ToSet(queue')
      <4>1. /\ <<ReadRoom>> \in Seq(Frames) /\ Len(<<ReadRoom>>) = 1 /\ <<ReadRoom>>[1] = ReadRoom
        BY FrameKinds
      <4>2. /\ Len(sent) = 1 + Len(queue') /\ Len(queue') \in Nat
            /\ \A i \in 1..1 + Len(queue') : sent[i] = IF i <= 1 THEN <<ReadRoom>>[i]
                                                       ELSE queue'[i - 1]
        BY <1>6, <3>1, <4>1, ConcatProperties
      <4>3. \A i \in 1..1 + Len(queue') : i = 1 \/ (~(i <= 1) /\ i - 1 \in 1..Len(queue'))
        BY <4>2
      <4>4. \A i \in 1..Len(sent) : sent[i] = ReadRoom \/ \E j \in 1..Len(queue') : sent[i] = queue'[j]
        BY <4>1, <4>2, <4>3
      <4>5. \A f : f \in ToSet(sent) => \E i \in 1..Len(sent) : sent[i] = f
        BY <3>2, PlacesOf
      <4>6. \A f : (\E j \in 1..Len(queue') : queue'[j] = f) => f \in ToSet(queue')
        BY <1>6, PlacesOf
      <4> QED BY <4>4, <4>5, <4>6
    <3> QED BY <1>5, <2>2, <3>2, <3>3
  <2> QED BY <1>3, <2>1, <2>2
<1> HIDE DEF sent
<1>8. FramesTypeOK'
  BY <1>1, <1>2, <1>5, <1>7, CarryStep DEF FramesInv, FramesTypeOK
<1>9. "reaction" \in KindsOf(queue') <=> Reaction \in ToSet(queue')
  BY <1>6, FrameKinds, PlacesOf DEF KindsOf
<1>10. ReadRoom \in ToSet(queue') => "readRoom" \in KindsOf(queue')
  BY FrameKinds DEF KindsOf
<1>11. ReadMeansSeen'
  <2> SUFFICES ASSUME NEW m \in Incoming, told'[m] = "read", told[m] # "read"
               PROVE "readRoom" \in rewritten'
    BY <1>2 DEF ReadMeansSeen, FramesInv
  <2>1. ReadRoom \in ToSet(sent) \/ ReceiptOf(m, "read") \in ToSet(sent)
    BY <1>1, <1>7, CarryStep DEF FramesInv
  <2>2. ReceiptOf(m, "read") \notin ToSet(sent)
    <3>1. ReceiptOf(m, "read") \notin Firsts /\ ReceiptOf(m, "read") \in Frames
      BY FrameKinds DEF Firsts
    <3> QED BY <1>5, <1>7, <3>1, PlacesOf
  <2> QED BY <1>2, <1>7, <1>10, <2>1, <2>2, FrameKinds
<1>12. /\ "reaction" \in took' => "reaction" \in took \/ Reaction \in ToSet(queue')
       /\ "reaction" \notin took' => reacted' = reacted /\ "reaction" \notin took
       /\ open' => (reacted' <=> ~(reacted <=> Odd(queue')))
       /\ ReadRoom \in Frames /\ Reaction \in Frames
  BY <1>1, <1>7, CarryStep, FrameKinds DEF FramesInv
<1>13. ReactionInv'
  <2>1. ClicksQueued'
    BY <1>2, <1>5 DEF FramesInv, ReactionInv, ClicksQueued
  <2>2. TookStillQueued' /\ NoneTaken'
    BY <1>5, <1>12 DEF FramesInv, ReactionInv, TookStillQueued, NoneTaken
  <2>3. ReactionAsClicked'
    <3> SUFFICES ASSUME open', "reaction" \notin replayed', ~overflown'
                 PROVE reacted' = clicked'
      BY DEF ReactionAsClicked
    <3>1. "reaction" \notin took
      BY <1>2, <1>5, <1>9 DEF FramesInv, ReactionInv, TookStillQueued
    <3>2. ~reacted /\ reacted' \in BOOLEAN /\ clicked' \in BOOLEAN /\ (clicked <=> Odd(queue))
      BY <1>5, <1>8, <3>1 DEF FramesInv, ReactionInv, NoneTaken, ClicksQueued, FramesTypeOK
    <3> QED BY <1>2, <1>5, <1>12, <3>2
  <2> QED BY <2>1, <2>2, <2>3 DEF ReactionInv
<1> QED BY <1>8, <1>11, <1>13 DEF FramesInv

(* What replayed frames tell the server is what the user saw and clicked,  *)
(* but for a receipt for the whole room written again and a reaction       *)
(* toggled again, as long as the queue holds them all: WsClient.flushQueue. *)
THEOREM FramesTellWhatWas == FramesSpec => []ToldAsItWas
<1>1. FramesInit => FramesInv
  <2> SUFFICES ASSUME FramesInit
               PROVE FramesInv
    OBVIOUS
  <2>1. queue = <<>> /\ queue \in Seq(Firsts) /\ queue \in Seq(Frames) /\ Reaction \notin ToSet(queue)
    BY DEF FramesInit, ToSet
  <2>2. ~Odd(queue)
    BY <2>1, OddFrames
  <2> QED BY <2>1, <2>2 DEF FramesInit, FramesInv, FramesTypeOK, ReactionInv, ReadMeansSeen,
                           ClicksQueued, TookStillQueued, NoneTaken, ReactionAsClicked
<1>2. FramesInv /\ [FramesNext]_framesVars => FramesInv'
  <2> SUFFICES ASSUME FramesInv, [FramesNext]_framesVars
               PROVE FramesInv'
    OBVIOUS
  <2>1. CASE LeaveRoom \/ Break \/ UNCHANGED framesVars
    <3>1. UNCHANGED <<queue, told, seen, clicked, reacted, overflown, took, rewritten, replayed>>
      BY <2>1 DEF LeaveRoom, Break, framesVars, served, user, resent
    <3>2. open \in BOOLEAN /\ onScreen \in BOOLEAN
      BY DEF FramesInv, FramesTypeOK
    <3>3. (open' = open \/ open' = FALSE) /\ (onScreen' = onScreen \/ onScreen' = FALSE)
      BY <2>1 DEF LeaveRoom, Break, framesVars
    <3>4. open' \in BOOLEAN /\ onScreen' \in BOOLEAN /\ (open' => open)
      <4>1. open' \in BOOLEAN /\ onScreen' \in BOOLEAN
        BY <3>2, <3>3
      <4>2. CASE open' = open
        BY <4>1, <4>2
      <4>3. CASE open' = FALSE
        BY <4>1, <4>3
      <4> QED BY <3>3, <4>2, <4>3
    <3> QED BY <3>1, <3>4 DEF FramesInv, FramesTypeOK, ReactionInv, ReadMeansSeen, ClicksQueued,
                             TookStillQueued, NoneTaken, ReactionAsClicked
  <2>2. ASSUME NEW m \in Incoming, PeerWrites(m)
        PROVE FramesInv'
    <3>1. UNCHANGED <<queue, open, onScreen, seen, clicked, reacted, overflown, took, rewritten, replayed>>
      BY <2>2 DEF PeerWrites, user, resent
    <3>2. PICK s \in {"sent", "delivered"} : told' = [told EXCEPT ![m] = s]
      BY <2>2 DEF PeerWrites
    <3>3. FramesTypeOK' /\ ReadMeansSeen'
      BY <3>1, <3>2 DEF FramesInv, FramesTypeOK, ReadMeansSeen
    <3> QED BY <3>1, <3>3 DEF FramesInv, ReactionInv, ClicksQueued, TookStillQueued, NoneTaken,
                             ReactionAsClicked
  <2> QED BY <2>1, <2>2, OpenRoomStep, ReactStep, ArrivesStep, ReopenStep DEF FramesNext
<1>3. FramesInv => ToldAsItWas
  BY DEF FramesInv, ReactionInv, ToldAsItWas
<1> QED BY <1>1, <1>2, <1>3, PTL DEF FramesSpec
===============================================================================
