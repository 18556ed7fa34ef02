--------------------------- MODULE Broadcast_proofs ---------------------------
(*****************************************************************************)
(* What the browser sends is not lost, is what the client was told, and is   *)
(* broadcast once by a node, for any messages, nodes, limits and number of   *)
(* faults; the first device that answers a call keeps it, for any devices,   *)
(* nodes, callers and number of calls; and the ends of one call agree, for   *)
(* any devices of the callee on one node.                                    *)
(*****************************************************************************)
EXTENDS OutboundDelivery, CallSignaling, FiniteSetTheorems, SequenceTheorems, TLAPS

Frames == [kind : {"error", "ok", "receipt"}, msg : Msgs]
Works == {Idle} \union [step : {"guarded", "broadcast", "stored"}, msg : Msgs]

TypeOK ==
  /\ written \in 0..MaxMsgs /\ queue \in Seq(Msgs)
  /\ link \in {"connecting", "open", "stopped"} /\ conn \in Nat
  /\ node \in [Sockets -> Nodes]
  /\ up \in [Sockets -> Seq(Msgs)] /\ down \in [Sockets -> Seq(Frames)]
  /\ handler \in [Sockets -> Works]
  /\ history \in [Nodes -> SUBSET Msgs] /\ heard \in [Nodes -> [Msgs -> Nat]]
  /\ breaks \in Nat /\ crashes \in Nat /\ forgets \in Nat /\ breaks + crashes + forgets <= MaxFaults

(* The queue holds a message once, and only what was written.              *)
Distinct(s) == \A i, j \in 1..Len(s) : s[i] = s[j] => i = j
QueueOK == Distinct(queue) /\ \A m \in ToSet(queue) : m <= written

(* Every socket but the first was opened after a fault, and one not opened *)
(* yet carries nothing.                                                    *)
SocketsCounted ==
  /\ IF link = "open" THEN conn > 0 /\ conn <= breaks + crashes + 1 ELSE conn <= breaks + crashes
  /\ \A k \in Sockets : k > conn => handler[k] = Idle /\ up[k] = <<>>

(* The server answered for m: it has it, had it, or is about to save it.   *)
Settled(m) == m \in saved \union unsaved \union abandoned \/ InHand(m)
StoredIsKept == \A k \in Sockets : At(k, "stored") => handler[k].msg \in saved \union unsaved

(* What a frame on its way to the client says is so, and so is what the    *)
(* guard remembers.                                                        *)
FrameTells(f) == IF f.kind = "error" THEN f.msg \in refused ELSE Settled(f.msg)
FramesTell == \A k \in Sockets : \A f \in ToSet(down[k]) : FrameTells(f)
HistoryTells == \A n \in Nodes : \A m \in history[n] : Settled(m)

(* Broadcasts of m on a node, done or about to be: one, and another only   *)
(* after each loss of the guard's memory.                                  *)
Pending(n, m) == {k \in Sockets : node[k] = n /\ handler[k] = [step |-> "guarded", msg |-> m]}
Remembered(n, m) == IF m \in history[n] THEN 1 ELSE 0
BroadcastsCounted ==
  \A n \in Nodes, m \in Msgs :
    heard[n][m] + Cardinality(Pending(n, m)) <= crashes + forgets + Remembered(n, m)

(* The inductive invariant.                                                *)
DeliveryInv == /\ TypeOK /\ QueueOK /\ SocketsCounted /\ StoredIsKept /\ FramesTell /\ HistoryTells
               /\ BroadcastsCounted /\ NothingVanishes /\ ConfirmedIsSaved
-------------------------------------------------------------------------------
LEMMA Bounds ==
  /\ MaxMsgs \in Nat /\ MaxMsgs > 0 /\ MaxQueue \in Nat /\ MaxQueue > 0
  /\ SendBuffer \in Nat /\ SendBuffer > 0 /\ MaxFaults \in Nat
  /\ Msgs \subseteq Nat /\ Sockets = 1..(MaxFaults + 1) /\ IsFiniteSet(Sockets)
<1>1. MaxFaults \in Nat
  BY DeliveryAssumption DEF DeliveryAssumption
<1>2. IsFiniteSet(1..(MaxFaults + 1))
  BY <1>1, FS_Interval
<1> QED BY <1>1, <1>2, DeliveryAssumption DEF DeliveryAssumption, Msgs, Sockets

LEMMA WorkKinds ==
  ASSUME NEW x \in Works
  PROVE /\ x # Idle => x.msg \in Msgs /\ x.step \in {"guarded", "broadcast", "stored"}
        /\ x # Idle => x = [step |-> x.step, msg |-> x.msg]
        /\ Idle.step = "idle" /\ (x.step \in {"guarded", "broadcast", "stored"} => x # Idle)
  BY DEF Works, Idle

(* The sequences of frames and messages after each operation on them.      *)
LEMMA CutSequence ==
  ASSUME NEW S, NEW s \in Seq(S), NEW n \in 0..Len(s)
  PROVE SubSeq(s, 1, n) \in Seq(S) /\ ToSet(SubSeq(s, 1, n)) \subseteq ToSet(s)
<1>1. /\ SubSeq(s, 1, n) \in Seq(S) /\ Len(SubSeq(s, 1, n)) = n
      /\ \A i \in 1..n : SubSeq(s, 1, n)[i] = s[i]
  BY SubSeqProperties
<1> QED BY <1>1 DEF ToSet

LEMMA TailSequence ==
  ASSUME NEW S, NEW s \in Seq(S), s # <<>>
  PROVE /\ Tail(s) \in Seq(S) /\ Head(s) \in S /\ Head(s) \in ToSet(s)
        /\ ToSet(s) = ToSet(Tail(s)) \union {Head(s)}
        /\ Distinct(s) => Distinct(Tail(s)) /\ Head(s) \notin ToSet(Tail(s))
<1>1. /\ Tail(s) \in Seq(S) /\ Len(Tail(s)) = Len(s) - 1 /\ Head(s) = s[1] /\ Len(s) > 0
      /\ \A i \in 1..Len(s) - 1 : Tail(s)[i] = s[i + 1]
      /\ DOMAIN Tail(s) = 1..Len(s) - 1 /\ DOMAIN s = 1..Len(s)
  OBVIOUS
<1>2. \A j \in 2..Len(s) : j - 1 \in 1..Len(s) - 1 /\ Tail(s)[j - 1] = s[j]
  BY <1>1
<1>3. \A x : x \in ToSet(Tail(s)) <=> \E i \in 1..Len(s) - 1 : Tail(s)[i] = x
  BY <1>1 DEF ToSet
<1>4. \A x : x \in ToSet(s) <=> \E i \in 1..Len(s) : s[i] = x
  BY <1>1 DEF ToSet
<1>5. \A x \in ToSet(Tail(s)) : x \in ToSet(s)
  BY <1>1, <1>3, <1>4
<1>6. \A x \in ToSet(s) : x = s[1] \/ x \in ToSet(Tail(s))
  <2>1. \A j \in 1..Len(s) : j = 1 \/ j \in 2..Len(s)
    OBVIOUS
  <2> QED BY <1>2, <1>3, <1>4, <2>1
<1>7. Distinct(s) => Distinct(Tail(s)) /\ s[1] \notin ToSet(Tail(s))
  BY <1>1, <1>3 DEF Distinct
<1>8. 1 \in 1..Len(s)
  BY <1>1
<1> QED BY <1>1, <1>4, <1>5, <1>6, <1>7, <1>8

LEMMA AppendSequence ==
  ASSUME NEW s \in Seq(Msgs), NEW m \in Msgs, Distinct(s)
  PROVE /\ Append(s, m) \in Seq(Msgs) /\ ToSet(Append(s, m)) = ToSet(s) \union {m}
        /\ m \notin ToSet(s) => Distinct(Append(s, m))
  BY DEF ToSet, Distinct

LEMMA WithoutIs ==
  ASSUME NEW S, NEW s \in Seq(S), Distinct(s), NEW m
  PROVE /\ Without(s, m) \in Seq(S) /\ Distinct(Without(s, m))
        /\ ToSet(Without(s, m)) = ToSet(s) \ {m}
<1>1. CASE m \in ToSet(s)
  <2> DEFINE i == CHOOSE j \in DOMAIN s : s[j] = m
             r == RemoveAt(s, i)
  <2>1. i \in 1..Len(s) /\ s[i] = m
    <3>1. \E j \in DOMAIN s : s[j] = m
      BY <1>1 DEF ToSet
    <3> QED BY <3>1
  <2>2. Without(s, m) = r
    BY <1>1 DEF Without
  <2> HIDE DEF i
  <2>3. /\ r \in Seq(S) /\ Len(r) = Len(s) - 1
        /\ \A j \in 1..Len(s) - 1 : r[j] = IF j < i THEN s[j] ELSE s[j + 1]
    <3> DEFINE a == SubSeq(s, 1, i - 1)
               b == SubSeq(s, i + 1, Len(s))
    <3>1. a \in Seq(S) /\ Len(a) = i - 1 /\ \A j \in 1..i - 1 : a[j] = s[j]
      BY <2>1, SubSeqProperties
    <3>2. b \in Seq(S) /\ Len(b) = Len(s) - i /\ \A j \in 1..Len(s) - i : b[j] = s[j + i]
      BY <2>1, SubSeqProperties
    <3>3. r = a \o b
      BY DEF RemoveAt
    <3> HIDE DEF r, a, b
    <3>4. r \in Seq(S) /\ Len(r) = Len(s) - 1
      <4>1. r \in Seq(S) /\ Len(r) = Len(a) + Len(b)
        BY <3>1, <3>2, <3>3, ConcatProperties
      <4>2. i \in Nat /\ Len(s) \in Nat
        BY <2>1
      <4> QED BY <3>1, <3>2, <4>1, <4>2
    <3>5. ASSUME NEW j \in 1..Len(s) - 1 PROVE r[j] = IF j < i THEN s[j] ELSE s[j + 1]
      <4>1. r[j] = IF j <= Len(a) THEN a[j] ELSE b[j - Len(a)]
        BY <2>1, <3>1, <3>2, <3>3, ConcatProperties
      <4>2. CASE j < i
        BY <2>1, <3>1, <4>1, <4>2
      <4>3. CASE ~(j < i)
        <5>1. j - Len(a) \in 1..Len(s) - i /\ j - Len(a) + i = j + 1
          BY <2>1, <3>1, <4>3
        <5> QED BY <2>1, <3>1, <3>2, <4>1, <4>3, <5>1
      <4> QED BY <4>2, <4>3
    <3> QED BY <3>4, <3>5
  <2> HIDE DEF r
  <2>4. Distinct(r)
    BY <2>1, <2>3 DEF Distinct
  <2>5. ASSUME NEW j \in 1..Len(s), j # i PROVE \E k \in 1..Len(r) : r[k] = s[j]
    <3>1. CASE j < i
      BY <2>1, <2>3, <3>1
    <3>2. CASE j > i
      <4>1. j - 1 \in 1..Len(r) /\ r[j - 1] = s[j]
        BY <2>1, <2>3, <3>2
      <4> QED BY <4>1
    <3> QED BY <2>1, <2>5, <3>1, <3>2
  <2>6. \A k \in 1..Len(r) : \E j \in 1..Len(s) : j # i /\ r[k] = s[j]
    BY <2>1, <2>3
  <2>7. DOMAIN r = 1..Len(r) /\ DOMAIN s = 1..Len(s)
    BY <2>3
  <2>8. \A x : x \in ToSet(r) <=> \E k \in 1..Len(r) : r[k] = x
    BY <2>7 DEF ToSet
  <2>9. \A x : x \in ToSet(s) <=> \E k \in 1..Len(s) : s[k] = x
    BY <2>7 DEF ToSet
  <2>10. \A x \in ToSet(r) : x \in ToSet(s) /\ x # m
    BY <2>1, <2>6, <2>8, <2>9 DEF Distinct
  <2>11. \A x \in ToSet(s) : x # m => x \in ToSet(r)
    BY <2>1, <2>5, <2>8, <2>9
  <2> QED BY <2>2, <2>3, <2>4, <2>10, <2>11
<1>2. CASE m \notin ToSet(s)
  BY <1>2 DEF Without
<1> QED BY <1>1, <1>2

(* The frames the server sends: no other frames arrive.                    *)
LEMMA SentIs ==
  ASSUME TypeOK, NEW k \in Sockets, NEW fs \in Seq(Frames)
  PROVE /\ Sent(k, fs) \in [Sockets -> Seq(Frames)]
        /\ \A j \in Sockets : \A f \in ToSet(Sent(k, fs)[j]) : f \in ToSet(down[j]) \/ f \in ToSet(fs)
<1> DEFINE s == down[k] \o fs
           room == IF Len(s) < SendBuffer THEN Len(s) ELSE SendBuffer
<1>1. CASE k # conn \/ link # "open"
  BY <1>1 DEF Sent, TypeOK
<1>2. CASE ~(k # conn \/ link # "open")
  <2>1. down[k] \in Seq(Frames)
    BY DEF TypeOK
  <2>2. /\ s \in Seq(Frames) /\ Len(s) = Len(down[k]) + Len(fs)
        /\ \A i \in 1..Len(s) : s[i] = IF i <= Len(down[k]) THEN down[k][i] ELSE fs[i - Len(down[k])]
    BY <2>1, ConcatProperties
  <2>3. \A f \in ToSet(s) : f \in ToSet(down[k]) \/ f \in ToSet(fs)
    <3> HIDE DEF s
    <3> SUFFICES ASSUME NEW i \in 1..Len(s)
                 PROVE s[i] \in ToSet(down[k]) \/ s[i] \in ToSet(fs)
      BY <2>2 DEF ToSet
    <3>1. CASE i <= Len(down[k])
      <4>1. i \in DOMAIN down[k] /\ s[i] = down[k][i]
        BY <2>1, <2>2, <3>1
      <4> QED BY <4>1 DEF ToSet
    <3>2. CASE i > Len(down[k])
      <4>1. i - Len(down[k]) \in 1..Len(fs) /\ s[i] = fs[i - Len(down[k])]
        BY <2>1, <2>2, <3>2
      <4> QED BY <4>1 DEF ToSet
    <3> QED BY <2>1, <3>1, <3>2
  <2>4. room \in 0..Len(s)
    BY <2>2, Bounds
  <2>5. SubSeq(s, 1, room) \in Seq(Frames) /\ ToSet(SubSeq(s, 1, room)) \subseteq ToSet(s)
    <3> HIDE DEF s, room
    <3> QED BY <2>2, <2>4, CutSequence
  <2>6. Sent(k, fs) = [down EXCEPT ![k] = SubSeq(s, 1, room)]
    BY <1>2 DEF Sent
  <2> HIDE DEF s, room
  <2> QED BY <2>3, <2>5, <2>6 DEF TypeOK
<1> QED BY <1>1, <1>2

LEMMA DoneIs ==
  ASSUME NEW m \in Msgs
  PROVE /\ Done(m) \in Seq(Frames) /\ Reverse(Done(m)) \in Seq(Frames)
        /\ \A f \in ToSet(Done(m)) \union ToSet(Reverse(Done(m))) : f.kind # "error" /\ f.msg = m
<1>1. Done(m) \in Seq(Frames) /\ Len(Done(m)) = 2
  BY DEF Done, Frames
<1>2. \A i \in 1..2 : Done(m)[i].kind # "error" /\ Done(m)[i].msg = m /\ Done(m)[i] \in Frames
  BY DEF Done, Frames
<1>3. Reverse(Done(m)) = [i \in 1..2 |-> Done(m)[(2 - i) + 1]]
  BY <1>1 DEF Reverse
<1>4. \A i \in 1..2 : (2 - i) + 1 \in 1..2
  OBVIOUS
<1> HIDE DEF Done
<1>5. Reverse(Done(m)) \in Seq(Frames)
  BY <1>2, <1>3, <1>4, IsASeq
<1> QED BY <1>1, <1>2, <1>3, <1>4, <1>5 DEF ToSet
-------------------------------------------------------------------------------
(* What a handler's step makes of the handlers.                            *)
LEMMA GoOnIs ==
  ASSUME TypeOK, NEW k \in Sockets, handler[k] # Idle,
         NEW step \in {"guarded", "broadcast", "stored"}, GoOn(k, step)
  PROVE /\ handler' \in [Sockets -> Works] /\ handler[k].msg \in Msgs
        /\ handler'[k] = [step |-> step, msg |-> handler[k].msg]
        /\ \A j \in Sockets : j # k => handler'[j] = handler[j]
<1>1. PICK m : m = handler[k].msg
  OBVIOUS
<1>2. m \in Msgs /\ handler[k] = [step |-> handler[k].step, msg |-> m]
  BY <1>1, WorkKinds DEF TypeOK
<1>3. [handler[k] EXCEPT !.step = step] = [step |-> step, msg |-> m]
  BY <1>2
<1>4. handler' = [handler EXCEPT ![k] = [step |-> step, msg |-> m]]
  BY <1>3 DEF GoOn
<1> QED BY <1>1, <1>2, <1>4 DEF TypeOK, Works

LEMMA SendType ==
  ASSUME TypeOK, QueueOK, Send, link = "open" => conn \in Sockets
  PROVE TypeOK' /\ QueueOK'
<1> PICK m : m = written + 1
  OBVIOUS
<1> PICK q : q = IF Len(queue) >= MaxQueue THEN Tail(queue) ELSE queue
  OBVIOUS
<1>1. /\ written \in Nat /\ m \in Nat /\ m \in Msgs /\ m \in 0..MaxMsgs /\ m > written
      /\ written' = m /\ queue' = Append(q, m)
  <2>1. written' = m /\ queue' = Append(q, m) /\ written < MaxMsgs
    BY DEF Send
  <2>2. written \in 0..MaxMsgs /\ MaxMsgs \in Nat
    BY Bounds DEF TypeOK
  <2> QED BY <2>1, <2>2 DEF Msgs
<1>2. q \in Seq(Msgs) /\ Distinct(q) /\ ToSet(q) \subseteq ToSet(queue)
  <2>1. CASE Len(queue) >= MaxQueue
    <3>1. queue # <<>>
      BY <2>1, Bounds DEF TypeOK
    <3> QED BY <2>1, <3>1, TailSequence DEF TypeOK, QueueOK
  <2>2. CASE ~(Len(queue) >= MaxQueue)
    BY <2>2 DEF TypeOK, QueueOK
  <2> QED BY <2>1, <2>2
<1>3. /\ queue' \in Seq(Msgs) /\ ToSet(queue') = ToSet(q) \union {m}
      /\ m \notin ToSet(q) => Distinct(queue')
  <2>1. /\ Append(q, m) \in Seq(Msgs) /\ ToSet(Append(q, m)) = ToSet(q) \union {m}
        /\ m \notin ToSet(q) => Distinct(Append(q, m))
    BY <1>1, <1>2, AppendSequence
  <2> QED BY <1>1, <2>1
<1>4. \A x \in ToSet(q) : x \in Nat /\ x <= written /\ x # m
  <2>1. \A x \in ToSet(queue) : x \in Msgs
    BY DEF TypeOK, ToSet
  <2>2. \A x \in ToSet(queue) : x \in Nat /\ x <= written
    BY <2>1, Bounds DEF QueueOK
  <2> QED BY <1>1, <1>2, <2>2
<1>5. QueueOK'
  <2>1. \A x \in ToSet(queue') : x <= m
    BY <1>1, <1>3, <1>4
  <2> QED BY <1>1, <1>3, <1>4, <2>1 DEF QueueOK
<1>6. up' \in [Sockets -> Seq(Msgs)]
  BY <1>1 DEF Send, TypeOK
<1> QED BY <1>1, <1>3, <1>5, <1>6 DEF Send, TypeOK, counts

LEMMA ReceiveType ==
  ASSUME TypeOK, QueueOK, Receive, conn \in Sockets
  PROVE TypeOK' /\ QueueOK'
<1> PICK f : f = Head(down[conn])
  OBVIOUS
<1>1. /\ queue' = Without(queue, f.msg) /\ written' = written
      /\ down' = [down EXCEPT ![conn] = Tail(@)] /\ down[conn] # <<>>
  BY DEF Receive
<1>2. queue' \in Seq(Msgs) /\ Distinct(queue') /\ ToSet(queue') = ToSet(queue) \ {f.msg}
  BY <1>1, WithoutIs DEF TypeOK, QueueOK
<1>3. down' \in [Sockets -> Seq(Frames)]
  BY <1>1, TailSequence DEF TypeOK
<1>4. QueueOK'
  BY <1>1, <1>2 DEF QueueOK
<1> QED BY <1>2, <1>3, <1>4 DEF Receive, TypeOK, counts

(* How many sockets there have been.                                       *)
LEMMA OpenSocket ==
  ASSUME TypeOK, SocketsCounted
  PROVE /\ link = "open" => conn \in Sockets
        /\ link = "connecting" => conn + 1 \in Sockets
  BY Bounds DEF TypeOK, SocketsCounted

LEMMA BreakType ==
  ASSUME TypeOK, QueueOK, SocketsCounted, Break
  PROVE TypeOK' /\ QueueOK' /\ SocketsCounted'
<1>1. conn \in Sockets /\ link' \in {"connecting", "stopped"} /\ link = "open"
  BY OpenSocket DEF Break, Reconnect
<1>2. PICK i \in 0..Len(up[conn]) : up' = [up EXCEPT ![conn] = SubSeq(@, 1, i)]
  BY DEF Break
<1>3. up' \in [Sockets -> Seq(Msgs)] /\ \A k \in Sockets : k # conn => up'[k] = up[k]
  BY <1>1, <1>2, CutSequence DEF TypeOK
<1>4. down' \in [Sockets -> Seq(Frames)]
  BY <1>1 DEF Break, TypeOK
<1>5. TypeOK'
  <2>1. /\ breaks' \in Nat /\ crashes' \in Nat /\ forgets' \in Nat
        /\ breaks' + crashes' + forgets' <= MaxFaults
    BY Bounds DEF Break, TypeOK, FaultsLeft
  <2> QED BY <1>1, <1>3, <1>4, <2>1 DEF Break, TypeOK
<1>6. QueueOK'
  BY DEF Break, QueueOK
<1>7. SocketsCounted'
  BY <1>1, <1>3 DEF Break, SocketsCounted, TypeOK
<1> QED BY <1>5, <1>6, <1>7

LEMMA OpenType ==
  ASSUME TypeOK, QueueOK, SocketsCounted, NEW n \in Nodes, Open(n)
  PROVE TypeOK' /\ QueueOK' /\ SocketsCounted'
<1>1. conn + 1 \in Sockets /\ link = "connecting"
  BY OpenSocket DEF Open
<1>2. TypeOK'
  BY <1>1 DEF Open, Resend, TypeOK, counts
<1>3. QueueOK'
  BY DEF Open, QueueOK
<1>4. SocketsCounted'
  <2>1. /\ conn' = conn + 1 /\ link' = "open" /\ UNCHANGED <<breaks, crashes, handler>>
        /\ \A k \in Sockets : k # conn + 1 => up'[k] = up[k]
    BY DEF Open, TypeOK, counts
  <2>2. conn' > 0 /\ conn' <= breaks' + crashes' + 1
    BY <1>1, <2>1 DEF SocketsCounted, TypeOK
  <2>3. \A k \in Sockets : k > conn' => k # conn + 1 /\ k > conn
    BY <2>1, Bounds DEF TypeOK
  <2> QED BY <2>1, <2>2, <2>3 DEF SocketsCounted
<1> QED BY <1>2, <1>3, <1>4

LEMMA ReadType ==
  ASSUME TypeOK, QueueOK, SocketsCounted, NEW k \in Sockets, Read(k)
  PROVE TypeOK' /\ QueueOK' /\ SocketsCounted'
<1> PICK m : m = Head(up[k])
  OBVIOUS
<1>1. /\ up[k] # <<>> /\ m \in Msgs /\ up' = [up EXCEPT ![k] = Tail(@)]
      /\ up' \in [Sockets -> Seq(Msgs)] /\ k <= conn
  <2>1. up[k] # <<>> /\ up' = [up EXCEPT ![k] = Tail(@)] /\ up[k] \in Seq(Msgs)
    BY DEF Read, TypeOK
  <2>2. Tail(up[k]) \in Seq(Msgs) /\ m \in Msgs
    BY <2>1, TailSequence
  <2>3. k <= conn
    BY <2>1, Bounds DEF SocketsCounted, TypeOK
  <2> QED BY <2>1, <2>2, <2>3 DEF TypeOK
<1>2. down' \in [Sockets -> Seq(Frames)]
  <2>1. <<[kind |-> "error", msg |-> m]>> \in Seq(Frames)
    BY <1>1 DEF Frames
  <2>2. PICK fs \in Seq(Frames) : down' = Sent(k, fs) \/ down' = down
    BY <1>1, <2>1, DoneIs DEF Read
  <2> QED BY <2>2, SentIs DEF TypeOK
<1>3. /\ handler' \in [Sockets -> Works] /\ \A j \in Sockets : j # k => handler'[j] = handler[j]
      /\ history' \in [Nodes -> SUBSET Msgs]
  <2>1. [step |-> "guarded", msg |-> m] \in Works
    BY <1>1 DEF Works
  <2>2. \/ UNCHANGED <<handler, history>>
        \/ /\ handler' = [handler EXCEPT ![k] = [step |-> "guarded", msg |-> m]]
           /\ history' = [history EXCEPT ![node[k]] = @ \union {m}]
    BY DEF Read
  <2>3. /\ handler \in [Sockets -> Works] /\ history \in [Nodes -> SUBSET Msgs]
        /\ node[k] \in Nodes
    BY DEF TypeOK
  <2>4. CASE UNCHANGED <<handler, history>>
    BY <2>3, <2>4
  <2>5. CASE ~UNCHANGED <<handler, history>>
    <3>1. PICK x \in Works : handler' = [handler EXCEPT ![k] = x]
      BY <2>1, <2>2, <2>5
    <3>2. PICK n \in Nodes : history' = [history EXCEPT ![n] = @ \union {m}]
      BY <2>2, <2>3, <2>5
    <3> QED BY <1>1, <2>3, <3>1, <3>2
  <2> QED BY <2>4, <2>5
<1>4. TypeOK'
  BY <1>1, <1>2, <1>3 DEF Read, TypeOK, counts
<1>5. QueueOK'
  BY DEF Read, QueueOK
<1>6. SocketsCounted'
  BY <1>1, <1>3, Bounds DEF Read, SocketsCounted, counts, TypeOK
<1> QED BY <1>4, <1>5, <1>6

LEMMA HandlerType ==
  ASSUME TypeOK, QueueOK, SocketsCounted, NEW k \in Sockets,
         BroadcastLocal(k) \/ SaveMessage(k) \/ Confirm(k)
  PROVE TypeOK' /\ QueueOK' /\ SocketsCounted'
<1>1. handler[k] # Idle /\ handler[k].msg \in Msgs /\ node[k] \in Nodes /\ k <= conn
  <2>1. handler[k] # Idle
    BY DEF BroadcastLocal, SaveMessage, Confirm, At, Idle
  <2> QED BY <2>1, WorkKinds, Bounds DEF TypeOK, SocketsCounted
<1>2. handler' \in [Sockets -> Works] /\ \A j \in Sockets : j # k => handler'[j] = handler[j]
  <2>1. CASE BroadcastLocal(k) \/ SaveMessage(k)
    BY <1>1, <2>1, GoOnIs DEF BroadcastLocal, SaveMessage
  <2>2. CASE Confirm(k)
    BY <2>2 DEF Confirm, TypeOK, Works
  <2> QED BY <2>1, <2>2
<1>3. down' \in [Sockets -> Seq(Frames)]
  <2>1. CASE Confirm(k)
    BY <1>1, <2>1, DoneIs, SentIs DEF Confirm
  <2>2. CASE BroadcastLocal(k) \/ SaveMessage(k)
    BY <2>2 DEF BroadcastLocal, SaveMessage, TypeOK
  <2> QED BY <2>1, <2>2
<1>4. heard' \in [Nodes -> [Msgs -> Nat]]
  <2>1. CASE BroadcastLocal(k)
    <3>1. PICK n \in Nodes : n = node[k]
      BY <1>1
    <3>2. PICK m \in Msgs : m = handler[k].msg
      BY <1>1
    <3>3. heard' = [heard EXCEPT ![n][m] = @ + 1]
      BY <2>1, <3>1, <3>2 DEF BroadcastLocal
    <3> QED BY <3>3 DEF TypeOK
  <2>2. CASE SaveMessage(k) \/ Confirm(k)
    BY <2>2 DEF SaveMessage, Confirm, TypeOK
  <2> QED BY <2>1, <2>2
<1>5. UNCHANGED <<clientVars, node, up, history, counts>>
  BY DEF BroadcastLocal, SaveMessage, Confirm
<1> HIDE DEF BroadcastLocal
<1>6. TypeOK'
  BY <1>2, <1>3, <1>4, <1>5 DEF TypeOK, clientVars, counts
<1>7. QueueOK'
  BY <1>5 DEF QueueOK, clientVars
<1>8. SocketsCounted'
  BY <1>1, <1>2, <1>5, Bounds DEF SocketsCounted, clientVars, counts, TypeOK
<1> QED BY <1>6, <1>7, <1>8

LEMMA CrashType ==
  ASSUME TypeOK, QueueOK, SocketsCounted, NEW n \in Nodes, Crash(n)
  PROVE TypeOK' /\ QueueOK' /\ SocketsCounted'
<1> DEFINE here == {k \in Sockets : node[k] = n}
<1>1. /\ handler' = [k \in Sockets |-> IF k \in here THEN Idle ELSE handler[k]]
      /\ up' = [k \in Sockets |-> IF k \in here THEN <<>> ELSE up[k]]
      /\ down' = [k \in Sockets |-> IF k \in here THEN <<>> ELSE down[k]]
  BY DEF Crash
<1>2. /\ link' \in {"connecting", "open", "stopped"}
      /\ link' = "open" <=> link = "open" /\ conn \notin here
      /\ link' = link \/ link = "open"
  BY DEF Crash, Reconnect, TypeOK
<1> HIDE DEF here
<1>3. /\ handler' \in [Sockets -> Works] /\ up' \in [Sockets -> Seq(Msgs)]
      /\ down' \in [Sockets -> Seq(Frames)]
  BY <1>1 DEF TypeOK, Works
<1>4. /\ crashes' = crashes + 1 /\ history' = [history EXCEPT ![n] = {}] /\ FaultsLeft
      /\ UNCHANGED <<written, queue, conn, node, heard, breaks, forgets>>
  BY DEF Crash
<1>5. TypeOK'
  <2>1. /\ breaks' \in Nat /\ crashes' \in Nat /\ forgets' \in Nat
        /\ breaks' + crashes' + forgets' <= MaxFaults
    BY <1>4, Bounds DEF TypeOK, FaultsLeft
  <2> QED BY <1>2, <1>3, <1>4, <2>1 DEF TypeOK
<1>6. QueueOK'
  BY <1>4 DEF QueueOK
<1>7. SocketsCounted'
  BY <1>1, <1>2, <1>4, Bounds DEF SocketsCounted, TypeOK
<1> QED BY <1>5, <1>6, <1>7

LEMMA TypeStep ==
  ASSUME TypeOK, QueueOK, SocketsCounted, Next
  PROVE TypeOK' /\ QueueOK' /\ SocketsCounted'
<1>1. CASE Send
  <2>1. TypeOK' /\ QueueOK'
    BY <1>1, OpenSocket, SendType
  <2>2. SocketsCounted'
    <3>1. /\ UNCHANGED <<link, conn, handler, breaks, crashes>>
          /\ \A k \in Sockets : k # conn \/ link # "open" => up'[k] = up[k]
      BY <1>1 DEF Send, counts, TypeOK
    <3>2. \A k \in Sockets : k > conn => k # conn
      BY Bounds DEF TypeOK
    <3> QED BY <3>1, <3>2 DEF SocketsCounted
  <2> QED BY <2>1, <2>2
<1>2. CASE Receive
  <2>1. TypeOK' /\ QueueOK'
    BY <1>2, OpenSocket, ReceiveType DEF Receive
  <2>2. SocketsCounted'
    BY <1>2 DEF Receive, SocketsCounted, counts
  <2> QED BY <2>1, <2>2
<1>3. CASE OpenFails
  BY <1>3 DEF OpenFails, Reconnect, TypeOK, QueueOK, SocketsCounted, counts
<1>4. CASE Break
  BY <1>4, BreakType
<1>5. ASSUME NEW n \in Nodes, Open(n) PROVE TypeOK' /\ QueueOK' /\ SocketsCounted'
  BY <1>5, OpenType
<1>6. ASSUME NEW n \in Nodes, Crash(n) PROVE TypeOK' /\ QueueOK' /\ SocketsCounted'
  BY <1>6, CrashType
<1>7. ASSUME NEW k \in Sockets, Read(k) PROVE TypeOK' /\ QueueOK' /\ SocketsCounted'
  BY <1>7, ReadType
<1>8. ASSUME NEW k \in Sockets, BroadcastLocal(k) \/ SaveMessage(k) \/ Confirm(k)
      PROVE TypeOK' /\ QueueOK' /\ SocketsCounted'
  BY <1>8, HandlerType
<1>9. ASSUME NEW k \in Sockets, WindowPasses(k) PROVE TypeOK' /\ QueueOK' /\ SocketsCounted'
  BY <1>9 DEF WindowPasses, TypeOK, QueueOK, SocketsCounted, clientVars, counts
<1>10. ASSUME NEW n \in Nodes, NEW m \in Msgs, GuardForgets(n, m)
       PROVE TypeOK' /\ QueueOK' /\ SocketsCounted'
  <2>1. /\ breaks' \in Nat /\ crashes' \in Nat /\ forgets' \in Nat
        /\ breaks' + crashes' + forgets' <= MaxFaults
    BY <1>10, Bounds DEF GuardForgets, TypeOK, FaultsLeft
  <2> QED BY <1>10, <2>1 DEF GuardForgets, TypeOK, QueueOK, SocketsCounted, clientVars
<1> QED BY <1>1, <1>2, <1>3, <1>4, <1>5, <1>6, <1>7, <1>8, <1>9, <1>10 DEF Next
-------------------------------------------------------------------------------
(* Once the server answered for a message it always does.                  *)
LEMMA SettledStays ==
  ASSUME TypeOK, saved \subseteq saved', unsaved \subseteq unsaved', abandoned \subseteq abandoned',
         \A k \in Sockets : \/ handler'[k] = handler[k] \/ handler[k] = Idle
                            \/ handler'[k] # Idle /\ handler'[k].msg = handler[k].msg
                            \/ handler[k].msg \in saved' \union unsaved' \union abandoned'
  PROVE \A m : Settled(m) => Settled(m)'
  BY DEF Settled, InHand

LEMMA SettledStep ==
  ASSUME TypeOK, SocketsCounted, StoredIsKept, Next
  PROVE /\ StoredIsKept' /\ \A m : Settled(m) => Settled(m)'
        /\ saved \subseteq saved' /\ unsaved \subseteq unsaved' /\ abandoned \subseteq abandoned'
<1> DEFINE P == /\ StoredIsKept' /\ \A m : Settled(m) => Settled(m)'
                /\ saved \subseteq saved' /\ unsaved \subseteq unsaved' /\ abandoned \subseteq abandoned'
<1>1. ASSUME UNCHANGED <<handler, saved, unsaved, abandoned>> PROVE P
  BY <1>1, SettledStays DEF StoredIsKept, At
<1>2. ASSUME NEW k \in Sockets, Read(k) PROVE P
  <2>1. PICK m : m = Head(up[k])
    OBVIOUS
  <2>2. /\ handler[k] = Idle /\ UNCHANGED <<saved, unsaved, abandoned>>
        /\ handler' = handler \/ handler' = [handler EXCEPT ![k] = [step |-> "guarded", msg |-> m]]
    BY <1>2, <2>1 DEF Read
  <2>3. /\ \A j \in Sockets : j # k => handler'[j] = handler[j]
        /\ handler'[k] = Idle \/ handler'[k].step = "guarded"
    BY <2>2 DEF TypeOK
  <2>4. StoredIsKept'
    BY <2>2, <2>3 DEF StoredIsKept, At, Idle
  <2> QED BY <2>2, <2>3, <2>4, SettledStays
<1>3. ASSUME NEW k \in Sockets, BroadcastLocal(k) PROVE P
  <2>1. /\ handler[k] # Idle /\ GoOn(k, "broadcast") /\ UNCHANGED <<saved, unsaved, abandoned>>
    BY <1>3 DEF BroadcastLocal, At, Idle
  <2>2. /\ handler'[k] = [step |-> "broadcast", msg |-> handler[k].msg]
        /\ \A j \in Sockets : j # k => handler'[j] = handler[j]
    BY <2>1, GoOnIs
  <2>3. handler'[k] # Idle /\ handler'[k].msg = handler[k].msg /\ handler'[k].step = "broadcast"
    BY <2>2 DEF Idle
  <2>4. StoredIsKept'
    BY <2>1, <2>2, <2>3 DEF StoredIsKept, At
  <2> QED BY <2>1, <2>2, <2>3, <2>4, SettledStays
<1>4. ASSUME NEW k \in Sockets, SaveMessage(k) PROVE P
  <2>1. /\ handler[k] # Idle /\ GoOn(k, "stored") /\ abandoned' = abandoned
        /\ saved \subseteq saved' /\ unsaved \subseteq unsaved'
        /\ handler[k].msg \in saved' \union unsaved'
    BY <1>4 DEF SaveMessage, Saving, At, Idle
  <2>2. /\ handler'[k] = [step |-> "stored", msg |-> handler[k].msg]
        /\ \A j \in Sockets : j # k => handler'[j] = handler[j]
    BY <2>1, GoOnIs
  <2>3. handler'[k] # Idle /\ handler'[k].msg = handler[k].msg
    BY <2>2 DEF Idle
  <2>4. StoredIsKept'
    BY <2>1, <2>2, <2>3 DEF StoredIsKept, At
  <2> QED BY <2>1, <2>2, <2>3, <2>4, SettledStays
<1>5. ASSUME NEW k \in Sockets, Confirm(k) PROVE P
  <2>1. /\ handler[k].msg \in saved \union unsaved /\ UNCHANGED <<saved, unsaved, abandoned>>
        /\ handler' = [handler EXCEPT ![k] = Idle]
    BY <1>5 DEF Confirm, StoredIsKept
  <2>2. handler'[k] = Idle /\ \A j \in Sockets : j # k => handler'[j] = handler[j]
    BY <2>1 DEF TypeOK
  <2>3. StoredIsKept'
    BY <2>1, <2>2 DEF StoredIsKept, At, Idle
  <2> QED BY <2>1, <2>2, <2>3, SettledStays
<1>6. ASSUME NEW n \in Nodes, Crash(n) PROVE P
  <2>1. /\ UNCHANGED <<saved, unsaved>>
        /\ abandoned' = abandoned \union {handler[k].msg : k \in {h \in Sockets : node[h] = n /\ BeforeSave(h)}}
        /\ \A k \in Sockets : handler'[k] = IF node[k] = n THEN Idle ELSE handler[k]
    BY <1>6 DEF Crash
  <2>2. StoredIsKept'
    BY <2>1 DEF StoredIsKept, At, Idle
  <2>3. ASSUME NEW k \in Sockets, handler[k] # Idle
        PROVE handler'[k] = handler[k] \/ handler[k].msg \in saved' \union unsaved' \union abandoned'
    <3>1. handler[k].step \in {"guarded", "broadcast", "stored"}
      BY <2>3, WorkKinds DEF TypeOK
    <3>2. CASE At(k, "stored")
      BY <2>1, <3>2 DEF StoredIsKept
    <3>3. CASE node[k] = n /\ BeforeSave(k)
      BY <2>1, <3>3
    <3> QED BY <2>1, <3>1, <3>2, <3>3 DEF BeforeSave, At
  <2> QED BY <2>1, <2>2, <2>3, SettledStays
<1>7. ASSUME Send \/ OpenFails \/ Break \/ Receive PROVE P
  BY <1>1, <1>7 DEF Send, OpenFails, Break, Receive
<1>8. ASSUME \E n \in Nodes : Open(n) PROVE P
  BY <1>1, <1>8 DEF Open
<1>9. ASSUME \E k \in Sockets : WindowPasses(k) PROVE P
  BY <1>1, <1>9 DEF WindowPasses
<1>10. ASSUME \E n \in Nodes, m \in Msgs : GuardForgets(n, m) PROVE P
  BY <1>1, <1>10 DEF GuardForgets
<1> HIDE DEF P
<1>11. P
  BY <1>2, <1>3, <1>4, <1>5, <1>6, <1>7, <1>8, <1>9, <1>10 DEF Next
<1> QED BY <1>11 DEF P

(* What is on its way to the client, and in the guard, is so.              *)
LEMMA FramesStep ==
  ASSUME DeliveryInv, Next
  PROVE FramesTell'
<1> USE DEF DeliveryInv
<1> DEFINE New(f) == FrameTells(f) \/ FrameTells(f)'
<1>1. refused \subseteq refused' /\ \A m : Settled(m) => Settled(m)'
  <2>1. refused \subseteq refused'
    BY DEF Next, Send, OpenFails, Break, Receive, Open, Crash, Read, BroadcastLocal, SaveMessage,
           Confirm, WindowPasses, GuardForgets, clientVars
  <2> QED BY <2>1, SettledStep
<1>2. \A f : FrameTells(f) => FrameTells(f)'
  BY <1>1 DEF FrameTells
<1>3. \A k \in Sockets : \A f \in ToSet(down'[k]) : f \in ToSet(down[k]) \/ New(f)
  <2>1. CASE Send \/ OpenFails \/ (\E n \in Nodes : Open(n))
             \/ (\E k \in Sockets : BroadcastLocal(k) \/ SaveMessage(k) \/ WindowPasses(k))
             \/ (\E n \in Nodes, m \in Msgs : GuardForgets(n, m))
    <3>1. down' = down
      BY <2>1 DEF Send, OpenFails, Open, BroadcastLocal, SaveMessage, WindowPasses, GuardForgets
    <3> QED BY <3>1
  <2>2. CASE Break
    <3>1. \A k \in Sockets : down'[k] = IF k = conn THEN <<>> ELSE down[k]
      BY <2>2 DEF Break, TypeOK
    <3>2. \A f : f \notin ToSet(<<>>)
      BY DEF ToSet
    <3> QED BY <3>1, <3>2
  <2>3. CASE \E n \in Nodes : Crash(n)
    <3>1. \A k \in Sockets : down'[k] = <<>> \/ down'[k] = down[k]
      BY <2>3 DEF Crash
    <3>2. \A f : f \notin ToSet(<<>>)
      BY DEF ToSet
    <3> QED BY <3>1, <3>2
  <2>4. CASE Receive
    <3>1. conn \in Sockets /\ down[conn] \in Seq(Frames) /\ down[conn] # <<>>
      BY <2>4, OpenSocket DEF Receive, TypeOK
    <3>2. \A k \in Sockets : down'[k] = IF k = conn THEN Tail(down[k]) ELSE down[k]
      BY <2>4, <3>1 DEF Receive, TypeOK
    <3>3. ToSet(Tail(down[conn])) \subseteq ToSet(down[conn])
      BY <3>1, TailSequence
    <3> QED BY <3>2, <3>3
  <2>5. ASSUME NEW k \in Sockets, Read(k)
        PROVE \A j \in Sockets : \A f \in ToSet(down'[j]) : f \in ToSet(down[j]) \/ New(f)
    <3> PICK m : m = Head(up[k])
      OBVIOUS
    <3> PICK n : n = node[k]
      OBVIOUS
    <3>1. m \in Msgs /\ n \in Nodes
      BY <2>5, TailSequence DEF Read, TypeOK
    <3>2. CASE down' = Sent(k, <<[kind |-> "error", msg |-> m]>>) /\ refused' = refused \union {m}
      <4>1. PICK e : e = [kind |-> "error", msg |-> m]
        OBVIOUS
      <4>2. <<e>> \in Seq(Frames) /\ \A f \in ToSet(<<e>>) : f = e
        BY <3>1, <4>1 DEF Frames, ToSet
      <4>3. \A f \in ToSet(<<e>>) : FrameTells(f)'
        BY <3>2, <4>1, <4>2 DEF FrameTells
      <4> QED BY <3>2, <4>1, <4>2, <4>3, SentIs
    <3>3. CASE Duplicate(n, m) /\ down' = Sent(k, Reverse(Done(m)))
      <4>1. Settled(m)
        BY <3>1, <3>3 DEF HistoryTells, Duplicate
      <4>2. \A f \in ToSet(Reverse(Done(m))) : FrameTells(f)
        BY <3>1, <4>1, DoneIs DEF FrameTells
      <4> QED BY <3>1, <3>3, <4>2, DoneIs, SentIs
    <3>4. CASE down' = down
      BY <3>4
    <3> QED BY <2>5, <3>2, <3>3, <3>4 DEF Read
  <2>6. ASSUME NEW k \in Sockets, Confirm(k)
        PROVE \A j \in Sockets : \A f \in ToSet(down'[j]) : f \in ToSet(down[j]) \/ New(f)
    <3> PICK m : m = handler[k].msg
      OBVIOUS
    <3>1. down' = Sent(k, Done(m)) /\ m \in Msgs /\ Settled(m)
      BY <2>6, WorkKinds DEF Confirm, At, TypeOK, StoredIsKept, Settled
    <3>2. \A f \in ToSet(Done(m)) : FrameTells(f)
      BY <3>1, DoneIs DEF FrameTells
    <3> QED BY <3>1, <3>2, DoneIs, SentIs
  <2> HIDE DEF New
  <2> QED BY <2>1, <2>2, <2>3, <2>4, <2>5, <2>6 DEF Next
<1> QED BY <1>2, <1>3 DEF FramesTell

LEMMA HistoryStep ==
  ASSUME DeliveryInv, Next
  PROVE HistoryTells'
<1> USE DEF DeliveryInv
<1>1. \A m : Settled(m) => Settled(m)'
  BY SettledStep
<1>2. \A n \in Nodes : \A m \in history'[n] : m \in history[n] \/ Settled(m)'
  <2>1. CASE Send \/ OpenFails \/ Break \/ Receive \/ (\E n \in Nodes : Open(n))
             \/ (\E k \in Sockets : \/ BroadcastLocal(k) \/ SaveMessage(k) \/ Confirm(k)
                                    \/ WindowPasses(k))
    BY <2>1 DEF Send, OpenFails, Break, Receive, Open, BroadcastLocal, SaveMessage, Confirm, WindowPasses
  <2>2. CASE \E n \in Nodes : Crash(n) \/ \E m \in Msgs : GuardForgets(n, m)
    <3>1. PICK n \in Nodes : \E S : history' = [history EXCEPT ![n] = S] /\ S \subseteq history[n]
      <4>1. ASSUME NEW n \in Nodes, Crash(n)
            PROVE history' = [history EXCEPT ![n] = {}] /\ {} \subseteq history[n]
        BY <4>1 DEF Crash
      <4>2. ASSUME NEW n \in Nodes, NEW m \in Msgs, GuardForgets(n, m)
            PROVE history' = [history EXCEPT ![n] = @ \ {m}] /\ history[n] \ {m} \subseteq history[n]
        BY <4>2 DEF GuardForgets
      <4> QED BY <2>2, <4>1, <4>2
    <3>2. PICK S : history' = [history EXCEPT ![n] = S] /\ S \subseteq history[n]
      BY <3>1
    <3> QED BY <3>2 DEF TypeOK
  <2>3. ASSUME NEW k \in Sockets, Read(k)
        PROVE \A n \in Nodes : \A m \in history'[n] : m \in history[n] \/ Settled(m)'
    <3> PICK m : m = Head(up[k])
      OBVIOUS
    <3>1. CASE history' = history
      BY <3>1
    <3>2. CASE /\ history' = [history EXCEPT ![node[k]] = @ \union {m}]
               /\ handler' = [handler EXCEPT ![k] = [step |-> "guarded", msg |-> m]]
      <4>1. handler'[k] = [step |-> "guarded", msg |-> m]
        BY <3>2 DEF TypeOK
      <4>2. handler'[k] # Idle /\ handler'[k].msg = m
        BY <4>1 DEF Idle
      <4>3. Settled(m)'
        BY <4>2 DEF Settled, InHand
      <4> QED BY <3>2, <4>3 DEF TypeOK
    <3> QED BY <2>3, <3>1, <3>2 DEF Read
  <2> QED BY <2>1, <2>2, <2>3 DEF Next
<1> QED BY <1>1, <1>2 DEF HistoryTells

(* Nothing leaves the queue but what overflows or is answered for.         *)
LEMMA QueueStep ==
  ASSUME DeliveryInv, Next
  PROVE NothingVanishes' /\ ConfirmedIsSaved'
<1> USE DEF DeliveryInv
<1>1. /\ \A m : Settled(m) => Settled(m)'
      /\ saved \subseteq saved' /\ unsaved \subseteq unsaved' /\ abandoned \subseteq abandoned'
  BY SettledStep
<1>2. /\ \A m \in 1..written' : \/ m \in 1..written /\ (Queued(m) => Queued(m)')
                               \/ Queued(m)' \/ m \in overflown' \union refused' \/ Settled(m)
      /\ overflown \subseteq overflown' /\ refused \subseteq refused'
      /\ \A m \in confirmed' : m \in confirmed \/ Settled(m)
  <2>1. CASE Send
    <3> PICK m : m = written + 1
      OBVIOUS
    <3> PICK q : q = IF Len(queue) >= MaxQueue THEN Tail(queue) ELSE queue
      OBVIOUS
    <3>1. /\ written' = m /\ queue' = Append(q, m) /\ m \in Msgs /\ UNCHANGED <<refused, confirmed>>
          /\ overflown' = IF Len(queue) >= MaxQueue THEN overflown \union {Head(queue)} ELSE overflown
          /\ \A x \in 1..m : x \in 1..written \/ x = m
      <4>1. m \in Msgs /\ \A x \in 1..m : x \in 1..written \/ x = m
        BY <2>1, Bounds DEF Send, Msgs, TypeOK
      <4> QED BY <2>1, <4>1 DEF Send
    <3>2. /\ q \in Seq(Msgs) /\ Distinct(q)
          /\ \A x \in ToSet(queue) : x \in ToSet(q) \/ x \in overflown'
      <4>1. CASE Len(queue) >= MaxQueue
        <5>1. queue # <<>> /\ queue \in Seq(Msgs)
          BY <4>1, Bounds DEF TypeOK
        <5> QED BY <3>1, <4>1, <5>1, TailSequence DEF QueueOK
      <4>2. CASE ~(Len(queue) >= MaxQueue)
        BY <4>2 DEF TypeOK, QueueOK
      <4> QED BY <4>1, <4>2
    <3>3. ToSet(Append(q, m)) = ToSet(q) \union {m}
      BY <3>1, <3>2, AppendSequence
    <3>4. overflown \subseteq overflown'
      BY <3>1
    <3> QED BY <3>1, <3>2, <3>3, <3>4 DEF Queued
  <2>2. CASE Receive
    <3> PICK f : f = Head(down[conn])
      OBVIOUS
    <3>1. conn \in Sockets /\ down[conn] \in Seq(Frames) /\ down[conn] # <<>>
      BY <2>2, OpenSocket DEF Receive, TypeOK
    <3>2. FrameTells(f)
      BY <3>1, TailSequence DEF FramesTell
    <3>3. /\ queue' = Without(queue, f.msg) /\ UNCHANGED <<written, overflown, refused>>
          /\ confirmed' = IF f.kind = "error" THEN confirmed ELSE confirmed \union {f.msg}
      BY <2>2 DEF Receive
    <3>4. ToSet(Without(queue, f.msg)) = ToSet(queue) \ {f.msg}
      BY WithoutIs DEF TypeOK, QueueOK
    <3>5. f.msg \in refused \/ Settled(f.msg)
      BY <3>2 DEF FrameTells
    <3>6. f.kind # "error" => Settled(f.msg)
      BY <3>2 DEF FrameTells
    <3>7. \A m : Queued(m) => Queued(m)' \/ m = f.msg
      BY <3>3, <3>4 DEF Queued
    <3> QED BY <3>3, <3>5, <3>6, <3>7
  <2>3. CASE \E k \in Sockets : Read(k)
    <3>1. UNCHANGED <<written, queue, overflown, confirmed>> /\ refused \subseteq refused'
      BY <2>3 DEF Read
    <3> QED BY <3>1 DEF Queued
  <2>4. CASE UNCHANGED <<written, queue, overflown, refused, confirmed>>
    BY <2>4 DEF Queued
  <2>5. ASSUME ~Send, ~Receive, ~\E k \in Sockets : Read(k)
        PROVE UNCHANGED <<written, queue, overflown, refused, confirmed>>
    BY <2>5 DEF Next, OpenFails, Break, Open, Crash, BroadcastLocal, SaveMessage, Confirm, WindowPasses,
           GuardForgets, clientVars
  <2> QED BY <2>1, <2>2, <2>3, <2>4, <2>5
<1>3. NothingVanishes'
  <2> SUFFICES ASSUME NEW m \in 1..written'
               PROVE Queued(m)' \/ m \in overflown' \union refused' \/ Settled(m)'
    BY DEF NothingVanishes, Settled
  <2>1. m \in 1..written => Queued(m) \/ m \in overflown \union refused \/ Settled(m)
    BY DEF NothingVanishes, Settled
  <2> QED BY <1>1, <1>2, <2>1
<1>4. ConfirmedIsSaved'
  <2> SUFFICES ASSUME NEW m \in confirmed'
               PROVE Settled(m)'
    BY DEF ConfirmedIsSaved, Settled
  <2> QED BY <1>1, <1>2 DEF ConfirmedIsSaved, Settled
<1> QED BY <1>3, <1>4
-------------------------------------------------------------------------------
(* The broadcasts of a message on a node.                                  *)
LEMMA PendingIs ==
  ASSUME TypeOK, NEW n \in Nodes, NEW m \in Msgs
  PROVE /\ IsFiniteSet(Pending(n, m)) /\ Cardinality(Pending(n, m)) \in Nat
        /\ heard[n][m] \in Nat /\ Remembered(n, m) \in 0..1
<1>1. Pending(n, m) \subseteq Sockets
  BY DEF Pending
<1>2. IsFiniteSet(Pending(n, m)) /\ Cardinality(Pending(n, m)) \in Nat
  BY <1>1, Bounds, FS_Subset, FS_CardinalityType
<1> QED BY <1>2 DEF TypeOK, Remembered

(* A step that broadcasts nothing and lets nothing past the guard; what    *)
(* the guard forgets is counted.                                           *)
LEMMA CountStays ==
  ASSUME TypeOK, TypeOK', BroadcastsCounted, NEW n \in Nodes, NEW m \in Msgs,
         heard'[n][m] = heard[n][m], Pending(n, m)' \subseteq Pending(n, m),
         crashes' + forgets' + Remembered(n, m)' >= crashes + forgets + Remembered(n, m)
  PROVE heard'[n][m] + Cardinality(Pending(n, m)') <= crashes' + forgets' + Remembered(n, m)'
<1>1. /\ IsFiniteSet(Pending(n, m)) /\ Cardinality(Pending(n, m)) \in Nat
      /\ heard[n][m] \in Nat /\ Remembered(n, m) \in 0..1
  BY PendingIs
<1>2. Cardinality(Pending(n, m)') <= Cardinality(Pending(n, m)) /\ Cardinality(Pending(n, m)') \in Nat
  BY <1>1, FS_Subset, FS_CardinalityType
<1>3. Remembered(n, m)' \in 0..1
  BY DEF Remembered
<1>4. heard[n][m] + Cardinality(Pending(n, m)) <= crashes + forgets + Remembered(n, m)
  BY DEF BroadcastsCounted
<1>5. /\ crashes \in Nat /\ forgets \in Nat /\ crashes' \in Nat /\ forgets' \in Nat
  BY DEF TypeOK
<1> QED BY <1>1, <1>2, <1>3, <1>4, <1>5

LEMMA CountStep ==
  ASSUME DeliveryInv, TypeOK', Next
  PROVE BroadcastsCounted'
<1> USE DEF DeliveryInv
<1> SUFFICES ASSUME NEW n \in Nodes, NEW m \in Msgs
             PROVE heard'[n][m] + Cardinality(Pending(n, m)') <= crashes' + forgets' + Remembered(n, m)'
  BY DEF BroadcastsCounted
<1> DEFINE P == heard'[n][m] + Cardinality(Pending(n, m)') <= crashes' + forgets' + Remembered(n, m)'
<1>1. /\ crashes \in Nat /\ forgets \in Nat /\ Remembered(n, m) \in 0..1
      /\ IsFiniteSet(Pending(n, m)) /\ Cardinality(Pending(n, m)) \in Nat /\ heard[n][m] \in Nat
      /\ heard[n][m] + Cardinality(Pending(n, m)) <= crashes + forgets + Remembered(n, m)
  BY PendingIs DEF TypeOK, BroadcastsCounted
<1>2. ASSUME UNCHANGED <<node, handler, heard, history, crashes, forgets>> PROVE P
  BY <1>1, <1>2, CountStays DEF Pending, Remembered
<1>3. ASSUME NEW i \in Nodes, Open(i) PROVE P
  <2>1. /\ conn + 1 \in Sockets /\ handler[conn + 1] = Idle
        /\ node' = [node EXCEPT ![conn + 1] = i]
        /\ UNCHANGED <<handler, heard, history, crashes, forgets>>
    BY <1>3, OpenSocket DEF Open, SocketsCounted, counts, TypeOK
  <2>2. Pending(n, m)' \subseteq Pending(n, m)
    BY <2>1 DEF Pending, TypeOK, Idle
  <2> QED BY <1>1, <2>1, <2>2, CountStays DEF Remembered
<1>4. ASSUME NEW i \in Nodes, Crash(i) PROVE P
  <2>1. /\ \A k \in Sockets : handler'[k] = IF node[k] = i THEN Idle ELSE handler[k]
        /\ crashes' = crashes + 1 /\ UNCHANGED <<node, heard, forgets>>
    BY <1>4 DEF Crash
  <2>2. Pending(n, m)' \subseteq Pending(n, m)
    BY <2>1 DEF Pending, Idle
  <2>3. Remembered(n, m)' \in 0..1
    BY DEF Remembered
  <2> QED BY <1>1, <2>1, <2>2, <2>3, CountStays
<1>5. ASSUME NEW i \in Nodes, NEW x \in Msgs, GuardForgets(i, x) PROVE P
  <2>1. forgets' = forgets + 1 /\ UNCHANGED <<node, handler, heard, crashes>>
    BY <1>5 DEF GuardForgets
  <2>2. Pending(n, m)' \subseteq Pending(n, m)
    BY <2>1 DEF Pending
  <2>3. Remembered(n, m)' \in 0..1
    BY DEF Remembered
  <2> QED BY <1>1, <2>1, <2>2, <2>3, CountStays
<1>6. ASSUME NEW k \in Sockets, Read(k) PROVE P
  <2> PICK x : x = Head(up[k])
    OBVIOUS
  <2>1. UNCHANGED <<node, heard, crashes, forgets>>
    BY <1>6 DEF Read, counts
  <2>2. CASE UNCHANGED <<handler, history>>
    BY <1>2, <2>1, <2>2
  <2>3. CASE ~UNCHANGED <<handler, history>>
    <3>1. /\ handler[k] = Idle /\ ~Duplicate(node[k], x)
          /\ history' = [history EXCEPT ![node[k]] = @ \union {x}]
          /\ handler' = [handler EXCEPT ![k] = [step |-> "guarded", msg |-> x]]
      BY <1>6, <2>3 DEF Read
    <3>2. /\ handler'[k] = [step |-> "guarded", msg |-> x]
          /\ \A j \in Sockets : j # k => handler'[j] = handler[j]
      BY <3>1 DEF TypeOK
    <3>3. CASE node[k] = n /\ x = m
      <4>1. Remembered(n, m) = 0 /\ Remembered(n, m)' = 1
        BY <3>1, <3>3 DEF Remembered, Duplicate, TypeOK
      <4>2. Pending(n, m)' = Pending(n, m) \union {k} /\ k \notin Pending(n, m)
        BY <2>1, <3>1, <3>2, <3>3 DEF Pending, Idle
      <4>3. Cardinality(Pending(n, m)') = Cardinality(Pending(n, m)) + 1
        BY <1>1, <4>2, FS_AddElement
      <4> QED BY <1>1, <2>1, <4>1, <4>3
    <3>4. CASE ~(node[k] = n /\ x = m)
      <4>1. Pending(n, m)' \subseteq Pending(n, m)
        <5>1. [step |-> "guarded", msg |-> x] = [step |-> "guarded", msg |-> m] => x = m
          OBVIOUS
        <5> QED BY <2>1, <3>2, <3>4, <5>1 DEF Pending
      <4>2. Remembered(n, m)' = Remembered(n, m)
        BY <3>1, <3>4 DEF Remembered, TypeOK
      <4> QED BY <1>1, <2>1, <4>1, <4>2, CountStays
    <3> QED BY <3>3, <3>4
  <2> QED BY <2>2, <2>3
<1>7. ASSUME NEW k \in Sockets, BroadcastLocal(k) PROVE P
  <2> PICK i : i = node[k]
    OBVIOUS
  <2> PICK x : x = handler[k].msg
    OBVIOUS
  <2>1. /\ heard' = [heard EXCEPT ![i][x] = @ + 1] /\ i \in Nodes
        /\ UNCHANGED <<node, history, crashes, forgets>>
        /\ handler[k] # Idle /\ handler[k].step = "guarded" /\ GoOn(k, "broadcast")
    BY <1>7 DEF BroadcastLocal, At, Idle, counts, TypeOK
  <2>2. /\ handler'[k] = [step |-> "broadcast", msg |-> x] /\ x \in Msgs
        /\ \A j \in Sockets : j # k => handler'[j] = handler[j]
    BY <2>1, GoOnIs
  <2>3. handler'[k] # [step |-> "guarded", msg |-> m]
    BY <2>2
  <2>4. Pending(n, m)' = Pending(n, m) \ {k}
    BY <2>1, <2>2, <2>3 DEF Pending
  <2>5. CASE i = n /\ x = m
    <3>1. heard'[n][m] = heard[n][m] + 1
      BY <2>1, <2>5 DEF TypeOK
    <3>2. handler[k] = [step |-> "guarded", msg |-> m]
      BY <2>1, <2>5, WorkKinds DEF TypeOK
    <3>3. k \in Pending(n, m)
      BY <2>5, <3>2 DEF Pending
    <3>4. Cardinality(Pending(n, m)') = Cardinality(Pending(n, m)) - 1
      BY <1>1, <2>4, <3>3, FS_RemoveElement
    <3>5. Remembered(n, m)' = Remembered(n, m)
      BY <2>1 DEF Remembered
    <3> QED BY <1>1, <2>1, <3>1, <3>4, <3>5
  <2>6. CASE ~(i = n /\ x = m)
    <3>1. heard'[n][m] = heard[n][m]
      BY <2>1, <2>2, <2>6 DEF TypeOK
    <3>2. Pending(n, m)' \subseteq Pending(n, m)
      BY <2>4
    <3>3. crashes' + forgets' + Remembered(n, m)' >= crashes + forgets + Remembered(n, m)
      BY <1>1, <2>1 DEF Remembered
    <3> QED BY <3>1, <3>2, <3>3, CountStays
  <2> QED BY <2>5, <2>6
<1>8. ASSUME NEW k \in Sockets, SaveMessage(k) \/ Confirm(k) PROVE P
  <2>1. UNCHANGED <<node, heard, history, crashes, forgets>> /\ handler[k] # Idle
    BY <1>8 DEF SaveMessage, Confirm, counts, At, Idle
  <2>2. /\ handler'[k] # [step |-> "guarded", msg |-> m]
        /\ \A j \in Sockets : j # k => handler'[j] = handler[j]
    <3>1. CASE SaveMessage(k)
      <4>1. /\ handler'[k] = [step |-> "stored", msg |-> handler[k].msg]
            /\ \A j \in Sockets : j # k => handler'[j] = handler[j]
        BY <2>1, <3>1, GoOnIs DEF SaveMessage
      <4> QED BY <4>1
    <3>2. CASE Confirm(k)
      BY <3>2 DEF Confirm, TypeOK, Idle
    <3> QED BY <1>8, <3>1, <3>2
  <2>3. Pending(n, m)' \subseteq Pending(n, m)
    BY <2>1, <2>2 DEF Pending
  <2> QED BY <1>1, <2>1, <2>3, CountStays DEF Remembered
<1>9. ASSUME Send \/ OpenFails \/ Break \/ Receive PROVE P
  BY <1>2, <1>9 DEF Send, OpenFails, Break, Receive, counts
<1>10. ASSUME NEW k \in Sockets, WindowPasses(k) PROVE P
  BY <1>2, <1>10 DEF WindowPasses, counts
<1> HIDE DEF P
<1>11. P
  BY <1>3, <1>4, <1>5, <1>6, <1>7, <1>8, <1>9, <1>10 DEF Next
<1> QED BY <1>11 DEF P
-------------------------------------------------------------------------------
LEMMA DeliveryInvHolds == Spec => []DeliveryInv
<1>1. Init => DeliveryInv
  <2> SUFFICES ASSUME Init
               PROVE DeliveryInv
    OBVIOUS
  <2>1. TypeOK
    <3>1. (CHOOSE n \in Nodes : TRUE) \in Nodes
      BY DeliveryAssumption DEF DeliveryAssumption
    <3>2. <<>> \in Seq(Msgs) /\ <<>> \in Seq(Frames)
      OBVIOUS
    <3> QED BY <3>1, <3>2, Bounds DEF Init, TypeOK, Works
  <2>2. \A x : x \notin ToSet(<<>>)
    BY DEF ToSet
  <2>3. QueueOK
    BY <2>2 DEF Init, QueueOK, Distinct
  <2>4. SocketsCounted
    BY DEF Init, SocketsCounted
  <2>5. StoredIsKept /\ FramesTell /\ HistoryTells
    BY <2>2 DEF Init, StoredIsKept, At, Idle, FramesTell, HistoryTells
  <2>6. BroadcastsCounted
    <3> SUFFICES ASSUME NEW n \in Nodes, NEW m \in Msgs
                 PROVE heard[n][m] + Cardinality(Pending(n, m)) <= crashes + forgets + Remembered(n, m)
      BY DEF BroadcastsCounted
    <3>1. Pending(n, m) = {}
      BY DEF Init, Pending, Idle
    <3>2. heard[n][m] = 0 /\ Remembered(n, m) = 0 /\ crashes = 0 /\ forgets = 0
      BY DEF Init, Remembered
    <3> QED BY <3>1, <3>2, FS_EmptySet
  <2>7. NothingVanishes /\ ConfirmedIsSaved
    BY DEF Init, NothingVanishes, ConfirmedIsSaved
  <2> QED BY <2>1, <2>3, <2>4, <2>5, <2>6, <2>7 DEF DeliveryInv
<1>2. DeliveryInv /\ [Next]_vars => DeliveryInv'
  <2> SUFFICES ASSUME DeliveryInv, [Next]_vars
               PROVE DeliveryInv'
    OBVIOUS
  <2>1. CASE Next
    <3>1. TypeOK' /\ QueueOK' /\ SocketsCounted'
      BY <2>1, TypeStep DEF DeliveryInv
    <3>2. StoredIsKept'
      BY <2>1, SettledStep DEF DeliveryInv
    <3> QED BY <2>1, <3>1, <3>2, FramesStep, HistoryStep, QueueStep, CountStep DEF DeliveryInv
  <2>2. CASE UNCHANGED vars
    BY <2>2 DEF vars, clientVars, counts, DeliveryInv, TypeOK, QueueOK, SocketsCounted, StoredIsKept, At,
                FramesTell, FrameTells, HistoryTells, Settled, InHand, BroadcastsCounted, Pending,
                Remembered, NothingVanishes, Queued, ConfirmedIsSaved
  <2> QED BY <2>1, <2>2
<1> QED BY <1>1, <1>2, PTL DEF Spec

(* Reconnects, resends, lost frames and acks, crashes of nodes and failed  *)
(* saves: a message leaves the browser's queue only if the queue           *)
(* overflowed, the server refused it, or a handler has it or had it.       *)
THEOREM QueueLosesNothing == Spec => []NothingVanishes
  BY DeliveryInvHolds, PTL DEF DeliveryInv

(* What the client was told is sent was saved, or a handler is about to;   *)
(* or its save failed, or its handler died before it.                      *)
THEOREM SentMeansSaved == Spec => []ConfirmedIsSaved
  BY DeliveryInvHolds, PTL DEF DeliveryInv

(* A node broadcasts a message once, and once more for each crash or       *)
(* forgotten id at most.                                                   *)
THEOREM GuardBroadcastsOnce == Spec => []BroadcastOnce
<1>1. DeliveryInv => BroadcastOnce
  <2> SUFFICES ASSUME DeliveryInv, NEW n \in Nodes, NEW m \in Msgs
               PROVE heard[n][m] <= 1 + crashes + forgets
    BY DEF BroadcastOnce
  <2>1. /\ heard[n][m] + Cardinality(Pending(n, m)) <= crashes + forgets + Remembered(n, m)
        /\ crashes \in Nat /\ forgets \in Nat
    BY DEF DeliveryInv, BroadcastsCounted, TypeOK
  <2> QED BY <2>1, PendingIs DEF DeliveryInv
<1> QED BY <1>1, DeliveryInvHolds, PTL
-------------------------------------------------------------------------------
(* Calls: the types of what devices and nodes remember and send.             *)

Phases == {"idle", "calling", "ringing", "connecting", "connected", "ended"}
SignalTypes == {"offer", "answer", "reject", "end", "busy"}
Signals == [type : SignalTypes, dev : Devices, call : Nat]
Verdicts == {NoCall} \union [status : {"ringing"}, call : Nat]
                     \union [status : {"answered"}, call : Nat, by : Devices]

DevicesOK ==
  /\ phase \in [Devices -> Phases] /\ isCaller \in [Devices -> BOOLEAN]
  /\ about \in [Devices -> Nat] /\ timers \in [Devices -> Nat]
  /\ offering \in [Devices -> Nat] /\ answering \in [Devices -> Nat]
  /\ placed \in Nat /\ hangups \in Nat /\ rejects \in Nat
ConnectionsOK == signalsUp \in [Devices -> Seq(Signals)] /\ signalsDown \in [Devices -> Seq(Signals)]
HubOK ==
  /\ fan \in [Devices -> Signals \union {NoSignal}] /\ bus \in [CallNodes -> Seq(Signals)]
  /\ active \in [CallNodes -> Verdicts] /\ cut \subseteq Nat /\ late \subseteq Nat
CallTypeOK == DevicesOK /\ ConnectionsOK /\ HubOK

LEMMA PhaseType ==
  ASSUME phase \in [Devices -> Phases], NEW d \in Devices, NEW p \in Phases, Phase(d, p)
  PROVE phase' \in [Devices -> Phases]
  BY DEF Phase

LEMMA EndSessionType ==
  ASSUME phase \in [Devices -> Phases], timers \in [Devices -> Nat], NEW d \in Devices, EndSession(d)
  PROVE phase' \in [Devices -> Phases] /\ timers' \in [Devices -> Nat]
<1>1. {"idle", "ended"} \subseteq Phases
  BY DEF Phases
<1> QED BY <1>1 DEF EndSession, Phase

(* One signal more on a connection to or from a device.                      *)
LEMMA SentType ==
  ASSUME NEW q \in [Devices -> Seq(Signals)], NEW d \in Devices, NEW s \in Signals
  PROVE [q EXCEPT ![d] = Append(@, s)] \in [Devices -> Seq(Signals)]
  OBVIOUS

LEMMA TransmitType ==
  ASSUME CallTypeOK, NEW d \in Devices, NEW type \in SignalTypes, Transmit(d, type)
  PROVE signalsUp' \in [Devices -> Seq(Signals)]
<1>1. [type |-> type, dev |-> d, call |-> about[d]] \in Signals
  BY DEF CallTypeOK, DevicesOK, Signals
<1> QED BY <1>1, SentType DEF CallTypeOK, ConnectionsOK, Transmit

LEMMA DeliveredType ==
  ASSUME ConnectionsOK, NEW n \in CallNodes, NEW s \in Signals
  PROVE Delivered(n, s) \in [Devices -> Seq(Signals)]
  BY DEF ConnectionsOK, Delivered

(* The device's own steps.                                                   *)
LEMMA OwnSteps ==
  ASSUME CallTypeOK, NEW d \in Devices,
         \/ StartCall(d) \/ SendOffer(d) \/ OfferFails(d) \/ Accept(d) \/ SendAnswer(d)
         \/ AnswerFails(d) \/ Reject(d) \/ HangUp(d) \/ TimerFires(d)
  PROVE CallTypeOK' /\ UNCHANGED hubVars
<1> USE DEF CallTypeOK, DevicesOK
<1>p. Phases = {"idle", "calling", "ringing", "connecting", "connected", "ended"}
  BY DEF Phases
<1>c. UNCHANGED <<signalsUp, signalsDown>> => ConnectionsOK'
  BY DEF ConnectionsOK
<1>h. UNCHANGED hubVars => HubOK'
  BY DEF HubOK, hubVars
<1>s. \A type \in SignalTypes, call \in Nat : [type |-> type, dev |-> d, call |-> call] \in Signals
  BY DEF Signals
<1>t. SignalTypes = {"offer", "answer", "reject", "end", "busy"}
  BY DEF SignalTypes
<1>1. CASE StartCall(d)
  BY <1>1, <1>p, <1>c, <1>h, PhaseType DEF StartCall
<1>2. CASE SendOffer(d)
  <2>1. signalsUp' \in [Devices -> Seq(Signals)] /\ signalsDown' = signalsDown
    BY <1>2, <1>s, <1>t, SentType DEF SendOffer, ConnectionsOK
  <2> QED BY <1>2, <1>h, <2>1 DEF SendOffer, ConnectionsOK, callCounts
<1>3. CASE OfferFails(d)
  BY <1>3, <1>p, <1>c, <1>h, PhaseType DEF OfferFails, callCounts
<1>4. CASE Accept(d)
  BY <1>4, <1>p, <1>c, <1>h, PhaseType DEF Accept, callCounts
<1>5. CASE SendAnswer(d)
  <2>1. signalsUp' \in [Devices -> Seq(Signals)] /\ signalsDown' = signalsDown
    BY <1>5, <1>s, <1>t, SentType DEF SendAnswer, ConnectionsOK
  <2>2. phase' \in [Devices -> Phases]
    BY <1>5, <1>p, PhaseType DEF SendAnswer
  <2> QED BY <1>5, <1>h, <2>1, <2>2 DEF SendAnswer, ConnectionsOK, callCounts
<1>6. CASE AnswerFails(d)
  BY <1>6, <1>c, <1>h, EndSessionType DEF AnswerFails, callCounts
<1>7. CASE Reject(d)
  <2>1. ConnectionsOK'
    BY <1>7, <1>t, TransmitType DEF Reject, ConnectionsOK
  <2> QED BY <1>7, <1>h, <2>1, EndSessionType DEF Reject
<1>8. CASE HangUp(d)
  <2>1. ConnectionsOK'
    BY <1>8, <1>t, TransmitType DEF HangUp, ConnectionsOK
  <2> QED BY <1>8, <1>h, <2>1, EndSessionType DEF HangUp
<1>9. CASE TimerFires(d)
  BY <1>9, <1>p, <1>c, <1>h, PhaseType DEF TimerFires, callCounts
<1> QED BY <1>1, <1>2, <1>3, <1>4, <1>5, <1>6, <1>7, <1>8, <1>9

LEMMA ReceiveSignalType ==
  ASSUME CallTypeOK, NEW d \in Devices, ReceiveSignal(d)
  PROVE CallTypeOK' /\ UNCHANGED hubVars
<1>1. PICK s : s = Head(signalsDown[d])
  OBVIOUS
<1>2. s \in Signals /\ s.call \in Nat /\ signalsDown' \in [Devices -> Seq(Signals)]
  <2>1. signalsDown[d] \in Seq(Signals) /\ signalsDown[d] # <<>>
    BY DEF CallTypeOK, ConnectionsOK, ReceiveSignal
  <2>2. Head(signalsDown[d]) \in Signals /\ Tail(signalsDown[d]) \in Seq(Signals)
    BY <2>1
  <2> QED BY <1>1, <2>2 DEF CallTypeOK, ConnectionsOK, ReceiveSignal, Signals
<1>3. UNCHANGED <<offering, answering, hubVars, callCounts>>
  BY DEF ReceiveSignal
<1>4. OnOffer(d, s) \/ OnAnswer(d) \/ OnReject(d) \/ OnEnd(d)
  BY <1>1 DEF ReceiveSignal
<1> USE DEF CallTypeOK, DevicesOK
<1>p. Phases = {"idle", "calling", "ringing", "connecting", "connected", "ended"}
  BY DEF Phases
<1>5. CASE OnOffer(d, s)
  <2>1. CASE phase[d] \in {"idle", "ended"}
    BY <1>2, <1>3, <1>5, <1>p, <2>1, PhaseType DEF OnOffer, ConnectionsOK, HubOK, hubVars, callCounts
  <2>2. CASE phase[d] \notin {"idle", "ended"}
    <3>1. PICK busy : busy = [type |-> "busy", dev |-> d, call |-> s.call]
      OBVIOUS
    <3>2. busy \in Signals
      BY <1>2, <3>1 DEF Signals, SignalTypes
    <3>3. signalsUp' = [signalsUp EXCEPT ![d] = Append(@, busy)]
      BY <1>5, <2>2, <3>1 DEF OnOffer
    <3>4. signalsUp' \in [Devices -> Seq(Signals)]
      BY <3>2, <3>3, SentType DEF ConnectionsOK
    <3> QED BY <1>2, <1>3, <1>5, <2>2, <3>4 DEF OnOffer, ConnectionsOK, HubOK, hubVars, callCounts
  <2> QED BY <2>1, <2>2
<1>6. CASE OnAnswer(d)
  <2>1. AfterAnswer(d) \in Phases
    BY <1>p DEF AfterAnswer
  <2> QED BY <1>2, <1>3, <1>6, <2>1, PhaseType DEF OnAnswer, ConnectionsOK, HubOK, hubVars, callCounts
<1>7. CASE OnReject(d)
  BY <1>2, <1>3, <1>7, EndSessionType DEF OnReject, ConnectionsOK, HubOK, hubVars, callCounts
<1>8. CASE OnEnd(d)
  BY <1>2, <1>3, <1>8, EndSessionType DEF OnEnd, ConnectionsOK, HubOK, hubVars, callCounts
<1> QED BY <1>4, <1>5, <1>6, <1>7, <1>8

(* What the arbiter of a node does with a signal.                            *)
LEMMA JudgeType ==
  ASSUME CallTypeOK, NEW d \in Devices, Judge(d)
  PROVE CallTypeOK'
<1>1. PICK s : s = Head(signalsUp[d])
  OBVIOUS
<1>2. s \in Signals /\ signalsUp' \in [Devices -> Seq(Signals)]
  <2>1. signalsUp[d] \in Seq(Signals) /\ signalsUp[d] # <<>>
    BY DEF CallTypeOK, ConnectionsOK, Judge
  <2>2. Head(signalsUp[d]) \in Signals /\ Tail(signalsUp[d]) \in Seq(Signals)
    BY <2>1
  <2> QED BY <1>1, <2>2 DEF CallTypeOK, ConnectionsOK, Judge
<1>3. NodeOf[d] \in CallNodes /\ s.call \in Nat
  BY <1>2, CallAssumption DEF CallAssumption, Signals
<1>4. NoCall \in Verdicts /\ Ringing(s.call) \in Verdicts /\ Answered(d, s.call) \in Verdicts
  BY <1>3 DEF Verdicts, Ringing, Answered
<1>5. /\ active' \in {active} \union {[active EXCEPT ![NodeOf[d]] = v] : v \in Verdicts}
      /\ fan' \in {fan, [fan EXCEPT ![d] = s]}
      /\ signalsDown' \in {signalsDown, ToldBusy(d, s), ToldRejected(d, s)}
  BY <1>1, <1>4 DEF Judge
<1>6. active' \in [CallNodes -> Verdicts] /\ fan' \in [Devices -> Signals \union {NoSignal}]
  BY <1>2, <1>3, <1>5 DEF CallTypeOK, HubOK
<1>7. signalsDown' \in [Devices -> Seq(Signals)]
  <2>1. \A type \in SignalTypes : [s EXCEPT !.type = type] \in Signals
    BY <1>2 DEF Signals
  <2>2. PICK busy, reject : busy = [s EXCEPT !.type = "busy"] /\ reject = [s EXCEPT !.type = "reject"]
    OBVIOUS
  <2>3. busy \in Signals /\ reject \in Signals
    BY <2>1, <2>2 DEF SignalTypes
  <2>4. signalsDown' \in {signalsDown, [signalsDown EXCEPT ![d] = Append(@, busy)],
                          [signalsDown EXCEPT ![d] = Append(@, reject)]}
    BY <1>5, <2>2 DEF ToldBusy, ToldRejected
  <2>5. signalsDown \in [Devices -> Seq(Signals)]
    BY DEF CallTypeOK, ConnectionsOK
  <2>6. /\ [signalsDown EXCEPT ![d] = Append(@, busy)] \in [Devices -> Seq(Signals)]
        /\ [signalsDown EXCEPT ![d] = Append(@, reject)] \in [Devices -> Seq(Signals)]
    BY <2>3, <2>5, SentType
  <2> QED BY <2>4, <2>5, <2>6
<1>8. cut' \subseteq Nat /\ late' \subseteq Nat
  <2>1. cut' \in {cut, cut \union {s.call}} /\ late' \in {late, late \union {s.call}}
    BY <1>1 DEF Judge
  <2> QED BY <1>3, <2>1 DEF CallTypeOK, HubOK
<1>9. UNCHANGED <<devVars, bus, callCounts>>
  BY DEF Judge
<1> QED BY <1>2, <1>6, <1>7, <1>8, <1>9 DEF CallTypeOK, DevicesOK, ConnectionsOK, HubOK, devVars, callCounts

LEMMA FanOutType ==
  ASSUME CallTypeOK, NEW d \in Devices, FanOut(d)
  PROVE CallTypeOK'
<1>1. fan[d] \in Signals /\ NodeOf[d] \in CallNodes
  BY CallAssumption DEF CallTypeOK, HubOK, FanOut, CallAssumption
<1>2. signalsDown' \in [Devices -> Seq(Signals)]
  BY <1>1, DeliveredType DEF CallTypeOK, FanOut
<1>3. bus' \in [CallNodes -> Seq(Signals)] /\ fan' \in [Devices -> Signals \union {NoSignal}]
  BY <1>1 DEF CallTypeOK, HubOK, FanOut
<1>4. UNCHANGED <<devVars, active, cut, late, signalsUp, callCounts>>
  BY DEF FanOut
<1> QED BY <1>2, <1>3, <1>4 DEF CallTypeOK, DevicesOK, ConnectionsOK, HubOK, devVars, callCounts

LEMMA FromClusterType ==
  ASSUME CallTypeOK, NEW n \in CallNodes, FromCluster(n)
  PROVE CallTypeOK'
<1>1. bus[n] \in Seq(Signals) /\ bus[n] # <<>>
  BY DEF CallTypeOK, HubOK, FromCluster
<1>2. Head(bus[n]) \in Signals /\ Tail(bus[n]) \in Seq(Signals)
  BY <1>1
<1>3. signalsDown' \in [Devices -> Seq(Signals)] /\ bus' \in [CallNodes -> Seq(Signals)]
  BY <1>2, DeliveredType DEF CallTypeOK, HubOK, FromCluster
<1>4. UNCHANGED <<devVars, fan, active, cut, late, signalsUp, callCounts>>
  BY DEF FromCluster
<1> QED BY <1>3, <1>4 DEF CallTypeOK, DevicesOK, ConnectionsOK, HubOK, devVars, callCounts

LEMMA CallTypeHolds == CallSpec => []CallTypeOK
<1>1. CallInit => CallTypeOK
  <2>1. <<>> \in Seq(Signals)
    OBVIOUS
  <2> QED BY <2>1 DEF CallInit, CallTypeOK, DevicesOK, ConnectionsOK, HubOK, Phases, Verdicts
<1>2. CallTypeOK /\ [CallNext]_callVars => CallTypeOK'
  <2>1. ASSUME CallTypeOK, CallNext PROVE CallTypeOK'
    BY <2>1, OwnSteps, ReceiveSignalType, JudgeType, FanOutType, FromClusterType DEF CallNext
  <2>2. ASSUME CallTypeOK, UNCHANGED callVars PROVE CallTypeOK'
    BY <2>2 DEF callVars, devVars, hubVars, callCounts, CallTypeOK, DevicesOK, ConnectionsOK, HubOK
  <2> QED BY <2>1, <2>2
<1> QED BY <1>1, <1>2, PTL DEF CallSpec

(* A rejection, another answer, a busy or a signal of another node does not  *)
(* take an answered call from the device that answered it: on its node the   *)
(* call stays that device's until an end or a new offer.                     *)
THEOREM FirstAnswerStands == CallSpec => FirstDeviceWins
<1> DEFINE Wins ==
      \A n \in CallNodes, d \in Devices :
        (active[n].status = "answered" /\ active[n].by # d)
          => ~(active'[n].status = "answered" /\ active'[n].by = d)
             /\ (active'[n] = NoCall => \E e \in Devices : fan'[e] # NoSignal /\ fan'[e].type = "end")
<1>1. ASSUME UNCHANGED active PROVE Wins
  BY <1>1 DEF NoCall
<1>2. ASSUME CallTypeOK, NEW e \in Devices, Judge(e) PROVE Wins
  <2> SUFFICES ASSUME NEW n \in CallNodes, NEW d \in Devices,
                      active[n].status = "answered", active[n].by # d
               PROVE /\ ~(active'[n].status = "answered" /\ active'[n].by = d)
                     /\ active'[n] = NoCall
                          => \E x \in Devices : fan'[x] # NoSignal /\ fan'[x].type = "end"
    OBVIOUS
  <2>1. PICK s : s = Head(signalsUp[e])
    OBVIOUS
  <2>2. CASE active'[n] = active[n]
    BY <2>2 DEF NoCall
  <2>3. CASE active'[n] # active[n]
    <3>1. n = NodeOf[e] /\ active \in [CallNodes -> Verdicts] /\ fan \in [Devices -> Signals \union {NoSignal}]
      BY <1>2, <2>3 DEF Judge, CallTypeOK, HubOK
    <3>2. CASE s.type = "offer"
      BY <1>2, <2>1, <2>3, <3>1, <3>2 DEF Judge, Ringing, NoCall
    <3>3. CASE s.type = "answer"
      BY <1>2, <2>1, <2>3, <3>1, <3>3 DEF Judge, Taken, Answered, NoCall
    <3>4. CASE s.type = "end"
      BY <1>2, <2>1, <2>3, <3>1, <3>4 DEF Judge, NoCall, NoSignal
    <3>5. CASE s.type = "reject"
      BY <1>2, <2>1, <2>3, <3>1, <3>5 DEF Judge, TooLateToReject
    <3> QED BY <1>2, <2>1, <2>3, <3>2, <3>3, <3>4, <3>5 DEF Judge
  <2> QED BY <2>2, <2>3
<1>3. ASSUME CallTypeOK, CallNext PROVE Wins
  <2>1. UNCHANGED hubVars => UNCHANGED active
    BY DEF hubVars
  <2>2. \A d \in Devices : FanOut(d) => UNCHANGED active
    BY DEF FanOut
  <2>3. \A n \in CallNodes : FromCluster(n) => UNCHANGED active
    BY DEF FromCluster
  <2> QED BY <1>1, <1>2, <1>3, <2>1, <2>2, <2>3, OwnSteps, ReceiveSignalType DEF CallNext
<1>4. CallTypeOK /\ [CallNext]_callVars => [Wins]_callVars
  BY <1>3
<1> QED BY <1>4, CallTypeHolds, PTL DEF CallSpec, FirstDeviceWins
-------------------------------------------------------------------------------
(* One call, of the caller c, to devices that are all on the node m: what its *)
(* ends believe, what the arbiter of m has decided, and what is on its way   *)
(* between them.                                                             *)

Callees(c) == {d \in Devices : UserOf[d] # UserOf[c]}

Once(q, t) == \A i, j \in 1..Len(q) : q[i].type = t /\ q[j].type = t => i = j
Has(q, t) == \E s \in ToSet(q) : s.type = t

(* Past the arbiter and not yet everywhere; and what of it will reach d.     *)
InFlight(s) == \/ \E x \in Devices : fan[x] = s
               \/ \E n \in CallNodes : s \in ToSet(bus[n])
               \/ \E y \in Devices : s \in ToSet(signalsDown[y])
Coming(d, T) == \/ \E x \in Devices \ {d} : fan[x].type \in T
                \/ \E s \in ToSet(bus[NodeOf[d]]) : s.type \in T
                \/ \E s \in ToSet(signalsDown[d]) : s.type \in T /\ s.dev # d
Stops == {"answer", "end", "reject"}

(* The verdict: an end or a rejection went through, or a device has the call. *)
AnsweredAt(m) == active[m].status = "answered"
AnsweredBy(m, d) == AnsweredAt(m) /\ active[m].by = d
Decided(m) == cut # {} \/ AnsweredAt(m)

(* A device whose session a timer will clear, or that has none.              *)
Doomed(d) == timers[d] > 0 \/ phase[d] = "idle"

(* The offer, on its way: at the caller, past its arbiter, at a callee.      *)
Preparing(c) == offering[c] # 0 \/ Has(signalsUp[c], "offer")
Spreading(c, m) == fan[c].type = "offer" \/ Has(bus[m], "offer")
Offered(c, m, d) == Spreading(c, m) \/ Has(signalsDown[d], "offer")
Inert(d) == phase[d] = "idle" /\ answering[d] = 0 /\ signalsUp[d] = <<>> /\ fan[d] = NoSignal
Fresh(c, m) ==
  /\ ~AnsweredAt(m)
  /\ \A d \in Callees(c) : Inert(d) /\ timers[d] = 0 /\ signalsDown[d] = <<>>
InCall(c) == phase[c] = "connected" \/ (phase[c] = "calling" /\ Coming(c, {"answer"}))

(* Who sends what: offers and ends the caller; answers, ends and rejections  *)
(* the callees; a busy or a refusal the arbiter, to whom it turned away.     *)
SentBy(c, s) == /\ s.call = 1
                /\ \/ s.dev = c /\ s.type \in {"offer", "end"}
                   \/ s.dev \in Callees(c) /\ s.type \in Stops
SignalsOK(c) ==
  /\ \A x \in Devices : \A s \in ToSet(signalsUp[x]) : s.dev = x /\ SentBy(c, s)
  /\ \A x \in Devices : fan[x] # NoSignal => fan[x].dev = x /\ SentBy(c, fan[x])
  /\ \A n \in CallNodes : \A s \in ToSet(bus[n]) : NodeOf[s.dev] # n /\ SentBy(c, s)
  /\ \A y \in Devices : \A s \in ToSet(signalsDown[y]) :
       \/ SentBy(c, s) /\ s.dev # y /\ (s.type = "offer" => y \in Callees(c))
       \/ s.dev = y /\ s.type = "busy" /\ y \in Callees(c) /\ s.call = 1
       \/ s.dev = y /\ s.type = "reject" /\ y = c /\ s.call = 1

(* What each end can be in: the caller's other devices stay out of the call. *)
RolesOK(c) ==
  /\ placed = 1 /\ cut \subseteq {1} /\ about[c] = 1
  /\ isCaller[c] /\ answering[c] = 0 /\ phase[c] \in {"idle", "calling", "connected", "ended"}
  /\ \A d \in Devices : /\ offering[d] \in {0, 1} /\ answering[d] \in {0, 1}
                        /\ phase[d] # "idle" => about[d] = 1
                        /\ phase[d] = "ended" => timers[d] > 0
  /\ \A d \in Devices \ {c} : /\ ~isCaller[d] /\ offering[d] = 0 /\ phase[d] # "calling"
                              /\ d \notin Callees(c) => phase[d] = "idle" /\ answering[d] = 0

(* There is one offer, in one place of its journey; the callees it has not   *)
(* reached have seen nothing of the call but its end.                        *)
OfferOnce(c, m) ==
  /\ Once(signalsUp[c], "offer")
  /\ offering[c] # 0 => ~Has(signalsUp[c], "offer")
  /\ Preparing(c) =>
       /\ ~Spreading(c, m) /\ ~AnsweredAt(m)
       /\ \A d \in Callees(c) : Inert(d) /\ ~Has(signalsDown[d], "offer")
       /\ cut = {} => /\ \A d \in Callees(c) : timers[d] = 0 /\ signalsDown[d] = <<>>
                      /\ bus[m] = <<>> /\ fan[c] = NoSignal
                      /\ (phase[c] = "calling" /\ timers[c] = 0) \/ Has(signalsUp[c], "end")
  /\ fan[c].type = "offer" => ~Preparing(c) /\ bus[m] = <<>> /\ Fresh(c, m)
  /\ Has(bus[m], "offer") => /\ ~Preparing(c) /\ fan[c].type # "offer" /\ Fresh(c, m)
                             /\ Head(bus[m]).type = "offer" /\ ~Has(Tail(bus[m]), "offer")
  /\ \A d \in Callees(c) : Has(signalsDown[d], "offer") =>
       /\ ~Preparing(c) /\ ~Spreading(c, m) /\ Inert(d) /\ timers[d] = 0 /\ ~AnsweredBy(m, d)
       /\ Head(signalsDown[d]).type = "offer" /\ ~Has(Tail(signalsDown[d]), "offer")

(* A call that was refused never rings.                                      *)
Refused(c, m) ==
  (\E s \in ToSet(signalsDown[c]) : s.dev = c) =>
    /\ ~Preparing(c) /\ ~Spreading(c, m) /\ ~AnsweredAt(m)
    /\ \A d \in Callees(c) : Inert(d) /\ ~Has(signalsDown[d], "offer")

(* A device that rings, or whose answer is on its way to the arbiter, does   *)
(* not have the call; it answers once.                                       *)
NotYet(c, m) ==
  \A d \in Callees(c) :
    /\ phase[d] = "ringing" => /\ timers[d] = 0 /\ answering[d] = 0 /\ signalsUp[d] = <<>>
                               /\ fan[d] = NoSignal /\ ~AnsweredBy(m, d)
    /\ answering[d] # 0 => ~Has(signalsUp[d], "answer") /\ ~AnsweredBy(m, d)
    /\ Has(signalsUp[d], "answer") => ~AnsweredBy(m, d)
    /\ Once(signalsUp[d], "answer")

(* What left the arbiter was its verdict, and who sent an end is done.       *)
Passed(c, m) ==
  /\ \A s \in Signals : InFlight(s) =>
       /\ s.type \in {"end", "reject"} /\ s.dev # c => cut # {} /\ ~AnsweredAt(m)
       /\ s.type = "end" /\ s.dev = c => cut # {} /\ Doomed(c)
       /\ s.type = "answer" => Decided(m)
  /\ Has(signalsUp[c], "end") => Doomed(c)
  /\ \A d \in Callees(c) :
       /\ Has(signalsUp[d], "end") => Doomed(d)
       /\ Has(signalsDown[d], "busy") => Decided(m) /\ ~AnsweredBy(m, d)

(* Once the call is decided, what still rings or will ring is told so; until *)
(* then the caller waits. A device that believes it is connected has the call *)
(* or will hear that it has not, and the device that has it has the caller.  *)
Told(c, m) ==
  \A d \in Callees(c) :
    /\ Decided(m) /\ (phase[d] = "ringing" \/ Offered(c, m, d)) => Coming(d, Stops)
    /\ /\ ~Decided(m)
       /\ \/ phase[d] = "ringing" \/ Offered(c, m, d) \/ answering[d] # 0
          \/ Has(signalsUp[d], "answer")
       => (phase[c] = "calling" /\ timers[c] = 0) \/ Has(signalsUp[c], "end")
    /\ phase[d] = "connected" /\ timers[d] = 0 =>
         \/ Has(signalsUp[d], "answer") \/ Has(signalsDown[d], "busy")
         \/ AnsweredBy(m, d) \/ Coming(d, {"end"})
    /\ phase[d] = "connected" /\ AnsweredBy(m, d) =>
         \/ Doomed(d) \/ Coming(d, {"end"}) \/ Has(signalsUp[c], "end")
         \/ timers[c] = 0 /\ InCall(c)
    /\ ~Decided(m) /\ Has(signalsUp[d], "answer") =>
         (phase[d] = "connected" /\ timers[d] = 0) \/ Has(signalsUp[d], "end")
    /\ ~Decided(m) /\ answering[d] # 0 =>
         (phase[d] = "connecting" /\ timers[d] = 0) \/ Has(signalsUp[d], "end")

(* The caller that is in the call has its partner, or will hear of the end.  *)
Partner(c, m) ==
  timers[c] = 0 /\ InCall(c) =>
    \/ Coming(c, {"end"})
    \/ \E w \in Callees(c) :
         /\ AnsweredBy(m, w)
         /\ (phase[w] = "connected" /\ timers[w] = 0) \/ Has(signalsUp[w], "end")

OneCall(c, m) == /\ RolesOK(c) /\ SignalsOK(c) /\ OfferOnce(c, m) /\ Refused(c, m) /\ NotYet(c, m)
                 /\ Passed(c, m) /\ Told(c, m) /\ Partner(c, m)

(* The state each of the lemmas below starts a step from.                    *)
Setting(c, m) == /\ MaxCalls = 1 /\ c \in Callers /\ c \in Devices /\ m \in CallNodes
                 /\ \A d \in Callees(c) : NodeOf[d] = m
                 /\ CallTypeOK /\ late = {} /\ OneCall(c, m)

(* What a queue has when a signal joins it or leaves it.                     *)
LEMMA HasSignals ==
  ASSUME NEW q \in Seq(Signals)
  PROVE /\ \A s \in Signals : /\ Append(q, s) \in Seq(Signals) /\ Append(q, s) # <<>>
                              /\ ToSet(Append(q, s)) = ToSet(q) \union {s}
                              /\ \A t : Has(Append(q, s), t) <=> Has(q, t) \/ s.type = t
                              /\ Head(Append(q, s)) = IF q = <<>> THEN s ELSE Head(q)
                              /\ Tail(Append(q, s)) = IF q = <<>> THEN <<>> ELSE Append(Tail(q), s)
        /\ q # <<>> => /\ Tail(q) \in Seq(Signals) /\ Head(q) \in Signals
                       /\ ToSet(q) = ToSet(Tail(q)) \union {Head(q)}
                       /\ \A t : Has(q, t) <=> Has(Tail(q), t) \/ Head(q).type = t
        /\ \A t : ~Has(<<>>, t)
        /\ ToSet(<<>>) = {}
        /\ ToSet(q) \subseteq Signals
<1>1. ASSUME NEW s \in Signals
      PROVE /\ Append(q, s) \in Seq(Signals) /\ Append(q, s) # <<>>
            /\ ToSet(Append(q, s)) = ToSet(q) \union {s}
            /\ Head(Append(q, s)) = IF q = <<>> THEN s ELSE Head(q)
            /\ Tail(Append(q, s)) = IF q = <<>> THEN <<>> ELSE Append(Tail(q), s)
  <2>1. /\ Append(q, s) \in Seq(Signals) /\ Append(q, s) # <<>> /\ Len(q) \in Nat
        /\ Len(Append(q, s)) = Len(q) + 1 /\ Append(q, s)[Len(q) + 1] = s
        /\ \A i \in 1..Len(q) : Append(q, s)[i] = q[i]
        /\ DOMAIN Append(q, s) = 1..Len(q) + 1 /\ DOMAIN q = 1..Len(q)
    OBVIOUS
  <2>2. \A i \in 1..Len(q) + 1 : i \in 1..Len(q) \/ i = Len(q) + 1
    BY <2>1
  <2>3. 1..Len(q) \subseteq 1..Len(q) + 1 /\ Len(q) + 1 \in 1..Len(q) + 1
    BY <2>1
  <2>4. ToSet(Append(q, s)) = ToSet(q) \union {s}
    BY <2>1, <2>2, <2>3 DEF ToSet
  <2>5. Head(Append(q, s)) = IF q = <<>> THEN s ELSE Head(q)
    BY <2>1
  <2>6. CASE q = <<>>
    BY <2>1, <2>4, <2>5, <2>6
  <2>7. CASE q # <<>>
    <3>1. Tail(Append(q, s)) = Append(Tail(q), s)
      BY <2>7
    <3> QED BY <2>1, <2>4, <2>5, <2>7, <3>1
  <2> QED BY <2>6, <2>7
<1>2. ASSUME q # <<>>
      PROVE /\ Tail(q) \in Seq(Signals) /\ Head(q) \in Signals
            /\ ToSet(q) = ToSet(Tail(q)) \union {Head(q)}
  <2>1. /\ Tail(q) \in Seq(Signals) /\ Len(Tail(q)) = Len(q) - 1 /\ Head(q) = q[1] /\ Len(q) \in Nat
        /\ Len(q) > 0 /\ \A i \in 1..Len(q) - 1 : Tail(q)[i] = q[i + 1]
        /\ DOMAIN Tail(q) = 1..Len(q) - 1 /\ DOMAIN q = 1..Len(q) /\ Head(q) \in Signals
    BY <1>2
  <2>2. \A j \in 1..Len(q) : j = 1 \/ (j - 1 \in 1..Len(q) - 1 /\ Tail(q)[j - 1] = q[j])
    BY <2>1
  <2>3. \A x \in ToSet(q) : x = q[1] \/ x \in ToSet(Tail(q))
    <3>1. \A x : x \in ToSet(q) <=> \E j \in 1..Len(q) : q[j] = x
      BY <2>1 DEF ToSet
    <3>2. \A x : x \in ToSet(Tail(q)) <=> \E j \in 1..Len(q) - 1 : Tail(q)[j] = x
      BY <2>1 DEF ToSet
    <3> QED BY <2>2, <3>1, <3>2
  <2>4. 1 \in 1..Len(q) /\ \A i \in 1..Len(q) - 1 : i + 1 \in 1..Len(q)
    BY <2>1
  <2>5. \A x \in ToSet(Tail(q)) : x \in ToSet(q)
    BY <2>1, <2>4 DEF ToSet
  <2>6. q[1] \in ToSet(q)
    BY <2>1, <2>4 DEF ToSet
  <2> QED BY <2>1, <2>3, <2>5, <2>6
<1>3. ToSet(<<>>) = {} /\ \A t : ~Has(<<>>, t)
  BY DEF ToSet, Has
<1>4. ToSet(q) \subseteq Signals
  BY DEF ToSet
<1> QED BY <1>1, <1>2, <1>3, <1>4 DEF Has

(* At most one signal of a type in a queue.                                  *)
LEMMA OnceInQueue ==
  ASSUME NEW q \in Seq(Signals), NEW t
  PROVE /\ \A s \in Signals : Once(q, t) /\ (s.type # t \/ ~Has(q, t)) => Once(Append(q, s), t)
        /\ q # <<>> /\ Once(q, t) => Once(Tail(q), t) /\ (Head(q).type = t => ~Has(Tail(q), t))
        /\ ~Has(q, t) => Once(q, t)
<1>1. ASSUME NEW s \in Signals, Once(q, t), s.type # t \/ ~Has(q, t)
      PROVE Once(Append(q, s), t)
  <2>1. /\ Len(q) \in Nat /\ Len(Append(q, s)) = Len(q) + 1 /\ Append(q, s)[Len(q) + 1] = s
        /\ \A i \in 1..Len(q) : Append(q, s)[i] = q[i]
    OBVIOUS
  <2>2. \A i \in 1..Len(Append(q, s)) : i \in 1..Len(q) \/ i = Len(q) + 1
    BY <2>1
  <2>3. CASE s.type # t
    BY <1>1, <2>1, <2>2, <2>3 DEF Once
  <2>4. CASE ~Has(q, t)
    <3>1. \A i \in 1..Len(q) : q[i].type # t
      BY <2>4 DEF Has, ToSet
    <3> QED BY <2>1, <2>2, <3>1 DEF Once
  <2> QED BY <1>1, <2>3, <2>4
<1>2. ASSUME q # <<>>, Once(q, t)
      PROVE Once(Tail(q), t) /\ (Head(q).type = t => ~Has(Tail(q), t))
  <2>1. /\ Len(q) \in Nat /\ Len(q) > 0 /\ Len(Tail(q)) = Len(q) - 1 /\ Head(q) = q[1]
        /\ DOMAIN Tail(q) = 1..Len(q) - 1
        /\ \A i \in 1..Len(q) - 1 : Tail(q)[i] = q[i + 1] /\ i + 1 \in 1..Len(q) /\ i + 1 # 1
    BY <1>2
  <2>2. \A i, j \in 1..Len(Tail(q)) : Tail(q)[i].type = t /\ Tail(q)[j].type = t => i + 1 = j + 1
    BY <1>2, <2>1 DEF Once
  <2>3. \A i, j \in 1..Len(Tail(q)) : i + 1 = j + 1 => i = j
    BY <2>1
  <2>4. 1 \in 1..Len(q)
    BY <2>1
  <2>5. Head(q).type = t => \A i \in 1..Len(q) - 1 : Tail(q)[i].type # t
    BY <1>2, <2>1, <2>4 DEF Once
  <2>6. Head(q).type = t => ~Has(Tail(q), t)
    BY <2>1, <2>5 DEF Has, ToSet
  <2> QED BY <2>2, <2>3, <2>6 DEF Once
<1>3. ~Has(q, t) => Once(q, t)
  BY DEF Has, ToSet, Once
<1> QED BY <1>1, <1>2, <1>3

(* Who is who.                                                               *)
LEMMA Roles ==
  ASSUME NEW c, NEW m, Setting(c, m)
  PROVE /\ c \notin Callees(c) /\ Callees(c) \subseteq Devices
        /\ \A d \in Devices : answering[d] # 0 \/ phase[d] = "ringing" => d \in Callees(c)
        /\ \A d \in Devices : offering[d] # 0 \/ phase[d] = "calling" => d = c
        /\ \A d \in Devices : phase[d] # "idle" => d = c \/ d \in Callees(c)
        /\ \A d \in Devices : ~StartCall(d)
        /\ NodeOf \in [Devices -> CallNodes]
<1>1. c \notin Callees(c) /\ Callees(c) \subseteq Devices /\ NodeOf \in [Devices -> CallNodes]
  BY CallAssumption DEF Callees, CallAssumption
<1>2. \A d \in Devices : ~StartCall(d)
  BY DEF Setting, OneCall, RolesOK, StartCall
<1> QED BY <1>1, <1>2 DEF Setting, OneCall, RolesOK

-----------------------------------------------------------------------------
(* The network, as the devices see it.                                       *)

LEMMA NetworkStays ==
  ASSUME UNCHANGED <<fan, bus, signalsDown>>
  PROVE /\ \A d \in Devices : \A T : Coming(d, T)' <=> Coming(d, T)
        /\ \A t : InFlight(t)' <=> InFlight(t)
  BY DEF Coming, InFlight

LEMMA NetworkDelivers ==
  ASSUME CallTypeOK, NEW x \in Devices, signalsDown[x] # <<>>, UNCHANGED <<fan, bus>>,
         signalsDown'[x] = Tail(signalsDown[x]),
         \A d \in Devices \ {x} : signalsDown'[d] = signalsDown[d]
  PROVE /\ InFlight(Head(signalsDown[x])) /\ \A t : InFlight(t)' => InFlight(t)
        /\ \A d \in Devices : \A T :
             /\ Coming(d, T)' => Coming(d, T)
             /\ Coming(d, T) => \/ Coming(d, T)'
                                \/ d = x /\ Head(signalsDown[x]).type \in T
                                   /\ Head(signalsDown[x]).dev # x
<1>1. signalsDown[x] \in Seq(Signals)
  BY DEF CallTypeOK, ConnectionsOK
<1>2. ToSet(signalsDown[x]) = ToSet(signalsDown'[x]) \union {Head(signalsDown[x])}
  BY <1>1, HasSignals
<1>3. \A d \in Devices : ToSet(signalsDown'[d]) \subseteq ToSet(signalsDown[d])
  BY <1>1, <1>2
<1>4. InFlight(Head(signalsDown[x])) /\ \A t : InFlight(t)' => InFlight(t)
  BY <1>2, <1>3 DEF InFlight
<1>5. \A d \in Devices : \A T : Coming(d, T)' => Coming(d, T)
  BY <1>3 DEF Coming
<1>6. \A d \in Devices \ {x} : \A T : Coming(d, T) => Coming(d, T)'
  BY DEF Coming
<1>7. \A T : Coming(x, T) => \/ Coming(x, T)'
                             \/ Head(signalsDown[x]).type \in T /\ Head(signalsDown[x]).dev # x
  BY <1>2 DEF Coming
<1> QED BY <1>4, <1>5, <1>6, <1>7

LEMMA NetworkTakes ==
  ASSUME CallTypeOK, NEW x \in Devices, NEW s \in Signals, fan[x] = NoSignal,
         fan'[x] = s, \A d \in Devices \ {x} : fan'[d] = fan[d], UNCHANGED <<bus, signalsDown>>
  PROVE /\ \A t : InFlight(t)' => InFlight(t) \/ t = s
        /\ \A d \in Devices : \A T : "none" \notin T =>
             (Coming(d, T)' <=> Coming(d, T) \/ (d # x /\ s.type \in T))
<1>1. fan[x].type = "none"
  BY DEF NoSignal
<1>2. \A t : InFlight(t)' => InFlight(t) \/ t = s
  BY DEF InFlight
<1>3. ASSUME NEW d \in Devices, NEW T, "none" \notin T
      PROVE Coming(d, T)' <=> Coming(d, T) \/ (d # x /\ s.type \in T)
  BY <1>1, <1>3 DEF Coming
<1> QED BY <1>2, <1>3

LEMMA NetworkTells ==
  ASSUME CallTypeOK, NEW x \in Devices, NEW s \in Signals, s.dev = x, UNCHANGED <<fan, bus>>,
         signalsDown'[x] = Append(signalsDown[x], s),
         \A d \in Devices \ {x} : signalsDown'[d] = signalsDown[d]
  PROVE /\ \A t : InFlight(t)' => InFlight(t) \/ t = s
        /\ \A d \in Devices : \A T : Coming(d, T)' <=> Coming(d, T)
<1>1. signalsDown[x] \in Seq(Signals)
  BY DEF CallTypeOK, ConnectionsOK
<1>2. ToSet(signalsDown'[x]) = ToSet(signalsDown[x]) \union {s}
  BY <1>1, HasSignals
<1>3. \A t : InFlight(t)' => InFlight(t) \/ t = s
  BY <1>1, <1>2 DEF InFlight
<1>4. \A d \in Devices \ {x} : \A T : Coming(d, T)' <=> Coming(d, T)
  BY DEF Coming
<1>5. \A T : Coming(x, T)' <=> Coming(x, T)
  BY <1>2 DEF Coming
<1> QED BY <1>3, <1>4, <1>5
-----------------------------------------------------------------------------
(* A device's own steps touch neither the network nor the arbiter.           *)
LEMMA OwnStepKeeps ==
  ASSUME NEW c, NEW m, Setting(c, m),
         UNCHANGED <<fan, bus, signalsDown, active, cut>>
  PROVE /\ \A d \in Devices : \A T : Coming(d, T)' <=> Coming(d, T)
        /\ \A t : InFlight(t)' <=> InFlight(t)
        /\ Decided(m)' <=> Decided(m)
        /\ AnsweredAt(m)' <=> AnsweredAt(m)
        /\ \A d \in Devices : AnsweredBy(m, d)' <=> AnsweredBy(m, d)
        /\ Spreading(c, m)' <=> Spreading(c, m)
        /\ \A d \in Devices : Offered(c, m, d)' <=> Offered(c, m, d)
  BY NetworkStays DEF Decided, AnsweredAt, AnsweredBy, Spreading, Offered

LEMMA TimerKeeps ==
  ASSUME NEW c, NEW m, Setting(c, m), NEW d \in Devices, TimerFires(d)
  PROVE OneCall(c, m)'
<1> USE DEF Setting, OneCall
<1>1. /\ timers[d] > 0 /\ timers' = [timers EXCEPT ![d] = @ - 1]
      /\ phase' = [phase EXCEPT ![d] = "idle"]
      /\ UNCHANGED <<isCaller, about, offering, answering, fan, bus, active, cut, late,
                     signalsUp, signalsDown, placed>>
  BY DEF TimerFires, Phase, hubVars, callCounts
<1>2. phase \in [Devices -> Phases] /\ timers \in [Devices -> Nat]
  BY DEF CallTypeOK, DevicesOK
<1>3. /\ \A x \in Devices : timers'[x] \in Nat /\ (timers[x] = 0 => timers'[x] = 0)
      /\ \A x \in Devices : phase'[x] = phase[x] \/ (x = d /\ phase'[x] = "idle")
      /\ \A x \in Devices \ {d} : phase'[x] = phase[x] /\ timers'[x] = timers[x]
      /\ \A x \in Devices : Doomed(x) => Doomed(x)'
  BY <1>1, <1>2 DEF Doomed
<1>o. c \notin Callees(c) /\ Callees(c) \subseteq Devices
  BY Roles
<1>4. RolesOK(c)'
  BY <1>1, <1>2, <1>3 DEF RolesOK
<1>5. SignalsOK(c)'
  BY <1>1 DEF SignalsOK
<1>6. \A x \in Callees(c) : Inert(x) => Inert(x)'
  BY <1>1, <1>3, <1>o DEF Inert
<1>7. OfferOnce(c, m)'
  BY <1>1, <1>2, <1>3, <1>6, <1>o, OwnStepKeeps DEF OfferOnce, Preparing, Fresh, Doomed
<1>8. Refused(c, m)'
  BY <1>1, <1>6, OwnStepKeeps DEF Refused, Preparing
<1>9. NotYet(c, m)'
  BY <1>1, <1>2, <1>3, <1>o, OwnStepKeeps DEF NotYet
<1>10. Passed(c, m)'
  BY <1>1, <1>3, <1>o, OwnStepKeeps DEF Passed
<1>11. Told(c, m)'
  BY <1>1, <1>2, <1>3, <1>o, OwnStepKeeps DEF Told, InCall, Doomed
<1>12. Partner(c, m)'
  BY <1>1, <1>2, <1>3, <1>o, OwnStepKeeps DEF Partner, InCall
<1> QED BY <1>4, <1>5, <1>7, <1>8, <1>9, <1>10, <1>11, <1>12

(* What a device puts on its connection.                                     *)
LEMMA UpSends ==
  ASSUME CallTypeOK, NEW d \in Devices, NEW s \in Signals,
         signalsUp'[d] = Append(signalsUp[d], s),
         \A x \in Devices \ {d} : signalsUp'[x] = signalsUp[x]
  PROVE /\ signalsUp[d] \in Seq(Signals)
        /\ signalsUp'[d] = Append(signalsUp[d], s) /\ signalsUp'[d] # <<>>
        /\ ToSet(signalsUp'[d]) = ToSet(signalsUp[d]) \union {s}
        /\ \A t : Has(signalsUp'[d], t) <=> Has(signalsUp[d], t) \/ s.type = t
        /\ \A x \in Devices : \A t : Has(signalsUp[x], t) => Has(signalsUp'[x], t)
        /\ \A t : Once(signalsUp[d], t) /\ (s.type # t \/ ~Has(signalsUp[d], t))
                 => Once(signalsUp'[d], t)
<1>1. signalsUp[d] \in Seq(Signals)
  BY DEF CallTypeOK, ConnectionsOK
<1>2. /\ Append(signalsUp[d], s) # <<>>
      /\ ToSet(Append(signalsUp[d], s)) = ToSet(signalsUp[d]) \union {s}
      /\ \A t : Has(Append(signalsUp[d], s), t) <=> Has(signalsUp[d], t) \/ s.type = t
  BY <1>1, HasSignals
<1>3. \A x \in Devices : \A t : Has(signalsUp[x], t) => Has(signalsUp'[x], t)
  BY <1>2
<1>4. \A t : Once(signalsUp[d], t) /\ (s.type # t \/ ~Has(signalsUp[d], t))
         => Once(signalsUp'[d], t)
  BY <1>1, OnceInQueue
<1> QED BY <1>1, <1>2, <1>3, <1>4

(* acceptCall, up to where it waits: the device no longer rings, and nothing *)
(* was decided by that.                                                      *)
LEMMA AcceptKeeps ==
  ASSUME NEW c, NEW m, Setting(c, m), NEW d \in Devices, Accept(d)
  PROVE OneCall(c, m)'
<1> USE DEF Setting, OneCall
<1>1. /\ phase[d] = "ringing" /\ answering[d] = 0
      /\ answering' = [answering EXCEPT ![d] = about[d]]
      /\ phase' = [phase EXCEPT ![d] = "connecting"]
      /\ UNCHANGED <<isCaller, about, offering, timers, fan, bus, active, cut, late, signalsUp,
                     signalsDown, placed>>
  BY DEF Accept, Phase, hubVars, callCounts
<1>2. phase \in [Devices -> Phases] /\ timers \in [Devices -> Nat] /\ answering \in [Devices -> Nat]
  BY DEF CallTypeOK, DevicesOK
<1>o. c \notin Callees(c) /\ Callees(c) \subseteq Devices /\ d \in Callees(c)
  BY <1>1, Roles
<1>3. /\ about[d] = 1 /\ timers[d] = 0 /\ signalsUp[d] = <<>> /\ ~AnsweredBy(m, d) /\ d # c
      /\ \A t : ~Has(signalsUp[d], t)
      /\ phase'[d] = "connecting" /\ answering'[d] = 1
      /\ \A x \in Devices \ {d} : phase'[x] = phase[x] /\ answering'[x] = answering[x]
  <2>1. signalsUp[d] = <<>>
    BY <1>1, <1>o DEF NotYet
  <2> QED BY <1>1, <1>2, <1>o, <2>1 DEF NotYet, RolesOK, Has, ToSet
<1>4. RolesOK(c)'
  BY <1>1, <1>2, <1>3, <1>o DEF RolesOK
<1>5. SignalsOK(c)'
  BY <1>1 DEF SignalsOK
<1>6. /\ ~Inert(d) /\ ~Preparing(c) /\ ~Preparing(c)' /\ ~Offered(c, m, d) /\ ~Spreading(c, m)
      /\ \A x \in Callees(c) \ {d} : Inert(x) => Inert(x)'
  BY <1>1, <1>2, <1>3, <1>o DEF Inert, OfferOnce, Preparing, Fresh, Offered, Spreading
<1>7. OfferOnce(c, m)'
  BY <1>1, <1>2, <1>3, <1>6, <1>o, OwnStepKeeps DEF OfferOnce, Offered, Fresh, Spreading
<1>8. Refused(c, m)'
  BY <1>1, <1>6, <1>o DEF Refused
<1>9. NotYet(c, m)'
  BY <1>1, <1>2, <1>3, <1>o, OwnStepKeeps DEF NotYet
<1>10. Passed(c, m)'
  BY <1>1, <1>3, <1>o, OwnStepKeeps DEF Passed, Doomed
<1>11. Told(c, m)'
  BY <1>1, <1>2, <1>3, <1>o, OwnStepKeeps DEF Told, InCall, Doomed
<1>12. Partner(c, m)'
  BY <1>1, <1>2, <1>3, <1>o, OwnStepKeeps DEF Partner, InCall
<1> QED BY <1>4, <1>5, <1>7, <1>8, <1>9, <1>10, <1>11, <1>12

(* Once the offer is out, nothing a device does disturbs what its one        *)
(* journey left behind, as long as the devices it has yet to reach wait.     *)
LEMMA OfferDone ==
  ASSUME NEW c, NEW m, Setting(c, m), UNCHANGED <<fan, bus, signalsDown, active>>,
         ConnectionsOK', ~Preparing(c)',
         \A x \in Callees(c) : Inert(x) => Inert(x)' /\ timers'[x] = timers[x]
  PROVE OfferOnce(c, m)'
<1> USE DEF Setting, OneCall
<1>1. signalsUp'[c] \in Seq(Signals) /\ ~Has(signalsUp'[c], "offer") /\ offering'[c] = 0
  BY DEF ConnectionsOK, Preparing
<1>2. Once(signalsUp'[c], "offer")
  BY <1>1, OnceInQueue
<1>3. fan[c].type = "offer" => bus[m] = <<>> /\ Fresh(c, m)'
  BY DEF OfferOnce, Fresh, AnsweredAt
<1>4. Has(bus[m], "offer") => /\ fan[c].type # "offer" /\ Fresh(c, m)'
                              /\ Head(bus[m]).type = "offer" /\ ~Has(Tail(bus[m]), "offer")
  BY DEF OfferOnce, Fresh, AnsweredAt
<1>5. ASSUME NEW x \in Callees(c), Has(signalsDown[x], "offer")
      PROVE /\ ~Spreading(c, m)' /\ Inert(x)' /\ timers'[x] = 0 /\ ~AnsweredBy(m, x)'
            /\ Head(signalsDown[x]).type = "offer" /\ ~Has(Tail(signalsDown[x]), "offer")
  BY <1>5 DEF OfferOnce, Spreading, AnsweredBy, AnsweredAt
<1> QED BY <1>1, <1>2, <1>3, <1>4, <1>5 DEF OfferOnce

(* The rest of acceptCall: the answer joins the connection, once, and the    *)
(* device believes it is connected.                                          *)
LEMMA SendAnswerKeeps ==
  ASSUME NEW c, NEW m, Setting(c, m), NEW d \in Devices, SendAnswer(d)
  PROVE OneCall(c, m)'
<1> USE DEF Setting, OneCall
<1>0. PICK s : s = [type |-> "answer", dev |-> d, call |-> answering[d]]
  OBVIOUS
<1>1. /\ answering[d] # 0 /\ answering' = [answering EXCEPT ![d] = 0]
      /\ phase' = [phase EXCEPT ![d] = IF phase[d] = "idle" THEN "idle" ELSE "connected"]
      /\ signalsUp' = [signalsUp EXCEPT ![d] = Append(@, s)]
      /\ UNCHANGED <<isCaller, about, offering, timers, fan, bus, active, cut, late,
                     signalsDown, placed>>
  BY <1>0 DEF SendAnswer, Phase, hubVars, callCounts
<1>2. phase \in [Devices -> Phases] /\ timers \in [Devices -> Nat] /\ answering \in [Devices -> Nat]
  BY DEF CallTypeOK, DevicesOK
<1>o. c \notin Callees(c) /\ Callees(c) \subseteq Devices /\ d \in Callees(c) /\ d # c
  BY <1>1, Roles
<1>s. s \in Signals /\ s.type = "answer" /\ s.dev = d /\ s.call = 1 /\ SentBy(c, s)
  BY <1>0, <1>1, <1>2, <1>o DEF Signals, SignalTypes, SentBy, Stops, RolesOK
<1>t. ConnectionsOK'
  BY OwnSteps DEF CallTypeOK
<1>u. /\ \A x \in Devices \ {d} : signalsUp'[x] = signalsUp[x]
      /\ ToSet(signalsUp'[d]) = ToSet(signalsUp[d]) \union {s} /\ signalsUp'[d] # <<>>
      /\ \A t : Has(signalsUp'[d], t) <=> Has(signalsUp[d], t) \/ t = "answer"
      /\ Once(signalsUp'[d], "answer")
  <2>1. CallTypeOK
    OBVIOUS
  <2> HIDE DEF Setting, OneCall
  <2>2. s \in Signals /\ s.type = "answer"
    BY <1>s
  <2>3. /\ signalsUp'[d] = Append(signalsUp[d], s)
        /\ \A x \in Devices \ {d} : signalsUp'[x] = signalsUp[x]
    BY <1>1, <2>1 DEF CallTypeOK, ConnectionsOK
  <2>4. Once(signalsUp[d], "answer") /\ ~Has(signalsUp[d], "answer")
    BY <1>1, <1>o DEF NotYet, OneCall, Setting
  <2>5. /\ ToSet(signalsUp'[d]) = ToSet(signalsUp[d]) \union {s} /\ signalsUp'[d] # <<>>
        /\ \A t : Has(signalsUp'[d], t) <=> Has(signalsUp[d], t) \/ s.type = t
        /\ \A t : Once(signalsUp[d], t) /\ (s.type # t \/ ~Has(signalsUp[d], t))
                 => Once(signalsUp'[d], t)
    BY <2>1, <2>2, <2>3, UpSends
  <2> QED BY <2>2, <2>3, <2>4, <2>5
<1>3. /\ ~AnsweredBy(m, d) /\ answering'[d] = 0
      /\ phase'[d] = IF phase[d] = "idle" THEN "idle" ELSE "connected"
      /\ \A x \in Devices \ {d} : phase'[x] = phase[x] /\ answering'[x] = answering[x]
      /\ Doomed(d) => Doomed(d)'
  BY <1>1, <1>2, <1>o DEF NotYet, Doomed
<1>4. RolesOK(c)'
  BY <1>1, <1>2, <1>3, <1>o DEF RolesOK
<1>5. SignalsOK(c)'
  BY <1>1, <1>s, <1>u DEF SignalsOK
<1>6. /\ ~Inert(d) /\ ~Preparing(c) /\ ~Preparing(c)' /\ ~Offered(c, m, d) /\ ~Spreading(c, m)
      /\ \A x \in Callees(c) : Inert(x) => Inert(x)'
      /\ signalsUp'[c] = signalsUp[c]
  BY <1>1, <1>2, <1>3, <1>o, <1>u DEF Inert, OfferOnce, Preparing, Fresh, Offered, Spreading
<1>7. OfferOnce(c, m)'
  BY <1>1, <1>o, <1>t, <1>6, OfferDone
<1>8. Refused(c, m)'
  BY <1>1, <1>6, <1>o DEF Refused
<1>r. phase[d] # "ringing" /\ phase'[d] # "ringing"
  BY <1>1, <1>2, <1>3, <1>o DEF NotYet
<1>9. NotYet(c, m)'
  BY <1>1, <1>2, <1>3, <1>o, <1>u, <1>r, OwnStepKeeps DEF NotYet
<1>10. Passed(c, m)'
  BY <1>1, <1>3, <1>o, <1>u, OwnStepKeeps DEF Passed, Doomed
<1>11. Told(c, m)'
  BY <1>1, <1>2, <1>3, <1>o, <1>u, <1>r, OwnStepKeeps DEF Told, InCall, Doomed
<1>12. Partner(c, m)'
  BY <1>1, <1>2, <1>3, <1>o, <1>u, OwnStepKeeps DEF Partner, InCall
<1> QED BY <1>4, <1>5, <1>7, <1>8, <1>9, <1>10, <1>11, <1>12

(* Or no answer can be made: the session ends without a word.                *)
LEMMA AnswerFailsKeeps ==
  ASSUME NEW c, NEW m, Setting(c, m), NEW d \in Devices, AnswerFails(d)
  PROVE OneCall(c, m)'
<1> USE DEF Setting, OneCall
<1>1. /\ answering[d] # 0 /\ answering' = [answering EXCEPT ![d] = 0]
      /\ phase' = [phase EXCEPT ![d] = IF phase[d] = "idle" THEN "idle" ELSE "ended"]
      /\ timers' = [timers EXCEPT ![d] = @ + 1]
      /\ UNCHANGED <<isCaller, about, offering, fan, bus, active, cut, late, signalsUp,
                     signalsDown, placed>>
  BY DEF AnswerFails, EndSession, Phase, hubVars, callCounts
<1>2. phase \in [Devices -> Phases] /\ timers \in [Devices -> Nat] /\ answering \in [Devices -> Nat]
  BY DEF CallTypeOK, DevicesOK
<1>o. c \notin Callees(c) /\ Callees(c) \subseteq Devices /\ d \in Callees(c) /\ d # c
  BY <1>1, Roles
<1>3. /\ ~AnsweredBy(m, d) /\ answering'[d] = 0 /\ timers'[d] > 0
      /\ phase'[d] \in {"idle", "ended"} /\ phase[d] # "ringing" /\ (phase'[d] = "ended" => phase[d] # "idle")
      /\ \A x \in Devices \ {d} : /\ phase'[x] = phase[x] /\ answering'[x] = answering[x]
                                  /\ timers'[x] = timers[x]
      /\ \A x \in Devices : Doomed(x) => Doomed(x)'
  BY <1>1, <1>2, <1>o DEF NotYet, Doomed
<1>4. RolesOK(c)'
  BY <1>1, <1>2, <1>3, <1>o DEF RolesOK
<1>5. SignalsOK(c)'
  BY <1>1 DEF SignalsOK
<1>6. /\ ~Inert(d) /\ ~Preparing(c) /\ ~Preparing(c)' /\ ~Offered(c, m, d) /\ ~Spreading(c, m)
      /\ \A x \in Callees(c) \ {d} : Inert(x) => Inert(x)'
  BY <1>1, <1>2, <1>3, <1>o DEF Inert, OfferOnce, Preparing, Fresh, Offered, Spreading
<1>7. OfferOnce(c, m)'
  BY <1>1, <1>2, <1>3, <1>6, <1>o, OwnStepKeeps DEF OfferOnce, Offered, Fresh, Spreading
<1>8. Refused(c, m)'
  BY <1>1, <1>6, <1>o DEF Refused
<1>9. NotYet(c, m)'
  BY <1>1, <1>2, <1>3, <1>o, OwnStepKeeps DEF NotYet
<1>10. Passed(c, m)'
  BY <1>1, <1>3, <1>o, OwnStepKeeps DEF Passed
<1>11. Told(c, m)'
  BY <1>1, <1>2, <1>3, <1>o, OwnStepKeeps DEF Told, InCall, Doomed
<1>12. Partner(c, m)'
  BY <1>1, <1>2, <1>3, <1>o, OwnStepKeeps DEF Partner, InCall
<1> QED BY <1>4, <1>5, <1>7, <1>8, <1>9, <1>10, <1>11, <1>12

(* rejectCall: a device that rings has said nothing before.                  *)
LEMMA RejectKeeps ==
  ASSUME NEW c, NEW m, Setting(c, m), NEW d \in Devices, Reject(d)
  PROVE OneCall(c, m)'
<1> USE DEF Setting, OneCall
<1>0. PICK s : s = [type |-> "reject", dev |-> d, call |-> about[d]]
  OBVIOUS
<1>1. /\ phase[d] = "ringing"
      /\ phase' = [phase EXCEPT ![d] = "ended"] /\ timers' = [timers EXCEPT ![d] = @ + 1]
      /\ signalsUp' = [signalsUp EXCEPT ![d] = Append(@, s)]
      /\ UNCHANGED <<isCaller, about, offering, answering, fan, bus, active, cut, late,
                     signalsDown, placed>>
  BY <1>0 DEF Reject, EndSession, Transmit, Phase, hubVars, callCounts
<1>2. phase \in [Devices -> Phases] /\ timers \in [Devices -> Nat] /\ answering \in [Devices -> Nat]
  BY DEF CallTypeOK, DevicesOK
<1>o. c \notin Callees(c) /\ Callees(c) \subseteq Devices /\ d \in Callees(c) /\ d # c
  BY <1>1, Roles
<1>s. s \in Signals /\ s.type = "reject" /\ s.dev = d /\ s.call = 1 /\ SentBy(c, s)
  BY <1>0, <1>1, <1>2, <1>o DEF Signals, SignalTypes, SentBy, Stops, RolesOK
<1>t. ConnectionsOK'
  BY OwnSteps DEF CallTypeOK
<1>u. /\ \A x \in Devices \ {d} : signalsUp'[x] = signalsUp[x]
      /\ ToSet(signalsUp'[d]) = ToSet(signalsUp[d]) \union {s} /\ signalsUp'[d] # <<>>
      /\ \A t : Has(signalsUp'[d], t) <=> Has(signalsUp[d], t) \/ t = "reject"
      /\ Once(signalsUp[d], "answer") => Once(signalsUp'[d], "answer")
  <2>1. CallTypeOK
    OBVIOUS
  <2> HIDE DEF Setting, OneCall
  <2>2. s \in Signals /\ s.type = "reject"
    BY <1>s
  <2>3. /\ signalsUp'[d] = Append(signalsUp[d], s)
        /\ \A x \in Devices \ {d} : signalsUp'[x] = signalsUp[x]
    BY <1>1, <2>1 DEF CallTypeOK, ConnectionsOK
  <2>4. /\ ToSet(signalsUp'[d]) = ToSet(signalsUp[d]) \union {s} /\ signalsUp'[d] # <<>>
        /\ \A t : Has(signalsUp'[d], t) <=> Has(signalsUp[d], t) \/ s.type = t
        /\ \A t : Once(signalsUp[d], t) /\ (s.type # t \/ ~Has(signalsUp[d], t))
                 => Once(signalsUp'[d], t)
    BY <2>1, <2>2, <2>3, UpSends
  <2> QED BY <2>2, <2>3, <2>4
<1>3. /\ ~AnsweredBy(m, d) /\ answering[d] = 0 /\ signalsUp[d] = <<>> /\ timers[d] = 0
      /\ phase'[d] = "ended" /\ timers'[d] > 0 /\ Doomed(d)'
      /\ \A x \in Devices \ {d} : phase'[x] = phase[x] /\ timers'[x] = timers[x]
      /\ \A x \in Devices : Doomed(x) => Doomed(x)'
  BY <1>1, <1>2, <1>o DEF NotYet, Doomed
<1>4. RolesOK(c)'
  BY <1>1, <1>2, <1>3, <1>o DEF RolesOK
<1>5. SignalsOK(c)'
  BY <1>1, <1>s, <1>u DEF SignalsOK
<1>6. /\ ~Inert(d) /\ ~Preparing(c) /\ ~Preparing(c)' /\ ~Offered(c, m, d) /\ ~Spreading(c, m)
      /\ \A x \in Callees(c) : Inert(x) => Inert(x)' /\ timers'[x] = timers[x]
      /\ signalsUp'[c] = signalsUp[c]
  BY <1>1, <1>2, <1>3, <1>o, <1>u DEF Inert, OfferOnce, Preparing, Fresh, Offered, Spreading
<1>7. OfferOnce(c, m)'
  BY <1>1, <1>o, <1>t, <1>6, OfferDone
<1>8. Refused(c, m)'
  BY <1>1, <1>6, <1>o DEF Refused
<1>9. NotYet(c, m)'
  BY <1>1, <1>2, <1>3, <1>o, <1>u, OwnStepKeeps DEF NotYet
<1>10. Passed(c, m)'
  BY <1>1, <1>3, <1>o, <1>u, OwnStepKeeps DEF Passed
<1>11. Told(c, m)'
  BY <1>1, <1>2, <1>3, <1>o, <1>u, OwnStepKeeps DEF Told, InCall, Doomed
<1>12. Partner(c, m)'
  BY <1>1, <1>2, <1>3, <1>o, <1>u, OwnStepKeeps DEF Partner, InCall
<1> QED BY <1>4, <1>5, <1>7, <1>8, <1>9, <1>10, <1>11, <1>12

(* The caller or a callee hangs up.                                          *)
LEMMA HangUpKeeps ==
  ASSUME NEW c, NEW m, Setting(c, m), NEW d \in Devices, HangUp(d)
  PROVE OneCall(c, m)'
<1> USE DEF Setting, OneCall
<1>0. PICK s : s = [type |-> "end", dev |-> d, call |-> about[d]]
  OBVIOUS
<1>1. /\ phase[d] \in {"calling", "connecting", "connected"}
      /\ phase' = [phase EXCEPT ![d] = "ended"] /\ timers' = [timers EXCEPT ![d] = @ + 1]
      /\ signalsUp' = [signalsUp EXCEPT ![d] = Append(@, s)]
      /\ UNCHANGED <<isCaller, about, offering, answering, fan, bus, active, cut, late,
                     signalsDown, placed>>
  BY <1>0 DEF HangUp, EndSession, Transmit, Phase, hubVars, callCounts
<1>2. phase \in [Devices -> Phases] /\ timers \in [Devices -> Nat] /\ answering \in [Devices -> Nat]
  BY DEF CallTypeOK, DevicesOK
<1>o. c \notin Callees(c) /\ Callees(c) \subseteq Devices /\ (d = c \/ d \in Callees(c))
  BY <1>1, Roles
<1>s. s \in Signals /\ s.type = "end" /\ s.dev = d /\ s.call = 1 /\ SentBy(c, s)
  BY <1>0, <1>1, <1>2, <1>o DEF Signals, SignalTypes, SentBy, Stops, RolesOK
<1>t. ConnectionsOK'
  BY OwnSteps DEF CallTypeOK
<1>u. /\ \A x \in Devices \ {d} : signalsUp'[x] = signalsUp[x]
      /\ signalsUp'[d] = Append(signalsUp[d], s)
      /\ ToSet(signalsUp'[d]) = ToSet(signalsUp[d]) \union {s} /\ signalsUp'[d] # <<>>
      /\ \A t : Has(signalsUp'[d], t) <=> Has(signalsUp[d], t) \/ t = "end"
      /\ \A t \in {"offer", "answer"} : Once(signalsUp[d], t) => Once(signalsUp'[d], t)
  <2>1. CallTypeOK
    OBVIOUS
  <2> HIDE DEF Setting, OneCall
  <2>2. s \in Signals /\ s.type = "end"
    BY <1>s
  <2>3. /\ signalsUp'[d] = Append(signalsUp[d], s)
        /\ \A x \in Devices \ {d} : signalsUp'[x] = signalsUp[x]
    BY <1>1, <2>1 DEF CallTypeOK, ConnectionsOK
  <2>4. /\ ToSet(signalsUp'[d]) = ToSet(signalsUp[d]) \union {s} /\ signalsUp'[d] # <<>>
        /\ \A t : Has(signalsUp'[d], t) <=> Has(signalsUp[d], t) \/ s.type = t
        /\ \A t : Once(signalsUp[d], t) /\ (s.type # t \/ ~Has(signalsUp[d], t))
                 => Once(signalsUp'[d], t)
    BY <2>1, <2>2, <2>3, UpSends
  <2> QED BY <2>2, <2>3, <2>4
<1>3. /\ phase'[d] = "ended" /\ timers'[d] > 0 /\ Doomed(d)'
      /\ \A x \in Devices \ {d} : phase'[x] = phase[x] /\ timers'[x] = timers[x]
      /\ \A x \in Devices : Doomed(x) => Doomed(x)'
  BY <1>1, <1>2, <1>o DEF Doomed
<1>4. RolesOK(c)'
  BY <1>1, <1>2, <1>3, <1>o DEF RolesOK
<1>5. SignalsOK(c)'
  BY <1>1, <1>s, <1>u DEF SignalsOK
<1>6. /\ ~Inert(d) /\ (Preparing(c)' <=> Preparing(c)) /\ (Preparing(c) => d = c)
      /\ \A x \in Callees(c) : Inert(x) => Inert(x)' /\ timers'[x] = timers[x]
  BY <1>1, <1>2, <1>3, <1>o, <1>u DEF Inert, OfferOnce, Preparing
<1>7. OfferOnce(c, m)'
  <2>1. CASE ~Preparing(c)
    BY <1>1, <1>o, <1>t, <1>6, <2>1, OfferDone
  <2>2. CASE Preparing(c)
    <3>1. d = c /\ Has(signalsUp'[c], "end")
      BY <1>6, <1>u, <2>2
    <3>2. /\ offering' = offering /\ (Has(signalsUp'[c], "offer") <=> Has(signalsUp[c], "offer"))
          /\ \A x \in Devices \ {c} : signalsUp'[x] = signalsUp[x]
          /\ \A x \in Callees(c) : x # c /\ x \in Devices
      BY <1>1, <1>o, <1>u, <3>1
    <3>3. Once(signalsUp'[c], "offer")
      BY <1>u, <3>1 DEF OfferOnce
    <3>4. /\ ~Spreading(c, m)' /\ ~AnsweredAt(m)'
          /\ \A x \in Callees(c) : Inert(x)' /\ ~Has(signalsDown'[x], "offer")
      BY <1>1, <1>6, <2>2, OwnStepKeeps DEF OfferOnce
    <3>5. cut' = {} => /\ \A x \in Callees(c) : timers'[x] = 0 /\ signalsDown'[x] = <<>>
                       /\ bus'[m] = <<>> /\ fan'[c] = NoSignal
      BY <1>1, <1>6, <2>2 DEF OfferOnce
    <3> QED BY <1>1, <1>6, <2>2, <3>1, <3>2, <3>3, <3>4, <3>5 DEF OfferOnce, Spreading
  <2> QED BY <2>1, <2>2
<1>8. Refused(c, m)'
  BY <1>1, <1>6, OwnStepKeeps DEF Refused
<1>9. NotYet(c, m)'
  BY <1>1, <1>2, <1>3, <1>o, <1>u, OwnStepKeeps DEF NotYet
<1>10. Passed(c, m)'
  BY <1>1, <1>3, <1>o, <1>u, OwnStepKeeps DEF Passed
<1>11. Told(c, m)'
  BY <1>1, <1>2, <1>3, <1>o, <1>u, OwnStepKeeps DEF Told, InCall, Doomed
<1>12. Partner(c, m)'
  BY <1>1, <1>2, <1>3, <1>o, <1>u, OwnStepKeeps DEF Partner, InCall
<1> QED BY <1>4, <1>5, <1>7, <1>8, <1>9, <1>10, <1>11, <1>12

(* The offer goes out, once.                                                 *)
LEMMA SendOfferKeeps ==
  ASSUME NEW c, NEW m, Setting(c, m), NEW d \in Devices, SendOffer(d)
  PROVE OneCall(c, m)'
<1> USE DEF Setting, OneCall
<1>0. PICK s : s = [type |-> "offer", dev |-> d, call |-> offering[d]]
  OBVIOUS
<1>1. /\ offering[d] # 0 /\ offering' = [offering EXCEPT ![d] = 0]
      /\ signalsUp' = [signalsUp EXCEPT ![d] = Append(@, s)]
      /\ UNCHANGED <<phase, isCaller, about, answering, timers, fan, bus, active, cut, late,
                     signalsDown, placed>>
  BY <1>0 DEF SendOffer, hubVars, callCounts
<1>2. offering \in [Devices -> Nat]
  BY DEF CallTypeOK, DevicesOK
<1>o. c \notin Callees(c) /\ Callees(c) \subseteq Devices /\ d = c
  BY <1>1, Roles
<1>s. s \in Signals /\ s.type = "offer" /\ s.dev = c /\ s.call = 1 /\ SentBy(c, s)
  BY <1>0, <1>1, <1>2, <1>o DEF Signals, SignalTypes, SentBy, RolesOK
<1>t. ConnectionsOK'
  BY OwnSteps DEF CallTypeOK
<1>u. /\ \A x \in Devices \ {c} : signalsUp'[x] = signalsUp[x]
      /\ signalsUp'[c] = Append(signalsUp[c], s)
      /\ ToSet(signalsUp'[c]) = ToSet(signalsUp[c]) \union {s} /\ signalsUp'[c] # <<>>
      /\ \A t : Has(signalsUp'[c], t) <=> Has(signalsUp[c], t) \/ t = "offer"
      /\ Once(signalsUp'[c], "offer")
  <2>1. CallTypeOK /\ c \in Devices
    OBVIOUS
  <2> HIDE DEF Setting, OneCall
  <2>2. s \in Signals /\ s.type = "offer"
    BY <1>s
  <2>3. /\ signalsUp'[c] = Append(signalsUp[c], s)
        /\ \A x \in Devices \ {c} : signalsUp'[x] = signalsUp[x]
    BY <1>1, <1>o, <2>1 DEF CallTypeOK, ConnectionsOK
  <2>4. Once(signalsUp[c], "offer") /\ ~Has(signalsUp[c], "offer")
    BY <1>1, <1>o DEF OfferOnce, OneCall, Setting
  <2>5. /\ ToSet(signalsUp'[c]) = ToSet(signalsUp[c]) \union {s} /\ signalsUp'[c] # <<>>
        /\ \A t : Has(signalsUp'[c], t) <=> Has(signalsUp[c], t) \/ s.type = t
        /\ \A t : Once(signalsUp[c], t) /\ (s.type # t \/ ~Has(signalsUp[c], t))
                 => Once(signalsUp'[c], t)
    BY <2>1, <2>2, <2>3, UpSends
  <2> QED BY <2>2, <2>3, <2>4, <2>5
<1>3. /\ Preparing(c) /\ Preparing(c)' /\ offering'[c] = 0 /\ ~Has(signalsUp[c], "offer")
      /\ \A x \in Devices \ {c} : offering'[x] = offering[x]
      /\ \A x \in Callees(c) : Inert(x) /\ Inert(x)'
  BY <1>1, <1>2, <1>o, <1>u DEF OfferOnce, Preparing, Inert
<1>4. RolesOK(c)'
  BY <1>1, <1>3, <1>o DEF RolesOK
<1>5. SignalsOK(c)'
  BY <1>1, <1>s, <1>u DEF SignalsOK
<1>7. OfferOnce(c, m)'
  <2>2. /\ ~Spreading(c, m)' /\ ~AnsweredAt(m)'
        /\ \A x \in Callees(c) : Inert(x)' /\ ~Has(signalsDown'[x], "offer")
    BY <1>1, <1>3, OwnStepKeeps DEF OfferOnce
  <2>3. cut' = {} => /\ \A x \in Callees(c) : timers'[x] = 0 /\ signalsDown'[x] = <<>>
                     /\ bus'[m] = <<>> /\ fan'[c] = NoSignal
                     /\ (phase[c] = "calling" /\ timers[c] = 0) \/ Has(signalsUp'[c], "end")
    BY <1>1, <1>3, <1>u DEF OfferOnce
  <2> QED BY <1>1, <1>3, <1>u, <2>2, <2>3 DEF OfferOnce, Spreading
<1>8. Refused(c, m)'
  BY <1>1, <1>3, OwnStepKeeps DEF Refused
<1>9. NotYet(c, m)'
  BY <1>1, <1>o, <1>u, OwnStepKeeps DEF NotYet
<1>10. Passed(c, m)'
  BY <1>1, <1>o, <1>u, OwnStepKeeps DEF Passed, Doomed
<1>11. Told(c, m)'
  BY <1>1, <1>o, <1>u, OwnStepKeeps DEF Told, InCall, Doomed
<1>12. Partner(c, m)'
  BY <1>1, <1>o, <1>u, OwnStepKeeps DEF Partner, InCall
<1> QED BY <1>4, <1>5, <1>7, <1>8, <1>9, <1>10, <1>11, <1>12

(* Or there is no offer.                                                     *)
LEMMA OfferFailsKeeps ==
  ASSUME NEW c, NEW m, Setting(c, m), NEW d \in Devices, OfferFails(d)
  PROVE OneCall(c, m)'
<1> USE DEF Setting, OneCall
<1>1. /\ offering[d] # 0 /\ offering' = [offering EXCEPT ![d] = 0]
      /\ phase' = [phase EXCEPT ![d] = "ended"] /\ timers' = [timers EXCEPT ![d] = @ + 1]
      /\ UNCHANGED <<isCaller, about, answering, fan, bus, active, cut, late, signalsUp,
                     signalsDown, placed>>
  BY DEF OfferFails, Phase, hubVars, callCounts
<1>2. /\ offering \in [Devices -> Nat] /\ phase \in [Devices -> Phases]
      /\ timers \in [Devices -> Nat] /\ about \in [Devices -> Nat]
  BY DEF CallTypeOK, DevicesOK
<1>o. c \notin Callees(c) /\ Callees(c) \subseteq Devices /\ d = c
  BY <1>1, Roles
<1>t. ConnectionsOK'
  BY OwnSteps DEF CallTypeOK
<1>3. /\ phase'[c] = "ended" /\ timers'[c] > 0 /\ offering'[c] = 0 /\ Preparing(c) /\ ~Preparing(c)'
      /\ \A x \in Devices \ {c} : /\ phase'[x] = phase[x] /\ timers'[x] = timers[x]
                                  /\ offering'[x] = offering[x]
      /\ \A x \in Devices : Doomed(x) => Doomed(x)'
  BY <1>1, <1>2, <1>o DEF Doomed, OfferOnce, Preparing
<1>6. \A x \in Callees(c) : /\ Inert(x) /\ Inert(x)' /\ timers'[x] = timers[x]
                            /\ ~Offered(c, m, x) /\ ~Has(signalsUp[x], "answer")
  BY <1>1, <1>3, <1>o, HasSignals DEF Inert, OfferOnce, Offered, Has, ToSet
<1>4. RolesOK(c)'
  BY <1>1, <1>2, <1>3, <1>o DEF RolesOK
<1>5. SignalsOK(c)'
  BY <1>1 DEF SignalsOK
<1>7. OfferOnce(c, m)'
  BY <1>1, <1>t, <1>3, <1>6, OfferDone
<1>8. Refused(c, m)'
  BY <1>1, <1>3, <1>6, OwnStepKeeps DEF Refused
<1>9. NotYet(c, m)'
  BY <1>1, <1>3, <1>6, <1>o, OwnStepKeeps DEF NotYet
<1>10. Passed(c, m)'
  BY <1>1, <1>3, <1>o, OwnStepKeeps DEF Passed
<1>11. Told(c, m)'
  BY <1>1, <1>3, <1>6, <1>o, OwnStepKeeps DEF Told, Inert
<1>12. Partner(c, m)'
  BY <1>1, <1>3, <1>o, OwnStepKeeps DEF Partner
<1> QED BY <1>4, <1>5, <1>7, <1>8, <1>9, <1>10, <1>11, <1>12

-----------------------------------------------------------------------------
(* A signal arrives at a device: what the step leaves alone, and how the     *)
(* phase and the timers move.                                                *)
Arrives(d, s) == ReceiveSignal(d) /\ s = Head(signalsDown[d])

LEMMA Arrival ==
  ASSUME NEW c, NEW m, Setting(c, m), NEW d \in Devices, NEW s, Arrives(d, s)
  PROVE /\ s \in Signals /\ s.call = 1 /\ InFlight(s) /\ s \in ToSet(signalsDown[d])
        /\ UNCHANGED <<offering, answering, fan, bus, active, cut, late, placed>>
        /\ signalsDown[d] # <<>> /\ signalsDown'[d] = Tail(signalsDown[d])
        /\ \A x \in Devices \ {d} : signalsDown'[x] = signalsDown[x]
        /\ \A x \in Devices : ToSet(signalsDown'[x]) \subseteq ToSet(signalsDown[x])
        /\ \A x \in Devices : \A t : Has(signalsDown'[x], t) => Has(signalsDown[x], t)
        /\ \A t : Has(signalsDown[d], t) <=> Has(signalsDown'[d], t) \/ s.type = t
        /\ \A t : InFlight(t)' => InFlight(t)
        /\ \A x \in Devices : \A T : /\ Coming(x, T)' => Coming(x, T)
                                     /\ Coming(x, T) => Coming(x, T)' \/ (x = d /\ s.type \in T)
        /\ Decided(m)' <=> Decided(m)
        /\ AnsweredAt(m)' <=> AnsweredAt(m)
        /\ \A x \in Devices : AnsweredBy(m, x)' <=> AnsweredBy(m, x)
        /\ Spreading(c, m)' <=> Spreading(c, m)
        /\ \A x \in Devices : Offered(c, m, x)' => Offered(c, m, x)
<1>1. /\ UNCHANGED <<offering, answering, fan, bus, active, cut, late, placed>>
      /\ signalsDown[d] # <<>> /\ signalsDown' = [signalsDown EXCEPT ![d] = Tail(@)]
      /\ s = Head(signalsDown[d])
  BY DEF Arrives, ReceiveSignal, hubVars, callCounts
<1>2. CallTypeOK /\ c \in Devices /\ SignalsOK(c) /\ signalsDown \in [Devices -> Seq(Signals)]
  BY DEF Setting, OneCall, CallTypeOK, ConnectionsOK
<1>3. /\ signalsDown'[d] = Tail(signalsDown[d])
      /\ \A x \in Devices \ {d} : signalsDown'[x] = signalsDown[x]
  BY <1>1, <1>2
<1>4. /\ s \in Signals /\ ToSet(signalsDown[d]) = ToSet(signalsDown'[d]) \union {s}
      /\ \A t : Has(signalsDown[d], t) <=> Has(signalsDown'[d], t) \/ s.type = t
  BY <1>1, <1>2, <1>3, HasSignals
<1>5. s.call = 1 /\ s \in ToSet(signalsDown[d])
  BY <1>2, <1>4 DEF SignalsOK, SentBy
<1>6. /\ \A x \in Devices : ToSet(signalsDown'[x]) \subseteq ToSet(signalsDown[x])
      /\ \A x \in Devices : \A t : Has(signalsDown'[x], t) => Has(signalsDown[x], t)
  BY <1>3, <1>4
<1>7. /\ InFlight(s) /\ \A t : InFlight(t)' => InFlight(t)
      /\ \A x \in Devices : \A T : /\ Coming(x, T)' => Coming(x, T)
                                   /\ Coming(x, T) => Coming(x, T)' \/ (x = d /\ s.type \in T)
  BY <1>1, <1>2, <1>3, NetworkDelivers
<1>8. /\ Decided(m)' <=> Decided(m)
      /\ AnsweredAt(m)' <=> AnsweredAt(m)
      /\ \A x \in Devices : AnsweredBy(m, x)' <=> AnsweredBy(m, x)
      /\ Spreading(c, m)' <=> Spreading(c, m)
  BY <1>1 DEF Decided, AnsweredAt, AnsweredBy, Spreading
<1>9. \A x \in Devices : Offered(c, m, x)' => Offered(c, m, x)
  BY <1>6, <1>8 DEF Offered
<1> QED BY <1>1, <1>3, <1>4, <1>5, <1>6, <1>7, <1>8, <1>9

(* What its arrival says: of the verdict, and of the offer.                  *)
LEMMA ArrivalSays ==
  ASSUME NEW c, NEW m, Setting(c, m), NEW d \in Devices, NEW s, Arrives(d, s)
  PROVE /\ s.type = "offer" => d \in Callees(c)
        /\ s.type = "busy" => d \in Callees(c) /\ Decided(m) /\ ~AnsweredBy(m, d)
        /\ s.type = "answer" => s.dev # d /\ Decided(m)
        /\ s.type = "end" => /\ s.dev # d /\ cut # {}
                             /\ (s.dev # c => ~AnsweredAt(m)) /\ (s.dev = c => Doomed(c))
        /\ s.type = "reject" => /\ ~AnsweredAt(m) /\ (cut # {} \/ ~Preparing(c))
                                /\ cut # {} \/ (d = c /\ s.dev = c)
        /\ s.type # "offer" /\ d \in Callees(c) =>
             /\ ~Offered(c, m, d) /\ ~Fresh(c, m) /\ (cut # {} \/ ~Preparing(c))
        /\ s.type # "offer" /\ d = c => cut # {} \/ ~Preparing(c)
<1>1. /\ \/ SentBy(c, s) /\ s.dev # d /\ (s.type = "offer" => d \in Callees(c))
         \/ s.dev = d /\ s.type = "busy" /\ d \in Callees(c)
         \/ s.dev = d /\ s.type = "reject" /\ d = c
      /\ s \in Signals /\ InFlight(s) /\ s \in ToSet(signalsDown[d])
  BY Arrival DEF Setting, OneCall, SignalsOK
<1>2. /\ s.type \in {"end", "reject"} /\ s.dev # c => cut # {} /\ ~AnsweredAt(m)
      /\ s.type = "end" /\ s.dev = c => cut # {} /\ Doomed(c)
      /\ s.type = "answer" => Decided(m)
  BY <1>1 DEF Setting, OneCall, Passed
<1>3. s.type = "busy" => d \in Callees(c) /\ Decided(m) /\ ~AnsweredBy(m, d)
  BY <1>1 DEF Setting, OneCall, Passed, SentBy, Stops, Has
<1>4. s.type = "reject" => \/ s.dev \in Callees(c)
                           \/ d = c /\ s.dev = c /\ ~Preparing(c) /\ ~AnsweredAt(m)
  BY <1>1 DEF Setting, OneCall, Refused, SentBy
<1>o. c \notin Callees(c)
  BY Roles
<1>5. s.type # "offer" /\ d \in Callees(c) =>
             /\ ~Offered(c, m, d) /\ ~Fresh(c, m) /\ (cut # {} \/ ~Preparing(c))
  <2> SUFFICES ASSUME s.type # "offer", d \in Callees(c)
               PROVE /\ ~Offered(c, m, d) /\ ~Fresh(c, m) /\ (cut # {} \/ ~Preparing(c))
    OBVIOUS
  <2>1. signalsDown[d] # <<>> /\ Head(signalsDown[d]).type # "offer"
    BY Arrival DEF Arrives
  <2> QED BY <2>1 DEF Setting, OneCall, OfferOnce, Offered, Spreading, Fresh
<1>6. s.type # "offer" /\ d = c => cut # {} \/ ~Preparing(c)
  BY <1>1, <1>2, <1>3, <1>4, <1>o DEF Setting, OneCall, OfferOnce, Decided, SentBy, Stops
<1> QED BY <1>1, <1>2, <1>3, <1>4, <1>5, <1>6, <1>o DEF SentBy, Stops

(* The offer's journey goes on as it was, whatever else arrives.             *)
LEMMA OfferOnceArrival ==
  ASSUME NEW c, NEW m, Setting(c, m), NEW d \in Devices, NEW s, Arrives(d, s), s.type # "offer",
         signalsUp' = signalsUp,
         \A x \in Callees(c) : Inert(x) => Inert(x)',
         \A x \in Devices \ {d} : phase'[x] = phase[x] /\ timers'[x] = timers[x]
  PROVE OfferOnce(c, m)' /\ Refused(c, m)'
<1> USE DEF Setting, OneCall
<1>1. /\ UNCHANGED <<offering, fan, bus, active, cut>>
      /\ \A x \in Devices \ {d} : signalsDown'[x] = signalsDown[x]
      /\ \A x \in Devices : \A t : Has(signalsDown'[x], t) => Has(signalsDown[x], t)
      /\ \A x \in Devices : AnsweredBy(m, x)' <=> AnsweredBy(m, x)
      /\ AnsweredAt(m)' <=> AnsweredAt(m)
      /\ Spreading(c, m)' <=> Spreading(c, m)
      /\ \A x \in Devices : ToSet(signalsDown'[x]) \subseteq ToSet(signalsDown[x])
  BY Arrival
<1>2. /\ d \in Callees(c) => ~Offered(c, m, d) /\ ~Fresh(c, m)
      /\ d \in Callees(c) \/ d = c => cut # {} \/ ~Preparing(c)
  BY ArrivalSays
<1>o. c \notin Callees(c) /\ Callees(c) \subseteq Devices
  BY Roles
<1>3. Preparing(c)' <=> Preparing(c)
  BY <1>1 DEF Preparing
<1>4. Fresh(c, m) => Fresh(c, m)'
  BY <1>1, <1>2, <1>o DEF Fresh
<1>5. ASSUME NEW x \in Callees(c), Has(signalsDown'[x], "offer")
      PROVE /\ x # d /\ ~Preparing(c) /\ ~Spreading(c, m) /\ Inert(x)' /\ timers'[x] = 0
            /\ ~AnsweredBy(m, x) /\ Head(signalsDown'[x]).type = "offer"
            /\ ~Has(Tail(signalsDown'[x]), "offer")
  <2>1. Has(signalsDown[x], "offer") /\ x \in Devices
    BY <1>1, <1>5, <1>o
  <2>2. x # d
    BY <1>2, <2>1 DEF Offered
  <2> QED BY <1>1, <2>1, <2>2 DEF OfferOnce
<1>6. Preparing(c) =>
       /\ ~Spreading(c, m)' /\ ~AnsweredAt(m)'
       /\ \A x \in Callees(c) : Inert(x)' /\ ~Has(signalsDown'[x], "offer")
       /\ cut' = {} => /\ \A x \in Callees(c) : timers'[x] = 0 /\ signalsDown'[x] = <<>>
                       /\ bus'[m] = <<>> /\ fan'[c] = NoSignal
                       /\ (phase'[c] = "calling" /\ timers'[c] = 0) \/ Has(signalsUp'[c], "end")
  BY <1>1, <1>2, <1>o DEF OfferOnce
<1>7. OfferOnce(c, m)'
  <2>1. Once(signalsUp'[c], "offer") /\ (offering'[c] # 0 => ~Has(signalsUp'[c], "offer"))
    BY <1>1 DEF OfferOnce
  <2>2. fan'[c].type = "offer" => ~Preparing(c)' /\ bus'[m] = <<>> /\ Fresh(c, m)'
    BY <1>1, <1>3, <1>4 DEF OfferOnce
  <2>3. Has(bus'[m], "offer") =>
          /\ ~Preparing(c)' /\ fan'[c].type # "offer" /\ Fresh(c, m)'
          /\ Head(bus'[m]).type = "offer" /\ ~Has(Tail(bus'[m]), "offer")
    BY <1>1, <1>3, <1>4 DEF OfferOnce
  <2>4. ASSUME NEW x \in Callees(c), Has(signalsDown'[x], "offer")
        PROVE /\ ~Preparing(c)' /\ ~Spreading(c, m)' /\ Inert(x)' /\ timers'[x] = 0
              /\ ~AnsweredBy(m, x)' /\ Head(signalsDown'[x]).type = "offer"
              /\ ~Has(Tail(signalsDown'[x]), "offer")
    BY <1>1, <1>3, <1>5, <1>o, <2>4
  <2> HIDE DEF Setting, OneCall
  <2> QED BY <1>3, <1>6, <2>1, <2>2, <2>3, <2>4 DEF OfferOnce
<1>8. Refused(c, m)'
  BY <1>1, <1>3, <1>o DEF Refused
<1> QED BY <1>7, <1>8

(* The offer arrives and the device rings; the caller still waits, or a      *)
(* signal that stops the ringing is behind it.                               *)
LEMMA OfferArrives ==
  ASSUME NEW c, NEW m, Setting(c, m), NEW d \in Devices, NEW s, Arrives(d, s), s.type = "offer"
  PROVE OneCall(c, m)'
<1> USE DEF Setting, OneCall
<1>o. c \notin Callees(c) /\ Callees(c) \subseteq Devices /\ d \in Callees(c) /\ d # c
  BY Roles, ArrivalSays
<1>a. /\ UNCHANGED <<offering, answering, fan, bus, active, cut, late, placed>>
      /\ signalsDown'[d] = Tail(signalsDown[d]) /\ s = Head(signalsDown[d]) /\ s.call = 1
      /\ \A x \in Devices \ {d} : signalsDown'[x] = signalsDown[x]
      /\ \A x \in Devices : ToSet(signalsDown'[x]) \subseteq ToSet(signalsDown[x])
      /\ \A x \in Devices : \A t : Has(signalsDown'[x], t) => Has(signalsDown[x], t)
      /\ Has(signalsDown[d], "offer")
      /\ \A t : InFlight(t)' => InFlight(t)
      /\ \A x \in Devices : \A T : "offer" \notin T => (Coming(x, T)' <=> Coming(x, T))
      /\ Decided(m)' <=> Decided(m)
      /\ AnsweredAt(m)' <=> AnsweredAt(m)
      /\ \A x \in Devices : AnsweredBy(m, x)' <=> AnsweredBy(m, x)
      /\ Spreading(c, m)' <=> Spreading(c, m)
      /\ \A x \in Devices : Offered(c, m, x)' => Offered(c, m, x)
  <2>1. s = Head(signalsDown[d])
    BY DEF Arrives
  <2> HIDE DEF Setting, OneCall
  <2>2. Has(signalsDown[d], "offer")
    BY Arrival
  <2>3. \A x \in Devices : \A T : "offer" \notin T => (Coming(x, T)' <=> Coming(x, T))
    BY Arrival
  <2> QED BY <2>1, <2>2, <2>3, Arrival
<1>b. /\ ~Preparing(c) /\ ~Spreading(c, m) /\ Inert(d) /\ timers[d] = 0 /\ ~AnsweredBy(m, d)
      /\ ~Has(signalsDown'[d], "offer") /\ Offered(c, m, d) /\ ~Has(signalsUp[d], "end")
  <2>1. /\ ~Preparing(c) /\ ~Spreading(c, m) /\ Inert(d) /\ timers[d] = 0 /\ ~AnsweredBy(m, d)
        /\ ~Has(Tail(signalsDown[d]), "offer")
    BY <1>a, <1>o DEF OfferOnce
  <2> HIDE DEF Setting, OneCall
  <2>2. ~Has(signalsDown'[d], "offer") /\ Offered(c, m, d)
    BY <1>a, <2>1 DEF Offered
  <2>3. signalsUp[d] = <<>>
    BY <2>1 DEF Inert
  <2>4. ~Has(signalsUp[d], "end")
    BY <2>3 DEF Has, ToSet
  <2> QED BY <2>1, <2>2, <2>4
<1>2. phase \in [Devices -> Phases] /\ isCaller \in [Devices -> BOOLEAN] /\ about \in [Devices -> Nat]
  BY DEF CallTypeOK, DevicesOK
<1>1. /\ phase' = [phase EXCEPT ![d] = "ringing"]
      /\ isCaller' = [isCaller EXCEPT ![d] = FALSE] /\ about' = [about EXCEPT ![d] = 1]
      /\ UNCHANGED <<timers, signalsUp>>
  <2>1. OnOffer(d, s)
    BY DEF Arrives, ReceiveSignal
  <2> QED BY <1>a, <1>b, <2>1 DEF OnOffer, Inert, Phase
<1>3. /\ phase'[d] = "ringing" /\ ~isCaller'[d] /\ about'[d] = 1
      /\ \A x \in Devices \ {d} : /\ phase'[x] = phase[x] /\ isCaller'[x] = isCaller[x]
                                  /\ about'[x] = about[x]
  BY <1>1, <1>2
<1>4. RolesOK(c)'
  BY <1>1, <1>3, <1>a, <1>o DEF RolesOK
<1>5. SignalsOK(c)'
  BY <1>1, <1>a DEF SignalsOK
<1>6. ~Preparing(c)' /\ \A x \in Callees(c) \ {d} : Inert(x) => Inert(x)'
  BY <1>1, <1>3, <1>a, <1>b, <1>o DEF Preparing, Inert
<1>7. OfferOnce(c, m)'
  <2>1. ASSUME NEW x \in Callees(c), Has(signalsDown'[x], "offer")
        PROVE /\ ~Preparing(c)' /\ ~Spreading(c, m)' /\ Inert(x)' /\ timers'[x] = 0
              /\ ~AnsweredBy(m, x)' /\ Head(signalsDown'[x]).type = "offer"
              /\ ~Has(Tail(signalsDown'[x]), "offer")
    BY <1>1, <1>a, <1>b, <1>o, <1>6, <2>1 DEF OfferOnce
  <2>2. Once(signalsUp'[c], "offer") /\ offering'[c] = 0 /\ ~Has(signalsUp'[c], "offer")
    BY <1>1, <1>a, <1>b DEF OfferOnce, Preparing
  <2>3. fan'[c].type # "offer" /\ ~Has(bus'[m], "offer")
    BY <1>a, <1>b DEF Spreading
  <2> QED BY <1>6, <2>1, <2>2, <2>3 DEF OfferOnce
<1>8. Refused(c, m)'
  BY <1>a, <1>o DEF Refused
<1>9. NotYet(c, m)'
  <2>1. ASSUME NEW x \in Callees(c) \ {d}
        PROVE /\ phase'[x] = phase[x] /\ timers'[x] = timers[x] /\ answering'[x] = answering[x]
              /\ signalsUp'[x] = signalsUp[x] /\ fan'[x] = fan[x]
              /\ AnsweredBy(m, x)' <=> AnsweredBy(m, x)
    BY <1>1, <1>3, <1>a, <1>o
  <2>2. /\ timers'[d] = 0 /\ answering'[d] = 0 /\ signalsUp'[d] = <<>> /\ fan'[d] = NoSignal
        /\ ~AnsweredBy(m, d)' /\ Once(signalsUp'[d], "answer")
    BY <1>1, <1>a, <1>b, <1>o DEF NotYet, Inert
  <2> QED BY <1>o, <2>1, <2>2 DEF NotYet
<1>10. Passed(c, m)'
  BY <1>1, <1>3, <1>a, <1>b, <1>o DEF Passed, Doomed
<1>11. Told(c, m)'
  BY <1>1, <1>3, <1>a, <1>b, <1>o DEF Told, InCall, Doomed, Stops, Inert
<1>12. Partner(c, m)'
  BY <1>1, <1>3, <1>a, <1>b, <1>o DEF Partner, InCall, Inert
<1> QED BY <1>4, <1>5, <1>7, <1>8, <1>9, <1>10, <1>11, <1>12

(* An answer arrives: the caller is connected, and the callee's other        *)
(* devices stop ringing.                                                     *)
LEMMA AnswerArrives ==
  ASSUME NEW c, NEW m, Setting(c, m), NEW d \in Devices, NEW s, Arrives(d, s), s.type = "answer"
  PROVE OneCall(c, m)'
<1> USE DEF Setting, OneCall
<1>o. c \notin Callees(c) /\ Callees(c) \subseteq Devices
  BY Roles
<1>a. /\ UNCHANGED <<offering, answering, fan, bus, active, cut, late, placed>>
      /\ s \in ToSet(signalsDown[d])
      /\ \A x \in Devices : ToSet(signalsDown'[x]) \subseteq ToSet(signalsDown[x])
      /\ \A x \in Devices : \A t : Has(signalsDown'[x], t) => Has(signalsDown[x], t)
      /\ \A x \in Devices : \/ Has(signalsDown'[x], "busy") <=> Has(signalsDown[x], "busy")
                            \/ x = d /\ s.type = "busy"
      /\ \A t : InFlight(t)' => InFlight(t)
      /\ \A x \in Devices : \A T : "answer" \notin T => (Coming(x, T)' <=> Coming(x, T))
      /\ \A x \in Devices \ {d} : \A T : Coming(x, T)' <=> Coming(x, T)
      /\ \A T : Coming(d, T)' => Coming(d, T)
      /\ Decided(m)' <=> Decided(m)
      /\ AnsweredAt(m)' <=> AnsweredAt(m)
      /\ \A x \in Devices : AnsweredBy(m, x)' <=> AnsweredBy(m, x)
      /\ \A x \in Devices : Offered(c, m, x)' => Offered(c, m, x)
  <2>1. \A x \in Devices : \/ Has(signalsDown'[x], "busy") <=> Has(signalsDown[x], "busy")
                           \/ x = d /\ s.type = "busy"
    BY Arrival
  <2> QED BY <2>1, Arrival
<1>b. s.dev # d /\ Decided(m) /\ (d \in Callees(c) => ~Offered(c, m, d))
  BY ArrivalSays
<1>2. phase \in [Devices -> Phases] /\ "connected" \in Phases /\ "idle" \in Phases
  BY DEF CallTypeOK, DevicesOK, Phases
<1>1. /\ phase' = [phase EXCEPT ![d] = AfterAnswer(d)]
      /\ UNCHANGED <<isCaller, about, timers, signalsUp>>
  BY DEF Arrives, ReceiveSignal, OnAnswer, Phase
<1>3. /\ \A x \in Devices \ {d} : phase'[x] = phase[x]
      /\ d = c => phase'[c] = IF phase[c] = "idle" THEN "idle" ELSE "connected"
      /\ d # c => phase'[d] = IF phase[d] = "ringing" THEN "idle" ELSE phase[d]
      /\ \A x \in Devices : Doomed(x) => Doomed(x)'
  BY <1>1, <1>2 DEF AfterAnswer, RolesOK, Doomed
<1>4. RolesOK(c)'
  BY <1>1, <1>3, <1>a, <1>o DEF RolesOK
<1>5. SignalsOK(c)'
  BY <1>1, <1>a DEF SignalsOK
<1>6. \A x \in Callees(c) : Inert(x) => Inert(x)'
  BY <1>1, <1>3, <1>a, <1>o DEF Inert
<1>7. OfferOnce(c, m)' /\ Refused(c, m)'
  BY <1>1, <1>3, <1>6, OfferOnceArrival
<1>9. NotYet(c, m)'
  BY <1>1, <1>3, <1>a, <1>o DEF NotYet
<1>10. Passed(c, m)'
  BY <1>1, <1>3, <1>a, <1>o DEF Passed
<1>c. /\ InCall(c) => InCall(c)'
      /\ timers[c] = 0 /\ InCall(c)' => InCall(c)
  <2>1. CASE d = c
    <3>1. Coming(c, {"answer"})
      BY <1>a, <1>b, <2>1 DEF Coming
    <3>2. timers[c] = 0 => phase[c] # "ended"
      BY DEF RolesOK
    <3> QED BY <1>3, <2>1, <3>1, <3>2 DEF InCall, RolesOK
  <2>2. CASE d # c
    BY <1>3, <1>a, <2>2 DEF InCall
  <2> QED BY <2>1, <2>2
<1>11. Told(c, m)'
  <2>1. ASSUME NEW x \in Callees(c)
        PROVE /\ phase'[x] = "ringing" => phase[x] = "ringing" /\ x # d
              /\ Offered(c, m, x)' => Offered(c, m, x) /\ x # d
              /\ phase'[x] = "connected" => phase[x] = "connected"
              /\ Coming(x, {"end"})' <=> Coming(x, {"end"})
              /\ x # d => (Coming(x, Stops)' <=> Coming(x, Stops))
              /\ Doomed(x) => Doomed(x)'
    BY <1>3, <1>a, <1>b, <1>o
  <2>2. /\ UNCHANGED <<timers, signalsUp, answering>>
        /\ \A x \in Devices : Has(signalsDown'[x], "busy") <=> Has(signalsDown[x], "busy")
        /\ Decided(m) /\ Decided(m)'
        /\ \A x \in Devices : AnsweredBy(m, x)' <=> AnsweredBy(m, x)
    BY <1>1, <1>a, <1>b
  <2> QED BY <1>c, <1>o, <2>1, <2>2 DEF Told
<1>12. Partner(c, m)'
  BY <1>1, <1>3, <1>a, <1>c, <1>o DEF Partner
<1> QED BY <1>4, <1>5, <1>7, <1>9, <1>10, <1>11, <1>12

(* What ends the session on the screen, where it does.                       *)
LEMMA StopArrives ==
  ASSUME NEW c, NEW m, Setting(c, m), NEW d \in Devices, NEW s, Arrives(d, s),
         s.type \in {"end", "reject", "busy"}
  PROVE OneCall(c, m)'
<1> USE DEF Setting, OneCall
<1>o. c \notin Callees(c) /\ Callees(c) \subseteq Devices
  BY Roles
<1>a. /\ UNCHANGED <<offering, answering, fan, bus, active, cut, late, placed>>
      /\ \A x \in Devices : ToSet(signalsDown'[x]) \subseteq ToSet(signalsDown[x])
      /\ \A x \in Devices : \A t : Has(signalsDown'[x], t) => Has(signalsDown[x], t)
      /\ \A x \in Devices : \/ Has(signalsDown'[x], "busy") <=> Has(signalsDown[x], "busy")
                            \/ x = d /\ s.type = "busy"
      /\ \A t : InFlight(t)' => InFlight(t)
      /\ \A x \in Devices : Coming(x, {"answer"})' <=> Coming(x, {"answer"})
      /\ s.type # "end" => \A x \in Devices : Coming(x, {"end"})' <=> Coming(x, {"end"})
      /\ \A x \in Devices \ {d} : \A T : Coming(x, T)' <=> Coming(x, T)
      /\ Decided(m)' <=> Decided(m)
      /\ AnsweredAt(m)' <=> AnsweredAt(m)
      /\ \A x \in Devices : AnsweredBy(m, x)' <=> AnsweredBy(m, x)
      /\ \A x \in Devices : Offered(c, m, x)' => Offered(c, m, x)
  <2>1. \A x \in Devices : \/ Has(signalsDown'[x], "busy") <=> Has(signalsDown[x], "busy")
                           \/ x = d /\ s.type = "busy"
    BY Arrival
  <2> QED BY <2>1, Arrival
<1>b. /\ s.type = "busy" => d \in Callees(c) /\ Decided(m) /\ ~AnsweredBy(m, d)
      /\ s.type = "end" => /\ s.dev # d /\ cut # {}
                           /\ (s.dev # c => ~AnsweredAt(m)) /\ (s.dev = c => Doomed(c))
      /\ s.type = "reject" => /\ ~AnsweredAt(m) /\ (cut # {} \/ ~Preparing(c))
                              /\ cut # {} \/ (d = c /\ s.dev = c)
      /\ d \in Callees(c) => ~Offered(c, m, d)
  BY ArrivalSays
<1>2. phase \in [Devices -> Phases] /\ timers \in [Devices -> Nat]
  BY DEF CallTypeOK, DevicesOK
<1>1. /\ \/ UNCHANGED <<phase, timers>> /\ s.type = "reject" /\ phase[d] = "connected"
         \/ /\ phase' = [phase EXCEPT ![d] = IF phase[d] = "idle" THEN "idle" ELSE "ended"]
            /\ timers' = [timers EXCEPT ![d] = @ + 1]
      /\ UNCHANGED <<isCaller, about, signalsUp>>
  BY DEF Arrives, ReceiveSignal, OnReject, OnEnd, EndSession, Phase
<1>3. /\ \A x \in Devices \ {d} : phase'[x] = phase[x] /\ timers'[x] = timers[x]
      /\ \/ phase'[d] = "connected" /\ phase[d] = "connected" /\ timers'[d] = timers[d]
            /\ s.type = "reject"
         \/ /\ timers'[d] > 0
            /\ \/ phase'[d] = "ended" /\ phase[d] # "idle"
               \/ phase'[d] = "idle" /\ phase[d] = "idle"
      /\ \A x \in Devices : Doomed(x) => Doomed(x)'
  BY <1>1, <1>2 DEF Doomed
<1>4. RolesOK(c)'
  BY <1>1, <1>3, <1>a, <1>o DEF RolesOK
<1>5. SignalsOK(c)'
  BY <1>1, <1>a DEF SignalsOK
<1>6. \A x \in Callees(c) : Inert(x) => Inert(x)'
  BY <1>1, <1>3, <1>a, <1>o DEF Inert
<1>7. OfferOnce(c, m)' /\ Refused(c, m)'
  BY <1>1, <1>3, <1>6, OfferOnceArrival
<1>9. NotYet(c, m)'
  BY <1>1, <1>3, <1>a, <1>o DEF NotYet
<1>10. Passed(c, m)'
  BY <1>1, <1>3, <1>a, <1>o DEF Passed
<1>11. Told(c, m)'
  <2>1. CASE d \in Callees(c)
    <3>1. Decided(m) /\ ~Offered(c, m, d) /\ (s.type # "end" \/ ~AnsweredAt(m) \/ Doomed(c))
      BY <1>b, <1>o, <2>1 DEF Decided
    <3>2. timers'[c] = timers[c] /\ (InCall(c)' <=> InCall(c))
      BY <1>3, <1>a, <1>o, <2>1 DEF InCall
    <3>3. ASSUME NEW x \in Callees(c), x # d
          PROVE /\ phase'[x] = phase[x] /\ timers'[x] = timers[x] /\ (Doomed(x)' <=> Doomed(x))
                /\ \A T : Coming(x, T)' <=> Coming(x, T)
                /\ Has(signalsDown'[x], "busy") <=> Has(signalsDown[x], "busy")
      BY <1>3, <1>a, <1>o, <3>3 DEF Doomed
    <3>4. /\ phase'[d] # "ringing"
          /\ phase'[d] = "connected" => /\ phase[d] = "connected" /\ timers'[d] = timers[d]
                                        /\ Coming(d, {"end"})' <=> Coming(d, {"end"})
                                        /\ Has(signalsDown'[d], "busy") <=> Has(signalsDown[d], "busy")
      BY <1>3, <1>a
    <3>5. Doomed(d) => Doomed(d)'
      BY <1>3
    <3> QED BY <1>1, <1>a, <1>o, <3>1, <3>2, <3>3, <3>4, <3>5 DEF Told
  <2>2. CASE d = c
    <3>1. \A x \in Callees(c) : /\ phase'[x] = phase[x] /\ timers'[x] = timers[x]
                                /\ (Doomed(x)' <=> Doomed(x))
                                /\ \A T : Coming(x, T)' <=> Coming(x, T)
                                /\ Has(signalsDown'[x], "busy") <=> Has(signalsDown[x], "busy")
      BY <1>3, <1>a, <1>o, <2>2 DEF Doomed
    <3>2. /\ ~AnsweredAt(m)
          /\ Decided(m) \/ \E t \in ToSet(signalsDown[c]) : t.dev = c
      <4>1. s \in ToSet(signalsDown[d])
        BY Arrival
      <4> QED BY <1>b, <1>o, <2>2, <4>1 DEF Decided
    <3>3. CASE Decided(m)
      BY <1>1, <1>a, <1>o, <3>1, <3>2, <3>3 DEF Told, AnsweredBy
    <3>4. CASE \E t \in ToSet(signalsDown[c]) : t.dev = c
      <4>1. \A x \in Callees(c) : /\ Inert(x) /\ Inert(x)' /\ ~Offered(c, m, x)
                                  /\ ~Has(signalsUp[x], "answer")
        BY <1>6, <3>4, HasSignals DEF Refused, Offered, Inert, Has, ToSet
      <4> QED BY <1>1, <1>a, <1>o, <3>1, <4>1 DEF Told, Inert
    <3> QED BY <3>2, <3>3, <3>4
  <2>3. CASE d # c /\ d \notin Callees(c)
    <3>1. \A x \in Callees(c) \union {c} : /\ phase'[x] = phase[x] /\ timers'[x] = timers[x]
                                           /\ (Doomed(x)' <=> Doomed(x))
                                           /\ \A T : Coming(x, T)' <=> Coming(x, T)
                                           /\ Has(signalsDown'[x], "busy") <=> Has(signalsDown[x], "busy")
      BY <1>3, <1>a, <1>o, <2>3 DEF Doomed
    <3>2. InCall(c)' <=> InCall(c)
      BY <3>1 DEF InCall
    <3> QED BY <1>1, <1>a, <1>o, <3>1, <3>2 DEF Told
  <2> QED BY <2>1, <2>2, <2>3
<1>12. Partner(c, m)'
  <2>1. CASE d = c
    <3>1. timers'[c] = 0 => /\ phase[c] = "connected" /\ timers[c] = 0 /\ s.type = "reject"
      BY <1>3, <2>1
    <3>2. timers'[c] = 0 => Coming(c, {"end"})'
      BY <1>a, <1>b, <3>1 DEF Partner, InCall, AnsweredBy
    <3> QED BY <3>2 DEF Partner
  <2>2. CASE d # c
    <3>1. timers'[c] = timers[c] /\ (InCall(c)' <=> InCall(c)) /\ (Coming(c, {"end"})' <=> Coming(c, {"end"}))
      BY <1>3, <1>a, <2>2 DEF InCall
    <3>2. ASSUME timers[c] = 0, InCall(c), NEW w \in Callees(c), AnsweredBy(m, w)
          PROVE w # d \/ (phase'[w] = phase[w] /\ timers'[w] = timers[w])
      BY <1>3, <1>b, <3>2, <2>2 DEF AnsweredBy, Doomed, InCall
    <3> QED BY <1>1, <1>3, <1>a, <1>o, <3>1, <3>2 DEF Partner
  <2> QED BY <2>1, <2>2
<1> QED BY <1>4, <1>5, <1>7, <1>9, <1>10, <1>11, <1>12

(* Whatever arrives, the call stays as it should be.                         *)
LEMMA ReceiveSignalKeeps ==
  ASSUME NEW c, NEW m, Setting(c, m), NEW d \in Devices, ReceiveSignal(d)
  PROVE OneCall(c, m)'
<1>1. PICK s : s = Head(signalsDown[d])
  OBVIOUS
<1>2. Arrives(d, s) /\ s.type \in {"offer", "answer", "reject", "end", "busy"}
  BY <1>1 DEF Arrives, ReceiveSignal
<1> QED BY <1>2, OfferArrives, AnswerArrives, StopArrives

-----------------------------------------------------------------------------
(* The arbiter looks at a signal: what goes on, what is dropped, who is      *)
(* told, and what the step leaves alone.                                     *)
Judges(x, s) == Judge(x) /\ s = Head(signalsUp[x])

LEMMA Judgement ==
  ASSUME NEW c, NEW m, Setting(c, m), NEW x \in Devices, NEW s, Judges(x, s)
  PROVE /\ s \in Signals /\ s.call = 1 /\ s.dev = x /\ SentBy(c, s) /\ (x = c \/ x \in Callees(c))
        /\ s.type \in {"offer", "answer", "reject", "end"} /\ (s.type = "offer" => x = c)
        /\ s.type \in {"answer", "reject"} => x \in Callees(c)
        /\ x \in Callees(c) => NodeOf[x] = m
        /\ fan[x] = NoSignal /\ signalsUp[x] # <<>> /\ signalsUp'[x] = Tail(signalsUp[x])
        /\ UNCHANGED <<devVars, bus, placed>>
        /\ \A y \in Devices \ {x} : signalsUp'[y] = signalsUp[y]
        /\ \A y \in Devices : ToSet(signalsUp'[y]) \subseteq ToSet(signalsUp[y])
        /\ \A y \in Devices : \A t : Has(signalsUp'[y], t) => Has(signalsUp[y], t)
        /\ \A t : Has(signalsUp[x], t) <=> Has(signalsUp'[x], t) \/ s.type = t
        /\ \A y \in Devices : \A t : t # s.type => (Has(signalsUp'[y], t) <=> Has(signalsUp[y], t))
        /\ \A y \in Devices : \A t : Once(signalsUp[y], t) => Once(signalsUp'[y], t)
        /\ \A t : Once(signalsUp[x], t) /\ s.type = t => ~Has(signalsUp'[x], t)
<1>1. /\ fan[x] = NoSignal /\ signalsUp[x] # <<>> /\ signalsUp' = [signalsUp EXCEPT ![x] = Tail(@)]
      /\ s = Head(signalsUp[x]) /\ UNCHANGED <<devVars, bus, placed>>
  BY DEF Judges, Judge, callCounts
<1>2. CallTypeOK /\ c \in Devices /\ SignalsOK(c) /\ signalsUp \in [Devices -> Seq(Signals)]
  BY DEF Setting, OneCall, CallTypeOK, ConnectionsOK
<1>3. /\ signalsUp'[x] = Tail(signalsUp[x]) /\ signalsUp[x] \in Seq(Signals)
      /\ \A y \in Devices \ {x} : signalsUp'[y] = signalsUp[y]
  BY <1>1, <1>2
<1>4. /\ s \in Signals /\ ToSet(signalsUp[x]) = ToSet(signalsUp'[x]) \union {s}
      /\ \A t : Has(signalsUp[x], t) <=> Has(signalsUp'[x], t) \/ s.type = t
  BY <1>1, <1>2, <1>3, HasSignals
<1>5. \A t : Once(signalsUp[x], t)
         => Once(signalsUp'[x], t) /\ (s.type = t => ~Has(signalsUp'[x], t))
  BY <1>1, <1>3, OnceInQueue
<1>6. s.dev = x /\ SentBy(c, s)
  BY <1>2, <1>4 DEF SignalsOK
<1>7. /\ s.call = 1 /\ (x = c \/ x \in Callees(c))
      /\ s.type \in {"offer", "answer", "reject", "end"} /\ (s.type = "offer" => x = c)
      /\ s.type \in {"answer", "reject"} => x \in Callees(c)
  BY <1>6 DEF SentBy, Stops
<1>8. x \in Callees(c) => NodeOf[x] = m
  BY DEF Setting
<1>9. /\ \A y \in Devices : ToSet(signalsUp'[y]) \subseteq ToSet(signalsUp[y])
      /\ \A y \in Devices : \A t : Has(signalsUp'[y], t) => Has(signalsUp[y], t)
      /\ \A y \in Devices : \A t : Once(signalsUp[y], t) => Once(signalsUp'[y], t)
      /\ \A y \in Devices : \A t : t # s.type => (Has(signalsUp'[y], t) <=> Has(signalsUp[y], t))
  BY <1>3, <1>4, <1>5
<1> QED BY <1>1, <1>3, <1>4, <1>5, <1>6, <1>7, <1>8, <1>9

(* A callee that sends anything has the offer behind it.                     *)
LEMMA CalleeJudged ==
  ASSUME NEW c, NEW m, Setting(c, m), NEW x \in Callees(c), NEW s, Judges(x, s)
  PROVE /\ ~Inert(x) /\ ~Preparing(c) /\ ~Preparing(c)' /\ ~Spreading(c, m) /\ ~Offered(c, m, x)
        /\ phase[x] # "ringing" /\ \A t \in ToSet(signalsDown[c]) : t.dev # c
<1> USE DEF Setting, OneCall
<1>o. c \notin Callees(c) /\ Callees(c) \subseteq Devices
  BY Roles
<1>1. signalsUp[x] # <<>> /\ signalsUp'[c] = signalsUp[c] /\ offering' = offering
  BY <1>o, Judgement DEF devVars
<1> QED BY <1>1 DEF Inert, Preparing, OfferOnce, Spreading, Offered, Fresh, Refused, NotYet

(* Its verdict leaves the offer's journey behind it as it was.               *)
LEMMA CalleeJudgedOffer ==
  ASSUME NEW c, NEW m, Setting(c, m), NEW x \in Callees(c), NEW s, Judges(x, s),
         \A y \in Devices \ {x} : fan'[y] = fan[y] /\ signalsDown'[y] = signalsDown[y],
         \A y \in Callees(c) \ {x} : AnsweredBy(m, y)' => AnsweredBy(m, y),
         Has(signalsDown'[x], "offer") => Has(signalsDown[x], "offer")
  PROVE OfferOnce(c, m)' /\ Refused(c, m)'
<1> USE DEF Setting, OneCall
<1>o. c \notin Callees(c) /\ Callees(c) \subseteq Devices
  BY Roles
<1>1. /\ ~Preparing(c) /\ ~Preparing(c)' /\ ~Spreading(c, m) /\ ~Offered(c, m, x)
      /\ \A t \in ToSet(signalsDown[c]) : t.dev # c
  BY CalleeJudged
<1>2. /\ UNCHANGED <<phase, timers, answering, offering, bus>>
      /\ \A y \in Devices \ {x} : signalsUp'[y] = signalsUp[y]
  BY <1>o, Judgement DEF devVars
<1>3. ~Spreading(c, m)' /\ signalsDown'[c] = signalsDown[c]
  BY <1>1, <1>2, <1>o DEF Spreading
<1>4. ASSUME NEW y \in Callees(c), Has(signalsDown'[y], "offer")
      PROVE /\ Inert(y)' /\ timers'[y] = 0 /\ ~AnsweredBy(m, y)'
            /\ Head(signalsDown'[y]).type = "offer" /\ ~Has(Tail(signalsDown'[y]), "offer")
  <2>1. y # x
    BY <1>1, <1>4 DEF Offered
  <2>2. y \in Devices /\ signalsDown'[y] = signalsDown[y] /\ Has(signalsDown[y], "offer")
    BY <1>4, <1>o, <2>1
  <2> QED BY <1>2, <1>o, <2>1, <2>2 DEF OfferOnce, Inert
<1>5. Once(signalsUp'[c], "offer") /\ offering'[c] = 0
  BY <1>1, <1>2, <1>o DEF OfferOnce, Preparing
<1>6. fan'[c].type # "offer" /\ ~Has(bus'[m], "offer")
  BY <1>3 DEF Spreading
<1>7. OfferOnce(c, m)'
  BY <1>1, <1>3, <1>4, <1>5, <1>6 DEF OfferOnce
<1>8. Refused(c, m)'
  BY <1>1, <1>3 DEF Refused
<1> QED BY <1>7, <1>8

(* What is on its way after the verdict was sent by whom it says.            *)
LEMMA JudgedSignals ==
  ASSUME NEW c, NEW m, Setting(c, m), NEW x \in Devices, NEW s, Judges(x, s),
         fan'[x] \in {NoSignal, s}, \A y \in Devices \ {x} : fan'[y] = fan[y],
         \A y \in Devices : \A t \in ToSet(signalsDown'[y]) :
            \/ t \in ToSet(signalsDown[y])
            \/ y = x /\ t.dev = y /\ t.call = 1 /\ t.type = "busy" /\ y \in Callees(c)
            \/ y = x /\ t.dev = y /\ t.call = 1 /\ t.type = "reject" /\ y = c
  PROVE SignalsOK(c)'
<1>1. /\ bus' = bus /\ s.dev = x /\ SentBy(c, s)
      /\ \A y \in Devices : ToSet(signalsUp'[y]) \subseteq ToSet(signalsUp[y])
  BY Judgement
<1>2. SignalsOK(c)
  BY DEF Setting, OneCall
<1> QED BY <1>1, <1>2 DEF SignalsOK

(* The offer is let through, or refused.                                     *)
LEMMA OfferJudged ==
  ASSUME NEW c, NEW m, Setting(c, m), NEW x \in Devices, NEW s, Judges(x, s), s.type = "offer",
         late' = {}
  PROVE OneCall(c, m)'
<1> USE DEF Setting, OneCall
<1>o. c \notin Callees(c) /\ Callees(c) \subseteq Devices /\ x = c
  BY Roles, Judgement
<1>a. /\ s \in Signals /\ s.call = 1 /\ s.dev = c /\ fan[c] = NoSignal
      /\ UNCHANGED <<phase, isCaller, about, offering, answering, timers, bus, placed>>
      /\ \A y \in Devices \ {c} : signalsUp'[y] = signalsUp[y]
      /\ \A y \in Devices : \A t : Has(signalsUp'[y], t) => Has(signalsUp[y], t)
      /\ \A t : Has(signalsUp[c], t) <=> Has(signalsUp'[c], t) \/ s.type = t
      /\ \A y \in Devices : \A t : Once(signalsUp[y], t) => Once(signalsUp'[y], t)
      /\ \A t : Once(signalsUp[c], t) /\ s.type = t => ~Has(signalsUp'[c], t)
  <2> HIDE DEF Setting, OneCall
  <2> QED BY <1>o, Judgement DEF devVars
<1>b. /\ Has(signalsUp[c], "offer") /\ Preparing(c)
      /\ Has(signalsUp'[c], "end") <=> Has(signalsUp[c], "end")
  BY <1>a DEF Preparing
<1>c. /\ ~Preparing(c)' /\ Once(signalsUp'[c], "offer") /\ offering'[c] = 0
      /\ ~Spreading(c, m) /\ ~AnsweredAt(m) /\ \A t \in ToSet(signalsDown[c]) : t.dev # c
  BY <1>a, <1>b DEF OfferOnce, Preparing, Refused
<1>d. \A d \in Callees(c) : /\ d \in Devices /\ d # c /\ Inert(d) /\ ~Has(signalsDown[d], "offer")
                            /\ phase'[d] = "idle" /\ answering'[d] = 0 /\ signalsUp'[d] = <<>>
                            /\ \A t : ~Has(signalsUp'[d], t)
                            /\ Once(signalsUp'[d], "answer")
  <2>1. \A d \in Callees(c) : /\ d \in Devices /\ d # c /\ Inert(d) /\ ~Has(signalsDown[d], "offer")
                              /\ phase'[d] = "idle" /\ answering'[d] = 0 /\ signalsUp'[d] = <<>>
    BY <1>a, <1>b, <1>o DEF OfferOnce, Inert
  <2>2. \A d \in Callees(c) : Once(signalsUp'[d], "answer")
    BY <1>a, <1>o DEF NotYet
  <2>3. \A t : ~Has(<<>>, t)
    BY DEF Has, ToSet
  <2> QED BY <2>1, <2>2, <2>3
<1>1. /\ cut' = cut
      /\ \/ /\ active' = [active EXCEPT ![NodeOf[c]] = Ringing(1)]
            /\ fan' = [fan EXCEPT ![c] = s] /\ UNCHANGED signalsDown
            /\ 1 \notin cut
         \/ /\ signalsDown' = [signalsDown EXCEPT ![c] = Append(@, [s EXCEPT !.type = "reject"])]
            /\ UNCHANGED <<active, fan>>
  <2>1. s # NoSignal /\ fan \in [Devices -> Signals \union {NoSignal}]
    BY <1>a DEF CallTypeOK, HubOK, Signals, NoSignal
  <2>2. s = Head(signalsUp[c]) /\ Judge(c)
    BY <1>o DEF Judges
  <2> QED BY <1>a, <2>1, <2>2 DEF Judge, ToldRejected
<1>2. /\ fan \in [Devices -> Signals \union {NoSignal}] /\ active \in [CallNodes -> Verdicts]
      /\ signalsDown \in [Devices -> Seq(Signals)]
  BY DEF CallTypeOK, HubOK, ConnectionsOK
<1>4. RolesOK(c)'
  BY <1>1, <1>a DEF RolesOK
<1>5. CASE /\ active' = [active EXCEPT ![NodeOf[c]] = Ringing(1)]
           /\ fan' = [fan EXCEPT ![c] = s] /\ UNCHANGED signalsDown /\ 1 \notin cut
  <2>1. /\ fan'[c] = s /\ \A y \in Devices \ {c} : fan'[y] = fan[y]
        /\ ~AnsweredAt(m)' /\ cut = {} /\ cut' = {}
    BY <1>1, <1>2, <1>5, <1>c DEF AnsweredAt, Ringing, RolesOK
  <2>2. /\ \A t : InFlight(t)' => InFlight(t) \/ t = s
        /\ \A d \in Devices : \A T : "none" \notin T /\ "offer" \notin T =>
             (Coming(d, T)' <=> Coming(d, T))
    BY <1>5, <1>a, <2>1, NetworkTakes
  <2>3. SignalsOK(c)'
    BY <1>5, <1>o, <2>1, JudgedSignals
  <2>4. /\ \A d \in Callees(c) : timers[d] = 0 /\ signalsDown[d] = <<>>
        /\ bus[m] = <<>>
        /\ (phase[c] = "calling" /\ timers[c] = 0) \/ Has(signalsUp[c], "end")
    BY <1>b, <2>1 DEF OfferOnce
  <2>5. Fresh(c, m)'
    BY <1>5, <1>a, <1>d, <2>1, <2>4 DEF Fresh, Inert
  <2>6. /\ ~Has(bus'[m], "offer") /\ bus'[m] = <<>>
        /\ \A d \in Callees(c) : ~Has(signalsDown'[d], "offer")
    <3>1. bus' = bus /\ signalsDown' = signalsDown
      BY <1>5, <1>a
    <3>2. ~Has(bus[m], "offer")
      BY <1>c DEF Spreading
    <3> QED BY <1>d, <2>4, <3>1, <3>2
  <2>7. OfferOnce(c, m)'
    BY <1>c, <2>5, <2>6 DEF OfferOnce
  <2>8. Refused(c, m)'
    BY <1>5, <1>c DEF Refused
  <2>9. NotYet(c, m)'
    BY <1>d DEF NotYet
  <2>10. Passed(c, m)'
    <3>1. \A d \in Callees(c) : ~Has(signalsDown'[d], "busy")
      BY <1>5, <1>c, <2>1 DEF Passed, Decided
    <3>2. Has(signalsUp'[c], "end") => Doomed(c)'
      BY <1>a, <1>b DEF Passed, Doomed
    <3>3. \A t \in Signals : InFlight(t)'
             => t.type \notin {"end", "answer"} /\ (t.dev = c \/ t.type # "reject")
      BY <1>a, <1>c, <2>1, <2>2 DEF Passed, Decided
    <3> QED BY <1>d, <3>1, <3>2, <3>3 DEF Passed
  <2>11. Told(c, m)'
    BY <1>a, <1>b, <1>d, <2>1, <2>4 DEF Told, Decided
  <2>12. Partner(c, m)'
    <3>1. /\ Coming(c, {"end"})' <=> Coming(c, {"end"})
          /\ Coming(c, {"answer"})' <=> Coming(c, {"answer"})
      BY <2>2
    <3> QED BY <1>a, <1>c, <3>1 DEF Partner, InCall, AnsweredBy
  <2> QED BY <1>4, <2>3, <2>7, <2>8, <2>9, <2>10, <2>11, <2>12
<1>6. CASE /\ signalsDown' = [signalsDown EXCEPT ![c] = Append(@, [s EXCEPT !.type = "reject"])]
           /\ UNCHANGED <<active, fan>>
  <2>0. PICK r : r = [s EXCEPT !.type = "reject"]
    OBVIOUS
  <2>r. r \in Signals /\ r.dev = c /\ r.call = 1 /\ r.type = "reject"
    BY <1>a, <2>0 DEF Signals, SignalTypes
  <2>1. /\ signalsDown'[c] = Append(signalsDown[c], r)
        /\ \A y \in Devices \ {c} : signalsDown'[y] = signalsDown[y]
    BY <1>2, <1>6, <2>0
  <2>2. /\ \A t : InFlight(t)' => InFlight(t) \/ t = r
        /\ \A d \in Devices : \A T : Coming(d, T)' <=> Coming(d, T)
        /\ ToSet(signalsDown'[c]) = ToSet(signalsDown[c]) \union {r}
    <3>1. CallTypeOK /\ bus' = bus /\ fan' = fan /\ c \in Devices
      BY <1>6, <1>a
    <3> HIDE DEF Setting, OneCall
    <3>2. ToSet(signalsDown'[c]) = ToSet(signalsDown[c]) \union {r}
      BY <1>2, <2>r, <2>1, <3>1, HasSignals
    <3> QED BY <2>r, <2>1, <3>1, <3>2, NetworkTells
  <2>3. SignalsOK(c)'
    <3>1. \A y \in Devices : \A t \in ToSet(signalsDown'[y]) :
            t \in ToSet(signalsDown[y]) \/ (y = c /\ t = r)
      BY <2>1, <2>2
    <3> HIDE DEF Setting, OneCall
    <3>2. Judges(c, s)
      BY <1>o
    <3>3. fan' = fan /\ fan'[c] = NoSignal
      BY <1>6, <1>a
    <3> QED BY <1>o, <2>r, <3>1, <3>2, <3>3, JudgedSignals
  <2>4. /\ ~Spreading(c, m)' /\ ~AnsweredAt(m)' /\ (Decided(m)' <=> Decided(m))
        /\ \A d \in Callees(c) : Inert(d)' /\ ~Has(signalsDown'[d], "offer")
    BY <1>1, <1>6, <1>a, <1>c, <1>d, <2>1 DEF Spreading, AnsweredAt, Decided, Inert
  <2>7. OfferOnce(c, m)'
    BY <1>c, <2>4 DEF OfferOnce, Spreading
  <2>8. Refused(c, m)'
    BY <1>c, <2>4 DEF Refused
  <2>9. NotYet(c, m)'
    BY <1>d DEF NotYet
  <2>10. Passed(c, m)'
    <3>1. \A d \in Callees(c) : Has(signalsDown'[d], "busy") => Decided(m) /\ ~AnsweredBy(m, d)'
      BY <1>d, <2>1, <2>4 DEF Passed, AnsweredBy
    <3>2. Has(signalsUp'[c], "end") => Doomed(c)'
      BY <1>a, <1>b DEF Passed, Doomed
    <3>3. Doomed(c)' <=> Doomed(c)
      BY <1>a DEF Doomed
    <3> QED BY <1>1, <1>d, <2>r, <2>2, <2>4, <3>1, <3>2, <3>3 DEF Passed
  <2>11. Told(c, m)'
    <3>1. \A d \in Callees(c) : ~Offered(c, m, d)'
      BY <2>4 DEF Offered
    <3> QED BY <1>d, <3>1 DEF Told
  <2>12. Partner(c, m)'
    BY <1>6, <1>a, <1>b, <1>c, <1>d, <2>2, <2>4 DEF Partner, InCall, AnsweredBy
  <2> QED BY <1>4, <2>3, <2>7, <2>8, <2>9, <2>10, <2>11, <2>12
<1> QED BY <1>1, <1>5, <1>6

(* The answer that comes too late gets a busy.                               *)
LEMMA LateAnswerJudged ==
  ASSUME NEW c, NEW m, Setting(c, m), NEW x \in Devices, NEW s, Judges(x, s), s.type = "answer",
         Taken(m, x), signalsDown' = ToldBusy(x, s), UNCHANGED <<active, fan, cut>>
  PROVE OneCall(c, m)'
<1> USE DEF Setting, OneCall
<1>o. c \notin Callees(c) /\ Callees(c) \subseteq Devices /\ x \in Callees(c) /\ x # c
  BY Roles, Judgement
<1>a. /\ s \in Signals /\ s.call = 1 /\ s.dev = x
      /\ UNCHANGED <<phase, isCaller, about, offering, answering, timers, bus, placed>>
      /\ \A y \in Devices \ {x} : signalsUp'[y] = signalsUp[y]
      /\ \A y \in Devices : \A t : Has(signalsUp'[y], t) => Has(signalsUp[y], t)
      /\ \A t : t # "answer" => (Has(signalsUp'[x], t) <=> Has(signalsUp[x], t))
      /\ \A y \in Devices : \A t : Once(signalsUp[y], t) => Once(signalsUp'[y], t)
  <2> HIDE DEF Setting, OneCall
  <2> QED BY Judgement DEF devVars
<1>b. ~Inert(x) /\ ~Preparing(c) /\ ~Preparing(c)' /\ ~Spreading(c, m) /\ ~Offered(c, m, x)
  BY <1>o, CalleeJudged
<1>0. PICK r : r = [s EXCEPT !.type = "busy"]
  OBVIOUS
<1>r. r \in Signals /\ r.dev = x /\ r.call = 1 /\ r.type = "busy"
  BY <1>a, <1>0 DEF Signals, SignalTypes
<1>1. /\ signalsDown'[x] = Append(signalsDown[x], r)
      /\ \A y \in Devices \ {x} : signalsDown'[y] = signalsDown[y]
  BY <1>0 DEF CallTypeOK, ConnectionsOK, ToldBusy
<1>2. /\ \A t : InFlight(t)' => InFlight(t) \/ t = r
      /\ \A d \in Devices : \A T : Coming(d, T)' <=> Coming(d, T)
      /\ ToSet(signalsDown'[x]) = ToSet(signalsDown[x]) \union {r}
      /\ \A t : Has(signalsDown'[x], t) <=> Has(signalsDown[x], t) \/ t = "busy"
  <2>1. CallTypeOK /\ bus' = bus /\ fan' = fan /\ signalsDown[x] \in Seq(Signals)
    BY <1>a DEF CallTypeOK, ConnectionsOK
  <2> HIDE DEF Setting, OneCall
  <2>2. ToSet(signalsDown'[x]) = ToSet(signalsDown[x]) \union {r}
    BY <1>r, <1>1, <2>1, HasSignals
  <2>3. \A t : Has(signalsDown'[x], t) <=> Has(signalsDown[x], t) \/ t = "busy"
    BY <1>r, <2>2 DEF Has
  <2> QED BY <1>r, <1>1, <2>1, <2>2, <2>3, NetworkTells
<1>3. /\ Decided(m) /\ Decided(m)' /\ ~AnsweredBy(m, x) /\ (AnsweredAt(m)' <=> AnsweredAt(m))
      /\ \A d \in Devices : AnsweredBy(m, d)' <=> AnsweredBy(m, d)
  BY DEF Decided, AnsweredAt, AnsweredBy, Taken
<1>4. RolesOK(c)'
  BY <1>a DEF RolesOK
<1>5. SignalsOK(c)'
  <2>1. \A y \in Devices : \A t \in ToSet(signalsDown'[y]) :
          t \in ToSet(signalsDown[y]) \/ (y = x /\ t = r)
    BY <1>1, <1>2
  <2>2. fan[x] = NoSignal
    BY Judgement
  <2> QED BY <1>o, <1>r, <2>1, <2>2, JudgedSignals
<1>6. OfferOnce(c, m)' /\ Refused(c, m)'
  BY <1>o, <1>1, <1>2, <1>3, CalleeJudgedOffer
<1>9. NotYet(c, m)'
  <2>1. ASSUME NEW d \in Callees(c)
        PROVE signalsUp[d] = <<>> => signalsUp'[d] = <<>>
    BY <1>a, <1>o, Judgement
  <2> QED BY <1>a, <1>3, <1>o, <2>1 DEF NotYet
<1>10. Passed(c, m)'
  <2>1. \A d \in Callees(c) : Has(signalsDown'[d], "busy") => Decided(m)' /\ ~AnsweredBy(m, d)'
    BY <1>1, <1>3, <1>o DEF Passed
  <2>2. \A d \in Devices : Doomed(d)' <=> Doomed(d)
    BY <1>a DEF Doomed
  <2> QED BY <1>a, <1>r, <1>o, <1>2, <1>3, <2>1, <2>2 DEF Passed
<1>11. Told(c, m)'
  <2>1. \A d \in Callees(c) : /\ Offered(c, m, d)' => Offered(c, m, d)
                              /\ d # x => /\ signalsUp'[d] = signalsUp[d]
                                          /\ signalsDown'[d] = signalsDown[d]
                              /\ Doomed(d)' <=> Doomed(d)
    BY <1>a, <1>1, <1>2, <1>o DEF Offered, Spreading, Doomed
  <2>2. /\ InCall(c)' <=> InCall(c)
        /\ signalsUp'[c] = signalsUp[c] /\ Has(signalsDown'[x], "busy")
    BY <1>a, <1>o, <1>2 DEF InCall
  <2> QED BY <1>a, <1>o, <1>2, <1>3, <2>1, <2>2 DEF Told
<1>12. Partner(c, m)'
  <2>1. \A w \in Callees(c) : Has(signalsUp[w], "end") => Has(signalsUp'[w], "end")
    BY <1>a, <1>o
  <2> QED BY <1>a, <1>o, <1>2, <1>3, <2>1 DEF Partner, InCall
<1> QED BY <1>4, <1>5, <1>6, <1>9, <1>10, <1>11, <1>12

(* The first answer takes the call.                                          *)
LEMMA AnswerJudged ==
  ASSUME NEW c, NEW m, Setting(c, m), NEW x \in Devices, NEW s, Judges(x, s), s.type = "answer",
         ~Taken(m, x), cut = {}, cut' = {}, UNCHANGED signalsDown,
         active' = [active EXCEPT ![m] = Answered(x, 1)], fan' = [fan EXCEPT ![x] = s]
  PROVE OneCall(c, m)'
<1> USE DEF Setting, OneCall
<1>o. c \notin Callees(c) /\ Callees(c) \subseteq Devices /\ x \in Callees(c) /\ x # c
  BY Roles, Judgement
<1>a. /\ s \in Signals /\ s.call = 1 /\ s.dev = x /\ fan[x] = NoSignal
      /\ UNCHANGED <<phase, isCaller, about, offering, answering, timers, bus, placed>>
      /\ \A y \in Devices \ {x} : signalsUp'[y] = signalsUp[y]
      /\ \A y \in Devices : \A t : Has(signalsUp'[y], t) => Has(signalsUp[y], t)
      /\ \A t : t # "answer" => (Has(signalsUp'[x], t) <=> Has(signalsUp[x], t))
      /\ \A y \in Devices : \A t : Once(signalsUp[y], t) => Once(signalsUp'[y], t)
      /\ Once(signalsUp[x], "answer") => ~Has(signalsUp'[x], "answer")
      /\ Has(signalsUp[x], "answer")
  <2> HIDE DEF Setting, OneCall
  <2> QED BY Judgement DEF devVars
<1>b. /\ ~Inert(x) /\ ~Preparing(c) /\ ~Preparing(c)' /\ ~Spreading(c, m) /\ ~Offered(c, m, x)
      /\ phase[x] # "ringing"
  BY <1>o, CalleeJudged
<1>c. ~Has(signalsUp'[x], "answer") /\ ~AnsweredBy(m, x) /\ answering[x] = 0
  BY <1>a, <1>o DEF NotYet
<1>1. /\ fan'[x] = s /\ \A y \in Devices \ {x} : fan'[y] = fan[y]
      /\ active'[m] = Answered(x, 1)
  BY DEF CallTypeOK, HubOK
<1>3. /\ ~AnsweredAt(m) /\ ~Decided(m) /\ Decided(m)' /\ AnsweredBy(m, x)'
      /\ \A d \in Devices : ~AnsweredBy(m, d) /\ (d # x => ~AnsweredBy(m, d)')
  BY <1>1, <1>c DEF AnsweredAt, AnsweredBy, Decided, Taken, Answered
<1>2. /\ \A t : InFlight(t)' => InFlight(t) \/ t = s
      /\ \A d \in Devices : \A T : "none" \notin T
               => (Coming(d, T)' <=> Coming(d, T) \/ (d # x /\ s.type \in T))
  BY <1>a, <1>1, NetworkTakes
<1>4. RolesOK(c)'
  BY <1>a DEF RolesOK
<1>5. SignalsOK(c)'
  BY <1>1, JudgedSignals
<1>6. OfferOnce(c, m)' /\ Refused(c, m)'
  BY <1>o, <1>1, <1>3, CalleeJudgedOffer
<1>9. NotYet(c, m)'
  BY <1>a, <1>b, <1>c, <1>1, <1>3, <1>o DEF NotYet
<1>d. \A d \in Devices : Doomed(d)' <=> Doomed(d)
  BY <1>a DEF Doomed
<1>10. Passed(c, m)'
  <2>1. \A d \in Callees(c) : ~Has(signalsDown'[d], "busy")
    BY <1>3 DEF Passed
  <2>2. \A t \in Signals : InFlight(t)'
           => t.type \notin {"end", "reject"} \/ (t.dev = c /\ t.type = "reject")
    BY <1>2 DEF Passed
  <2>3. /\ Has(signalsUp'[c], "end") => Doomed(c)'
        /\ \A d \in Callees(c) : Has(signalsUp'[d], "end") => Doomed(d)'
    BY <1>a, <1>d, <1>o DEF Passed
  <2> QED BY <1>3, <2>1, <2>2, <2>3 DEF Passed
<1>t. /\ \A d \in Callees(c) \ {x} : Coming(d, Stops)'
      /\ \A d \in Callees(c) : Coming(d, {"end"}) <=> Coming(d, {"end"})'
      /\ Coming(c, {"answer"})' /\ (Coming(c, {"end"}) <=> Coming(c, {"end"})')
  BY <1>2, <1>o DEF Stops
<1>11. Told(c, m)'
  <2>1. ~Offered(c, m, x)'
    BY <1>a, <1>b, <1>1, <1>o DEF Offered, Spreading
  <2>2. (timers[c] = 0 /\ InCall(c)') \/ Has(signalsUp'[c], "end")
    BY <1>a, <1>o, <1>3, <1>t DEF Told, InCall
  <2>3. \A d \in Callees(c) \ {x} : signalsUp'[d] = signalsUp[d]
    BY <1>a, <1>o
  <2> QED BY <1>a, <1>b, <1>o, <1>t, <1>3, <2>1, <2>2, <2>3 DEF Told
<1>12. Partner(c, m)'
  <2>1. (phase[x] = "connected" /\ timers[x] = 0) \/ Has(signalsUp'[x], "end")
    BY <1>a, <1>o, <1>3 DEF Told
  <2> QED BY <1>a, <1>o, <1>3, <2>1 DEF Partner
<1> QED BY <1>4, <1>5, <1>6, <1>9, <1>10, <1>11, <1>12

(* A rejection after the answer is dropped.                                  *)
LEMMA LateRejectJudged ==
  ASSUME NEW c, NEW m, Setting(c, m), NEW x \in Devices, NEW s, Judges(x, s), s.type = "reject",
         UNCHANGED <<active, fan, cut, signalsDown>>
  PROVE OneCall(c, m)'
<1> USE DEF Setting, OneCall
<1>o. c \notin Callees(c) /\ Callees(c) \subseteq Devices /\ x \in Callees(c) /\ x # c
  BY Roles, Judgement
<1>a. /\ fan[x] = NoSignal
      /\ UNCHANGED <<phase, isCaller, about, offering, answering, timers, bus, placed>>
      /\ \A y \in Devices \ {x} : signalsUp'[y] = signalsUp[y]
      /\ \A y \in Devices : \A t : t # "reject" => (Has(signalsUp'[y], t) <=> Has(signalsUp[y], t))
      /\ \A y \in Devices : \A t : Once(signalsUp[y], t) => Once(signalsUp'[y], t)
  <2> HIDE DEF Setting, OneCall
  <2> QED BY Judgement DEF devVars
<1>b. ~Inert(x) /\ phase[x] # "ringing"
  BY <1>o, CalleeJudged
<1>3. /\ \A d \in Devices : \A T : Coming(d, T)' <=> Coming(d, T)
      /\ \A t : InFlight(t)' <=> InFlight(t)
      /\ Decided(m)' <=> Decided(m)
      /\ AnsweredAt(m)' <=> AnsweredAt(m)
      /\ \A d \in Devices : AnsweredBy(m, d)' <=> AnsweredBy(m, d)
      /\ \A d \in Devices : Offered(c, m, d)' <=> Offered(c, m, d)
      /\ \A d \in Devices : Doomed(d)' <=> Doomed(d)
  BY <1>a, OwnStepKeeps DEF Doomed
<1>4. RolesOK(c)'
  BY <1>a DEF RolesOK
<1>5. SignalsOK(c)'
  BY <1>a, JudgedSignals
<1>6. OfferOnce(c, m)' /\ Refused(c, m)'
  BY <1>o, <1>3, CalleeJudgedOffer
<1>9. NotYet(c, m)'
  BY <1>a, <1>b, <1>3, <1>o DEF NotYet
<1>10. Passed(c, m)'
  BY <1>a, <1>3, <1>o DEF Passed
<1>11. Told(c, m)'
  BY <1>a, <1>3, <1>o DEF Told, InCall
<1>12. Partner(c, m)'
  BY <1>a, <1>3, <1>o DEF Partner, InCall
<1> QED BY <1>4, <1>5, <1>6, <1>9, <1>10, <1>11, <1>12

(* A rejection before any answer ends the call for everybody.                *)
LEMMA RejectJudged ==
  ASSUME NEW c, NEW m, Setting(c, m), NEW x \in Devices, NEW s, Judges(x, s), s.type = "reject",
         ~AnsweredAt(m), cut' = cut \union {s.call}, UNCHANGED signalsDown,
         active' = [active EXCEPT ![m] = NoCall], fan' = [fan EXCEPT ![x] = s]
  PROVE OneCall(c, m)'
<1> USE DEF Setting, OneCall
<1>o. c \notin Callees(c) /\ Callees(c) \subseteq Devices /\ x \in Callees(c) /\ x # c
  BY Roles, Judgement
<1>a. /\ s \in Signals /\ s.call = 1 /\ s.dev = x /\ fan[x] = NoSignal
      /\ UNCHANGED <<phase, isCaller, about, offering, answering, timers, bus, placed>>
      /\ \A y \in Devices \ {x} : signalsUp'[y] = signalsUp[y]
      /\ \A y \in Devices : \A t : t # "reject" => (Has(signalsUp'[y], t) <=> Has(signalsUp[y], t))
      /\ \A y \in Devices : \A t : Once(signalsUp[y], t) => Once(signalsUp'[y], t)
  <2> HIDE DEF Setting, OneCall
  <2> QED BY Judgement DEF devVars
<1>b. /\ ~Inert(x) /\ ~Preparing(c) /\ ~Preparing(c)' /\ ~Spreading(c, m) /\ ~Offered(c, m, x)
      /\ phase[x] # "ringing"
  BY <1>o, CalleeJudged
<1>1. /\ fan'[x] = s /\ \A y \in Devices \ {x} : fan'[y] = fan[y]
      /\ active'[m] = NoCall /\ cut' # {} /\ cut' \subseteq {1}
  BY <1>a DEF CallTypeOK, HubOK, RolesOK
<1>3. /\ ~AnsweredAt(m)' /\ Decided(m)'
      /\ \A d \in Devices : ~AnsweredBy(m, d) /\ ~AnsweredBy(m, d)'
      /\ \A d \in Devices : Doomed(d)' <=> Doomed(d)
  BY <1>a, <1>1 DEF AnsweredAt, AnsweredBy, Decided, NoCall, Doomed
<1>2. /\ \A t : InFlight(t)' => InFlight(t) \/ t = s
      /\ \A d \in Devices : \A T : "none" \notin T
               => (Coming(d, T)' <=> Coming(d, T) \/ (d # x /\ s.type \in T))
  BY <1>a, <1>1, NetworkTakes
<1>t. /\ \A d \in Callees(c) \ {x} : Coming(d, Stops)'
      /\ \A d \in Devices : Coming(d, {"end"}) <=> Coming(d, {"end"})'
      /\ \A d \in Devices : Coming(d, {"answer"}) <=> Coming(d, {"answer"})'
  BY <1>2, <1>o DEF Stops
<1>4. RolesOK(c)'
  BY <1>a, <1>1 DEF RolesOK
<1>5. SignalsOK(c)'
  BY <1>1, JudgedSignals
<1>6. OfferOnce(c, m)' /\ Refused(c, m)'
  BY <1>o, <1>1, <1>3, CalleeJudgedOffer
<1>9. NotYet(c, m)'
  BY <1>a, <1>b, <1>1, <1>3, <1>o DEF NotYet
<1>10. Passed(c, m)'
  BY <1>a, <1>1, <1>2, <1>3, <1>o DEF Passed
<1>11. Told(c, m)'
  <2>1. ~Offered(c, m, x)'
    BY <1>a, <1>b, <1>1, <1>o DEF Offered, Spreading
  <2> QED BY <1>a, <1>b, <1>o, <1>t, <1>3, <2>1 DEF Told
<1>12. Partner(c, m)'
  BY <1>a, <1>o, <1>3, <1>t DEF Partner, InCall
<1> QED BY <1>4, <1>5, <1>6, <1>9, <1>10, <1>11, <1>12

(* An end is for everybody, whoever sends it.                                *)
LEMMA CalleeEndJudged ==
  ASSUME NEW c, NEW m, Setting(c, m), NEW x \in Callees(c), NEW s, Judges(x, s), s.type = "end",
         cut' = cut \union {s.call}, UNCHANGED signalsDown,
         active' = [active EXCEPT ![m] = NoCall], fan' = [fan EXCEPT ![x] = s]
  PROVE OneCall(c, m)'
<1> USE DEF Setting, OneCall
<1>o. c \notin Callees(c) /\ Callees(c) \subseteq Devices /\ x \in Devices /\ x # c
  BY Roles
<1>a. /\ s \in Signals /\ s.call = 1 /\ s.dev = x /\ fan[x] = NoSignal
      /\ UNCHANGED <<phase, isCaller, about, offering, answering, timers, bus, placed>>
      /\ \A y \in Devices \ {x} : signalsUp'[y] = signalsUp[y]
      /\ \A y \in Devices : \A t : Has(signalsUp'[y], t) => Has(signalsUp[y], t)
      /\ \A y \in Devices : \A t : t # "end" => (Has(signalsUp'[y], t) <=> Has(signalsUp[y], t))
      /\ \A y \in Devices : \A t : Once(signalsUp[y], t) => Once(signalsUp'[y], t)
      /\ Has(signalsUp[x], "end")
  <2> HIDE DEF Setting, OneCall
  <2>1. c \in Devices
    BY DEF Setting
  <2>2. Has(signalsUp[x], "end")
    BY <1>o, <2>1, Judgement
  <2>3. \A y \in Devices : \A t : t # "end" => (Has(signalsUp'[y], t) <=> Has(signalsUp[y], t))
    BY <1>o, <2>1, Judgement
  <2> QED BY <1>o, <2>1, <2>2, <2>3, Judgement DEF devVars
<1>b. /\ ~Inert(x) /\ ~Preparing(c) /\ ~Preparing(c)' /\ ~Spreading(c, m) /\ ~Offered(c, m, x)
      /\ phase[x] # "ringing"
  BY CalleeJudged
<1>1. /\ fan'[x] = s /\ \A y \in Devices \ {x} : fan'[y] = fan[y]
      /\ active'[m] = NoCall /\ cut' # {} /\ cut' \subseteq {1}
  BY <1>a, <1>o DEF CallTypeOK, HubOK, RolesOK
<1>3. /\ ~AnsweredAt(m)' /\ Decided(m)' /\ Doomed(x)
      /\ \A d \in Devices : ~AnsweredBy(m, d)'
      /\ \A d \in Devices : Doomed(d)' <=> Doomed(d)
  BY <1>a, <1>1 DEF AnsweredAt, AnsweredBy, Decided, NoCall, Doomed, Passed
<1>2. /\ \A t : InFlight(t)' => InFlight(t) \/ t = s
      /\ \A d \in Devices : \A T : "none" \notin T
               => (Coming(d, T)' <=> Coming(d, T) \/ (d # x /\ s.type \in T))
  BY <1>a, <1>1, <1>o, NetworkTakes
<1>t. /\ \A d \in Callees(c) \ {x} : Coming(d, Stops)'
      /\ \A d \in Devices \ {x} : Coming(d, {"end"})'
  BY <1>2, <1>o DEF Stops
<1>4. RolesOK(c)'
  BY <1>a, <1>1 DEF RolesOK
<1>5. SignalsOK(c)'
  BY <1>1, <1>o, JudgedSignals
<1>6. OfferOnce(c, m)' /\ Refused(c, m)'
  BY <1>o, <1>1, <1>3, CalleeJudgedOffer
<1>9. NotYet(c, m)'
  BY <1>a, <1>b, <1>1, <1>3, <1>o DEF NotYet
<1>10. Passed(c, m)'
  BY <1>a, <1>1, <1>2, <1>3, <1>o DEF Passed
<1>11. Told(c, m)'
  <2>1. ~Offered(c, m, x)'
    BY <1>a, <1>b, <1>1, <1>o DEF Offered, Spreading
  <2>2. ~(phase'[x] = "connected" /\ timers'[x] = 0)
    BY <1>a, <1>3 DEF Doomed
  <2> QED BY <1>a, <1>b, <1>o, <1>t, <1>3, <2>1, <2>2 DEF Told
<1>12. Partner(c, m)'
  BY <1>o, <1>t DEF Partner
<1> QED BY <1>4, <1>5, <1>6, <1>9, <1>10, <1>11, <1>12

(* The caller's own end: it has cleared its session before.                  *)
LEMMA CallerEndJudged ==
  ASSUME NEW c, NEW m, Setting(c, m), NEW s, Judges(c, s), s.type = "end",
         cut' = cut \union {s.call}, UNCHANGED signalsDown,
         active' = [active EXCEPT ![NodeOf[c]] = NoCall], fan' = [fan EXCEPT ![c] = s]
  PROVE OneCall(c, m)'
<1> USE DEF Setting, OneCall
<1>o. c \notin Callees(c) /\ Callees(c) \subseteq Devices
  BY Roles
<1>a. /\ s \in Signals /\ s.call = 1 /\ s.dev = c /\ fan[c] = NoSignal
      /\ UNCHANGED <<phase, isCaller, about, offering, answering, timers, bus, placed>>
      /\ \A y \in Devices \ {c} : signalsUp'[y] = signalsUp[y]
      /\ \A y \in Devices : \A t : Has(signalsUp'[y], t) => Has(signalsUp[y], t)
      /\ \A y \in Devices : \A t : t # "end" => (Has(signalsUp'[y], t) <=> Has(signalsUp[y], t))
      /\ \A y \in Devices : \A t : Once(signalsUp[y], t) => Once(signalsUp'[y], t)
      /\ Has(signalsUp[c], "end")
  <2> HIDE DEF Setting, OneCall
  <2>1. c \in Devices
    BY DEF Setting
  <2>2. Has(signalsUp[c], "end")
    BY <2>1, Judgement
  <2>3. \A y \in Devices : \A t : t # "end" => (Has(signalsUp'[y], t) <=> Has(signalsUp[y], t))
    BY <2>1, Judgement
  <2> QED BY <2>1, <2>2, <2>3, Judgement DEF devVars
<1>1. /\ fan'[c] = s /\ \A y \in Devices \ {c} : fan'[y] = fan[y]
      /\ active'[m] \in {NoCall, active[m]} /\ cut' # {} /\ cut' \subseteq {1}
  BY <1>a DEF CallTypeOK, HubOK, RolesOK
<1>3. /\ AnsweredAt(m)' => AnsweredAt(m)
      /\ Decided(m)' /\ Doomed(c)
      /\ \A d \in Devices : AnsweredBy(m, d)' => AnsweredBy(m, d)
      /\ \A d \in Devices : Doomed(d)' <=> Doomed(d)
  BY <1>a, <1>1 DEF AnsweredAt, AnsweredBy, Decided, NoCall, Doomed, Passed
<1>2. /\ \A t : InFlight(t)' => InFlight(t) \/ t = s
      /\ \A d \in Devices : \A T : "none" \notin T
               => (Coming(d, T)' <=> Coming(d, T) \/ (d # c /\ s.type \in T))
  BY <1>a, <1>1, NetworkTakes
<1>t. \A d \in Callees(c) : Coming(d, Stops)' /\ Coming(d, {"end"})'
  BY <1>2, <1>o DEF Stops
<1>p. /\ Preparing(c)' <=> Preparing(c)
      /\ Spreading(c, m)' => Spreading(c, m)
      /\ \A d \in Callees(c) : (Inert(d)' <=> Inert(d)) /\ (Offered(c, m, d)' => Offered(c, m, d))
  BY <1>a, <1>1, <1>o DEF Preparing, Spreading, Inert, Offered
<1>4. RolesOK(c)'
  BY <1>a, <1>1 DEF RolesOK
<1>5. SignalsOK(c)'
  BY <1>1, JudgedSignals
<1>6. OfferOnce(c, m)'
  <2>1. /\ Once(signalsUp'[c], "offer")
        /\ offering'[c] # 0 => ~Has(signalsUp'[c], "offer")
        /\ fan'[c].type # "offer"
    BY <1>a, <1>1 DEF OfferOnce
  <2>2. Preparing(c)' => /\ ~Spreading(c, m)' /\ ~AnsweredAt(m)'
                         /\ \A d \in Callees(c) : Inert(d)' /\ ~Has(signalsDown'[d], "offer")
    BY <1>p, <1>3 DEF OfferOnce
  <2>3. Has(bus'[m], "offer") => /\ ~Preparing(c)' /\ Fresh(c, m)'
                                 /\ Head(bus'[m]).type = "offer" /\ ~Has(Tail(bus'[m]), "offer")
    BY <1>a, <1>p, <1>3, <1>o DEF OfferOnce, Fresh
  <2>4. \A d \in Callees(c) : Has(signalsDown'[d], "offer") =>
          /\ ~Preparing(c)' /\ ~Spreading(c, m)' /\ Inert(d)' /\ timers'[d] = 0 /\ ~AnsweredBy(m, d)'
          /\ Head(signalsDown'[d]).type = "offer" /\ ~Has(Tail(signalsDown'[d]), "offer")
    BY <1>a, <1>p, <1>3, <1>o DEF OfferOnce
  <2> QED BY <1>1, <2>1, <2>2, <2>3, <2>4 DEF OfferOnce
<1>7. Refused(c, m)'
  BY <1>p, <1>3 DEF Refused
<1>9. NotYet(c, m)'
  BY <1>a, <1>1, <1>3, <1>o DEF NotYet
<1>10. Passed(c, m)'
  BY <1>a, <1>1, <1>2, <1>3, <1>o DEF Passed
<1>11. Told(c, m)'
  BY <1>t, <1>3 DEF Told
<1>12. Partner(c, m)'
  BY <1>a, <1>3 DEF Partner, InCall, Doomed
<1> QED BY <1>4, <1>5, <1>6, <1>7, <1>9, <1>10, <1>11, <1>12

(* Whatever the arbiter decides, the call stays as it should be.             *)
LEMMA JudgeKeeps ==
  ASSUME NEW c, NEW m, Setting(c, m), NEW x \in Devices, Judge(x), late' = {}
  PROVE OneCall(c, m)'
<1>0. PICK s : s = Head(signalsUp[x])
  OBVIOUS
<1>1. Judges(x, s)
  BY <1>0 DEF Judges
<1>2. /\ s.type \in {"offer", "answer", "reject", "end"} /\ s.call = 1 /\ s \in Signals
      /\ s.type \in {"answer", "reject"} => x \in Callees(c)
      /\ x = c \/ x \in Callees(c)
      /\ x \in Callees(c) => NodeOf[x] = m
      /\ fan[x] = NoSignal
  BY <1>1, Judgement
<1>3. /\ s # NoSignal /\ fan \in [Devices -> Signals \union {NoSignal}] /\ cut \subseteq {1}
      /\ c \in Devices
  BY <1>2 DEF Setting, CallTypeOK, HubOK, Signals, NoSignal, OneCall, RolesOK
<1>4. CASE s.type = "offer"
  BY <1>1, <1>4, OfferJudged
<1>5. CASE s.type = "answer"
  <2>1. x \in Callees(c) /\ NodeOf[x] = m
    BY <1>2, <1>5
  <2>2. \/ Taken(m, x) /\ signalsDown' = ToldBusy(x, s) /\ UNCHANGED <<active, fan, cut>>
        \/ /\ ~Taken(m, x) /\ active' = [active EXCEPT ![m] = Answered(x, 1)]
           /\ fan' = [fan EXCEPT ![x] = s] /\ UNCHANGED signalsDown /\ 1 \notin cut /\ cut' = cut
    BY <1>0, <1>2, <1>3, <1>5, <2>1 DEF Judge
  <2>3. 1 \notin cut /\ cut' = cut => cut = {} /\ cut' = {}
    BY <1>3
  <2> QED BY <1>1, <1>5, <2>2, <2>3, LateAnswerJudged, AnswerJudged
<1>6. CASE s.type = "reject"
  <2>1. x \in Callees(c) /\ NodeOf[x] = m
    BY <1>2, <1>6
  <2>2. \/ UNCHANGED <<active, fan, cut, signalsDown>>
        \/ /\ ~AnsweredAt(m) /\ active' = [active EXCEPT ![m] = NoCall]
           /\ fan' = [fan EXCEPT ![x] = s] /\ UNCHANGED signalsDown /\ cut' = cut \union {s.call}
    BY <1>0, <1>2, <1>3, <1>6, <2>1 DEF Judge, TooLateToReject, AnsweredAt
  <2> QED BY <1>1, <1>6, <2>2, LateRejectJudged, RejectJudged
<1>7. CASE s.type = "end"
  <2>1. /\ active' = [active EXCEPT ![NodeOf[x]] = NoCall]
        /\ fan' = [fan EXCEPT ![x] = s] /\ UNCHANGED signalsDown /\ cut' = cut \union {s.call}
    BY <1>0, <1>2, <1>3, <1>7 DEF Judge
  <2> QED BY <1>1, <1>2, <1>7, <2>1, CalleeEndJudged, CallerEndJudged
<1> QED BY <1>2, <1>4, <1>5, <1>6, <1>7

-----------------------------------------------------------------------------
(* A signal spreads, by the fan-out on its node or from the cluster: who     *)
(* gets it.                                                                  *)
LEMMA Delivery ==
  ASSUME CallTypeOK, NEW n \in CallNodes, NEW s \in Signals, signalsDown' = Delivered(n, s)
  PROVE /\ \A d \in Devices : d \notin Targets(n, s) => signalsDown'[d] = signalsDown[d]
        /\ \A d \in Targets(n, s) :
             /\ ToSet(signalsDown'[d]) = ToSet(signalsDown[d]) \union {s}
             /\ Head(signalsDown'[d]) = IF signalsDown[d] = <<>> THEN s ELSE Head(signalsDown[d])
             /\ \A t : Has(Tail(signalsDown'[d]), t) <=>
                         signalsDown[d] # <<>> /\ (Has(Tail(signalsDown[d]), t) \/ s.type = t)
        /\ \A d \in Devices : \A t \in ToSet(signalsDown'[d]) :
             t \in ToSet(signalsDown[d]) \/ (t = s /\ d \in Targets(n, s))
        /\ \A d \in Devices : ToSet(signalsDown[d]) \subseteq ToSet(signalsDown'[d])
        /\ \A d \in Devices : \A t : Has(signalsDown[d], t) => Has(signalsDown'[d], t)
        /\ \A d \in Devices : \A t : Has(signalsDown'[d], t) =>
             Has(signalsDown[d], t) \/ (s.type = t /\ d \in Targets(n, s))
<1>1. /\ signalsDown \in [Devices -> Seq(Signals)] /\ Targets(n, s) \subseteq Devices
      /\ \A d \in Devices : signalsDown'[d] = IF d \in Targets(n, s) THEN Append(signalsDown[d], s)
                                                                     ELSE signalsDown[d]
  BY DEF CallTypeOK, ConnectionsOK, Delivered, Targets
<1>2. ASSUME NEW d \in Targets(n, s)
      PROVE /\ ToSet(signalsDown'[d]) = ToSet(signalsDown[d]) \union {s}
            /\ Head(signalsDown'[d]) = IF signalsDown[d] = <<>> THEN s ELSE Head(signalsDown[d])
            /\ \A t : Has(Tail(signalsDown'[d]), t) <=>
                        signalsDown[d] # <<>> /\ (Has(Tail(signalsDown[d]), t) \/ s.type = t)
  <2>1. signalsDown[d] \in Seq(Signals) /\ signalsDown'[d] = Append(signalsDown[d], s)
    BY <1>1
  <2>2. /\ ToSet(signalsDown'[d]) = ToSet(signalsDown[d]) \union {s}
        /\ Head(signalsDown'[d]) = IF signalsDown[d] = <<>> THEN s ELSE Head(signalsDown[d])
        /\ Tail(signalsDown'[d]) = IF signalsDown[d] = <<>> THEN <<>>
                 ELSE Append(Tail(signalsDown[d]), s)
    BY <2>1, HasSignals
  <2>3. CASE signalsDown[d] = <<>>
    BY <2>2, <2>3 DEF Has, ToSet
  <2>4. CASE signalsDown[d] # <<>>
    <3>1. Tail(signalsDown[d]) \in Seq(Signals)
      BY <2>1, <2>4
    <3>2. \A t : Has(Append(Tail(signalsDown[d]), s), t) <=> Has(Tail(signalsDown[d]), t) \/ s.type = t
      BY <3>1, HasSignals
    <3> QED BY <2>2, <2>4, <3>2
  <2> QED BY <2>2, <2>3, <2>4
<1>3. /\ \A d \in Devices : \A t \in ToSet(signalsDown'[d]) :
             t \in ToSet(signalsDown[d]) \/ (t = s /\ d \in Targets(n, s))
      /\ \A d \in Devices : ToSet(signalsDown[d]) \subseteq ToSet(signalsDown'[d])
  BY <1>1, <1>2
<1>4. /\ \A d \in Devices : \A t : Has(signalsDown[d], t) => Has(signalsDown'[d], t)
      /\ \A d \in Devices : \A t : Has(signalsDown'[d], t) =>
             Has(signalsDown[d], t) \/ (s.type = t /\ d \in Targets(n, s))
  BY <1>3 DEF Has
<1> QED BY <1>1, <1>2, <1>3, <1>4

(* It says no more and no less after the step than before it.                *)
LEMMA SpreadingKeeps ==
  ASSUME NEW c, NEW m, Setting(c, m), UNCHANGED <<devVars, active, cut, late, signalsUp,
                                                  callCounts>>,
         \A d \in Devices : fan'[d] \in {fan[d], NoSignal},
         \A t \in Signals : InFlight(t)' => InFlight(t),
         \A d \in Devices : \A T : T \in {Stops, {"answer"}, {"end"}}
                  => (Coming(d, T)' <=> Coming(d, T)),
         \A d \in Callees(c) : /\ Offered(c, m, d)' => Offered(c, m, d)
                               /\ Has(signalsDown'[d], "busy") <=> Has(signalsDown[d], "busy"),
         SignalsOK(c)', OfferOnce(c, m)', Refused(c, m)'
  PROVE OneCall(c, m)'
<1> USE DEF Setting, OneCall
<1>o. c \notin Callees(c) /\ Callees(c) \subseteq Devices
  BY Roles
<1>a. UNCHANGED <<phase, isCaller, about, offering, answering, timers, active, cut, signalsUp,
                  placed>>
  BY DEF devVars, callCounts
<1>b. /\ Decided(m)' <=> Decided(m)
      /\ AnsweredAt(m)' <=> AnsweredAt(m)
      /\ \A d \in Devices : AnsweredBy(m, d)' <=> AnsweredBy(m, d)
      /\ \A d \in Devices : Doomed(d)' <=> Doomed(d)
      /\ \A d \in Devices : /\ Coming(d, Stops)' <=> Coming(d, Stops)
                            /\ Coming(d, {"answer"})' <=> Coming(d, {"answer"})
                            /\ Coming(d, {"end"})' <=> Coming(d, {"end"})
  BY <1>a DEF Decided, AnsweredAt, AnsweredBy, Doomed
<1>c. InCall(c)' <=> InCall(c)
  BY <1>a, <1>b DEF InCall
<1>4. RolesOK(c)'
  BY <1>a DEF RolesOK
<1>9. NotYet(c, m)'
  BY <1>a, <1>b, <1>o DEF NotYet
<1>10. Passed(c, m)'
  BY <1>a, <1>b, <1>o DEF Passed
<1>11. Told(c, m)'
  BY <1>a, <1>b, <1>c, <1>o DEF Told
<1>12. Partner(c, m)'
  BY <1>a, <1>b, <1>c, <1>o DEF Partner
<1> QED BY <1>4, <1>9, <1>10, <1>11, <1>12

(* The fan-out on the sender's node, and the publication to the others.      *)
LEMMA FanOutKeeps ==
  ASSUME NEW c, NEW m, Setting(c, m), NEW x \in Devices, FanOut(x)
  PROVE OneCall(c, m)'
<1>0. PICK s : s = fan[x]
  OBVIOUS
<1>1. /\ s # NoSignal /\ signalsDown' = Delivered(NodeOf[x], s)
      /\ bus' = [n \in CallNodes |-> IF n = NodeOf[x] THEN bus[n] ELSE Append(bus[n], s)]
      /\ fan' = [fan EXCEPT ![x] = NoSignal]
      /\ UNCHANGED <<devVars, active, cut, late, signalsUp, callCounts>>
  BY <1>0 DEF FanOut
<1>o. /\ c \notin Callees(c) /\ Callees(c) \subseteq Devices /\ c \in Devices
      /\ CallTypeOK /\ NodeOf \in [Devices -> CallNodes] /\ m \in CallNodes
      /\ \A d \in Callees(c) : NodeOf[d] = m
  BY Roles DEF Setting
<1>2. /\ fan \in [Devices -> Signals \union {NoSignal}] /\ bus \in [CallNodes -> Seq(Signals)]
      /\ NodeOf[x] \in CallNodes
  BY <1>o DEF CallTypeOK, HubOK
<1>3. /\ s \in Signals /\ s.dev = x /\ SentBy(c, s)
      /\ s.type # "none" /\ s.type # "busy" /\ (s.type = "offer" => x = c)
      /\ x = c \/ x \in Callees(c)
  BY <1>0, <1>1, <1>2 DEF Setting, OneCall, SignalsOK, SentBy, Stops
<1>4. /\ \A d \in Devices \ {x} : fan'[d] = fan[d]
      /\ fan'[x] = NoSignal /\ fan'[x].type = "none" /\ fan[x] = s
  BY <1>0, <1>1, <1>2 DEF NoSignal
<1>5. /\ bus'[NodeOf[x]] = bus[NodeOf[x]]
      /\ \A n \in CallNodes \ {NodeOf[x]} :
           /\ ToSet(bus'[n]) = ToSet(bus[n]) \union {s}
           /\ Head(bus'[n]) = IF bus[n] = <<>> THEN s ELSE Head(bus[n])
           /\ Tail(bus'[n]) = IF bus[n] = <<>> THEN <<>> ELSE Append(Tail(bus[n]), s)
  <2>1. ASSUME NEW n \in CallNodes \ {NodeOf[x]}
        PROVE /\ ToSet(bus'[n]) = ToSet(bus[n]) \union {s}
              /\ Head(bus'[n]) = IF bus[n] = <<>> THEN s ELSE Head(bus[n])
              /\ Tail(bus'[n]) = IF bus[n] = <<>> THEN <<>> ELSE Append(Tail(bus[n]), s)
    <3>1. bus[n] \in Seq(Signals) /\ bus'[n] = Append(bus[n], s)
      BY <1>1, <1>2
    <3> QED BY <1>3, <3>1, HasSignals
  <2> QED BY <1>1, <1>2, <2>1
<1>6. /\ \A d \in Devices : d \notin Targets(NodeOf[x], s) => signalsDown'[d] = signalsDown[d]
      /\ \A d \in Targets(NodeOf[x], s) :
             /\ ToSet(signalsDown'[d]) = ToSet(signalsDown[d]) \union {s}
             /\ Head(signalsDown'[d]) = IF signalsDown[d] = <<>> THEN s ELSE Head(signalsDown[d])
             /\ \A t : Has(Tail(signalsDown'[d]), t) <=>
                         signalsDown[d] # <<>> /\ (Has(Tail(signalsDown[d]), t) \/ s.type = t)
      /\ \A d \in Devices : \A t \in ToSet(signalsDown'[d]) :
             t \in ToSet(signalsDown[d]) \/ (t = s /\ d \in Targets(NodeOf[x], s))
      /\ \A d \in Devices : ToSet(signalsDown[d]) \subseteq ToSet(signalsDown'[d])
      /\ \A d \in Devices : \A t : Has(signalsDown[d], t) => Has(signalsDown'[d], t)
      /\ \A d \in Devices : \A t : Has(signalsDown'[d], t) =>
             Has(signalsDown[d], t) \/ (s.type = t /\ d \in Targets(NodeOf[x], s))
  BY <1>o, <1>1, <1>2, <1>3, Delivery
<1>7. \A d \in Devices : d \in Targets(NodeOf[x], s) <=>
        NodeOf[d] = NodeOf[x] /\ d # x /\ (s.type = "offer" => UserOf[d] # UserOf[x])
  BY <1>3 DEF Targets
<1>8. /\ \A d \in Devices : fan'[d] \in {fan[d], NoSignal}
      /\ \A t \in Signals : InFlight(t)' => InFlight(t)
  <2>1. \A n \in CallNodes : ToSet(bus'[n]) \subseteq ToSet(bus[n]) \union {s}
    BY <1>5
  <2>2. NoSignal \notin Signals
    BY DEF NoSignal, Signals
  <2>3. InFlight(s)
    BY <1>4 DEF InFlight
  <2>4. ASSUME NEW t \in Signals, InFlight(t)', t # s PROVE InFlight(t)
    <3>1. CASE \E y \in Devices : fan'[y] = t
      BY <1>4, <2>2, <3>1 DEF InFlight
    <3>2. CASE \E n \in CallNodes : t \in ToSet(bus'[n])
      BY <2>1, <2>4, <3>2 DEF InFlight
    <3>3. CASE \E y \in Devices : t \in ToSet(signalsDown'[y])
      BY <1>6, <2>4, <3>3 DEF InFlight
    <3> QED BY <2>4, <3>1, <3>2, <3>3 DEF InFlight
  <2>5. \A d \in Devices : fan'[d] \in {fan[d], NoSignal}
    BY <1>4
  <2> QED BY <2>3, <2>4, <2>5
<1>9. ASSUME NEW d \in Devices, NEW T, "none" \notin T, "offer" \notin T
      PROVE Coming(d, T)' <=> Coming(d, T)
  <2>1. ASSUME Coming(d, T)' PROVE Coming(d, T)
    <3>1. NodeOf[d] \in CallNodes
      BY <1>o
    <3>2. CASE \E y \in Devices \ {d} : fan'[y].type \in T
      BY <1>4, <1>9, <3>2 DEF Coming
    <3>3. CASE \E t \in ToSet(bus'[NodeOf[d]]) : t.type \in T
      BY <1>4, <1>5, <3>1, <3>3 DEF Coming
    <3>4. CASE \E t \in ToSet(signalsDown'[d]) : t.type \in T /\ t.dev # d
      BY <1>3, <1>4, <1>6, <3>4 DEF Coming
    <3> QED BY <2>1, <3>2, <3>3, <3>4 DEF Coming
  <2>2. ASSUME Coming(d, T) PROVE Coming(d, T)'
    <3>1. NodeOf[d] \in CallNodes /\ ToSet(bus[NodeOf[d]]) \subseteq ToSet(bus'[NodeOf[d]])
      BY <1>o, <1>5
    <3>2. CASE s.type \in T /\ x # d
      <4>1. CASE NodeOf[d] = NodeOf[x]
        BY <1>3, <1>6, <1>7, <1>9, <3>2, <4>1 DEF Coming
      <4>2. CASE NodeOf[d] # NodeOf[x]
        BY <1>5, <3>1, <3>2, <4>2 DEF Coming
      <4> QED BY <4>1, <4>2
    <3>3. CASE ~(s.type \in T /\ x # d)
      BY <1>4, <1>6, <2>2, <3>1, <3>3 DEF Coming
    <3> QED BY <3>2, <3>3
  <2> QED BY <2>1, <2>2
<1>10. \A n \in CallNodes : \A t : Has(bus'[n], t) <=> Has(bus[n], t) \/ (n # NodeOf[x] /\ s.type = t)
  BY <1>5 DEF Has
<1>11. /\ Spreading(c, m)' => Spreading(c, m)
       /\ s.type = "offer" => Spreading(c, m) /\ fan[c].type = "offer"
       /\ \A d \in Callees(c) : Offered(c, m, d)' => Offered(c, m, d)
  <2>1. s.type = "offer" => Spreading(c, m) /\ fan[c].type = "offer"
    BY <1>3, <1>4 DEF Spreading
  <2>2. fan'[c].type = "offer" => fan[c].type = "offer"
    BY <1>4, <1>o
  <2>3. Has(bus'[m], "offer") => Has(bus[m], "offer") \/ s.type = "offer"
    BY <1>10, <1>o
  <2>4. Spreading(c, m)' => Spreading(c, m)
    BY <2>1, <2>2, <2>3 DEF Spreading
  <2>5. \A d \in Devices : Has(signalsDown'[d], "offer") => Has(signalsDown[d], "offer") \/ s.type = "offer"
    BY <1>6 DEF Has
  <2> QED BY <1>o, <2>1, <2>4, <2>5 DEF Offered
<1>12. UNCHANGED <<phase, answering, offering, timers, active, cut, signalsUp>>
  BY <1>1 DEF devVars
<1>13. SignalsOK(c)'
  <2>1. \A y \in Devices : \A t \in ToSet(signalsUp'[y]) : t.dev = y /\ SentBy(c, t)
    BY <1>12 DEF Setting, OneCall, SignalsOK
  <2>2. \A y \in Devices : fan'[y] # NoSignal => fan'[y].dev = y /\ SentBy(c, fan'[y])
    BY <1>4 DEF Setting, OneCall, SignalsOK
  <2>3. \A n \in CallNodes : \A t \in ToSet(bus'[n]) : NodeOf[t.dev] # n /\ SentBy(c, t)
    BY <1>3, <1>5 DEF Setting, OneCall, SignalsOK
  <2>4. ASSUME NEW y \in Devices, NEW t \in ToSet(signalsDown'[y])
        PROVE \/ SentBy(c, t) /\ t.dev # y /\ (t.type = "offer" => y \in Callees(c))
              \/ t.dev = y /\ t.type = "busy" /\ y \in Callees(c) /\ t.call = 1
              \/ t.dev = y /\ t.type = "reject" /\ y = c /\ t.call = 1
    <3>1. CASE t \in ToSet(signalsDown[y])
      BY <3>1 DEF Setting, OneCall, SignalsOK
    <3>2. CASE t = s /\ y \in Targets(NodeOf[x], s)
      BY <1>3, <1>7, <3>2 DEF Callees
    <3> QED BY <1>6, <3>1, <3>2
  <2> QED BY <2>1, <2>2, <2>3, <2>4 DEF SignalsOK
<1>14. /\ Preparing(c)' <=> Preparing(c)
       /\ \A d \in Devices : Inert(d) => Inert(d)'
       /\ AnsweredAt(m)' <=> AnsweredAt(m)
       /\ \A d \in Devices : AnsweredBy(m, d)' <=> AnsweredBy(m, d)
  BY <1>4, <1>12 DEF Preparing, Inert, AnsweredAt, AnsweredBy
<1>i. \A d \in Callees(c) : Inert(d) => x # d
  BY <1>1, <1>4 DEF Inert
<1>15. OfferOnce(c, m)'
  <2>1. Once(signalsUp'[c], "offer") /\ (offering'[c] # 0 => ~Has(signalsUp'[c], "offer"))
    BY <1>12 DEF Setting, OneCall, OfferOnce
  <2>2. CASE s.type = "offer"
    <3>1. x = c /\ ~Preparing(c) /\ bus[m] = <<>> /\ Fresh(c, m)
      BY <1>3, <1>11, <2>2 DEF Setting, OneCall, OfferOnce
    <3>2. \A d \in Callees(c) : Inert(d)' /\ timers'[d] = 0 /\ ~AnsweredBy(m, d)'
      BY <1>12, <1>14, <1>o, <3>1 DEF Fresh, AnsweredBy
    <3>3. CASE NodeOf[c] = m
      <4>1. ~Spreading(c, m)'
        BY <1>4, <1>5, <3>1, <3>3 DEF Spreading, Has, ToSet
      <4>2. ASSUME NEW d \in Callees(c), Has(signalsDown'[d], "offer")
            PROVE Head(signalsDown'[d]).type = "offer" /\ ~Has(Tail(signalsDown'[d]), "offer")
        <5>1. d \in Targets(NodeOf[x], s) /\ signalsDown[d] = <<>>
          BY <1>o, <1>7, <3>1, <3>3 DEF Fresh, Callees
        <5> QED BY <1>6, <2>2, <5>1
      <4> QED BY <1>4, <1>14, <2>1, <3>1, <3>2, <4>1, <4>2 DEF OfferOnce, Spreading
    <3>4. CASE NodeOf[c] # m
      <4>1. Head(bus'[m]) = s /\ Tail(bus'[m]) = <<>>
        BY <1>5, <1>o, <3>1, <3>4
      <4>2. ~Has(Tail(bus'[m]), "offer")
        BY <4>1 DEF Has, ToSet
      <4>3. \A d \in Callees(c) : signalsDown'[d] = <<>> /\ ~Has(signalsDown'[d], "offer")
        <5>1. \A d \in Callees(c) : signalsDown'[d] = <<>>
          BY <1>6, <1>7, <1>o, <3>1, <3>4 DEF Fresh
        <5> QED BY <5>1 DEF Has, ToSet
      <4>4. Fresh(c, m)'
        BY <1>14, <3>1, <3>2, <4>3 DEF Fresh
      <4> QED BY <1>4, <1>14, <2>1, <2>2, <3>1, <4>1, <4>2, <4>3, <4>4 DEF OfferOnce
    <3> QED BY <3>3, <3>4
  <2>3. CASE s.type # "offer"
    <3>1. ~(fan'[c].type = "offer")
      <4>1. CASE fan[c].type = "offer"
        <5>1. x # c /\ Fresh(c, m)
          BY <1>4, <2>3, <4>1 DEF Setting, OneCall, OfferOnce
        <5> QED BY <1>3, <1>i, <5>1 DEF Fresh
      <4>2. CASE fan[c].type # "offer"
        BY <1>4, <1>o, <4>2
      <4> QED BY <4>1, <4>2
    <3>2. Has(bus'[m], "offer") => /\ ~Preparing(c)' /\ Fresh(c, m)'
                                   /\ Head(bus'[m]).type = "offer" /\ ~Has(Tail(bus'[m]), "offer")
      <4> SUFFICES ASSUME Has(bus'[m], "offer")
                   PROVE /\ ~Preparing(c)' /\ Fresh(c, m)'
                         /\ Head(bus'[m]).type = "offer" /\ ~Has(Tail(bus'[m]), "offer")
        OBVIOUS
      <4>1. /\ Has(bus[m], "offer") /\ ~Preparing(c) /\ Fresh(c, m)
            /\ Head(bus[m]).type = "offer" /\ ~Has(Tail(bus[m]), "offer")
        BY <1>10, <1>o, <2>3 DEF Setting, OneCall, OfferOnce
      <4>2. x = c /\ bus[m] # <<>>
        BY <1>3, <1>i, <4>1 DEF Fresh, Has, ToSet
      <4>3. NodeOf[c] # m
        <5>1. PICK t \in ToSet(bus[m]) : t.type = "offer"
          BY <4>1 DEF Has
        <5>2. NodeOf[t.dev] # m /\ SentBy(c, t)
          BY <1>o, <5>1 DEF Setting, OneCall, SignalsOK
        <5>3. t.dev = c
          BY <5>1, <5>2 DEF SentBy, Stops
        <5> QED BY <5>2, <5>3
      <4>4. Fresh(c, m)'
        <5>1. \A d \in Callees(c) : signalsDown'[d] = signalsDown[d]
          BY <1>6, <1>7, <1>o, <4>2, <4>3
        <5> QED BY <1>12, <1>14, <1>o, <4>1, <5>1 DEF Fresh
      <4>5. Head(bus'[m]).type = "offer" /\ Tail(bus'[m]) = Append(Tail(bus[m]), s)
        BY <1>5, <1>o, <4>1, <4>2, <4>3
      <4>6. ~Has(Tail(bus'[m]), "offer")
        <5>1. Tail(bus[m]) \in Seq(Signals)
          BY <1>2, <1>o, <4>2
        <5>2. \A t : Has(Append(Tail(bus[m]), s), t) <=> Has(Tail(bus[m]), t) \/ s.type = t
          BY <1>3, <5>1, HasSignals
        <5> QED BY <2>3, <4>1, <4>5, <5>2
      <4> QED BY <1>14, <4>1, <4>4, <4>5, <4>6
    <3>3. ASSUME NEW d \in Callees(c), Has(signalsDown'[d], "offer")
          PROVE /\ ~Preparing(c)' /\ ~Spreading(c, m)' /\ Inert(d)' /\ timers'[d] = 0
                /\ ~AnsweredBy(m, d)' /\ Head(signalsDown'[d]).type = "offer"
                /\ ~Has(Tail(signalsDown'[d]), "offer")
      <4>1. /\ Has(signalsDown[d], "offer") /\ ~Preparing(c) /\ ~Spreading(c, m) /\ Inert(d)
            /\ timers[d] = 0 /\ ~AnsweredBy(m, d) /\ Head(signalsDown[d]).type = "offer"
            /\ ~Has(Tail(signalsDown[d]), "offer")
        BY <1>6, <1>o, <2>3, <3>3 DEF Setting, OneCall, OfferOnce
      <4>2. signalsDown[d] # <<>>
        BY <4>1 DEF Has, ToSet
      <4>3. Head(signalsDown'[d]).type = "offer" /\ ~Has(Tail(signalsDown'[d]), "offer")
        BY <1>6, <1>o, <2>3, <4>1, <4>2
      <4> QED BY <1>11, <1>12, <1>14, <1>o, <4>1, <4>3
    <3>4. Preparing(c) =>
       /\ ~Spreading(c, m)' /\ ~AnsweredAt(m)'
       /\ \A d \in Callees(c) : Inert(d)' /\ ~Has(signalsDown'[d], "offer")
       /\ cut' # {}
      <4> SUFFICES ASSUME Preparing(c)
                   PROVE /\ ~Spreading(c, m)' /\ ~AnsweredAt(m)'
                         /\ \A d \in Callees(c) : Inert(d)' /\ ~Has(signalsDown'[d], "offer")
                         /\ cut' # {}
        OBVIOUS
      <4>1. /\ ~Spreading(c, m) /\ ~AnsweredAt(m)
            /\ \A d \in Callees(c) : Inert(d) /\ ~Has(signalsDown[d], "offer")
            /\ cut = {} => fan[c] = NoSignal
        BY DEF Setting, OneCall, OfferOnce
      <4>2. x = c /\ cut # {}
        BY <1>1, <1>3, <1>4, <1>i, <4>1
      <4>3. \A d \in Callees(c) : ~Has(signalsDown'[d], "offer")
        BY <1>6, <1>o, <2>3, <4>1
      <4> QED BY <1>11, <1>12, <1>14, <1>o, <4>1, <4>2, <4>3
    <3> QED BY <1>14, <2>1, <3>1, <3>2, <3>3, <3>4 DEF OfferOnce
  <2> QED BY <2>2, <2>3
<1>16. Refused(c, m)'
  <2>1. ASSUME NEW t \in ToSet(signalsDown'[c]), t.dev = c
        PROVE t \in ToSet(signalsDown[c])
    BY <1>3, <1>6, <1>7, <1>o, <2>1
  <2>2. ASSUME ~Spreading(c, m), NEW d \in Callees(c), ~Has(signalsDown[d], "offer")
        PROVE ~Has(signalsDown'[d], "offer")
    BY <1>6, <1>11, <1>o, <2>2
  <2> QED BY <1>11, <1>14, <1>o, <2>1, <2>2 DEF Setting, OneCall, Refused
<1>17. \A d \in Devices : \A T : T \in {Stops, {"answer"}, {"end"}}
         => (Coming(d, T)' <=> Coming(d, T))
  BY <1>9 DEF Stops
<1>18. \A d \in Callees(c) : Has(signalsDown'[d], "busy") <=> Has(signalsDown[d], "busy")
  BY <1>3, <1>6, <1>o
<1> QED BY <1>1, <1>8, <1>11, <1>13, <1>15, <1>16, <1>17, <1>18, SpreadingKeeps

(* Another node's signal reaches the devices of this one.                    *)
LEMMA FromClusterKeeps ==
  ASSUME NEW c, NEW m, Setting(c, m), NEW n \in CallNodes, FromCluster(n)
  PROVE OneCall(c, m)'
<1>0. PICK s : s = Head(bus[n])
  OBVIOUS
<1>1. /\ bus[n] # <<>> /\ signalsDown' = Delivered(n, s) /\ bus' = [bus EXCEPT ![n] = Tail(@)]
      /\ UNCHANGED <<devVars, fan, active, cut, late, signalsUp, callCounts>>
  BY <1>0 DEF FromCluster
<1>o. /\ c \notin Callees(c) /\ Callees(c) \subseteq Devices /\ c \in Devices
      /\ CallTypeOK /\ NodeOf \in [Devices -> CallNodes] /\ m \in CallNodes
      /\ \A d \in Callees(c) : NodeOf[d] = m
  BY Roles DEF Setting
<1>2. bus \in [CallNodes -> Seq(Signals)] /\ bus[n] \in Seq(Signals)
  BY <1>o DEF CallTypeOK, HubOK
<1>3. /\ s \in Signals /\ s \in ToSet(bus[n])
      /\ bus'[n] = Tail(bus[n]) /\ ToSet(bus[n]) = ToSet(bus'[n]) \union {s}
      /\ \A k \in CallNodes \ {n} : bus'[k] = bus[k]
  <2>1. ToSet(bus[n]) = ToSet(Tail(bus[n])) \union {s} /\ s \in Signals
    BY <1>0, <1>1, <1>2, HasSignals
  <2> QED BY <1>1, <1>2, <2>1
<1>4. /\ SentBy(c, s) /\ NodeOf[s.dev] # n /\ s.type # "busy"
      /\ s.type = "offer" => s.dev = c
      /\ s.dev = c \/ s.dev \in Callees(c)
  BY <1>3 DEF Setting, OneCall, SignalsOK, SentBy, Stops
<1>5. /\ \A k \in CallNodes : ToSet(bus'[k]) \subseteq ToSet(bus[k])
      /\ \A k \in CallNodes : \A t : Has(bus'[k], t) => Has(bus[k], t)
  BY <1>3 DEF Has
<1>6. /\ \A d \in Devices : d \notin Targets(n, s) => signalsDown'[d] = signalsDown[d]
      /\ \A d \in Targets(n, s) :
             /\ ToSet(signalsDown'[d]) = ToSet(signalsDown[d]) \union {s}
             /\ Head(signalsDown'[d]) = IF signalsDown[d] = <<>> THEN s ELSE Head(signalsDown[d])
             /\ \A t : Has(Tail(signalsDown'[d]), t) <=>
                         signalsDown[d] # <<>> /\ (Has(Tail(signalsDown[d]), t) \/ s.type = t)
      /\ \A d \in Devices : \A t \in ToSet(signalsDown'[d]) :
             t \in ToSet(signalsDown[d]) \/ (t = s /\ d \in Targets(n, s))
      /\ \A d \in Devices : ToSet(signalsDown[d]) \subseteq ToSet(signalsDown'[d])
      /\ \A d \in Devices : \A t : Has(signalsDown[d], t) => Has(signalsDown'[d], t)
      /\ \A d \in Devices : \A t : Has(signalsDown'[d], t) =>
             Has(signalsDown[d], t) \/ (s.type = t /\ d \in Targets(n, s))
  BY <1>o, <1>1, <1>3, Delivery
<1>7. \A d \in Devices : d \in Targets(n, s) <=>
        NodeOf[d] = n /\ d # s.dev /\ (s.type = "offer" => UserOf[d] # UserOf[s.dev])
  BY DEF Targets
<1>8. \A t \in Signals : InFlight(t)' => InFlight(t)
  <2>1. InFlight(s)
    BY <1>3 DEF InFlight
  <2>2. ASSUME NEW t \in Signals, InFlight(t)', t # s PROVE InFlight(t)
    <3>1. CASE \E y \in Devices : fan'[y] = t
      BY <1>1, <3>1 DEF InFlight
    <3>2. CASE \E k \in CallNodes : t \in ToSet(bus'[k])
      BY <1>5, <3>2 DEF InFlight
    <3>3. CASE \E y \in Devices : t \in ToSet(signalsDown'[y])
      BY <1>6, <2>2, <3>3 DEF InFlight
    <3> QED BY <2>2, <3>1, <3>2, <3>3 DEF InFlight
  <2> QED BY <2>1, <2>2
<1>9. ASSUME NEW d \in Devices, NEW T, "offer" \notin T
      PROVE Coming(d, T)' <=> Coming(d, T)
  <2>1. ASSUME Coming(d, T)' PROVE Coming(d, T)
    <3>1. NodeOf[d] \in CallNodes
      BY <1>o
    <3>2. CASE \E y \in Devices \ {d} : fan'[y].type \in T
      BY <1>1, <3>2 DEF Coming
    <3>3. CASE \E t \in ToSet(bus'[NodeOf[d]]) : t.type \in T
      BY <1>5, <3>1, <3>3 DEF Coming
    <3>4. CASE \E t \in ToSet(signalsDown'[d]) : t.type \in T /\ t.dev # d
      BY <1>3, <1>6, <1>7, <3>4 DEF Coming
    <3> QED BY <2>1, <3>2, <3>3, <3>4 DEF Coming
  <2>2. ASSUME Coming(d, T) PROVE Coming(d, T)'
    <3>1. NodeOf[d] \in CallNodes
      BY <1>o
    <3>2. CASE s.type \in T /\ NodeOf[d] = n
      <4>1. d \in Targets(n, s) /\ s.dev # d
        BY <1>4, <1>7, <1>9, <3>2
      <4>2. s \in ToSet(signalsDown'[d])
        BY <1>6, <4>1
      <4> QED BY <3>2, <4>1, <4>2 DEF Coming
    <3>3. CASE ~(s.type \in T /\ NodeOf[d] = n)
      <4>1. \A t \in ToSet(bus[NodeOf[d]]) : t.type \in T => t \in ToSet(bus'[NodeOf[d]])
        BY <1>3, <3>1, <3>3
      <4> QED BY <1>1, <1>6, <2>2, <4>1 DEF Coming
    <3> QED BY <3>2, <3>3
  <2> QED BY <2>1, <2>2
<1>10. /\ Spreading(c, m)' => Spreading(c, m)
       /\ s.type = "offer" /\ n = m => Spreading(c, m) /\ Has(bus[m], "offer")
       /\ \A d \in Callees(c) : Offered(c, m, d)' => Offered(c, m, d)
  <2>1. /\ Spreading(c, m)' => Spreading(c, m)
        /\ s.type = "offer" /\ n = m => Spreading(c, m) /\ Has(bus[m], "offer")
    BY <1>1, <1>3, <1>5, <1>o DEF Spreading, Has
  <2> QED BY <1>6, <1>7, <1>o, <2>1 DEF Offered
<1>12. UNCHANGED <<phase, answering, offering, timers, active, cut, signalsUp, fan>>
  BY <1>1 DEF devVars
<1>13. SignalsOK(c)'
  <2>1. \A y \in Devices : \A t \in ToSet(signalsUp'[y]) : t.dev = y /\ SentBy(c, t)
    BY <1>12 DEF Setting, OneCall, SignalsOK
  <2>2. \A y \in Devices : fan'[y] # NoSignal => fan'[y].dev = y /\ SentBy(c, fan'[y])
    BY <1>12 DEF Setting, OneCall, SignalsOK
  <2>3. \A k \in CallNodes : \A t \in ToSet(bus'[k]) : NodeOf[t.dev] # k /\ SentBy(c, t)
    BY <1>5 DEF Setting, OneCall, SignalsOK
  <2>4. ASSUME NEW y \in Devices, NEW t \in ToSet(signalsDown'[y])
        PROVE \/ SentBy(c, t) /\ t.dev # y /\ (t.type = "offer" => y \in Callees(c))
              \/ t.dev = y /\ t.type = "busy" /\ y \in Callees(c) /\ t.call = 1
              \/ t.dev = y /\ t.type = "reject" /\ y = c /\ t.call = 1
    <3>1. CASE t \in ToSet(signalsDown[y])
      BY <3>1 DEF Setting, OneCall, SignalsOK
    <3>2. CASE t = s /\ y \in Targets(n, s)
      BY <1>4, <1>7, <3>2 DEF Callees
    <3> QED BY <1>6, <3>1, <3>2
  <2> QED BY <2>1, <2>2, <2>3, <2>4 DEF SignalsOK
<1>14. /\ Preparing(c)' <=> Preparing(c)
       /\ \A d \in Devices : Inert(d)' <=> Inert(d)
       /\ AnsweredAt(m)' <=> AnsweredAt(m)
       /\ \A d \in Devices : AnsweredBy(m, d)' <=> AnsweredBy(m, d)
  BY <1>12 DEF Preparing, Inert, AnsweredAt, AnsweredBy
<1>15. OfferOnce(c, m)'
  <2>1. Once(signalsUp'[c], "offer") /\ (offering'[c] # 0 => ~Has(signalsUp'[c], "offer"))
    BY <1>12 DEF Setting, OneCall, OfferOnce
  <2>2. CASE n # m
    <3>1. bus'[m] = bus[m] /\ \A d \in Callees(c) : signalsDown'[d] = signalsDown[d]
      BY <1>3, <1>6, <1>7, <1>o, <2>2
    <3>2. Fresh(c, m) => Fresh(c, m)'
      BY <1>12, <1>14, <1>o, <3>1 DEF Fresh
    <3>3. ASSUME NEW d \in Callees(c), Has(signalsDown'[d], "offer")
          PROVE /\ ~Preparing(c)' /\ ~Spreading(c, m)' /\ Inert(d)' /\ timers'[d] = 0
                /\ ~AnsweredBy(m, d)' /\ Head(signalsDown'[d]).type = "offer"
                /\ ~Has(Tail(signalsDown'[d]), "offer")
      BY <1>10, <1>12, <1>14, <1>o, <3>1, <3>3 DEF Setting, OneCall, OfferOnce
    <3>4. Preparing(c) =>
       /\ ~Spreading(c, m)' /\ ~AnsweredAt(m)'
       /\ \A d \in Callees(c) : Inert(d)' /\ ~Has(signalsDown'[d], "offer")
       /\ cut' = {} => /\ \A d \in Callees(c) : timers'[d] = 0 /\ signalsDown'[d] = <<>>
                       /\ bus'[m] = <<>> /\ fan'[c] = NoSignal
                       /\ (phase'[c] = "calling" /\ timers'[c] = 0) \/ Has(signalsUp'[c], "end")
      BY <1>10, <1>12, <1>14, <1>o, <3>1 DEF Setting, OneCall, OfferOnce
    <3>5. /\ fan'[c].type = "offer" => ~Preparing(c)' /\ bus'[m] = <<>> /\ Fresh(c, m)'
          /\ Has(bus'[m], "offer") =>
               /\ ~Preparing(c)' /\ fan'[c].type # "offer" /\ Fresh(c, m)'
               /\ Head(bus'[m]).type = "offer" /\ ~Has(Tail(bus'[m]), "offer")
      BY <1>12, <1>14, <3>1, <3>2 DEF Setting, OneCall, OfferOnce
    <3> QED BY <1>14, <2>1, <3>3, <3>4, <3>5 DEF OfferOnce
  <2>3. CASE n = m
    <3>1. fan'[c].type # "offer"
      BY <1>1, <1>12, <2>3 DEF Setting, OneCall, OfferOnce
    <3>2. /\ ~Has(bus'[m], "offer")
          /\ Has(bus[m], "offer") => s.type = "offer"
      BY <1>0, <1>3, <1>5, <1>o, <2>3 DEF Setting, OneCall, OfferOnce
    <3>3. Preparing(c) =>
       /\ ~Spreading(c, m)' /\ ~AnsweredAt(m)' /\ cut' # {}
       /\ \A d \in Callees(c) : Inert(d)' /\ ~Has(signalsDown'[d], "offer")
      <4> SUFFICES ASSUME Preparing(c)
                   PROVE /\ ~Spreading(c, m)' /\ ~AnsweredAt(m)' /\ cut' # {}
                         /\ \A d \in Callees(c) : Inert(d)' /\ ~Has(signalsDown'[d], "offer")
        OBVIOUS
      <4>1. /\ ~Spreading(c, m) /\ ~AnsweredAt(m) /\ cut # {}
            /\ \A d \in Callees(c) : Inert(d) /\ ~Has(signalsDown[d], "offer")
        BY <1>1, <2>3 DEF Setting, OneCall, OfferOnce
      <4>2. \A d \in Callees(c) : ~Has(signalsDown'[d], "offer")
        BY <1>6, <1>10, <1>o, <2>3, <4>1
      <4> QED BY <1>10, <1>12, <1>14, <1>o, <4>1, <4>2
    <3>4. ASSUME NEW d \in Callees(c), Has(signalsDown'[d], "offer")
          PROVE /\ ~Preparing(c)' /\ ~Spreading(c, m)' /\ Inert(d)' /\ timers'[d] = 0
                /\ ~AnsweredBy(m, d)' /\ Head(signalsDown'[d]).type = "offer"
                /\ ~Has(Tail(signalsDown'[d]), "offer")
      <4>1. ~Spreading(c, m)'
        BY <3>1, <3>2 DEF Spreading
      <4>2. CASE s.type = "offer"
        <5>1. /\ ~Preparing(c) /\ Inert(d) /\ timers[d] = 0 /\ signalsDown[d] = <<>>
              /\ ~AnsweredBy(m, d)
          BY <1>10, <2>3, <4>2 DEF Setting, OneCall, OfferOnce, Fresh, AnsweredBy
        <5>2. ~Has(signalsDown[d], "offer")
          BY <5>1 DEF Has, ToSet
        <5>3. d \in Targets(n, s)
          BY <1>6, <1>o, <3>4, <5>2
        <5>4. Head(signalsDown'[d]).type = "offer" /\ ~Has(Tail(signalsDown'[d]), "offer")
          BY <1>6, <4>2, <5>1, <5>3
        <5> QED BY <1>12, <1>14, <1>o, <4>1, <5>1, <5>4
      <4>3. CASE s.type # "offer"
        <5>1. /\ Has(signalsDown[d], "offer") /\ ~Preparing(c) /\ Inert(d)
              /\ timers[d] = 0 /\ ~AnsweredBy(m, d) /\ Head(signalsDown[d]).type = "offer"
              /\ ~Has(Tail(signalsDown[d]), "offer")
          BY <1>6, <1>o, <3>4, <4>3 DEF Setting, OneCall, OfferOnce
        <5>2. signalsDown[d] # <<>>
          BY <5>1 DEF Has, ToSet
        <5>3. Head(signalsDown'[d]).type = "offer" /\ ~Has(Tail(signalsDown'[d]), "offer")
          BY <1>6, <1>o, <4>3, <5>1, <5>2
        <5> QED BY <1>12, <1>14, <1>o, <4>1, <5>1, <5>3
      <4> QED BY <4>2, <4>3
    <3> QED BY <1>14, <2>1, <3>1, <3>2, <3>3, <3>4 DEF OfferOnce
  <2> QED BY <2>2, <2>3
<1>16. Refused(c, m)'
  <2>1. ASSUME NEW t \in ToSet(signalsDown'[c]), t.dev = c
        PROVE t \in ToSet(signalsDown[c])
    BY <1>6, <1>7, <1>o, <2>1
  <2>2. ASSUME ~Spreading(c, m), NEW d \in Callees(c), ~Has(signalsDown[d], "offer")
        PROVE ~Has(signalsDown'[d], "offer")
    BY <1>6, <1>7, <1>10, <1>o, <2>2
  <2> QED BY <1>10, <1>14, <1>o, <2>1, <2>2 DEF Setting, OneCall, Refused
<1>17. \A d \in Devices : \A T : T \in {Stops, {"answer"}, {"end"}}
         => (Coming(d, T)' <=> Coming(d, T))
  BY <1>9 DEF Stops
<1>18. \A d \in Callees(c) : Has(signalsDown'[d], "busy") <=> Has(signalsDown[d], "busy")
  BY <1>4, <1>6, <1>o
<1> QED BY <1>1, <1>8, <1>10, <1>13, <1>15, <1>16, <1>17, <1>18, SpreadingKeeps

-----------------------------------------------------------------------------
(* Offers on their way are of the first call, also once an offer or an       *)
(* answer got through after the end of it.                                   *)
FirstOffers(q) == \A s \in ToSet(q) : s.type = "offer" => s.call = 1
FirstCall ==
  /\ placed = 1
  /\ \A d \in Devices : /\ offering[d] \in {0, 1}
                        /\ phase[d] = "ringing" => about[d] = 1
                        /\ FirstOffers(signalsUp[d]) /\ FirstOffers(signalsDown[d])
                        /\ fan[d].type = "offer" => fan[d].call = 1
  /\ \A n \in CallNodes : FirstOffers(bus[n])

LEMMA FirstOffersInQueue ==
  ASSUME NEW q \in Seq(Signals)
  PROVE /\ \A s \in Signals : FirstOffers(q) /\ (s.type = "offer" => s.call = 1)
           => FirstOffers(Append(q, s))
        /\ FirstOffers(q) /\ q # <<>> =>
             FirstOffers(Tail(q)) /\ (Head(q).type = "offer" => Head(q).call = 1)
<1>1. /\ \A s \in Signals : ToSet(Append(q, s)) = ToSet(q) \union {s}
      /\ q # <<>> => ToSet(q) = ToSet(Tail(q)) \union {Head(q)}
  BY HasSignals
<1> QED BY <1>1 DEF FirstOffers

(* With one call allowed, no step of a device makes an offer of another.     *)
LEMMA FirstOwnSteps ==
  ASSUME CallTypeOK, MaxCalls = 1, FirstCall, NEW d \in Devices,
         \/ StartCall(d) \/ SendOffer(d) \/ OfferFails(d) \/ Accept(d) \/ SendAnswer(d)
         \/ AnswerFails(d) \/ Reject(d) \/ HangUp(d) \/ TimerFires(d)
  PROVE FirstCall'
<1>0. /\ phase \in [Devices -> Phases] /\ offering \in [Devices -> Nat]
      /\ about \in [Devices -> Nat] /\ answering \in [Devices -> Nat]
      /\ signalsUp \in [Devices -> Seq(Signals)]
  BY DEF CallTypeOK, DevicesOK, ConnectionsOK
<1>1. ~StartCall(d)
  BY DEF FirstCall, StartCall
<1>2. UNCHANGED <<fan, bus, signalsDown, placed, about>>
  BY <1>1 DEF SendOffer, OfferFails, Accept, SendAnswer, AnswerFails, Reject, HangUp, TimerFires,
              hubVars, callCounts
<1>3. \A x \in Devices : offering'[x] \in {0, 1}
  <2>1. offering' = offering \/ offering' = [offering EXCEPT ![d] = 0]
    BY <1>1 DEF SendOffer, OfferFails, Accept, SendAnswer, AnswerFails, Reject, HangUp, TimerFires
  <2> QED BY <1>0, <2>1 DEF FirstCall
<1>4. \A x \in Devices : phase'[x] = "ringing" => phase[x] = "ringing"
  <2>1. phase' = phase \/ \E p \in {"connecting", "connected", "idle", "ended"} :
                             phase' = [phase EXCEPT ![d] = p]
    BY <1>1 DEF SendOffer, OfferFails, Accept, SendAnswer, AnswerFails, Reject, HangUp, TimerFires,
                EndSession, Phase
  <2> QED BY <1>0, <2>1
<1>5. \A x \in Devices : FirstOffers(signalsUp'[x])
  <2>1. \/ signalsUp' = signalsUp
        \/ \E s \in Signals : /\ s.type = "offer" => s.call = 1
                              /\ signalsUp'[d] = Append(signalsUp[d], s)
                              /\ \A x \in Devices \ {d} : signalsUp'[x] = signalsUp[x]
    <3>1. CASE SendOffer(d)
      <4>0. PICK s : s = [type |-> "offer", dev |-> d, call |-> offering[d]]
        OBVIOUS
      <4>1. s \in Signals /\ (s.type = "offer" => s.call = 1)
        BY <1>0, <3>1, <4>0 DEF Signals, SignalTypes, SendOffer, FirstCall
      <4>2. signalsUp' = [signalsUp EXCEPT ![d] = Append(@, s)]
        BY <3>1, <4>0 DEF SendOffer
      <4>3. signalsUp'[d] = Append(signalsUp[d], s)
               /\ \A x \in Devices \ {d} : signalsUp'[x] = signalsUp[x]
        BY <1>0, <4>2
      <4> QED BY <4>1, <4>3
    <3>2. CASE SendAnswer(d)
      <4>0. PICK s : s = [type |-> "answer", dev |-> d, call |-> answering[d]]
        OBVIOUS
      <4>1. s \in Signals /\ s.type # "offer"
        BY <1>0, <4>0 DEF Signals, SignalTypes
      <4>2. signalsUp' = [signalsUp EXCEPT ![d] = Append(@, s)]
        BY <3>2, <4>0 DEF SendAnswer
      <4>3. signalsUp'[d] = Append(signalsUp[d], s)
               /\ \A x \in Devices \ {d} : signalsUp'[x] = signalsUp[x]
        BY <1>0, <4>2
      <4> QED BY <4>1, <4>3
    <3>3. CASE Reject(d)
      <4>0. PICK s : s = [type |-> "reject", dev |-> d, call |-> about[d]]
        OBVIOUS
      <4>1. s \in Signals /\ s.type # "offer"
        BY <1>0, <4>0 DEF Signals, SignalTypes
      <4>2. signalsUp' = [signalsUp EXCEPT ![d] = Append(@, s)]
        BY <3>3, <4>0 DEF Reject, Transmit
      <4>3. signalsUp'[d] = Append(signalsUp[d], s)
               /\ \A x \in Devices \ {d} : signalsUp'[x] = signalsUp[x]
        BY <1>0, <4>2
      <4> QED BY <4>1, <4>3
    <3>4. CASE HangUp(d)
      <4>0. PICK s : s = [type |-> "end", dev |-> d, call |-> about[d]]
        OBVIOUS
      <4>1. s \in Signals /\ s.type # "offer"
        BY <1>0, <4>0 DEF Signals, SignalTypes
      <4>2. signalsUp' = [signalsUp EXCEPT ![d] = Append(@, s)]
        BY <3>4, <4>0 DEF HangUp, Transmit
      <4>3. signalsUp'[d] = Append(signalsUp[d], s)
               /\ \A x \in Devices \ {d} : signalsUp'[x] = signalsUp[x]
        BY <1>0, <4>2
      <4> QED BY <4>1, <4>3
    <3>5. CASE OfferFails(d) \/ Accept(d) \/ AnswerFails(d) \/ TimerFires(d)
      BY <3>5 DEF OfferFails, Accept, AnswerFails, TimerFires
    <3> QED BY <1>1, <3>1, <3>2, <3>3, <3>4, <3>5
  <2>2. ASSUME NEW s \in Signals, s.type = "offer" => s.call = 1,
               signalsUp'[d] = Append(signalsUp[d], s),
               \A x \in Devices \ {d} : signalsUp'[x] = signalsUp[x]
        PROVE \A x \in Devices : FirstOffers(signalsUp'[x])
    <3>1. FirstOffers(signalsUp'[d])
      BY <1>0, <2>2, FirstOffersInQueue DEF FirstCall
    <3> QED BY <2>2, <3>1 DEF FirstCall
  <2> QED BY <2>1, <2>2 DEF FirstCall
<1> QED BY <1>2, <1>3, <1>4, <1>5 DEF FirstCall

(* Nor does a signal that arrives, is judged or spreads.                     *)
LEMMA FirstSignals ==
  ASSUME CallTypeOK, FirstCall,
         \/ \E d \in Devices : ReceiveSignal(d) \/ Judge(d) \/ FanOut(d)
         \/ \E n \in CallNodes : FromCluster(n)
  PROVE FirstCall'
<1>0. /\ phase \in [Devices -> Phases] /\ about \in [Devices -> Nat]
      /\ signalsUp \in [Devices -> Seq(Signals)] /\ signalsDown \in [Devices -> Seq(Signals)]
      /\ bus \in [CallNodes -> Seq(Signals)] /\ fan \in [Devices -> Signals \union {NoSignal}]
      /\ \A d \in Devices : NodeOf[d] \in CallNodes
  BY CallAssumption DEF CallTypeOK, DevicesOK, ConnectionsOK, HubOK, CallAssumption
<1>1. ASSUME NEW d \in Devices, ReceiveSignal(d) PROVE FirstCall'
  <2>0. PICK s : s = Head(signalsDown[d])
    OBVIOUS
  <2>1. /\ signalsDown[d] # <<>> /\ signalsDown' = [signalsDown EXCEPT ![d] = Tail(@)]
        /\ UNCHANGED <<offering, fan, bus, placed>>
    BY <1>1 DEF ReceiveSignal, hubVars, callCounts
  <2>2. /\ s \in Signals /\ (s.type = "offer" => s.call = 1) /\ s.call \in Nat
        /\ FirstOffers(Tail(signalsDown[d]))
    <3>1. signalsDown[d] \in Seq(Signals) /\ FirstOffers(signalsDown[d])
      BY <1>0 DEF FirstCall
    <3>2. s \in Signals
      BY <2>0, <2>1, <3>1
    <3> QED BY <2>0, <2>1, <3>1, <3>2, FirstOffersInQueue DEF Signals
  <2>3. \A x \in Devices : FirstOffers(signalsDown'[x])
    BY <1>0, <2>1, <2>2 DEF FirstCall
  <2>4. CASE s.type = "offer" /\ phase[d] \in {"idle", "ended"}
    <3>1. /\ phase' = [phase EXCEPT ![d] = "ringing"] /\ about' = [about EXCEPT ![d] = 1]
          /\ UNCHANGED signalsUp
      BY <1>1, <2>0, <2>2, <2>4 DEF ReceiveSignal, OnOffer, Phase
    <3> QED BY <1>0, <2>1, <2>3, <3>1 DEF FirstCall
  <2>5. CASE s.type = "offer" /\ phase[d] \notin {"idle", "ended"}
    <3>0. PICK b : b = [type |-> "busy", dev |-> d, call |-> s.call]
      OBVIOUS
    <3>1. /\ signalsUp' = [signalsUp EXCEPT ![d] = Append(@, b)]
          /\ UNCHANGED <<phase, about>>
      BY <1>1, <2>0, <2>5, <3>0 DEF ReceiveSignal, OnOffer
    <3>2. b \in Signals /\ b.type # "offer"
      BY <2>2, <3>0 DEF Signals, SignalTypes
    <3>3. /\ signalsUp'[d] = Append(signalsUp[d], b) /\ signalsUp[d] \in Seq(Signals)
          /\ \A x \in Devices \ {d} : signalsUp'[x] = signalsUp[x]
      BY <1>0, <3>1
    <3>4. FirstOffers(Append(signalsUp[d], b))
      BY <3>2, <3>3, FirstOffersInQueue DEF FirstCall
    <3> QED BY <2>1, <2>3, <3>1, <3>3, <3>4 DEF FirstCall
  <2>6. CASE s.type # "offer"
    <3>1. /\ phase' = phase \/ \E p \in {"connected", "idle", "ended", phase[d]} :
                                 phase' = [phase EXCEPT ![d] = p]
          /\ UNCHANGED <<about, signalsUp>>
      BY <1>1, <2>0, <2>6 DEF ReceiveSignal, OnAnswer, AfterAnswer, OnReject, OnEnd, EndSession, Phase
    <3>2. \A x \in Devices : phase'[x] = "ringing" => phase[x] = "ringing"
      BY <1>0, <3>1
    <3> QED BY <2>1, <2>3, <3>1, <3>2 DEF FirstCall
  <2> QED BY <2>4, <2>5, <2>6
<1>2. ASSUME NEW d \in Devices, Judge(d) PROVE FirstCall'
  <2>0. PICK s, b, r : /\ s = Head(signalsUp[d])
                       /\ b = [s EXCEPT !.type = "busy"] /\ r = [s EXCEPT !.type = "reject"]
    OBVIOUS
  <2>1. /\ signalsUp[d] # <<>> /\ signalsUp' = [signalsUp EXCEPT ![d] = Tail(@)]
        /\ UNCHANGED <<phase, about, offering, bus, placed>>
        /\ fan' \in {fan, [fan EXCEPT ![d] = s]}
        /\ \/ signalsDown' = signalsDown \/ signalsDown' = [signalsDown EXCEPT ![d] = Append(@, b)]
           \/ signalsDown' = [signalsDown EXCEPT ![d] = Append(@, r)]
    BY <1>2, <2>0 DEF Judge, ToldBusy, ToldRejected, devVars, callCounts
  <2>2. /\ s \in Signals /\ (s.type = "offer" => s.call = 1) /\ FirstOffers(Tail(signalsUp[d]))
    <3>1. signalsUp[d] \in Seq(Signals) /\ FirstOffers(signalsUp[d])
      BY <1>0 DEF FirstCall
    <3>2. s \in Signals
      BY <2>0, <2>1, <3>1
    <3> QED BY <2>0, <2>1, <3>1, <3>2, FirstOffersInQueue
  <2>3. b \in Signals /\ r \in Signals /\ b.type # "offer" /\ r.type # "offer"
    BY <2>0, <2>2 DEF Signals, SignalTypes
  <2>4. \A t \in Signals : t.type # "offer" => FirstOffers(Append(signalsDown[d], t))
    BY <1>0, FirstOffersInQueue DEF FirstCall
  <2>5. \A x \in Devices : FirstOffers(signalsDown'[x])
    BY <1>0, <2>1, <2>3, <2>4 DEF FirstCall
  <2>6. \A x \in Devices : FirstOffers(signalsUp'[x]) /\ (fan'[x].type = "offer" => fan'[x].call = 1)
    BY <1>0, <2>1, <2>2 DEF FirstCall
  <2> QED BY <2>1, <2>5, <2>6 DEF FirstCall
<1>3. ASSUME NEW n \in CallNodes, NEW s \in Signals, s.type = "offer" => s.call = 1,
             signalsDown' = Delivered(n, s)
      PROVE \A x \in Devices : FirstOffers(signalsDown'[x])
  <2>1. \A d \in Devices : \A t \in ToSet(signalsDown'[d]) : t \in ToSet(signalsDown[d]) \/ t = s
    BY <1>3, Delivery
  <2> QED BY <1>3, <2>1 DEF FirstCall, FirstOffers
<1>4. ASSUME NEW d \in Devices, FanOut(d) PROVE FirstCall'
  <2>0. PICK s : s = fan[d]
    OBVIOUS
  <2>1. /\ s # NoSignal /\ signalsDown' = Delivered(NodeOf[d], s)
        /\ bus' = [n \in CallNodes |-> IF n = NodeOf[d] THEN bus[n] ELSE Append(bus[n], s)]
        /\ fan' = [fan EXCEPT ![d] = NoSignal]
        /\ UNCHANGED <<phase, about, offering, signalsUp, placed>>
    BY <1>4, <2>0 DEF FanOut, devVars, callCounts
  <2>2. s \in Signals /\ (s.type = "offer" => s.call = 1)
    BY <1>0, <2>0, <2>1 DEF FirstCall
  <2>3. \A x \in Devices : FirstOffers(signalsDown'[x])
    BY <1>0, <1>3, <2>1, <2>2
  <2>4. ASSUME NEW n \in CallNodes PROVE FirstOffers(bus'[n])
    <3>1. bus[n] \in Seq(Signals) /\ FirstOffers(bus[n])
      BY <1>0 DEF FirstCall
    <3>2. FirstOffers(Append(bus[n], s))
      BY <2>2, <3>1, FirstOffersInQueue
    <3> QED BY <2>1, <3>1, <3>2
  <2>5. \A x \in Devices : fan'[x].type = "offer" => fan'[x].call = 1
    BY <1>0, <2>1 DEF FirstCall, NoSignal
  <2> QED BY <2>1, <2>3, <2>4, <2>5 DEF FirstCall
<1>5. ASSUME NEW n \in CallNodes, FromCluster(n) PROVE FirstCall'
  <2>0. PICK s : s = Head(bus[n])
    OBVIOUS
  <2>1. /\ bus[n] # <<>> /\ signalsDown' = Delivered(n, s) /\ bus' = [bus EXCEPT ![n] = Tail(@)]
        /\ UNCHANGED <<phase, about, offering, signalsUp, fan, placed>>
    BY <1>5, <2>0 DEF FromCluster, devVars, callCounts
  <2>2. /\ s \in Signals /\ (s.type = "offer" => s.call = 1) /\ FirstOffers(Tail(bus[n]))
    <3>1. bus[n] \in Seq(Signals) /\ FirstOffers(bus[n])
      BY <1>0 DEF FirstCall
    <3>2. s \in Signals
      BY <2>0, <2>1, <3>1
    <3> QED BY <2>0, <2>1, <3>1, <3>2, FirstOffersInQueue
  <2>3. \A x \in Devices : FirstOffers(signalsDown'[x])
    BY <1>3, <2>1, <2>2
  <2> QED BY <1>0, <2>1, <2>2, <2>3 DEF FirstCall
<1> QED BY <1>1, <1>2, <1>4, <1>5

(* The caller places the call.                                               *)
LEMMA StartCallBegins ==
  ASSUME NEW m \in CallNodes, NEW c \in Devices, CallInit, StartCall(c)
  PROVE OneCall(c, m)' /\ FirstCall' /\ late' = {}
<1>1. /\ phase' = [d \in Devices |-> IF d = c THEN "calling" ELSE "idle"]
      /\ isCaller' = [d \in Devices |-> d = c]
      /\ about' = [d \in Devices |-> IF d = c THEN 1 ELSE 0]
      /\ offering' = [d \in Devices |-> IF d = c THEN 1 ELSE 0]
      /\ answering' = [d \in Devices |-> 0] /\ timers' = [d \in Devices |-> 0]
      /\ signalsUp' = [d \in Devices |-> <<>>] /\ signalsDown' = [d \in Devices |-> <<>>]
      /\ fan' = [d \in Devices |-> NoSignal] /\ bus' = [n \in CallNodes |-> <<>>]
      /\ active' = [n \in CallNodes |-> NoCall]
      /\ placed' = 1 /\ cut' = {} /\ late' = {}
  <2>1. /\ phase = [d \in Devices |-> "idle"] /\ isCaller = [d \in Devices |-> FALSE]
        /\ about = [d \in Devices |-> 0] /\ offering = [d \in Devices |-> 0] /\ placed = 0
    BY DEF CallInit
  <2>2. /\ phase' = [phase EXCEPT ![c] = "calling"] /\ isCaller' = [isCaller EXCEPT ![c] = TRUE]
        /\ about' = [about EXCEPT ![c] = placed + 1] /\ offering' = [offering EXCEPT ![c] = placed + 1]
        /\ placed' = placed + 1
    BY DEF StartCall, Phase
  <2>3. placed + 1 = 1
    BY <2>1
  <2>4. about' = [about EXCEPT ![c] = 1] /\ offering' = [offering EXCEPT ![c] = 1] /\ placed' = 1
    BY <2>2, <2>3
  <2>5. /\ phase' = [d \in Devices |-> IF d = c THEN "calling" ELSE "idle"]
        /\ isCaller' = [d \in Devices |-> d = c]
    BY <2>1, <2>2, Zenon
  <2>6. /\ about' = [d \in Devices |-> IF d = c THEN 1 ELSE 0]
        /\ offering' = [d \in Devices |-> IF d = c THEN 1 ELSE 0]
    BY <2>1, <2>4
  <2>7. /\ answering' = [d \in Devices |-> 0] /\ timers' = [d \in Devices |-> 0]
        /\ signalsUp' = [d \in Devices |-> <<>>] /\ signalsDown' = [d \in Devices |-> <<>>]
        /\ fan' = [d \in Devices |-> NoSignal] /\ bus' = [n \in CallNodes |-> <<>>]
        /\ active' = [n \in CallNodes |-> NoCall] /\ cut' = {} /\ late' = {}
    BY DEF CallInit, StartCall, hubVars
  <2> QED BY <2>4, <2>5, <2>6, <2>7
<1>2. /\ ToSet(<<>>) = {} /\ \A t : ~Has(<<>>, t) /\ Once(<<>>, t)
      /\ FirstOffers(<<>>)
  BY DEF ToSet, Has, Once, FirstOffers
<1>3. c \notin Callees(c) /\ Callees(c) \subseteq Devices
  BY DEF Callees
<1>4. \A t \in Signals : ~InFlight(t)'
  BY <1>1, <1>2 DEF InFlight, NoSignal, Signals
<1>5. /\ \A d \in Devices : \A t \in SignalTypes : fan'[d].type # t
      /\ ~AnsweredAt(m)' /\ ~Decided(m)' /\ ~Spreading(c, m)'
      /\ \A d \in Devices : ~AnsweredBy(m, d)' /\ ~Offered(c, m, d)'
  BY <1>1, <1>2 DEF NoSignal, SignalTypes, AnsweredAt, AnsweredBy, Decided, Offered, Spreading, NoCall
<1>6. RolesOK(c)'
  BY <1>1, <1>3 DEF RolesOK
<1>7. SignalsOK(c)'
  BY <1>1, <1>2 DEF SignalsOK
<1>8. OfferOnce(c, m)'
  BY <1>1, <1>2, <1>3, <1>5 DEF OfferOnce, Inert, SignalTypes
<1>9. Refused(c, m)'
  BY <1>1, <1>2 DEF Refused
<1>10. NotYet(c, m)'
  BY <1>1, <1>2, <1>3 DEF NotYet
<1>11. Passed(c, m)'
  BY <1>1, <1>2, <1>3, <1>4 DEF Passed
<1>12. Told(c, m)'
  BY <1>1, <1>2, <1>3, <1>5 DEF Told
<1>13. Partner(c, m)'
  <2>1. ~Coming(c, {"answer"})'
    BY <1>1, <1>2, CallAssumption DEF Coming, NoSignal, CallAssumption
  <2> QED BY <1>1, <2>1 DEF Partner, InCall
<1>14. FirstCall'
  BY <1>1, <1>2 DEF FirstCall, NoSignal
<1> QED BY <1>1, <1>6, <1>7, <1>8, <1>9, <1>10, <1>11, <1>12, <1>13, <1>14 DEF OneCall

-----------------------------------------------------------------------------
(* The callee's devices, whoever calls, are on one node; then its arbiter is *)
(* the only one that can give the call to a device.                          *)
AnswersOnOneNode ==
  \A c \in Callers : \A d, e \in Callees(c) : NodeOf[d] = NodeOf[e]
(* The one call that was placed is as it should be; or an offer or an answer *)
(* of it got through after its end, and the comment of hub.go:884 makes no   *)
(* promise.                                                                  *)
Underway == \E c \in Callers, m \in CallNodes : /\ \A d \in Callees(c) : NodeOf[d] = m
                                                /\ OneCall(c, m)
CallInv == \/ CallInit
           \/ FirstCall /\ (1 \in late \/ (late = {} /\ Underway))

(* A step that lets nothing late through keeps the call as it should be.     *)
LEMMA CallInvKept ==
  ASSUME MaxCalls = 1, AnswersOnOneNode, CallTypeOK, CallInv, CallNext
  PROVE CallInv'
<1>0. Callers \subseteq Devices /\ NodeOf \in [Devices -> CallNodes]
  BY CallAssumption DEF CallAssumption
<1>1. CASE CallInit
  <2>1. \A d \in Devices : NodeOf[d] \in CallNodes
    BY <1>0
  <2>2. PICK c \in Devices : StartCall(c)
    BY <1>1, <2>1 DEF CallInit, CallNext, SendOffer, OfferFails, Accept, SendAnswer, AnswerFails,
       Reject, HangUp, TimerFires, ReceiveSignal, Judge, FanOut, FromCluster
  <2>3. c \in Callers
    BY <2>2 DEF StartCall
  <2>4. PICK m \in CallNodes : \A d \in Callees(c) : NodeOf[d] = m
    <3>1. CASE Callees(c) = {}
      BY <2>1, <3>1
    <3>2. CASE Callees(c) # {}
      BY <2>1, <2>3, <3>2 DEF AnswersOnOneNode, Callees
    <3> QED BY <3>1, <3>2
  <2>5. OneCall(c, m)' /\ FirstCall' /\ late' = {}
    BY <1>1, <2>2, StartCallBegins
  <2> QED BY <2>3, <2>4, <2>5 DEF CallInv, Underway
<1>2. CASE FirstCall /\ (1 \in late \/ (late = {} /\ Underway))
  <2>1. FirstCall'
    BY <1>2, FirstOwnSteps, FirstSignals DEF CallNext
  <2>2. \/ late' = late
        \/ \E d \in Devices : Judge(d) /\ late' = late \union {Head(signalsUp[d]).call}
    BY DEF CallNext, StartCall, SendOffer, OfferFails, Accept, SendAnswer, AnswerFails, Reject, HangUp,
           TimerFires, ReceiveSignal, Judge, FanOut, FromCluster, hubVars
  <2>3. CASE 1 \in late
    BY <2>1, <2>2, <2>3 DEF CallInv
  <2>4. CASE late = {} /\ Underway
    <3>1. PICK c \in Callers, m \in CallNodes : (\A d \in Callees(c) : NodeOf[d] = m) /\ OneCall(c, m)
      BY <2>4 DEF Underway
    <3>2. Setting(c, m)
      BY <1>0, <2>4, <3>1 DEF Setting
    <3>3. CASE late' = {}
      <4>1. OneCall(c, m)'
        BY <3>2, <3>3, Roles, SendOfferKeeps, OfferFailsKeeps, AcceptKeeps, SendAnswerKeeps,
           AnswerFailsKeeps, RejectKeeps, HangUpKeeps, TimerKeeps, ReceiveSignalKeeps, JudgeKeeps,
           FanOutKeeps, FromClusterKeeps DEF CallNext
      <4> QED BY <2>1, <3>1, <3>3, <4>1 DEF CallInv, Underway
    <3>4. CASE late' # {}
      <4>1. PICK d \in Devices : Judge(d) /\ late' = late \union {Head(signalsUp[d]).call}
        BY <2>2, <2>4, <3>4
      <4>2. Judges(d, Head(signalsUp[d]))
        BY <4>1 DEF Judges
      <4>3. Head(signalsUp[d]).call = 1
        BY <3>2, <4>2, Judgement
      <4> QED BY <2>1, <4>1, <4>3 DEF CallInv
    <3> QED BY <3>3, <3>4
  <2> QED BY <1>2, <2>3, <2>4
<1> QED BY <1>1, <1>2 DEF CallInv

(* With everything arrived, each of the promises of what is still to come    *)
(* must have been kept: the device that has the call and the caller are      *)
(* connected, and nobody else is; and what rings has a caller.               *)
LEMMA CallInvAgrees ==
  ASSUME MaxCalls = 1, CallTypeOK, CallInv
  PROVE EndsAgree
<1>1. CASE CallInit
  BY <1>1 DEF CallInit, EndsAgree, BothEndsConnected, RingsOnlyForACaller, InPhase
<1>2. CASE FirstCall /\ 1 \in late
  BY <1>2 DEF FirstCall, EndsAgree, BothEndsConnected, RingsOnlyForACaller, InPhase
<1>3. CASE late = {} /\ Underway
  <2>1. PICK c \in Callers, m \in CallNodes : (\A d \in Callees(c) : NodeOf[d] = m) /\ OneCall(c, m)
    BY <1>3 DEF Underway
  <2>2. Setting(c, m)
    BY <1>3, <2>1, CallAssumption DEF Setting, CallAssumption
  <2>3. /\ c \notin Callees(c) /\ Callees(c) \subseteq Devices /\ c \in Devices
        /\ \A d \in Devices : phase[d] \in {"ringing", "connected"} => d = c \/ d \in Callees(c)
        /\ \A d \in Devices : phase[d] = "ringing" => d \in Callees(c)
        /\ \A d \in Devices : NodeOf[d] \in CallNodes
    BY <2>2, Roles DEF Setting
  <2> SUFFICES ASSUME Quiet
               PROVE /\ InPhase("connected") # {} =>
                          \E a, d \in Devices : isCaller[a] /\ ~isCaller[d]
                                   /\ InPhase("connected") = {a, d}
                     /\ InPhase("ringing") # {} => InPhase("calling") # {}
    BY DEF EndsAgree, BothEndsConnected, RingsOnlyForACaller
  <2>4. /\ \A d \in Devices : \A t : ~Has(signalsUp[d], t) /\ ~Has(signalsDown[d], t)
        /\ \A d \in Devices : timers[d] = 0
        /\ \A d \in Devices : ~Coming(d, Stops) /\ ~Coming(d, {"answer"}) /\ ~Coming(d, {"end"})
    BY <2>3 DEF Quiet, Has, ToSet, Coming, Stops, NoSignal
  <2>5. InPhase("ringing") # {} => InPhase("calling") # {}
    BY <2>1, <2>3, <2>4 DEF OneCall, Told, InPhase
  <2>6. ASSUME NEW d \in Callees(c), phase[d] = "connected"
        PROVE AnsweredBy(m, d) /\ phase[c] = "connected"
    <3>1. AnsweredBy(m, d)
      BY <2>1, <2>3, <2>4, <2>6 DEF OneCall, Told
    <3> QED BY <2>1, <2>3, <2>4, <2>6, <3>1 DEF OneCall, Told, Doomed, InCall
  <2>7. ASSUME phase[c] = "connected"
        PROVE \E w \in Callees(c) : AnsweredBy(m, w) /\ phase[w] = "connected"
    BY <2>1, <2>3, <2>4, <2>7 DEF OneCall, Partner, InCall
  <2>8. ASSUME InPhase("connected") # {}
        PROVE \E a, d \in Devices : isCaller[a] /\ ~isCaller[d] /\ InPhase("connected") = {a, d}
    <3>1. phase[c] = "connected"
      BY <2>3, <2>6, <2>8 DEF InPhase
    <3>2. PICK w \in Callees(c) : AnsweredBy(m, w) /\ phase[w] = "connected"
      BY <2>7, <3>1
    <3>3. InPhase("connected") = {c, w}
      BY <2>3, <2>6, <3>1, <3>2 DEF InPhase, AnsweredBy
    <3>4. isCaller[c] /\ ~isCaller[w]
      BY <2>1, <2>3 DEF OneCall, RolesOK
    <3> QED BY <2>3, <3>3, <3>4
  <2> QED BY <2>5, <2>8
<1> QED BY <1>1, <1>2, <1>3 DEF CallInv

(* A step of something else keeps it too.                                    *)
LEMMA CallInvStutters ==
  ASSUME UNCHANGED callVars, CallInv
  PROVE CallInv'
<1>1. /\ UNCHANGED <<phase, isCaller, about, offering, answering, timers, signalsUp, signalsDown>>
      /\ UNCHANGED <<fan, bus, active, cut, late, placed, hangups, rejects>>
  BY DEF callVars, devVars, hubVars, callCounts
<1>2. CallInit' <=> CallInit
  BY <1>1 DEF CallInit
<1>3. FirstCall' <=> FirstCall
  BY <1>1 DEF FirstCall, FirstOffers
<1>4. ASSUME NEW c \in Callers, NEW m \in CallNodes, OneCall(c, m)
      PROVE OneCall(c, m)'
  <2>1. /\ \A s : InFlight(s)' <=> InFlight(s)
        /\ \A d, T : Coming(d, T)' <=> Coming(d, T)
        /\ AnsweredAt(m)' <=> AnsweredAt(m)
        /\ \A d : AnsweredBy(m, d)' <=> AnsweredBy(m, d)
        /\ Decided(m)' <=> Decided(m)
        /\ \A d : Doomed(d)' <=> Doomed(d)
        /\ \A d : Inert(d)' <=> Inert(d)
    BY <1>1 DEF InFlight, Coming, AnsweredAt, AnsweredBy, Decided, Doomed, Inert
  <2>2. /\ Preparing(c)' <=> Preparing(c)
        /\ Spreading(c, m)' <=> Spreading(c, m)
        /\ \A d : Has(signalsUp[d], "answer")' <=> Has(signalsUp[d], "answer")
    BY <1>1 DEF Preparing, Spreading, Has
  <2>3. /\ \A d : Offered(c, m, d)' <=> Offered(c, m, d)
        /\ Fresh(c, m)' <=> Fresh(c, m)
        /\ InCall(c)' <=> InCall(c)
    BY <1>1, <2>1, <2>2 DEF Offered, Fresh, InCall, Has, Callees
  <2>4. RolesOK(c)' /\ SignalsOK(c)'
    BY <1>1, <1>4 DEF OneCall, RolesOK, SignalsOK, SentBy, Callees
  <2>5. OfferOnce(c, m)'
    BY <1>1, <1>4, <2>1, <2>2, <2>3 DEF OneCall, OfferOnce, Once, Has, Callees
  <2>6. Refused(c, m)' /\ NotYet(c, m)'
    BY <1>1, <1>4, <2>1, <2>2 DEF OneCall, Refused, NotYet, Once, Has, Callees
  <2>7. Passed(c, m)' /\ Partner(c, m)'
    BY <1>1, <1>4, <2>1, <2>2, <2>3 DEF OneCall, Passed, Partner, Has, Callees
  <2>8. Told(c, m)'
    BY <1>1, <1>4, <2>1, <2>2, <2>3 DEF OneCall, Told, Has, Callees
  <2> QED BY <2>4, <2>5, <2>6, <2>7, <2>8 DEF OneCall
<1>5. Underway => Underway'
  BY <1>4 DEF Underway, Callees
<1> QED BY <1>1, <1>2, <1>3, <1>5 DEF CallInv

(* Of one call to a user, or several, whose devices are all on one node:     *)
(* however offers, answers, rejections, hang-ups and timers of any number of *)
(* devices cross, and however often users hang up or reject, once everything *)
(* has arrived the connected devices are the caller and the one device its   *)
(* arbiter gave the call to, or none, and a device rings only if the caller  *)
(* is still calling (CallContext.tsx:582, hub.go:827); unless an offer or an *)
(* answer got through after the end or the rejection of the call. With the   *)
(* callee's devices on two nodes both arbiters can give the call away, and a *)
(* second call can be cleared by the first one's timer: there the ends may   *)
(* disagree.                                                                 *)
THEOREM EndsOfOneCall ==
  ASSUME MaxCalls = 1,
         \A c \in Callers : \A d, e \in Devices :
            UserOf[d] # UserOf[c] /\ UserOf[e] # UserOf[c] => NodeOf[d] = NodeOf[e]
  PROVE CallSpec => []EndsAgree
<1>0. AnswersOnOneNode
  BY DEF AnswersOnOneNode, Callees
<1>1. CallInit => CallInv
  BY DEF CallInv
<1>2. CallTypeOK /\ CallInv /\ [CallNext]_callVars => CallInv'
  <2>1. ASSUME UNCHANGED callVars, CallInv PROVE CallInv'
    BY <2>1, CallInvStutters
  <2> QED BY <1>0, <2>1, CallInvKept
<1>3. CallTypeOK /\ CallInv => EndsAgree
  BY CallInvAgrees
<1> QED BY <1>1, <1>2, <1>3, CallTypeHolds, PTL DEF CallSpec
===============================================================================
