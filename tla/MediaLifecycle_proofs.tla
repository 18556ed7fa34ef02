------------------------- MODULE MediaLifecycle_proofs -------------------------
(***************************************************************************)
(* Files and the retention of their messages: for any number of messages,  *)
(* files and nodes, of failures, crashes and forwarded copies.             *)
(***************************************************************************)
EXTENDS MediaLifecycle, TLAPS

Statuses == {"none", "active", "downloaded", "expired"}
Rows == [file : Files \union {NoFile}, status : Statuses, age : 0..2]
Saves == [step : {"save"}, node : Nodes, file : Files, status : Statuses]
Releases == [step : {"check", "enqueue"}, node : Nodes, file : Files, status : Statuses]
RequestKinds == {NoRequest} \union Saves \union Releases
Entries == [msg : Msgs, file : Files]
Purging == {"purge", "requeue", "mark"}
Draining == {"drain", "complete", "fail"}
Sweeping == {"sweep", "sweepQueue"}
Works == [at : {"rest"}, todo : {{}}]
         \union [at : {"purge"}, todo : SUBSET Entries]
         \union [at : {"requeue", "mark"}, todo : SUBSET Entries, with : Entries]
         \union [at : {"sweep", "drain"}, todo : SUBSET Files]
         \union [at : {"sweepQueue", "complete", "fail"}, todo : SUBSET Files, with : Files]

TypeOK ==
  /\ row \in [Msgs -> Rows]
  /\ request \in [Msgs -> RequestKinds]
  /\ worker \in [Nodes -> Works]
  /\ uploaded \subseteq Files /\ sent \subseteq uploaded /\ shared \subseteq sent
  /\ stored \subseteq uploaded /\ Queued \subseteq uploaded /\ due \subseteq Queued
  /\ ticket \in [Files -> {"none", "fresh", "old"}]
  /\ \A f \in Files \ uploaded : ticket[f] = "none"

(* A file that no message within its retention uses, nor will: it cannot   *)
(* be sent any more, and the rows that still name it are past it. A        *)
(* forwarded file is beyond what the code keeps track of.                  *)
Dead(f) == /\ f \in uploaded
           /\ f \in sent \/ ticket[f] # "fresh"
           /\ \A m \in Msgs : row[m].file = f => row[m].age = 2
Settled(f) == f \in shared \/ Dead(f)

(* A file that is deleted, will be, or was given up.                       *)
Gone(f) == f \notin stored \/ f \in Queued \union abandoned

(* What the worker read of a message holds to the end of its cycle.        *)
Listed(x) == row[x.msg].file = x.file /\ row[x.msg].age = 2

RowsOK ==
  /\ \A m \in Msgs : row[m].file # NoFile => row[m].file \in sent
  /\ \A m, k \in Msgs : row[m].file = row[k].file /\ row[m].file \notin shared \union {NoFile}
                          => m = k
  /\ \A m \in Msgs : request[m].step = "save" => row[m].file = NoFile

RequestOK(q) ==
  /\ q.step \in {"save", "check", "enqueue"} => q.file \in sent
  /\ q.step = "save" => q.file \in shared
  /\ q.step = "save" /\ q.status = "expired" => Gone(q.file)
  /\ q.step = "enqueue" => Settled(q.file)
RequestsOK == \A m \in Msgs : RequestOK(request[m])

WorkOK(w) ==
  /\ w.at \in Purging => \A x \in w.todo : Listed(x)
  /\ w.at \in Sweeping => \A f \in w.todo : f \in uploaded /\ ticket[f] # "fresh"
  /\ w.at \in Draining => \A f \in w.todo : Settled(f)
  /\ w.at \in {"requeue", "mark"} => Listed(w.with)
  /\ w.at = "mark" => Gone(w.with.file)
  /\ w.at \in {"sweepQueue", "complete", "fail"} => Settled(w.with)
  /\ w.at = "complete" => w.with \in uploaded \ stored
WorkersOK == \A n \in Nodes : WorkOK(worker[n])

QueueOK == \A f \in Queued : Settled(f)

(* The inductive invariant.                                                *)
MediaInv == /\ TypeOK /\ RowsOK /\ RequestsOK /\ WorkersOK /\ QueueOK
            /\ RetainedHasFile /\ ExpiredIsCleaned
--------------------------------------------------------------------------------
LEMMA Kinds ==
  /\ NoFile \notin Files
  /\ \A x \in Entries : x.msg \in Msgs /\ x.file \in Files
  /\ NoRequest.step = "none" /\ NoRequest \in RequestKinds
  /\ Resting \in Works /\ Resting.at = "rest"
  /\ NoRow \in Rows /\ NoRow.file = NoFile /\ NoRow.age = 0
  BY MediaAssumption DEF MediaAssumption, Entries, NoRequest, RequestKinds, Resting, Works, NoRow,
       Rows, Statuses

LEMMA WorkKinds ==
  ASSUME NEW w \in Works
  PROVE /\ w.at \in Purging => w.todo \subseteq Entries
        /\ w.at \in Sweeping \union Draining => w.todo \subseteq Files
        /\ w.at \in {"requeue", "mark"} => w.with \in Entries
        /\ w.at \in {"sweepQueue", "complete", "fail"} => w.with \in Files
        /\ w.at \in {"rest"} \union Purging \union Sweeping \union Draining
  BY DEF Works, Purging, Sweeping, Draining

LEMMA RequestFields ==
  ASSUME NEW q \in RequestKinds
  PROVE /\ q.step = "save" => q \in Saves
        /\ q.step \in {"check", "enqueue"} => q \in Releases
        /\ q.step \in {"none", "save", "check", "enqueue"}
        /\ q.step = "none" => q = NoRequest
  BY DEF RequestKinds, NoRequest, Saves, Releases

(* The row of one message, the request about one, the work of one node.    *)
LEMMA OneRow ==
  ASSUME TypeOK, NEW m \in Msgs, NEW r \in Rows, row' = [row EXCEPT ![m] = r]
  PROVE /\ row' \in [Msgs -> Rows] /\ row'[m] = r
        /\ \A k \in Msgs : k # m => row'[k] = row[k]
  BY DEF TypeOK

LEMMA OneRequest ==
  ASSUME TypeOK, NEW m \in Msgs, NEW q \in RequestKinds, request' = [request EXCEPT ![m] = q]
  PROVE /\ request' \in [Msgs -> RequestKinds] /\ request'[m] = q
        /\ \A k \in Msgs : k # m => request'[k] = request[k]
  BY DEF TypeOK

LEMMA OneWorker ==
  ASSUME TypeOK, NEW n \in Nodes, NEW w \in Works, worker' = [worker EXCEPT ![n] = w]
  PROVE /\ worker' \in [Nodes -> Works] /\ worker'[n] = w
        /\ \A u \in Nodes : u # n => worker'[u] = worker[u]
  BY DEF TypeOK

(* The queue's domain after a change.                                      *)
LEMMA QueueDomains ==
  ASSUME NEW f
  PROVE /\ queue' = Enqueued(f) => Queued' = Queued \union {f}
        /\ queue' = Restrict(queue, Queued \ {f}) => Queued' = Queued \ {f}
        /\ queue' = [queue EXCEPT ![f] = @ + 1] => Queued' = Queued
  BY DEF Queued, Enqueued, Restrict
--------------------------------------------------------------------------------
(* What no step undoes.                                                    *)
Keeps ==
  /\ uploaded \subseteq uploaded' /\ sent \subseteq sent' /\ shared \subseteq shared'
  /\ \A f \in uploaded : /\ ticket[f] # "fresh" => ticket'[f] # "fresh"
                         /\ f \notin stored => f \notin stored'
                         /\ Gone(f) => Gone(f)'
  /\ \A f \in Files : Settled(f) => Settled(f)'
  /\ \A x \in Entries : Listed(x) => Listed(x)'

LEMMA WorkersQuiet ==
  ASSUME TypeOK, RowsOK, WorkersOK, Keeps, NEW n \in Nodes, worker'[n] = worker[n]
  PROVE WorkOK(worker[n])'
<1> DEFINE w == worker[n]
<1>1. w \in Works /\ WorkOK(w)
  BY DEF TypeOK, WorkersOK
<1>2. /\ w.at \in Purging => \A x \in w.todo : Listed(x)'
      /\ w.at \in {"requeue", "mark"} => Listed(w.with) /\ w.with \in Entries
  BY <1>1, WorkKinds DEF WorkOK, Keeps
<1>3. /\ w.at \in Sweeping => \A f \in w.todo : f \in uploaded' /\ ticket'[f] # "fresh"
      /\ w.at \in Draining => \A f \in w.todo : Settled(f)'
      /\ w.at \in {"sweepQueue", "complete", "fail"} => Settled(w.with) /\ w.with \in Files
      /\ w.at = "complete" => w.with \in uploaded' \ stored'
  BY <1>1, WorkKinds DEF WorkOK, Keeps
<1>4. w.at = "mark" => w.with.file \in uploaded /\ Gone(w.with.file)
  <2>1. w.at = "mark" => row[w.with.msg].file = w.with.file /\ row[w.with.msg].file # NoFile
                         /\ w.with.msg \in Msgs
    BY <1>2, Kinds DEF Listed
  <2> QED BY <1>1, <2>1 DEF WorkOK, RowsOK, TypeOK
<1> QED BY <1>2, <1>3, <1>4, WorkKinds DEF WorkOK, Keeps, Listed

LEMMA RequestsQuiet ==
  ASSUME TypeOK, RequestsOK, Keeps, NEW m \in Msgs, request'[m] = request[m]
  PROVE RequestOK(request[m])'
<1>1. request[m] \in RequestKinds /\ RequestOK(request[m])
  BY DEF TypeOK, RequestsOK
<1>2. request[m].step \in {"save", "check", "enqueue"} => request[m].file \in uploaded
                                                          /\ request[m].file \in Files
  BY <1>1 DEF RequestOK, TypeOK
<1> QED BY <1>1, <1>2 DEF RequestOK, Keeps

LEMMA QueueQuiet ==
  ASSUME TypeOK, QueueOK, Keeps,
         \A f \in Queued' : f \in Queued \/ (f \in uploaded /\ Settled(f))
  PROVE QueueOK'
  BY DEF TypeOK, QueueOK, Keeps

LEMMA RowsQuiet ==
  ASSUME RowsOK, Keeps, UNCHANGED row,
         \A m \in Msgs : request'[m].step = "save" => request'[m] = request[m]
  PROVE RowsOK'
  BY DEF RowsOK, Keeps

(* A file that goes is nobody's, or its only message is past it.           *)
LEMMA RetainedQuiet ==
  ASSUME TypeOK, RetainedHasFile, UNCHANGED row, shared \subseteq shared',
         \A f \in stored \ stored' : Settled(f) \/ \E x \in Entries : Listed(x) /\ x.file = f,
         RowsOK
  PROVE RetainedHasFile'
<1> SUFFICES ASSUME NEW m \in Msgs, Retains(m), row[m].file \notin shared,
                    row[m].file \in stored, row[m].file \notin stored'
             PROVE FALSE
  BY DEF RetainedHasFile, Retains
<1>1. row[m].file \in Files /\ row[m].age # 2
  BY DEF TypeOK, Retains
<1>2. ~Settled(row[m].file)
  BY <1>1 DEF Settled, Dead
<1>3. PICK x \in Entries : Listed(x) /\ x.file = row[m].file
  BY <1>2
<1>4. x.msg = m
  BY <1>3, Kinds, <1>1 DEF RowsOK, Listed
<1> QED BY <1>1, <1>3, <1>4 DEF Listed

LEMMA ExpiredQuiet ==
  ASSUME TypeOK, RowsOK, ExpiredIsCleaned, UNCHANGED row, Keeps
  PROVE ExpiredIsCleaned'
  BY DEF TypeOK, RowsOK, ExpiredIsCleaned, Keeps, Gone

(* Steps of the worker and the queue, of requests and of time that leave   *)
(* rows alone: what is left to show of each.                               *)
LEMMA QuietStep ==
  ASSUME MediaInv, TypeOK', UNCHANGED row, Keeps,
         \A f \in Queued' : f \in Queued \/ (f \in uploaded /\ Settled(f)),
         \A f \in stored \ stored' : Settled(f) \/ \E x \in Entries : Listed(x) /\ x.file = f,
         \A m \in Msgs : request'[m].step = "save" => request'[m] = request[m],
         \A m \in Msgs : request'[m] = request[m] \/ RequestOK(request[m])',
         \A n \in Nodes : worker'[n] = worker[n] \/ WorkOK(worker[n])'
  PROVE MediaInv'
<1>1. RowsOK' /\ QueueOK' /\ RetainedHasFile' /\ ExpiredIsCleaned'
  BY RowsQuiet, QueueQuiet, RetainedQuiet, ExpiredQuiet DEF MediaInv, Keeps
<1>2. RequestsOK'
  BY RequestsQuiet DEF MediaInv, RequestsOK
<1>3. WorkersOK'
  BY WorkersQuiet DEF MediaInv, WorkersOK
<1> QED BY <1>1, <1>2, <1>3 DEF MediaInv

LEMMA FilesKeep ==
  ASSUME UNCHANGED <<row, once, ticket>>, stored' \subseteq stored,
         \A f \in uploaded : Gone(f) => Gone(f)'
  PROVE Keeps
  BY DEF once, Keeps, Settled, Dead, Listed

(* Rows that keep their file, lose it in time, or take a forwarded one.    *)
LEMMA RowsKeep ==
  ASSUME TypeOK, UNCHANGED <<once, ticket, stored, queue, abandoned>>, row' \in [Msgs -> Rows],
         \A m \in Msgs : /\ row'[m].file \in {NoFile, row[m].file} \union shared
                         /\ row'[m].file = row[m].file /\ row[m].age = 2 => row'[m].age = 2
                         /\ row[m].file # NoFile /\ row[m].age = 2 => row'[m].file = row[m].file
  PROVE Keeps
<1>1. \A f \in Files : Settled(f) => Settled(f)'
  BY Kinds DEF TypeOK, once, Settled, Dead
<1>2. \A x \in Entries : Listed(x) => Listed(x)'
  BY Kinds DEF Listed
<1> QED BY <1>1, <1>2 DEF once, Keeps, Gone, Queued

LEMMA SameFiles ==
  ASSUME MediaInv, TypeOK', UNCHANGED <<once, ticket, stored, queue, abandoned, request>>,
         \A m \in Msgs : /\ row'[m].file = row[m].file
                         /\ row[m].age = 2 => row'[m].age = 2
                         /\ row'[m].age < 2 => row[m].age < 2
                         /\ row[m].file # NoFile /\ row'[m].status \in Retained
                              => row[m].status \in Retained
                         /\ row[m].file # NoFile /\ row'[m].status = "expired"
                              => row[m].status = "expired" \/ Gone(row[m].file),
         \A n \in Nodes : worker'[n] = worker[n] \/ WorkOK(worker[n])'
  PROVE MediaInv'
<1>1. Keeps
  BY RowsKeep DEF MediaInv, TypeOK
<1>2. RowsOK'
  BY DEF MediaInv, RowsOK, once
<1>3. RequestsOK'
  BY <1>1, RequestsQuiet DEF MediaInv, RequestsOK
<1>4. WorkersOK'
  BY <1>1, WorkersQuiet DEF MediaInv, WorkersOK
<1>5. QueueOK'
  <2>1. Queued' = Queued
    BY DEF Queued
  <2> QED BY <1>1, <2>1, QueueQuiet DEF MediaInv
<1>6. RetainedHasFile'
  BY DEF MediaInv, RetainedHasFile, Retains, once
<1>7. ExpiredIsCleaned'
  BY DEF MediaInv, ExpiredIsCleaned, Gone, Queued
<1> QED BY <1>1, <1>2, <1>3, <1>4, <1>5, <1>6, <1>7 DEF MediaInv
--------------------------------------------------------------------------------
(* Users.                                                                  *)
LEMMA UploadStep ==
  ASSUME MediaInv, NEW f \in Files, Upload(f)
  PROVE MediaInv'
<1> USE DEF MediaInv
<1>1. TypeOK'
  BY DEF Upload, TypeOK, Queued
<1>2. \A g \in uploaded : /\ ticket'[g] = ticket[g]
                          /\ g \in stored' <=> g \in stored
  BY DEF Upload, TypeOK
<1>3. Keeps
  <2>1. \A g \in Files : Settled(g) => Settled(g)'
    BY <1>2 DEF Upload, Settled, Dead
  <2>2. \A g \in uploaded : Gone(g) => Gone(g)'
    BY <1>2 DEF Upload, Gone, Queued
  <2> QED BY <1>2, <2>1, <2>2 DEF Upload, Keeps, Listed
<1>4. stored \ stored' = {}
  BY DEF Upload
<1>5. UNCHANGED <<row, request, worker, queue>>
  BY DEF Upload
<1>6. Queued' = Queued
  BY <1>5 DEF Queued
<1> QED BY <1>1, <1>3, <1>4, <1>5, <1>6, QuietStep

LEMMA TicketStep ==
  ASSUME MediaInv, NEW f \in Files, TicketAges(f)
  PROVE MediaInv'
<1> USE DEF MediaInv
<1>1. TypeOK'
  BY DEF TicketAges, TypeOK, Queued, once
<1>2. \A g \in Files : ticket[g] # "fresh" => ticket'[g] # "fresh"
  BY DEF TicketAges, TypeOK
<1>3. Keeps
  <2>1. \A g \in Files : Settled(g) => Settled(g)'
    BY <1>2 DEF TicketAges, Settled, Dead, once
  <2>2. \A g \in uploaded : Gone(g) => Gone(g)'
    BY DEF TicketAges, Gone, Queued
  <2> QED BY <1>2, <2>1, <2>2 DEF TicketAges, Keeps, Listed, once, TypeOK
<1>4. UNCHANGED <<row, request, worker, queue, stored>>
  BY DEF TicketAges
<1>5. Queued' = Queued /\ stored \ stored' = {}
  BY <1>4 DEF Queued
<1> QED BY <1>1, <1>3, <1>4, <1>5, QuietStep

LEMMA DueStep ==
  ASSUME MediaInv, NEW f \in Files, ComesDue(f)
  PROVE MediaInv'
<1> USE DEF MediaInv
<1>1. TypeOK'
  BY DEF ComesDue, TypeOK, Queued, once
<1>2. UNCHANGED <<row, once, ticket, request, worker, queue, stored, abandoned>>
  BY DEF ComesDue
<1>3. Queued' = Queued /\ stored \ stored' = {}
  BY <1>2 DEF Queued
<1>4. Keeps
  BY <1>2, <1>3, FilesKeep DEF Gone
<1> QED BY <1>1, <1>2, <1>3, <1>4, QuietStep

LEMMA SendStep ==
  ASSUME MediaInv, NEW m \in Msgs, NEW f \in Files, Send(m, f)
  PROVE MediaInv'
<1> USE DEF MediaInv
<1> DEFINE r == [file |-> f, status |-> "active", age |-> 0]
<1>1. r \in Rows
  BY DEF Rows, Statuses
<1>2. /\ row' \in [Msgs -> Rows] /\ row'[m] = r
      /\ \A k \in Msgs : k # m => row'[k] = row[k]
  BY <1>1, OneRow DEF Send
<1>3. TypeOK'
  BY <1>2 DEF Send, TypeOK, Queued
<1>4. f \notin sent /\ f \in stored /\ f \in uploaded /\ f # NoFile /\ row[m].file = NoFile
      /\ request[m].step = "none" /\ ticket[f] = "fresh"
  BY Kinds DEF Send, TypeOK
<1>5. sent' = sent \union {f} /\ UNCHANGED <<uploaded, shared, stored, queue, ticket, request, worker, abandoned>>
  BY DEF Send
<1>6. Keeps
  <2>1. ASSUME NEW g \in Files, Settled(g) PROVE Settled(g)'
    <3>1. g # f
      BY <2>1, <1>4 DEF Settled, Dead, TypeOK
    <3> QED BY <2>1, <3>1, <1>2, <1>5 DEF Settled, Dead
  <2>2. \A x \in Entries : Listed(x) => Listed(x)'
    BY <1>2, <1>4, Kinds DEF Listed
  <2> QED BY <1>5, <2>1, <2>2 DEF Keeps, Gone, Queued
<1>7. RowsOK'
  BY <1>2, <1>4, <1>5 DEF RowsOK
<1>8. RequestsOK' /\ WorkersOK' /\ QueueOK'
  <2>1. Queued' = Queued
    BY <1>5 DEF Queued
  <2>2. QueueOK'
    BY <1>6, <2>1, QueueQuiet
  <2>3. RequestsOK'
    BY <1>5, <1>6, RequestsQuiet DEF RequestsOK
  <2>4. WorkersOK'
    BY <1>5, <1>6, WorkersQuiet DEF WorkersOK
  <2> QED BY <2>2, <2>3, <2>4
<1>9. RetainedHasFile'
  BY <1>2, <1>4, <1>5 DEF RetainedHasFile, Retains
<1>10. ExpiredIsCleaned'
  BY <1>2, <1>5 DEF ExpiredIsCleaned, Queued
<1> QED BY <1>3, <1>6, <1>7, <1>8, <1>9, <1>10

LEMMA AcknowledgeStep ==
  ASSUME MediaInv, NEW m \in Msgs, Acknowledge(m)
  PROVE MediaInv'
<1> USE DEF MediaInv
<1> DEFINE r == [row[m] EXCEPT !.status = "downloaded"]
<1>1. r \in Rows /\ r.file = row[m].file /\ r.age = row[m].age /\ r.status = "downloaded"
  BY DEF TypeOK, Rows, Statuses
<1>2. /\ row' \in [Msgs -> Rows] /\ row'[m] = r
      /\ \A k \in Msgs : k # m => row'[k] = row[k]
  <2>1. row' = [row EXCEPT ![m] = r]
    BY DEF Acknowledge
  <2> HIDE DEF r
  <2> QED BY <1>1, <2>1, OneRow
<1>3. TypeOK'
  BY <1>2 DEF Acknowledge, TypeOK, Queued, once
<1>4. row[m].status \in Retained
  BY DEF Acknowledge, Retained
<1>5. UNCHANGED <<once, ticket, stored, queue, abandoned, request, worker>>
  BY DEF Acknowledge
<1>6. \A k \in Msgs : /\ row'[k].file = row[k].file /\ row'[k].age = row[k].age
                      /\ row'[k].status \in Retained => row[k].status \in Retained
                      /\ row'[k].status = "expired" => row[k].status = "expired"
  BY <1>1, <1>2, <1>4
<1> QED BY <1>3, <1>5, <1>6, SameFiles

LEMMA AgeStep ==
  ASSUME MediaInv, NEW m \in Msgs, RowAges(m)
  PROVE MediaInv'
<1> USE DEF MediaInv
<1> DEFINE r == [row[m] EXCEPT !.age = @ + 1]
<1>1. r \in Rows /\ r.file = row[m].file /\ r.age = row[m].age + 1 /\ r.status = row[m].status
      /\ row[m].age \in 0..1
  BY DEF TypeOK, Rows, RowAges
<1>2. /\ row' \in [Msgs -> Rows] /\ row'[m] = r
      /\ \A k \in Msgs : k # m => row'[k] = row[k]
  <2>1. row' = [row EXCEPT ![m] = r]
    BY DEF RowAges
  <2> HIDE DEF r
  <2> QED BY <1>1, <2>1, OneRow
<1>3. TypeOK'
  BY <1>2 DEF RowAges, TypeOK, Queued, once
<1>5. UNCHANGED <<once, ticket, stored, queue, abandoned, request, worker>>
  BY DEF RowAges
<1>6. \A k \in Msgs : /\ row'[k].file = row[k].file
                      /\ row[k].age = 2 => row'[k].age = 2
                      /\ row'[k].age < 2 => row[k].age < 2
                      /\ row'[k].status = row[k].status
  <2> HIDE DEF r
  <2> TAKE k \in Msgs
  <2>1. CASE k = m
    BY <1>1, <1>2, <2>1
  <2>2. CASE k # m
    BY <1>2, <2>2
  <2> QED BY <2>1, <2>2
<1> QED BY <1>3, <1>5, <1>6, SameFiles

--------------------------------------------------------------------------------
(* Requests.                                                               *)
LEMMA ForwardReadStep ==
  ASSUME MediaInv, NEW n \in Nodes, NEW src \in Msgs, NEW m \in Msgs, ForwardRead(n, src, m)
  PROVE MediaInv'
<1> USE DEF MediaInv
<1> DEFINE q == [step |-> "save", node |-> n, file |-> row[src].file, status |-> row[src].status]
<1>1. /\ row[src] \in Rows /\ row[src].file \in sent /\ row[src].file \in Files
      /\ row[src].status = "expired" => Gone(row[src].file)
      /\ row[m].file = NoFile
  BY Kinds DEF ForwardRead, TypeOK, RowsOK, ExpiredIsCleaned, Gone, Rows
<1>2. q \in RequestKinds /\ q.step = "save" /\ q.file = row[src].file /\ q.status = row[src].status
  BY <1>1 DEF RequestKinds, Saves, Rows
<1>3. /\ request' \in [Msgs -> RequestKinds] /\ request'[m] = q
      /\ \A k \in Msgs : k # m => request'[k] = request[k]
  BY <1>2, OneRequest DEF ForwardRead
<1> HIDE DEF q
<1>4. /\ UNCHANGED <<uploaded, sent, row, stored, queue, due, ticket, worker, abandoned>>
      /\ shared' = shared \union {row[src].file}
  BY DEF ForwardRead
<1>5. TypeOK'
  BY <1>1, <1>3, <1>4 DEF TypeOK, Queued
<1>6. Keeps
  BY <1>4 DEF Keeps, Settled, Dead, Listed, Gone, Queued
<1>7. RowsOK'
  BY <1>1, <1>3, <1>4 DEF RowsOK
<1>8. RequestsOK'
  <2>1. RequestOK(request[m])'
    BY <1>1, <1>2, <1>3, <1>4 DEF RequestOK, Gone, Queued
  <2> QED BY <1>3, <1>6, <2>1, RequestsQuiet DEF RequestsOK
<1>9. WorkersOK'
  BY <1>4, <1>6, WorkersQuiet DEF WorkersOK
<1>10. QueueOK'
  <2>1. Queued' = Queued
    BY <1>4 DEF Queued
  <2> QED BY <1>6, <2>1, QueueQuiet
<1>11. RetainedHasFile' /\ ExpiredIsCleaned'
  BY <1>4 DEF RetainedHasFile, Retains, ExpiredIsCleaned, Queued
<1> QED BY <1>5, <1>7, <1>8, <1>9, <1>10, <1>11

LEMMA ForwardSaveStep ==
  ASSUME MediaInv, NEW m \in Msgs, ForwardSave(m)
  PROVE MediaInv'
<1> USE DEF MediaInv
<1> DEFINE r == [file |-> request[m].file, status |-> request[m].status, age |-> 0]
<1>1. /\ request[m] \in Saves /\ request[m].file \in shared /\ request[m].file \in sent
      /\ request[m].file \in Files /\ row[m].file = NoFile
      /\ request[m].status = "expired" => Gone(request[m].file)
  <2>1. request[m] \in RequestKinds /\ RequestOK(request[m]) /\ request[m].step = "save"
    BY DEF ForwardSave, TypeOK, RequestsOK
  <2> QED BY <2>1, RequestFields DEF RequestOK, RowsOK, TypeOK
<1>2. r \in Rows /\ r.file = request[m].file /\ r.status = request[m].status /\ r.age = 0
  BY <1>1 DEF Rows, Saves
<1>3. /\ request' \in [Msgs -> RequestKinds] /\ request'[m].step = "none"
      /\ \A k \in Msgs : k # m => request'[k] = request[k]
  BY Kinds, OneRequest DEF ForwardSave
<1>4. UNCHANGED <<once, stored, queue, due, ticket, worker, abandoned>>
  BY DEF ForwardSave
<1>5. /\ row' \in [Msgs -> Rows] /\ row'[m] \in {r, row[m]}
      /\ \A k \in Msgs : k # m => row'[k] = row[k]
  <2>1. row' = [row EXCEPT ![m] = r] \/ row' = row
    BY DEF ForwardSave
  <2> HIDE DEF r
  <2>2. CASE row' = [row EXCEPT ![m] = r]
    BY <1>2, <2>2, OneRow
  <2>3. CASE row' = row
    BY <2>3 DEF TypeOK
  <2> QED BY <2>1, <2>2, <2>3
<1> HIDE DEF r
<1>6. TypeOK'
  BY <1>3, <1>4, <1>5 DEF TypeOK, Queued, once
<1>7. Keeps
  <2>1. \A k \in Msgs : /\ row'[k].file \in {NoFile, row[k].file} \union shared
                        /\ row'[k].file = row[k].file => row'[k] = row[k]
                        /\ row[k].file # NoFile => row'[k].file = row[k].file
    BY <1>1, <1>2, <1>5, Kinds
  <2> QED BY <1>4, <1>5, <2>1, RowsKeep DEF ForwardSave
<1>8. RowsOK'
  <2>1. row'[m].file \in shared \union {NoFile}
    BY <1>1, <1>2, <1>5
  <2> QED BY <1>1, <1>2, <1>3, <1>4, <1>5, <2>1 DEF RowsOK, once
<1>9. RequestsOK'
  <2>1. RequestOK(request[m])'
    BY <1>3 DEF RequestOK
  <2> QED BY <1>3, <1>7, <2>1, RequestsQuiet DEF RequestsOK
<1>10. WorkersOK'
  BY <1>4, <1>7, WorkersQuiet DEF WorkersOK
<1>11. QueueOK'
  <2>1. Queued' = Queued
    BY <1>4 DEF Queued
  <2> QED BY <1>7, <2>1, QueueQuiet
<1>12. RetainedHasFile'
  BY <1>1, <1>2, <1>4, <1>5 DEF RetainedHasFile, Retains, once
<1>13. ExpiredIsCleaned'
  BY <1>1, <1>2, <1>4, <1>5 DEF ExpiredIsCleaned, Queued, Gone
<1> QED BY <1>6, <1>8, <1>9, <1>10, <1>11, <1>12, <1>13

LEMMA DeleteStep ==
  ASSUME MediaInv, NEW n \in Nodes, NEW m \in Msgs, DeleteForEveryone(n, m)
  PROVE MediaInv'
<1> USE DEF MediaInv
<1> DEFINE r == [row[m] EXCEPT !.file = NoFile]
           q == [step |-> "check", node |-> n, file |-> row[m].file, status |-> "active"]
<1>1. /\ row[m] \in Rows /\ row[m].file \in sent /\ row[m].file \in Files /\ row[m].age = 0
      /\ row[m].file # NoFile
  BY Kinds DEF DeleteForEveryone, TypeOK, RowsOK, Rows
<1>2. r \in Rows /\ r.file = NoFile
  BY <1>1 DEF Rows
<1>3. q \in RequestKinds /\ q.step = "check" /\ q.file = row[m].file
  BY <1>1 DEF RequestKinds, Releases, Statuses
<1>4. /\ request' \in [Msgs -> RequestKinds] /\ request'[m] = q
      /\ \A k \in Msgs : k # m => request'[k] = request[k]
  BY <1>3, OneRequest DEF DeleteForEveryone
<1>5. /\ row' \in [Msgs -> Rows] /\ row'[m] = r
      /\ \A k \in Msgs : k # m => row'[k] = row[k]
  <2>1. row' = [row EXCEPT ![m] = r]
    BY DEF DeleteForEveryone
  <2> HIDE DEF r
  <2> QED BY <1>2, <2>1, OneRow
<1>6. UNCHANGED <<once, stored, queue, due, ticket, worker, abandoned>>
  BY DEF DeleteForEveryone
<1> HIDE DEF r, q
<1>7. TypeOK'
  BY <1>4, <1>5, <1>6 DEF TypeOK, Queued, once
<1>8. Keeps
  BY <1>1, <1>2, <1>5, <1>6, RowsKeep
<1>9. RowsOK'
  BY <1>2, <1>3, <1>4, <1>5, <1>6 DEF RowsOK, once
<1>10. RequestsOK'
  <2>1. RequestOK(request[m])'
    BY <1>1, <1>3, <1>4, <1>6 DEF RequestOK, once
  <2> QED BY <1>4, <1>8, <2>1, RequestsQuiet DEF RequestsOK
<1>11. WorkersOK'
  BY <1>6, <1>8, WorkersQuiet DEF WorkersOK
<1>12. QueueOK'
  <2>1. Queued' = Queued
    BY <1>6 DEF Queued
  <2> QED BY <1>8, <2>1, QueueQuiet
<1>13. RetainedHasFile' /\ ExpiredIsCleaned'
  BY <1>2, <1>5, <1>6 DEF RetainedHasFile, Retains, ExpiredIsCleaned, Queued, once
<1> QED BY <1>7, <1>9, <1>10, <1>11, <1>12, <1>13

LEMMA ReleaseStep ==
  ASSUME MediaInv, NEW m \in Msgs, ReleaseCheck(m) \/ ReleaseEnqueue(m)
  PROVE MediaInv'
<1> USE DEF MediaInv
<1>1. /\ request[m] \in Releases /\ request[m].file \in sent /\ request[m].file \in Files
      /\ request[m].file \in uploaded
      /\ request[m].step = "enqueue" => Settled(request[m].file)
  <2>1. request[m] \in RequestKinds /\ RequestOK(request[m])
        /\ request[m].step \in {"check", "enqueue"}
    BY DEF ReleaseCheck, ReleaseEnqueue, TypeOK, RequestsOK
  <2> QED BY <2>1, RequestFields DEF RequestOK, TypeOK
<1> DEFINE q == [request[m] EXCEPT !.step = "enqueue"]
<1>2. q \in RequestKinds /\ q.step = "enqueue" /\ q.file = request[m].file
  BY <1>1 DEF RequestKinds, Releases
<1>3. /\ UNCHANGED <<once, row, stored, due, ticket, worker, abandoned>>
      /\ \/ request' = [request EXCEPT ![m] = NoRequest]
         \/ request' = [request EXCEPT ![m] = q] /\ UsedBy(request[m].file) = {}
      /\ \/ queue' = queue
         \/ queue' = Enqueued(request[m].file) /\ Settled(request[m].file)
  <2>1. CASE ReleaseCheck(m)
    BY <2>1 DEF ReleaseCheck
  <2>2. CASE ReleaseEnqueue(m)
    BY <1>1, <2>2 DEF ReleaseEnqueue
  <2> QED BY <2>1, <2>2
<1> HIDE DEF q
<1>4. /\ request' \in [Msgs -> RequestKinds]
      /\ \/ request'[m] = NoRequest
         \/ request'[m] = q /\ UsedBy(request[m].file) = {}
      /\ \A k \in Msgs : k # m => request'[k] = request[k]
  <2>1. CASE request' = [request EXCEPT ![m] = NoRequest]
    BY <2>1, Kinds, OneRequest
  <2>2. CASE request' = [request EXCEPT ![m] = q] /\ UsedBy(request[m].file) = {}
    BY <1>2, <2>2, OneRequest
  <2> QED BY <1>3, <2>1, <2>2
<1>5. Queued \subseteq Queued'
  BY <1>3, QueueDomains DEF Queued
<1>6. \A f \in Queued' : f \in Queued \/ (f \in uploaded /\ Settled(f))
  <2>1. CASE queue' = queue
    BY <2>1 DEF Queued
  <2>2. CASE queue' = Enqueued(request[m].file) /\ Settled(request[m].file)
    <3>1. Queued' = Queued \union {request[m].file}
      BY <2>2, QueueDomains
    <3> QED BY <1>1, <2>2, <3>1
  <2> QED BY <1>3, <2>1, <2>2
<1>7. TypeOK'
  BY <1>3, <1>4, <1>5, <1>6 DEF TypeOK, once
<1>8. Keeps
  BY <1>3, <1>5, FilesKeep DEF Gone
<1>9. RequestOK(request[m])'
  <2>1. CASE request'[m] = NoRequest
    BY <2>1, Kinds DEF RequestOK
  <2>2. CASE request'[m] = q /\ UsedBy(request[m].file) = {}
    <3>1. Settled(request[m].file)
      BY <1>1, <2>2 DEF Settled, Dead, UsedBy
    <3> PICK f \in Files : f = request[m].file
      BY <1>1
    <3>2. f \in Files /\ f \in sent' /\ Settled(f)'
      <4>1. UNCHANGED <<row, once, ticket>>
        BY <1>3
      <4> QED BY <1>1, <3>1, <4>1 DEF Settled, Dead, once
    <3> QED BY <1>2, <2>2, <3>2 DEF RequestOK, Settled, Dead
  <2> QED BY <1>4, <2>1, <2>2
<1>10. stored \ stored' = {} /\ row' = row /\ worker' = worker
  BY <1>3
<1>11. \A k \in Msgs : /\ request'[k].step = "save" => request'[k] = request[k]
                       /\ request'[k] = request[k] \/ RequestOK(request[k])'
  BY <1>2, <1>4, <1>9, Kinds
<1> QED BY <1>6, <1>7, <1>8, <1>10, <1>11, QuietStep

LEMMA CrashStep ==
  ASSUME MediaInv, NEW n \in Nodes, Crash(n)
  PROVE MediaInv'
<1> USE DEF MediaInv
<1>1. \A m \in Msgs : request'[m] = request[m] \/ request'[m] = NoRequest
  BY DEF Crash
<1>2. request' \in [Msgs -> RequestKinds]
  BY Kinds DEF Crash, TypeOK
<1>3. /\ worker' \in [Nodes -> Works] /\ worker'[n].at = "rest"
      /\ \A u \in Nodes : u # n => worker'[u] = worker[u]
  BY Kinds, OneWorker DEF Crash
<1>4. UNCHANGED <<once, row, stored, queue, due, ticket, abandoned>>
  BY DEF Crash
<1>5. Queued' = Queued /\ stored \ stored' = {}
  BY <1>4 DEF Queued
<1>6. TypeOK'
  BY <1>2, <1>3, <1>4, <1>5 DEF TypeOK, once
<1>7. Keeps
  BY <1>4, <1>5, FilesKeep DEF Gone
<1>8. WorkOK(worker[n])'
  BY <1>3 DEF WorkOK, Purging, Sweeping, Draining
<1>9. \A m \in Msgs : /\ request'[m].step = "save" => request'[m] = request[m]
                      /\ request'[m] = request[m] \/ RequestOK(request[m])'
  BY <1>1, Kinds DEF RequestOK
<1> QED BY <1>3, <1>4, <1>5, <1>6, <1>7, <1>8, <1>9, QuietStep
--------------------------------------------------------------------------------
(* The worker. Its list shrinks and the phase changes; what it handles is  *)
(* one of the list.                                                        *)
LEMMA ListSteps ==
  ASSUME TypeOK, NEW n \in Nodes, NEW phase, NEW todo
  PROVE /\ Go(n, phase, todo) /\ [at |-> phase, todo |-> todo] \in Works =>
             /\ worker' \in [Nodes -> Works] /\ worker'[n] = [at |-> phase, todo |-> todo]
             /\ \A u \in Nodes : u # n => worker'[u] = worker[u]
        /\ \A x : LET w == [at |-> phase, todo |-> worker[n].todo \ {x}, with |-> x]
                  IN Take(n, phase, x) /\ w \in Works =>
                       /\ worker' \in [Nodes -> Works] /\ worker'[n] = w
                       /\ \A u \in Nodes : u # n => worker'[u] = worker[u]
<1>1. ASSUME Go(n, phase, todo), [at |-> phase, todo |-> todo] \in Works
      PROVE /\ worker' \in [Nodes -> Works] /\ worker'[n] = [at |-> phase, todo |-> todo]
            /\ \A u \in Nodes : u # n => worker'[u] = worker[u]
  BY <1>1, OneWorker DEF Go
<1>2. ASSUME NEW x, Take(n, phase, x),
             [at |-> phase, todo |-> worker[n].todo \ {x}, with |-> x] \in Works
      PROVE /\ worker' \in [Nodes -> Works]
            /\ worker'[n] = [at |-> phase, todo |-> worker[n].todo \ {x}, with |-> x]
            /\ \A u \in Nodes : u # n => worker'[u] = worker[u]
  <2>1. worker' = [worker EXCEPT ![n] = [at |-> phase, todo |-> worker[n].todo \ {x}, with |-> x]]
    BY <1>2 DEF Take, TypeOK
  <2> QED BY <1>2, <2>1, OneWorker
<1> QED BY <1>1, <1>2

(* A worker's step that leaves rows and requests alone.                    *)
LEMMA WorkerStep ==
  ASSUME MediaInv, NEW n \in Nodes, NEW w \in Works,
         worker' \in [Nodes -> Works], worker'[n] = w,
         \A u \in Nodes : u # n => worker'[u] = worker[u],
         UNCHANGED <<once, row, request>>, stored' \subseteq stored,
         ticket' \in [Files -> {"none", "fresh", "old"}],
         \A f \in Files : ticket'[f] \in {ticket[f], "none"},
         \A f \in uploaded : Gone(f) => Gone(f)',
         \A f \in Queued' : f \in Queued \/ (f \in uploaded /\ Settled(f)),
         due' \subseteq Queued',
         \A f \in stored \ stored' : Settled(f) \/ \E x \in Entries : Listed(x) /\ x.file = f,
         Keeps => WorkOK(worker[n])'
  PROVE MediaInv'
<1> USE DEF MediaInv
<1>1. TypeOK'
  BY DEF TypeOK, once
<1>2. Keeps
  BY DEF once, Keeps, Settled, Dead, Listed, TypeOK
<1>3. \A m \in Msgs : request'[m] = request[m]
  OBVIOUS
<1> QED BY <1>1, <1>2, <1>3, QuietStep

LEMMA StartCycleStep ==
  ASSUME MediaInv, NEW n \in Nodes, StartCycle(n)
  PROVE MediaInv'
<1> USE DEF MediaInv
<1> DEFINE all == {[msg |-> m, file |-> row[m].file] : m \in DueForPurge}
<1>1. all \subseteq Entries /\ \A x \in all : Listed(x)
  BY DEF DueForPurge, Entries, TypeOK, Rows, Listed
<1> HIDE DEF all
<1>2. PICK todo \in {all, {}} : Go(n, "purge", todo)
  BY DEF StartCycle, all
<1> DEFINE w == [at |-> "purge", todo |-> todo]
<1>3. w \in Works /\ w.at = "purge" /\ w.todo = todo
  BY <1>1 DEF Works
<1>4. /\ worker' \in [Nodes -> Works] /\ worker'[n] = w
      /\ \A u \in Nodes : u # n => worker'[u] = worker[u]
  BY <1>2, <1>3, ListSteps
<1> HIDE DEF w
<1>5. UNCHANGED <<once, row, stored, queue, due, ticket, request, abandoned>>
  BY DEF StartCycle
<1>6. Queued' = Queued
  BY <1>5 DEF Queued
<1>7. WorkOK(worker[n])'
  <2>1. \A x \in todo : Listed(x)'
    BY <1>1, <1>2, <1>5 DEF Listed
  <2> QED BY <1>3, <1>4, <2>1 DEF WorkOK, Purging, Sweeping, Draining
<1> QED BY <1>3, <1>4, <1>5, <1>6, <1>7, WorkerStep DEF TypeOK, Gone

LEMMA PurgeFileStep ==
  ASSUME MediaInv, NEW n \in Nodes, PurgeFile(n)
  PROVE MediaInv'
<1> USE DEF MediaInv
<1>1. worker[n] \in Works /\ worker[n].at = "purge" /\ WorkOK(worker[n])
  BY DEF TypeOK, WorkersOK, PurgeFile, On
<1>2. worker[n].todo \subseteq Entries /\ \A x \in worker[n].todo : Listed(x)
  BY <1>1, WorkKinds DEF WorkOK, Purging
<1>3. PICK x \in worker[n].todo : \/ Take(n, "mark", x) /\ stored' = stored \ {x.file}
                                  \/ Take(n, "requeue", x) /\ stored' \in {stored, stored \ {x.file}}
  BY DEF PurgeFile
<1>4. PICK phase \in {"mark", "requeue"} :
        /\ Take(n, phase, x)
        /\ stored' \in {stored, stored \ {x.file}}
        /\ phase = "mark" => x.file \notin stored'
  BY <1>3
<1> DEFINE w == [at |-> phase, todo |-> worker[n].todo \ {x}, with |-> x]
<1>5. w \in Works /\ w.at = phase /\ w.todo = worker[n].todo \ {x} /\ w.with = x
  BY <1>2, <1>4 DEF Works
<1>6. /\ worker' \in [Nodes -> Works] /\ worker'[n] = w
      /\ \A u \in Nodes : u # n => worker'[u] = worker[u]
  BY <1>4, <1>5, ListSteps
<1> HIDE DEF w
<1>7. UNCHANGED <<once, row, queue, due, ticket, request, abandoned>>
  BY DEF PurgeFile
<1>8. Queued' = Queued /\ due \subseteq Queued
  BY <1>7 DEF Queued, TypeOK
<1>9. WorkOK(worker[n])'
  <2>1. \A y \in worker[n].todo : Listed(y)'
    BY <1>2, <1>7 DEF Listed
  <2>2. phase = "mark" => Gone(x.file)'
    <3> PICK f : f = x.file
      OBVIOUS
    <3> QED BY <1>4 DEF Gone
  <2> QED BY <1>2, <1>4, <1>5, <1>6, <2>1, <2>2 DEF WorkOK, Purging, Sweeping, Draining
<1>10. \A f \in stored \ stored' : \E y \in Entries : Listed(y) /\ y.file = f
  BY <1>2, <1>4
<1>11. stored' \subseteq stored /\ \A f \in uploaded : Gone(f) => Gone(f)'
  BY <1>4, <1>7, <1>8 DEF Gone
<1> QED BY <1>5, <1>6, <1>7, <1>8, <1>9, <1>10, <1>11, WorkerStep DEF TypeOK

LEMMA PurgeRequeueStep ==
  ASSUME MediaInv, NEW n \in Nodes, PurgeRequeue(n)
  PROVE MediaInv'
<1> USE DEF MediaInv
<1>1. worker[n] \in Works /\ worker[n].at = "requeue" /\ WorkOK(worker[n])
  BY DEF TypeOK, WorkersOK, PurgeRequeue, On
<1> DEFINE x == worker[n].with
<1>2. /\ worker[n].todo \subseteq Entries /\ x \in Entries
      /\ \A y \in worker[n].todo \union {x} : Listed(y)
  BY <1>1, WorkKinds DEF WorkOK, Purging
<1>3. x.file \in uploaded /\ Settled(x.file)
  <2>1. x.msg \in Msgs /\ x.file \in Files /\ row[x.msg].file = x.file /\ row[x.msg].age = 2
    BY <1>2, Kinds DEF Listed
  <2>2. x.file \in sent /\ x.file \in uploaded
    BY <2>1, Kinds DEF RowsOK, TypeOK
  <2>3. x.file \notin shared => \A m \in Msgs : row[m].file = x.file => m = x.msg
    BY <2>1, Kinds DEF RowsOK
  <2> QED BY <2>1, <2>2, <2>3 DEF Settled, Dead
<1>4. UNCHANGED <<once, row, stored, due, ticket, request, abandoned>>
  BY DEF PurgeRequeue
<1>5. CASE worker' = [worker EXCEPT ![n].at = "mark"] /\ queue' = Requeued(x.file)
  <2> DEFINE w == [worker[n] EXCEPT !.at = "mark"]
  <2>1. w \in Works /\ w.at = "mark" /\ w.todo = worker[n].todo /\ w.with = x
    BY <1>1, <1>2 DEF Works
  <2>2. worker' = [worker EXCEPT ![n] = w]
    BY <1>5
  <2> HIDE DEF w
  <2>3. /\ worker' \in [Nodes -> Works] /\ worker'[n] = w
        /\ \A u \in Nodes : u # n => worker'[u] = worker[u]
    BY <2>1, <2>2, OneWorker
  <2>4. Queued' = Queued \union {x.file}
    BY <1>5, QueueDomains DEF Requeued
  <2>5. WorkOK(worker[n])'
    <3>1. \A y \in worker[n].todo \union {x} : Listed(y)'
      BY <1>2, <1>4 DEF Listed
    <3> PICK y : y = x
      OBVIOUS
    <3>2. Gone(y.file)' /\ Listed(y)'
      BY <2>4, <3>1 DEF Gone
    <3> QED BY <2>1, <2>3, <3>1, <3>2 DEF WorkOK, Purging, Sweeping, Draining, Gone, Listed
  <2>6. \A f \in uploaded : Gone(f) => Gone(f)'
    BY <1>4, <2>4 DEF Gone
  <2>7. due' \subseteq Queued' /\ \A f \in Queued' : f \in Queued \/ (f \in uploaded /\ Settled(f))
    BY <1>3, <1>4, <2>4 DEF TypeOK
  <2> QED BY <1>4, <2>1, <2>3, <2>5, <2>6, <2>7, WorkerStep DEF TypeOK
<1>6. CASE Go(n, "purge", worker[n].todo) /\ UNCHANGED queue
  <2> DEFINE w == [at |-> "purge", todo |-> worker[n].todo]
  <2>1. w \in Works /\ w.at = "purge" /\ w.todo = worker[n].todo
    BY <1>2 DEF Works
  <2>2. /\ worker' \in [Nodes -> Works] /\ worker'[n] = w
        /\ \A u \in Nodes : u # n => worker'[u] = worker[u]
    BY <1>6, <2>1, ListSteps
  <2> HIDE DEF w
  <2>3. Queued' = Queued
    BY <1>6 DEF Queued
  <2>4. WorkOK(worker[n])'
    <3>1. \A y \in worker[n].todo : Listed(y)'
      BY <1>2, <1>4 DEF Listed
    <3> QED BY <2>1, <2>2, <3>1 DEF WorkOK, Purging, Sweeping, Draining
  <2>5. \A f \in uploaded : Gone(f) => Gone(f)'
    BY <1>4, <2>3 DEF Gone
  <2> QED BY <1>4, <2>1, <2>2, <2>3, <2>4, <2>5, WorkerStep DEF TypeOK
<1> QED BY <1>5, <1>6 DEF PurgeRequeue

LEMMA PurgeMarkStep ==
  ASSUME MediaInv, NEW n \in Nodes, PurgeMark(n)
  PROVE MediaInv'
<1> USE DEF MediaInv
<1>1. worker[n] \in Works /\ worker[n].at = "mark" /\ WorkOK(worker[n])
  BY DEF TypeOK, WorkersOK, PurgeMark, On
<1> DEFINE x == worker[n].with
           r == [row[x.msg] EXCEPT !.status = "expired"]
           w == [at |-> "purge", todo |-> worker[n].todo]
<1>2. /\ worker[n].todo \subseteq Entries /\ x \in Entries /\ x.msg \in Msgs
      /\ \A y \in worker[n].todo : Listed(y)
      /\ row[x.msg].file = x.file /\ Gone(x.file)
  BY <1>1, WorkKinds, Kinds DEF WorkOK, Purging, Listed
<1>3. w \in Works /\ w.at = "purge" /\ w.todo = worker[n].todo
  BY <1>2 DEF Works
<1>4. /\ worker' \in [Nodes -> Works] /\ worker'[n] = w
      /\ \A u \in Nodes : u # n => worker'[u] = worker[u]
  BY <1>3, ListSteps DEF PurgeMark
<1>5. /\ r \in Rows /\ r.file = row[x.msg].file /\ r.age = row[x.msg].age
      /\ r.status = "expired"
  BY <1>2 DEF TypeOK, Rows, Statuses
<1>6. /\ row' \in [Msgs -> Rows] /\ row'[x.msg] \in {r, row[x.msg]}
      /\ \A k \in Msgs : k # x.msg => row'[k] = row[k]
  <2>1. row' = [row EXCEPT ![x.msg] = r] \/ row' = row
    BY DEF PurgeMark
  <2> HIDE DEF r
  <2>2. CASE row' = [row EXCEPT ![x.msg] = r]
    BY <1>2, <1>5, <2>2, OneRow
  <2>3. CASE row' = row
    BY <2>3 DEF TypeOK
  <2> QED BY <2>1, <2>2, <2>3
<1> HIDE DEF r, w
<1>7. UNCHANGED <<once, stored, queue, due, ticket, request, abandoned>>
  BY DEF PurgeMark
<1>8. TypeOK'
  BY <1>4, <1>6, <1>7 DEF TypeOK, once, Queued
<1>9. \A k \in Msgs :
        /\ row'[k].file = row[k].file /\ row'[k].age = row[k].age
        /\ row'[k].status \in Retained => row[k].status \in Retained
        /\ row'[k].status = "expired" => row[k].status = "expired" \/ Gone(row[k].file)
  BY <1>2, <1>5, <1>6 DEF Retained
<1>10. WorkOK(worker[n])'
  <2>1. \A y \in worker[n].todo : Listed(y)'
    BY <1>2, <1>9, Kinds DEF Listed
  <2> QED BY <1>3, <1>4, <2>1 DEF WorkOK, Purging, Sweeping, Draining
<1> QED BY <1>4, <1>7, <1>8, <1>9, <1>10, SameFiles


LEMMA NextPhaseStep ==
  ASSUME MediaInv, NEW n \in Nodes, StartSweep(n) \/ StartDrain(n) \/ EndCycle(n)
  PROVE MediaInv'
<1> USE DEF MediaInv
<1> DEFINE old == IF SweepOn THEN {f \in Files : ticket[f] = "old"} ELSE {}
<1>1. /\ \A f \in old : f \in Files /\ f \in uploaded /\ ticket[f] # "fresh"
      /\ due \subseteq Files /\ \A f \in due : Settled(f)
  BY DEF TypeOK, QueueOK
<1>2. PICK phase, todo : /\ Go(n, phase, todo)
                         /\ \/ phase = "sweep" /\ todo = old
                            \/ phase = "drain" /\ todo \in SUBSET due
                            \/ phase = "rest" /\ todo = {}
  BY DEF StartSweep, StartDrain, EndCycle
<1> DEFINE w == [at |-> phase, todo |-> todo]
<1>3. w \in Works /\ w.at = phase /\ w.todo = todo
  <2> HIDE DEF old
  <2>1. phase = "rest" \/ todo \subseteq Files
    BY <1>1, <1>2
  <2> QED BY <1>2, <2>1 DEF Works
<1>4. /\ worker' \in [Nodes -> Works] /\ worker'[n] = w
      /\ \A u \in Nodes : u # n => worker'[u] = worker[u]
  BY <1>2, <1>3, ListSteps
<1> HIDE DEF w
<1>5. UNCHANGED <<once, row, stored, queue, due, ticket, request, abandoned>>
  BY DEF StartSweep, StartDrain, EndCycle
<1>6. Queued' = Queued
  BY <1>5 DEF Queued
<1>7. ASSUME Keeps PROVE WorkOK(worker[n])'
  <2>1. phase = "sweep" => \A f \in todo : f \in uploaded' /\ ticket'[f] # "fresh"
    BY <1>1, <1>2, <1>5, <1>7 DEF Keeps
  <2>2. phase = "drain" => \A f \in todo : Settled(f)'
    BY <1>1, <1>2, <1>7 DEF Keeps
  <2> QED BY <1>2, <1>3, <1>4, <2>1, <2>2 DEF WorkOK, Purging, Sweeping, Draining
<1>8. \A f \in uploaded : Gone(f) => Gone(f)'
  BY <1>5, <1>6 DEF Gone
<1> QED BY <1>3, <1>4, <1>5, <1>6, <1>7, <1>8, WorkerStep DEF TypeOK

LEMMA SweepCheckStep ==
  ASSUME MediaInv, NEW n \in Nodes, SweepCheck(n)
  PROVE MediaInv'
<1> USE DEF MediaInv
<1>1. worker[n] \in Works /\ worker[n].at = "sweep" /\ WorkOK(worker[n])
  BY DEF TypeOK, WorkersOK, SweepCheck, On
<1>2. /\ worker[n].todo \subseteq Files
      /\ \A f \in worker[n].todo : f \in uploaded /\ ticket[f] # "fresh"
  BY <1>1, WorkKinds DEF WorkOK, Sweeping
<1>3. PICK f \in worker[n].todo :
        \/ /\ Go(n, "sweep", worker[n].todo \ {f})
           /\ ticket' \in {ticket, [ticket EXCEPT ![f] = "none"]}
        \/ Take(n, "sweepQueue", f) /\ UsedBy(f) = {} /\ UNCHANGED ticket
  BY DEF SweepCheck
<1>4. UNCHANGED <<once, row, stored, queue, due, request, abandoned>>
  BY DEF SweepCheck
<1>5. Queued' = Queued /\ \A g \in uploaded : Gone(g) => Gone(g)'
  BY <1>4 DEF Queued, Gone
<1>6. /\ ticket' \in [Files -> {"none", "fresh", "old"}]
      /\ \A g \in Files : ticket'[g] \in {ticket[g], "none"}
  BY <1>2, <1>3 DEF TypeOK
<1>7. CASE Go(n, "sweep", worker[n].todo \ {f})
  <2> DEFINE w == [at |-> "sweep", todo |-> worker[n].todo \ {f}]
  <2>1. w \in Works /\ w.at = "sweep" /\ w.todo \subseteq worker[n].todo
    BY <1>2 DEF Works
  <2>2. /\ worker' \in [Nodes -> Works] /\ worker'[n] = w
        /\ \A u \in Nodes : u # n => worker'[u] = worker[u]
    BY <1>7, <2>1, ListSteps
  <2> HIDE DEF w
  <2>3. ASSUME Keeps PROVE WorkOK(worker[n])'
    <3>1. \A g \in w.todo : g \in uploaded' /\ ticket'[g] # "fresh"
      BY <1>2, <2>1, <2>3 DEF Keeps
    <3> QED BY <2>1, <2>2, <3>1 DEF WorkOK, Purging, Sweeping, Draining
  <2> QED BY <1>4, <1>5, <1>6, <2>1, <2>2, <2>3, WorkerStep DEF TypeOK
<1>8. CASE Take(n, "sweepQueue", f) /\ UsedBy(f) = {}
  <2> DEFINE w == [at |-> "sweepQueue", todo |-> worker[n].todo \ {f}, with |-> f]
  <2>1. /\ w \in Works /\ w.at = "sweepQueue" /\ w.todo \subseteq worker[n].todo
        /\ w.with = f
    BY <1>2 DEF Works
  <2>2. /\ worker' \in [Nodes -> Works] /\ worker'[n] = w
        /\ \A u \in Nodes : u # n => worker'[u] = worker[u]
    BY <1>8, <2>1, ListSteps
  <2> HIDE DEF w
  <2>3. ASSUME Keeps PROVE WorkOK(worker[n])'
    <3>1. \A g \in w.todo : g \in uploaded' /\ ticket'[g] # "fresh"
      BY <1>2, <2>1, <2>3 DEF Keeps
    <3>2. Settled(f)
      BY <1>2, <1>8 DEF Settled, Dead, UsedBy
    <3>3. Settled(f)'
      BY <1>2, <2>3, <3>2 DEF Keeps
    <3> QED BY <2>1, <2>2, <3>1, <3>3 DEF WorkOK, Purging, Sweeping, Draining
  <2> QED BY <1>4, <1>5, <1>6, <2>1, <2>2, <2>3, WorkerStep DEF TypeOK
<1> QED BY <1>3, <1>7, <1>8

LEMMA SweepEnqueueStep ==
  ASSUME MediaInv, NEW n \in Nodes, SweepEnqueue(n)
  PROVE MediaInv'
<1> USE DEF MediaInv
<1> PICK f : f = worker[n].with
  OBVIOUS
<1>1. worker[n] \in Works /\ worker[n].at = "sweepQueue" /\ WorkOK(worker[n])
  BY DEF TypeOK, WorkersOK, SweepEnqueue, On
<1>2. /\ worker[n].todo \subseteq Files /\ f \in Files /\ Settled(f)
      /\ \A g \in worker[n].todo : g \in uploaded /\ ticket[g] # "fresh"
  BY <1>1, WorkKinds DEF WorkOK, Sweeping
<1>3. f \in uploaded
  BY <1>2 DEF Settled, Dead, TypeOK
<1>4. /\ queue' \in {queue, Enqueued(f)}
      /\ ticket' \in {ticket, [ticket EXCEPT ![f] = "none"]}
      /\ Go(n, "sweep", worker[n].todo)
      /\ UNCHANGED <<once, row, stored, due, request, abandoned>>
  BY DEF SweepEnqueue, Swept
<1>5. Queued' \in {Queued, Queued \union {f}}
  BY <1>4, QueueDomains DEF Queued
<1> DEFINE w == [at |-> "sweep", todo |-> worker[n].todo]
<1>6. w \in Works /\ w.at = "sweep" /\ w.todo = worker[n].todo
  BY <1>2 DEF Works
<1>7. /\ worker' \in [Nodes -> Works] /\ worker'[n] = w
      /\ \A u \in Nodes : u # n => worker'[u] = worker[u]
  BY <1>4, <1>6, ListSteps
<1> HIDE DEF w
<1>8. ASSUME Keeps PROVE WorkOK(worker[n])'
  <2>1. \A g \in worker[n].todo : g \in uploaded' /\ ticket'[g] # "fresh"
    BY <1>2, <1>8 DEF Keeps
  <2> QED BY <1>6, <1>7, <2>1 DEF WorkOK, Purging, Sweeping, Draining
<1>9. /\ ticket' \in [Files -> {"none", "fresh", "old"}]
      /\ \A g \in Files : ticket'[g] \in {ticket[g], "none"}
  BY <1>2, <1>4 DEF TypeOK
<1>10. /\ \A g \in uploaded : Gone(g) => Gone(g)'
       /\ \A g \in Queued' : g \in Queued \/ (g \in uploaded /\ Settled(g))
       /\ due' \subseteq Queued'
  BY <1>2, <1>3, <1>4, <1>5 DEF Gone, TypeOK
<1> QED BY <1>4, <1>6, <1>7, <1>8, <1>9, <1>10, WorkerStep DEF TypeOK

LEMMA DrainFileStep ==
  ASSUME MediaInv, NEW n \in Nodes, DrainFile(n)
  PROVE MediaInv'
<1> USE DEF MediaInv
<1>1. worker[n] \in Works /\ worker[n].at = "drain" /\ WorkOK(worker[n])
  BY DEF TypeOK, WorkersOK, DrainFile, On
<1>2. /\ worker[n].todo \subseteq Files
      /\ \A f \in worker[n].todo : Settled(f)
  BY <1>1, WorkKinds DEF WorkOK, Draining
<1>3. PICK f \in worker[n].todo :
        \/ Take(n, "complete", f) /\ stored' = stored \ {f}
        \/ Take(n, "fail", f) /\ stored' \in {stored, stored \ {f}}
  BY DEF DrainFile
<1>4. PICK phase \in {"complete", "fail"} :
        /\ Take(n, phase, f)
        /\ stored' \in {stored, stored \ {f}}
        /\ phase = "complete" => f \notin stored'
  BY <1>3
<1> DEFINE w == [at |-> phase, todo |-> worker[n].todo \ {f}, with |-> f]
<1>5. w \in Works /\ w.at = phase /\ w.todo \subseteq worker[n].todo /\ w.with = f
  BY <1>2, <1>4 DEF Works
<1>6. /\ worker' \in [Nodes -> Works] /\ worker'[n] = w
      /\ \A u \in Nodes : u # n => worker'[u] = worker[u]
  BY <1>4, <1>5, ListSteps
<1> HIDE DEF w
<1>7. UNCHANGED <<once, row, queue, due, ticket, request, abandoned>>
  BY DEF DrainFile
<1>8. Queued' = Queued /\ due \subseteq Queued
  BY <1>7 DEF Queued, TypeOK
<1>9. f \in uploaded /\ Settled(f)
  BY <1>2 DEF Settled, Dead, TypeOK
<1>10. ASSUME Keeps PROVE WorkOK(worker[n])'
  <2>1. \A g \in worker[n].todo : Settled(g)'
    BY <1>2, <1>10 DEF Keeps
  <2>2. f \in uploaded'
    BY <1>9, <1>10 DEF Keeps
  <2> QED BY <1>4, <1>5, <1>6, <2>1, <2>2 DEF WorkOK, Purging, Sweeping, Draining
<1>11. /\ stored' \subseteq stored /\ \A g \in uploaded : Gone(g) => Gone(g)'
       /\ \A g \in stored \ stored' : Settled(g)
  BY <1>4, <1>7, <1>8, <1>9 DEF Gone
<1> QED BY <1>5, <1>6, <1>7, <1>8, <1>10, <1>11, WorkerStep DEF TypeOK

(* What leaves the queue is not stored any more, or given up.              *)
LEMMA DrainOutcomeStep ==
  ASSUME MediaInv, NEW n \in Nodes, DrainComplete(n) \/ DrainFail(n)
  PROVE MediaInv'
<1> USE DEF MediaInv
<1> PICK f : f = worker[n].with
  OBVIOUS
<1>1. worker[n] \in Works /\ worker[n].at \in {"complete", "fail"} /\ WorkOK(worker[n])
  BY DEF TypeOK, WorkersOK, DrainComplete, DrainFail, On
<1>2. /\ worker[n].todo \subseteq Files
      /\ \A g \in worker[n].todo : Settled(g)
      /\ worker[n].at = "complete" => f \notin stored
  BY <1>1, WorkKinds DEF WorkOK, Draining
<1>3. /\ Go(n, "drain", worker[n].todo)
      /\ UNCHANGED <<once, row, stored, ticket, request>>
  BY DEF DrainComplete, DrainFail
<1> DEFINE w == [at |-> "drain", todo |-> worker[n].todo]
<1>4. w \in Works /\ w.at = "drain" /\ w.todo = worker[n].todo
  BY <1>2 DEF Works
<1>5. /\ worker' \in [Nodes -> Works] /\ worker'[n] = w
      /\ \A u \in Nodes : u # n => worker'[u] = worker[u]
  BY <1>3, <1>4, ListSteps
<1> HIDE DEF w
<1>6. /\ Queued' \subseteq Queued /\ due' \subseteq Queued'
      /\ \A g \in Queued : g \notin Queued' => g \notin stored \/ g \in abandoned'
      /\ abandoned \subseteq abandoned'
  <2> USE DEF TypeOK
  <2>1. CASE UNCHANGED <<queue, due, abandoned>>
    BY <2>1 DEF Queued
  <2>2. CASE Dequeued(f) /\ (f \notin stored \/ f \in abandoned') /\ abandoned \subseteq abandoned'
    <3>1. Queued' = Queued \ {f}
      BY <2>2, QueueDomains DEF Dequeued
    <3> QED BY <2>2, <3>1 DEF Dequeued
  <2>3. CASE /\ queue' = [queue EXCEPT ![f] = @ + 1] /\ due' = due \ {f}
             /\ UNCHANGED abandoned
    <3>1. Queued' = Queued
      BY <2>3, QueueDomains
    <3> QED BY <2>3, <3>1
  <2>4. CASE DrainComplete(n)
    BY <1>2, <2>1, <2>2, <2>4 DEF DrainComplete, On
  <2>5. CASE DrainFail(n)
    BY <2>1, <2>2, <2>3, <2>5 DEF DrainFail
  <2> QED BY <2>4, <2>5
<1>7. ASSUME Keeps PROVE WorkOK(worker[n])'
  <2>1. \A g \in worker[n].todo : Settled(g)'
    BY <1>2, <1>7 DEF Keeps
  <2> QED BY <1>4, <1>5, <2>1 DEF WorkOK, Purging, Sweeping, Draining
<1>8. \A g \in uploaded : Gone(g) => Gone(g)'
  BY <1>3, <1>6 DEF Gone
<1> QED BY <1>3, <1>4, <1>5, <1>6, <1>7, <1>8, WorkerStep DEF TypeOK
--------------------------------------------------------------------------------
LEMMA MediaBegins == Init => MediaInv
<1> SUFFICES ASSUME Init PROVE MediaInv
  OBVIOUS
<1>1. TypeOK
  <2>1. Queued = {}
    BY DEF Init, Queued
  <2> QED BY <2>1, Kinds DEF Init, TypeOK
<1>2. RowsOK /\ RequestsOK /\ RetainedHasFile /\ ExpiredIsCleaned
  BY Kinds DEF Init, RowsOK, RequestsOK, RequestOK, RetainedHasFile, Retains, ExpiredIsCleaned
<1>3. WorkersOK
  BY Kinds DEF Init, WorkersOK, WorkOK, Purging, Sweeping, Draining
<1>4. QueueOK
  BY DEF Init, QueueOK, Queued
<1> QED BY <1>1, <1>2, <1>3, <1>4 DEF MediaInv

LEMMA MediaStep == MediaInv /\ [Next]_vars => MediaInv'
<1> SUFFICES ASSUME MediaInv, [Next]_vars PROVE MediaInv'
  OBVIOUS
<1>1. CASE \E f \in Files : Upload(f) \/ TicketAges(f) \/ ComesDue(f)
  BY <1>1, UploadStep, TicketStep, DueStep
<1>2. CASE \E m \in Msgs, f \in Files : Send(m, f)
  BY <1>2, SendStep
<1>3. CASE \E m \in Msgs : \/ Acknowledge(m) \/ ForwardSave(m) \/ ReleaseCheck(m)
                           \/ ReleaseEnqueue(m) \/ RowAges(m)
  BY <1>3, AcknowledgeStep, ForwardSaveStep, ReleaseStep, AgeStep
<1>4. CASE \E n \in Nodes, m \in Msgs : DeleteForEveryone(n, m)
  BY <1>4, DeleteStep
<1>5. CASE \E n \in Nodes, src, m \in Msgs : ForwardRead(n, src, m)
  BY <1>5, ForwardReadStep
<1>6. CASE \E n \in Nodes : \/ StartCycle(n) \/ PurgeFile(n) \/ PurgeRequeue(n) \/ PurgeMark(n)
                            \/ StartSweep(n) \/ SweepCheck(n) \/ SweepEnqueue(n)
                            \/ StartDrain(n) \/ DrainFile(n) \/ DrainComplete(n) \/ DrainFail(n)
                            \/ EndCycle(n) \/ Crash(n)
  BY <1>6, StartCycleStep, PurgeFileStep, PurgeRequeueStep, PurgeMarkStep, NextPhaseStep,
     SweepCheckStep, SweepEnqueueStep, DrainFileStep, DrainOutcomeStep, CrashStep
<1>7. CASE UNCHANGED vars
  <2>1. /\ UNCHANGED <<row, once, stored, queue, due, ticket, request, worker, abandoned>>
        /\ Queued' = Queued
    BY <1>7 DEF vars, Queued
  <2>2. TypeOK' /\ Keeps
    BY <2>1 DEF MediaInv, TypeOK, Keeps, Settled, Dead, Gone, Listed, once
  <2>3. stored \ stored' = {}
    BY <2>1
  <2> QED BY <2>1, <2>2, <2>3, QuietStep
<1> QED BY <1>1, <1>2, <1>3, <1>4, <1>5, <1>6, <1>7 DEF Next

(* For any number of messages, files and nodes, and whatever fails,        *)
(* crashes or runs twice: the file of a message within its retention is    *)
(* there unless it was forwarded, and the file of a message marked expired *)
(* is gone, queued or given up (media_release.go, purge_worker.go,         *)
(* media_purge_queue.go, upload_tickets.go).                               *)
THEOREM RetentionIsKept == Spec => []FilesFollowRetention
<1>1. MediaInv => FilesFollowRetention
  BY DEF MediaInv, FilesFollowRetention
<1> QED BY MediaBegins, MediaStep, <1>1, PTL DEF Spec
================================================================================
