----------------------------- MODULE MediaLifecycle -----------------------------
(***************************************************************************)
(* The files attached to messages: upload, use by messages and forwarded   *)
(* copies, deletion for everyone with the release of the file              *)
(* (store/media_release.go), the purge worker with its retry queue         *)
(* (storage/purge_worker.go, store/media_purge_queue.go) and the sweeper   *)
(* of uploads nobody used (store/upload_tickets.go), on the R2 driver.     *)
(* Every statement and every storage call is a step; each may fail, and a  *)
(* node may crash between any two.                                         *)
(***************************************************************************)
EXTENDS Naturals, FiniteSets, Functions

CONSTANTS Msgs, Files, Nodes,
          MaxAttempts,   \* queueMaxAttempts
          MaxFaults,     \* bound: failing statements and storage calls
          MaxCrashes,    \* bound: node crashes
          MaxForwards,   \* bound: forwarded copies
          SweepOn        \* UPLOAD_ORPHAN_SWEEP=true

NoFile == "no file"

ASSUME MediaAssumption ==
  /\ MaxAttempts \in Nat \ {0, 1}
  /\ {MaxFaults, MaxCrashes, MaxForwards} \subseteq Nat
  /\ SweepOn \in BOOLEAN
  /\ NoFile \notin Files

VARIABLES
  row,        \* the message rows: media_url, media_status and age
  uploaded,   \* files that were ever uploaded, each once
  sent,       \* and of these the ones that were sent
  stored,     \* files in the bucket
  queue,      \* media_purge_queue: attempts made, by file
  due,        \* queued files whose next attempt is due
  ticket,     \* upload_tickets, by file: "none", "fresh" or "old"
  request,    \* the unfinished request about each message
  worker,     \* PurgeWorker of each node
  abandoned,  \* files given up after the last attempt
  shared,     \* files that a forward ever copied
  faults, crashes, forwards

once == <<uploaded, sent, shared>>
vars == <<row, once, stored, queue, due, ticket, request, worker, abandoned,
          faults, crashes, forwards>>

(* Age 0: may be deleted for everyone; 2: past the retention.              *)
NoRow == [file |-> NoFile, status |-> "none", age |-> 0]
Retained == {"active", "downloaded"}

NoRequest == [step |-> "none", file |-> NoFile]
Resting == [at |-> "rest", todo |-> {}]

Init == /\ row = [m \in Msgs |-> NoRow]
        /\ uploaded = {} /\ sent = {} /\ stored = {} /\ queue = <<>> /\ due = {}
        /\ ticket = [f \in Files |-> "none"]
        /\ request = [m \in Msgs |-> NoRequest]
        /\ worker = [n \in Nodes |-> Resting]
        /\ abandoned = {} /\ shared = {} /\ faults = 0 /\ crashes = 0 /\ forwards = 0

Queued == DOMAIN queue
UsedBy(f) == {m \in Msgs : row[m].file = f}

(* One statement or storage call fails.                                    *)
Fault == faults < MaxFaults /\ faults' = faults + 1

-----------------------------------------------------------------------------
(* Users.                                                                  *)

(* A signed URL is issued with its ticket and the file uploaded.           *)
Upload(f) ==
  /\ f \notin uploaded
  /\ uploaded' = uploaded \union {f}
  /\ stored' = stored \union {f}
  /\ ticket' = [ticket EXCEPT ![f] = "fresh"]
  /\ UNCHANGED <<sent, shared, row, queue, due, request, worker, abandoned, faults, crashes, forwards>>

(* A message with the file is stored, within the ticket's 72 hours; only a *)
(* forward sends the file again.                                           *)
Send(m, f) ==
  /\ row[m] = NoRow /\ request[m] = NoRequest
  /\ f \in stored \ sent /\ ticket[f] = "fresh"
  /\ sent' = sent \union {f}
  /\ row' = [row EXCEPT ![m] = [file |-> f, status |-> "active", age |-> 0]]
  /\ UNCHANGED <<uploaded, shared, stored, queue, due, ticket, request, worker, abandoned, faults, crashes,
                 forwards>>

(* AcknowledgeMediaDownload in a conversation of two.                      *)
Acknowledge(m) ==
  /\ row[m].file # NoFile /\ row[m].status = "active"
  /\ row' = [row EXCEPT ![m].status = "downloaded"]
  /\ UNCHANGED <<once, stored, queue, due, ticket, request, worker, abandoned, faults, crashes,
                 forwards>>

(* ForwardMessage reads the source and then saves a copy of it.            *)
ForwardRead(n, src, m) ==
  /\ forwards < MaxForwards
  /\ row[src].file # NoFile /\ row[m] = NoRow /\ request[m] = NoRequest
  /\ forwards' = forwards + 1
  /\ shared' = shared \union {row[src].file}
  /\ request' = [request EXCEPT ![m] = [step |-> "save", node |-> n, file |-> row[src].file,
                                        status |-> row[src].status]]
  /\ UNCHANGED <<uploaded, sent, row, stored, queue, due, ticket, worker, abandoned, faults,
                 crashes>>

ForwardSave(m) ==
  /\ request[m].step = "save"
  /\ \/ row' = [row EXCEPT ![m] = [file |-> request[m].file, status |-> request[m].status,
                                   age |-> 0]]
        /\ UNCHANGED faults
     \/ Fault /\ UNCHANGED row
  /\ request' = [request EXCEPT ![m] = NoRequest]
  /\ UNCHANGED <<once, stored, queue, due, ticket, worker, abandoned, crashes, forwards>>

(* DeleteMessage for everyone, up to a minute after it was sent: the row   *)
(* loses its media_url, then the file is released.                         *)
DeleteForEveryone(n, m) ==
  /\ row[m].file # NoFile /\ row[m].age = 0 /\ request[m] = NoRequest
  /\ row' = [row EXCEPT ![m].file = NoFile]
  /\ request' = [request EXCEPT ![m] = [step |-> "check", node |-> n, file |-> row[m].file,
                                        status |-> "active"]]
  /\ UNCHANGED <<once, stored, queue, due, ticket, worker, abandoned, faults, crashes, forwards>>

(* Release: a file that some row still refers to is kept, and so is one    *)
(* that could not be looked up.                                            *)
ReleaseCheck(m) ==
  /\ request[m].step = "check"
  /\ \/ UsedBy(request[m].file) # {} /\ UNCHANGED faults
        /\ request' = [request EXCEPT ![m] = NoRequest]
     \/ UsedBy(request[m].file) = {} /\ UNCHANGED faults
        /\ request' = [request EXCEPT ![m].step = "enqueue"]
     \/ Fault /\ request' = [request EXCEPT ![m] = NoRequest]
  /\ UNCHANGED <<once, row, stored, queue, due, ticket, worker, abandoned, crashes, forwards>>

(* Enqueue: one attempt counted, due in an hour; a queued file stays as it is. *)
Enqueued(f) == [g \in Queued \union {f} |-> IF g \in Queued THEN queue[g] ELSE 1]

ReleaseEnqueue(m) ==
  /\ request[m].step = "enqueue"
  /\ \/ queue' = Enqueued(request[m].file) /\ UNCHANGED faults
     \/ Fault /\ UNCHANGED queue
  /\ request' = [request EXCEPT ![m] = NoRequest]
  /\ UNCHANGED <<once, row, stored, due, ticket, worker, abandoned, crashes, forwards>>

-----------------------------------------------------------------------------
(* PurgeWorker.runCycle: PurgeOnce, Sweep, DrainQueue.                     *)

On(n, phase) == worker[n].at = phase
Go(n, phase, todo) == worker' = [worker EXCEPT ![n] = [at |-> phase, todo |-> todo]]
(* The same phase's list, and what is being done with one of it.           *)
Take(n, phase, x) == worker' = [worker EXCEPT ![n] = [at |-> phase, todo |-> @.todo \ {x}, with |-> x]]

(* Mutant: what has been downloaded need not be kept.                      *)
DueForPurgeOnceDownloaded ==
  {m \in Msgs : row[m].file # NoFile /\ (row[m].status = "downloaded" \/ row[m].age = 2)}

(* GetExpiredMediaMessages.                                                *)
DueForPurge == {m \in Msgs : row[m].file # NoFile /\ row[m].status \in Retained /\ row[m].age = 2}

StartCycle(n) ==
  /\ On(n, "rest")
  /\ \/ Go(n, "purge", {[msg |-> m, file |-> row[m].file] : m \in DueForPurge}) /\ UNCHANGED faults
     \/ Fault /\ Go(n, "purge", {})
  /\ UNCHANGED <<once, row, stored, queue, due, ticket, request, abandoned, crashes, forwards>>

(* deleteWithThumbnail: a failure may leave the file or only its thumbnail. *)
PurgeFile(n) ==
  /\ On(n, "purge")
  /\ \E x \in worker[n].todo :
       \/ Take(n, "mark", x) /\ stored' = stored \ {x.file} /\ UNCHANGED faults
       \/ Take(n, "requeue", x) /\ stored' \in {stored, stored \ {x.file}} /\ Fault
  /\ UNCHANGED <<once, row, queue, due, ticket, request, abandoned, crashes, forwards>>

(* Mutant: the file is forgotten, as before the queue existed.             *)
NotRequeued(f) == queue

Requeued(f) == Enqueued(f)

(* A file that could not be deleted goes to the queue; failing that, the   *)
(* message is left for the next cycle.                                     *)
PurgeRequeue(n) ==
  /\ On(n, "requeue")
  /\ \/ worker' = [worker EXCEPT ![n].at = "mark"] /\ UNCHANGED faults
        /\ queue' = Requeued(worker[n].with.file)
     \/ Go(n, "purge", worker[n].todo) /\ Fault /\ UNCHANGED queue
  /\ UNCHANGED <<once, row, stored, due, ticket, request, abandoned, crashes, forwards>>

(* MarkMediaExpired.                                                       *)
PurgeMark(n) ==
  /\ On(n, "mark")
  /\ \/ row' = [row EXCEPT ![worker[n].with.msg].status = "expired"] /\ UNCHANGED faults
     \/ Fault /\ UNCHANGED row
  /\ Go(n, "purge", worker[n].todo)
  /\ UNCHANGED <<once, stored, queue, due, ticket, request, abandoned, crashes, forwards>>

(* The sweeper reads the tickets that are old enough.                      *)
StartSweep(n) ==
  /\ On(n, "purge") /\ worker[n].todo = {}
  /\ Go(n, "sweep", IF SweepOn THEN {f \in Files : ticket[f] = "old"} ELSE {})
  /\ UNCHANGED <<once, row, stored, queue, due, ticket, request, abandoned, faults, crashes, forwards>>

(* A used file's ticket is dropped; on an error it is kept.                *)
SweepCheck(n) ==
  /\ On(n, "sweep")
  /\ \E f \in worker[n].todo :
       \/ /\ UsedBy(f) # {} /\ ticket' = [ticket EXCEPT ![f] = "none"]
          /\ Go(n, "sweep", worker[n].todo \ {f}) /\ UNCHANGED faults
       \/ UsedBy(f) = {} /\ Take(n, "sweepQueue", f) /\ UNCHANGED <<ticket, faults>>
       \/ Fault /\ Go(n, "sweep", worker[n].todo \ {f}) /\ UNCHANGED ticket
  /\ UNCHANGED <<once, row, stored, queue, due, request, abandoned, crashes, forwards>>

(* Mutant: the ticket of an unused file is dropped and nothing else done.  *)
SweptAway(f) == queue

Swept(f) == Enqueued(f)

(* An unused file is queued, then its ticket dropped.                      *)
SweepEnqueue(n) ==
  LET f == worker[n].with
  IN /\ On(n, "sweepQueue")
     /\ \/ queue' = Swept(f) /\ ticket' = [ticket EXCEPT ![f] = "none"] /\ UNCHANGED faults
        \/ queue' = Swept(f) /\ Fault /\ UNCHANGED ticket
        \/ Fault /\ UNCHANGED <<queue, ticket>>
     /\ Go(n, "sweep", worker[n].todo)
     /\ UNCHANGED <<once, row, stored, due, request, abandoned, crashes, forwards>>

(* ClaimDue: a plain SELECT, which other nodes may make as well.           *)
StartDrain(n) ==
  /\ On(n, "sweep") /\ worker[n].todo = {}
  /\ \/ Go(n, "drain", due) /\ UNCHANGED faults
     \/ Fault /\ Go(n, "drain", {})
  /\ UNCHANGED <<once, row, stored, queue, due, ticket, request, abandoned, crashes, forwards>>

DrainFile(n) ==
  /\ On(n, "drain")
  /\ \E f \in worker[n].todo :
       \/ Take(n, "complete", f) /\ stored' = stored \ {f} /\ UNCHANGED faults
       \/ Take(n, "fail", f) /\ stored' \in {stored, stored \ {f}} /\ Fault
  /\ UNCHANGED <<once, row, queue, due, ticket, request, abandoned, crashes, forwards>>

Dequeued(f) == queue' = Restrict(queue, Queued \ {f}) /\ due' = due \ {f}

(* Complete; when it fails the file stays queued and is deleted once more. *)
DrainComplete(n) ==
  /\ On(n, "complete")
  /\ \/ Dequeued(worker[n].with) /\ UNCHANGED faults
     \/ Fault /\ UNCHANGED <<queue, due>>
  /\ Go(n, "drain", worker[n].todo)
  /\ UNCHANGED <<once, row, stored, ticket, request, abandoned, crashes, forwards>>

LastAttempt(f) == queue[f] + 1 >= MaxAttempts

(* Fail: another attempt later, or none any more.                          *)
DrainFail(n) ==
  LET f == worker[n].with
  IN /\ On(n, "fail")
     /\ \/ f \notin Queued /\ UNCHANGED <<queue, due, abandoned, faults>>
        \/ f \in Queued /\ LastAttempt(f) /\ Dequeued(f)
           /\ abandoned' = abandoned \union {f} /\ UNCHANGED faults
        \/ f \in Queued /\ ~LastAttempt(f)
           /\ queue' = [queue EXCEPT ![f] = @ + 1] /\ due' = due \ {f}
           /\ UNCHANGED <<abandoned, faults>>
        \/ Fault /\ UNCHANGED <<queue, due, abandoned>>
     /\ Go(n, "drain", worker[n].todo)
     /\ UNCHANGED <<once, row, stored, ticket, request, crashes, forwards>>

EndCycle(n) ==
  /\ On(n, "drain") /\ worker[n].todo = {}
  /\ Go(n, "rest", {})
  /\ UNCHANGED <<once, row, stored, queue, due, ticket, request, abandoned, faults, crashes, forwards>>

(* A node stops and starts again: its worker and its requests are gone.    *)
Crash(n) ==
  /\ crashes < MaxCrashes
  /\ crashes' = crashes + 1
  /\ worker' = [worker EXCEPT ![n] = Resting]
  /\ request' = [m \in Msgs |-> IF request[m] # NoRequest /\ request[m].node = n
                                THEN NoRequest ELSE request[m]]
  /\ UNCHANGED <<once, row, stored, queue, due, ticket, abandoned, faults, forwards>>

-----------------------------------------------------------------------------
(* Time.                                                                   *)

RowAges(m) ==
  /\ row[m] # NoRow /\ row[m].age < 2
  /\ row' = [row EXCEPT ![m].age = @ + 1]
  /\ UNCHANGED <<once, stored, queue, due, ticket, request, worker, abandoned, faults, crashes,
                 forwards>>

(* 72 hours after the upload; the file was sent, if at all, well before.   *)
TicketAges(f) ==
  /\ ticket[f] = "fresh"
  /\ \A m \in UsedBy(f) : row[m].age > 0
  /\ ticket' = [ticket EXCEPT ![f] = "old"]
  /\ UNCHANGED <<once, row, stored, queue, due, request, worker, abandoned, faults, crashes, forwards>>

ComesDue(f) ==
  /\ f \in Queued \ due
  /\ due' = due \union {f}
  /\ UNCHANGED <<once, row, stored, queue, ticket, request, worker, abandoned, faults, crashes,
                 forwards>>

Cycle(n) == \/ StartCycle(n) \/ PurgeFile(n) \/ PurgeRequeue(n) \/ PurgeMark(n)
            \/ StartSweep(n) \/ SweepCheck(n) \/ SweepEnqueue(n)
            \/ StartDrain(n) \/ DrainFile(n) \/ DrainComplete(n) \/ DrainFail(n) \/ EndCycle(n)

Next == \/ \E f \in Files : Upload(f) \/ TicketAges(f) \/ ComesDue(f)
        \/ \E m \in Msgs, f \in Files : Send(m, f)
        \/ \E m \in Msgs : \/ Acknowledge(m) \/ ForwardSave(m) \/ ReleaseCheck(m)
                           \/ ReleaseEnqueue(m) \/ RowAges(m)
        \/ \E n \in Nodes, m \in Msgs : DeleteForEveryone(n, m)
        \/ \E n \in Nodes, src, m \in Msgs : ForwardRead(n, src, m)
        \/ \E n \in Nodes : \/ StartCycle(n) \/ PurgeFile(n) \/ PurgeRequeue(n) \/ PurgeMark(n)
                            \/ StartSweep(n) \/ SweepCheck(n) \/ SweepEnqueue(n)
                            \/ StartDrain(n) \/ DrainFile(n) \/ DrainComplete(n) \/ DrainFail(n)
                            \/ EndCycle(n) \/ Crash(n)

Spec == Init /\ [][Next]_vars

(* The hourly worker runs, requests run to their end and time passes.      *)
FairSpec == /\ Spec
            /\ \A n \in Nodes : WF_vars(Cycle(n))
            /\ \A m \in Msgs : /\ WF_vars(RowAges(m))
                               /\ WF_vars(ForwardSave(m) \/ ReleaseCheck(m) \/ ReleaseEnqueue(m))
            /\ \A f \in Files : WF_vars(TicketAges(f)) /\ WF_vars(ComesDue(f))

-----------------------------------------------------------------------------
Retains(m) == row[m].file # NoFile /\ row[m].status \in Retained /\ row[m].age < 2

(* The file of a message within its retention is there to be downloaded    *)
(* (MEDIA_LIFECYCLE.md:10), whatever fails, crashes or runs twice, unless  *)
(* the file was forwarded.                                                 *)
RetainedHasFile ==
  \A m \in Msgs : Retains(m) /\ row[m].file \notin shared => row[m].file \in stored

(* The same of every file: the worker only deletes the files of messages   *)
(* older than the retention (MEDIA_LIFECYCLE.md:10).                       *)
ForwardsKeepTheirFile == \A m \in Msgs : Retains(m) => row[m].file \in stored

(* A failed deletion leaves no orphan (MEDIA_LIFECYCLE.md, video, "Hapus   *)
(* gagal tidak lagi menjadi yatim"): once the message is marked expired,   *)
(* the file is gone, waits in the queue, or was given up.                  *)
ExpiredIsCleaned ==
  \A m \in Msgs : row[m].file # NoFile /\ row[m].status = "expired"
                    => row[m].file \notin stored \/ row[m].file \in Queued \union abandoned

(* Files follow the retention of their messages, in both directions: none  *)
(* goes too early, and none is left behind unseen.                         *)
FilesFollowRetention == RetainedHasFile /\ ExpiredIsCleaned

(* With the sweeper on, every upload with a ticket ends: whatever fails or *)
(* crashes on the way, its file is deleted or given up after all attempts. *)
(* A forwarded file may outlive its ticket, and then nobody looks for it   *)
(* any more once the release of its last message has failed.               *)
UploadsEnd ==
  \A f \in Files : f \in stored /\ ticket[f] # "none" ~>
                     f \notin stored \/ f \in abandoned \union shared
=============================================================================
