------------------------------ MODULE ForumMemory ------------------------------
(***************************************************************************)
(* The end of a forum topic and the memory that is made of it: the TTL     *)
(* worker and the admins who end a topic (backend/internal/group), the     *)
(* queue of memory jobs (store/memory_store.go), the workers that turn a   *)
(* job into a draft (worker/memory_worker.go, ai/processor.go) and the     *)
(* review of drafts (memory/service.go).                                   *)
(*                                                                         *)
(* One topic.  Who may do what is checked from tables not modelled here;   *)
(* a refused request changes nothing.  A retry's delay is left out: a      *)
(* queued job may be claimed at any time.                                  *)
(***************************************************************************)
EXTENDS Naturals, FiniteSets

CONSTANTS Sweepers,      \* TTL workers, one in each node
          Workers,       \* memory job workers, one in each node
          Handlers,      \* requests of admins that run side by side
          MaxAttempts,   \* max_attempts of a job
          MaxExtensions, \* how often a topic may be extended in all
          MaxJobs,       \* bound: jobs made
          MaxEdits,      \* bound: edits of a draft
          MaxFaults      \* bound: stops and failed statements

ASSUME ForumMemoryAssumption ==
  /\ {MaxExtensions, MaxEdits, MaxFaults} \subseteq Nat
  /\ {MaxAttempts, MaxJobs} \subseteq Nat \ {0}

Tasks == Sweepers \union Workers \union Handlers
Jobs == 1..MaxJobs
Open(d) == d < MaxJobs \* bound: the last job's draft is neither edited nor deleted

VARIABLES
  enabled,    \* the topic's group is one the deployment makes memories for
  status,     \* conversations.status of the topic
  deadline,   \* expires_at: "ahead", "passed", or "moved" into the past by an admin
  extensions,
  job,        \* the topic's row of forum_memory_jobs, NoJob without one
  made,       \* jobs made so far
  draft,      \* memory_drafts.status by the job it was made for, "none" without a row
  edits,      \* edits written to the artifacts of each draft
  memory,     \* the topic's row of approved_memories, NoMemory without one
  work,       \* what each task is doing
  missed,     \* a job was not made because the insert failed or its maker stopped
  early,      \* an extension was granted to a topic already listed as ended
  unreported, \* jobs with a draft whose completion could not be written
  abandoned,  \* jobs whose worker stopped with them
  crossed,    \* drafts approved beside an edit
  faults

topic == <<status, deadline, extensions>>
queue == <<enabled, job, made>>
review == <<draft, edits, memory, crossed>>
excuses == <<missed, early, unreported, abandoned>>
vars == <<topic, queue, review, work, excuses, faults>>

Idle == [step |-> "idle"]
NoJob == [id |-> 0, status |-> "none", attempts |-> 0]
NoMemory == [draft |-> 0, edits |-> 0]
Orphan == [draft |-> MaxJobs + 1, edits |-> 0] \* published, but its draft is gone
Do(t, x) == work' = [work EXCEPT ![t] = x]
In(step) == {t \in Tasks : work[t].step = step}

Init == /\ enabled \in BOOLEAN /\ status = "active" /\ deadline = "ahead" /\ extensions = 0
        /\ job = NoJob /\ made = 0
        /\ draft = [j \in Jobs |-> "none"] /\ edits = [j \in Jobs |-> 0] /\ memory = NoMemory
        /\ work = [t \in Tasks |-> Idle]
        /\ missed = FALSE /\ early = FALSE /\ unreported = {} /\ abandoned = {} /\ crossed = {} /\ faults = 0
--------------------------------------------------------------------------------
TimePasses == /\ deadline = "ahead" /\ deadline' = "passed"
              /\ UNCHANGED <<status, extensions, queue, review, work, excuses, faults>>

(* ExtendSubGroup locks the topic's row while it checks and writes; what   *)
(* else writes the row waits.                                              *)
Locked == In("extend") # {}

Extend(h) ==
  /\ work[h] = Idle /\ ~Locked
  /\ status = "active" /\ deadline = "ahead" /\ extensions < MaxExtensions
  /\ Do(h, [step |-> "extend"])
  /\ UNCHANGED <<topic, queue, review, excuses, faults>>

Extended(h) ==
  /\ work[h].step = "extend"
  /\ deadline' = "ahead" /\ extensions' = extensions + 1
  /\ early' = (early \/ \E s \in In("expire") : work[s].listed)
  /\ Do(h, Idle)
  /\ UNCHANGED <<status, queue, review, missed, unreported, abandoned, faults>>

(* ExpireSubGroupsBatchDetailed: the topics that have ended, then, if there *)
(* are any, their status.  An admin moves a deadline a second back, more   *)
(* than lies between the two statements: a topic not listed may be updated. *)
ListEnded(s) ==
  /\ work[s] = Idle
  /\ Do(s, [step |-> "expire", listed |-> status = "active" /\ deadline # "ahead"])
  /\ UNCHANGED <<topic, queue, review, excuses, faults>>

Ends(listed) == status = "active" /\ (deadline = "moved" \/ (listed /\ deadline = "passed"))

(* Mutant: the status is set, and what ended is listed after that.         *)
ListedAfter(s) == FALSE
Listed(s) == work[s].listed

ExpireListed(s) ==
  /\ work[s].step = "expire" /\ ~Locked
  /\ \/ Ends(work[s].listed) /\ status' = "expired"
     \/ ~(work[s].listed /\ Ends(TRUE)) /\ UNCHANGED status
  /\ Do(s, IF Listed(s) THEN [step |-> "create"] ELSE Idle)
  /\ UNCHANGED <<deadline, extensions, queue, review, excuses, faults>>

(* InstantExpireSubGroupWithOutcome: the deadline only, then the job.      *)
InstantExpire(h) ==
  /\ work[h] = Idle /\ ~Locked
  /\ deadline' = "moved"
  /\ Do(h, [step |-> "create"])
  /\ UNCHANGED <<status, extensions, queue, review, excuses, faults>>

(* CreateJob of the gated store: refused for a group that is not enabled,  *)
(* otherwise once per topic (forum_id is UNIQUE); a creator without quota  *)
(* gets a row that is never queued.  Nobody tries again after a failure.   *)
CreateJob(t) ==
  /\ work[t].step = "create"
  /\ IF enabled /\ job = NoJob
     THEN /\ made' = made + 1
          /\ \E s \in {"QUEUED", "SKIPPED"} : job' = [id |-> made + 1, status |-> s, attempts |-> 0]
     ELSE UNCHANGED <<job, made>>
  /\ Do(t, Idle)
  /\ UNCHANGED <<topic, enabled, review, excuses, faults>>
--------------------------------------------------------------------------------
(* Mutant: a job is claimed whatever its status is.                        *)
ClaimableEver == job # NoJob
Claimable == job.status = "QUEUED"

(* The gated store hands out the jobs of enabled groups only.              *)
ClaimJob(w) ==
  /\ work[w] = Idle /\ enabled /\ Claimable
  /\ job' = [job EXCEPT !.status = "PROCESSING", !.attempts = @ + 1]
  /\ Do(w, [step |-> "generate", job |-> job.id, attempts |-> job.attempts + 1])
  /\ UNCHANGED <<topic, enabled, made, review, excuses, faults>>

Failing(w, terminal) ==
  [step |-> "fail", job |-> work[w].job, last |-> terminal \/ work[w].attempts >= MaxAttempts]

(* ProcessMemoryJob: the AI answers or fails, for good or not; the draft   *)
(* is inserted, once per job (job_id is UNIQUE).                           *)
Generate(w) ==
  /\ work[w].step = "generate"
  /\ LET j == work[w].job
     IN \/ /\ draft[j] = "none"
           /\ draft' = [draft EXCEPT ![j] = "DRAFT"]
           /\ Do(w, [work[w] EXCEPT !.step = "complete"])
        \/ /\ \E terminal \in BOOLEAN : Do(w, Failing(w, terminal))
           /\ UNCHANGED draft
  /\ UNCHANGED <<topic, queue, edits, memory, crossed, excuses, faults>>

(* CompleteJob, a statement of its own that looks at the id alone.         *)
CompleteJob(w) ==
  /\ work[w].step = "complete"
  /\ IF job.id = work[w].job
     THEN job' = [job EXCEPT !.status = "COMPLETED"] /\ Do(w, Idle)
     ELSE UNCHANGED job /\ Do(w, Failing(w, FALSE))
  /\ UNCHANGED <<topic, enabled, made, review, excuses, faults>>

(* Mutant: a job that may be tried again is not put back.                  *)
NotPutBack(last) == IF last THEN "FAILED" ELSE "PROCESSING"
PutBack(last) == IF last THEN "FAILED" ELSE "QUEUED"

FailJob(w) ==
  /\ work[w].step = "fail"
  /\ job' = IF job.id = work[w].job THEN [job EXCEPT !.status = PutBack(work[w].last)] ELSE job
  /\ Do(w, Idle)
  /\ UNCHANGED <<topic, enabled, made, review, excuses, faults>>

Fault == faults < MaxFaults /\ faults' = faults + 1

(* CompleteJob fails: to the worker the whole attempt has.                 *)
CompletionFails(w) ==
  /\ work[w].step = "complete" /\ Fault
  /\ unreported' = unreported \union {work[w].job}
  /\ Do(w, Failing(w, FALSE))
  /\ UNCHANGED <<topic, queue, review, missed, early, abandoned>>

(* A task goes no further: its node stops, a statement fails that nobody   *)
(* repeats, or the three minutes of a worker's round are over.             *)
Stops(t) ==
  /\ work[t] # Idle /\ Fault
  /\ missed' = (missed \/ work[t].step = "create")
  /\ abandoned' = IF t \in Workers THEN abandoned \union {work[t].job} ELSE abandoned
  /\ Do(t, Idle)
  /\ UNCHANGED <<topic, queue, review, early, unreported>>
--------------------------------------------------------------------------------
(* ApproveDraft reads the draft and its artifacts, and publishes what it   *)
(* read if the draft is still one; forum_id and draft_id are UNIQUE, and   *)
(* the insert waits for a deletion of the row it would collide with.       *)
Approve(h, d) ==
  /\ work[h] = Idle /\ draft[d] = "DRAFT"
  /\ Do(h, [step |-> "approve", draft |-> d, edits |-> edits[d]])
  /\ UNCHANGED <<topic, queue, review, excuses, faults>>

Publish(h) ==
  /\ work[h].step = "approve"
  /\ draft[work[h].draft] = "DRAFT" => \A o \in In("delete") : ~work[o].seen
  /\ LET d == work[h].draft
     IN IF draft[d] = "DRAFT" /\ memory = NoMemory
        THEN /\ draft' = [draft EXCEPT ![d] = "APPROVED"]
             /\ memory' = [draft |-> d, edits |-> work[h].edits]
             /\ crossed' = IF \E o \in In("edit") : work[o].draft = d
                           THEN crossed \union {d} ELSE crossed
        ELSE UNCHANGED <<draft, memory, crossed>>
  /\ Do(h, Idle)
  /\ UNCHANGED <<topic, queue, edits, excuses, faults>>

(* Mutant: a draft that was approved is rejected all the same.             *)
RejectableEver(d) == draft[d] # "none"
Rejectable(d) == draft[d] = "DRAFT"

Reject(h, d) ==
  /\ work[h] = Idle /\ Rejectable(d)
  /\ draft' = [draft EXCEPT ![d] = "REJECTED"]
  /\ UNCHANGED <<topic, queue, edits, memory, crossed, work, excuses, faults>>

(* Mutant: the draft's status is not looked at.                            *)
MayEditAny(d) == draft[d] # "none"
MayEdit(d) == draft[d] = "DRAFT"

BeingDeleted(d) == \E o \in In("delete") : work[o].draft = d

(* UpdateArtifactContent and RemoveJourneyLite: the status is read, then   *)
(* the artifact is written without another look at it, after a deletion    *)
(* that holds its row.                                                     *)
Edit(h, d) ==
  /\ work[h] = Idle /\ MayEdit(d) /\ Open(d)
  /\ Do(h, [step |-> "edit", draft |-> d])
  /\ UNCHANGED <<topic, queue, review, excuses, faults>>

WriteEdit(h) ==
  /\ work[h].step = "edit" /\ ~BeingDeleted(work[h].draft)
  /\ LET d == work[h].draft
     IN /\ edits[d] < MaxEdits /\ edits' = [edits EXCEPT ![d] = @ + 1]
        /\ crossed' = IF \E o \in In("approve") : work[o].draft = d
                      THEN crossed \union {d} ELSE crossed
  /\ Do(h, Idle)
  /\ UNCHANGED <<topic, queue, draft, memory, excuses, faults>>

(* DeleteDraftCascade, one transaction that reads what is committed as it  *)
(* goes: it takes the artifacts and the memory it sees published of the    *)
(* draft, then waits for the draft's row, which an approval may hold, and  *)
(* takes that and the job.  A memory published in between stays behind     *)
(* without its draft.  Approvals and edits under way find nothing then.    *)
DeleteLooks(h, d) ==
  /\ work[h] = Idle /\ draft[d] # "none" /\ ~BeingDeleted(d) /\ Open(d)
  /\ Do(h, [step |-> "delete", draft |-> d, seen |-> memory.draft = d])
  /\ UNCHANGED <<topic, queue, review, excuses, faults>>

DeleteCommits(h) ==
  /\ work[h].step = "delete"
  /\ LET d == work[h].draft
     IN /\ draft' = [draft EXCEPT ![d] = "none"] /\ edits' = [edits EXCEPT ![d] = 0]
        /\ crossed' = crossed \ {d}
        /\ memory' = IF memory.draft # d THEN memory ELSE IF work[h].seen THEN NoMemory ELSE Orphan
        /\ job' = IF job.id = d THEN NoJob ELSE job
        /\ work' = [t \in Tasks |->
                      IF t = h \/ (t \in In("approve") \union In("edit") /\ work[t].draft = d)
                      THEN Idle ELSE work[t]]
  /\ UNCHANGED <<topic, enabled, made, excuses, faults>>

Sweep(s) == ListEnded(s) \/ ExpireListed(s) \/ CreateJob(s)
Serve(w) == ClaimJob(w) \/ Generate(w) \/ CompleteJob(w) \/ FailJob(w)
Handle(h) == \/ Extend(h) \/ Extended(h) \/ InstantExpire(h) \/ CreateJob(h) \/ Publish(h) \/ WriteEdit(h)
             \/ DeleteCommits(h)
             \/ \E d \in Jobs : Approve(h, d) \/ Reject(h, d) \/ Edit(h, d) \/ DeleteLooks(h, d)

Next == \/ TimePasses
        \/ \E s \in Sweepers : Sweep(s)
        \/ \E w \in Workers : Serve(w) \/ CompletionFails(w)
        \/ \E h \in Handlers : Handle(h)
        \/ \E t \in Tasks : Stops(t)

Spec == Init /\ [][Next]_vars

(* The workers poll as long as their node runs, and the transaction that   *)
(* holds the topic's row ends: there is one at most.                       *)
FairSpec == Spec /\ \A s \in Sweepers : WF_vars(Sweep(s))
                 /\ \A w \in Workers : WF_vars(Serve(w))
                 /\ WF_vars(\E h \in Handlers : Extended(h))
--------------------------------------------------------------------------------
(* A topic that has ended has a job, or had one, or a task is about to     *)
(* make it, unless an insert was lost: nobody looks for such topics again. *)
(* Nothing is made of the topics of a group that is not enabled.           *)
EndedIsQueued == /\ enabled /\ status = "expired" /\ job = NoJob
                      => made > 0 \/ missed \/ In("create") # {}
                 /\ ~enabled => made = 0

(* A job is for a topic that has ended, or whose deadline an admin moved,  *)
(* but for an extension granted after the topic had been listed.           *)
JobsAreForEnded == made > 0 => status = "expired" \/ deadline # "ahead" \/ early

(* A job that is done has its draft, and one that failed has none but for  *)
(* an attempt that could not report its success.                           *)
OutcomesAgree == /\ job.status = "COMPLETED" => draft[job.id] # "none"
                 /\ job.status = "FAILED" /\ draft[job.id] # "none" => job.id \in unreported

(* What is published is the one approved draft, with all edits that were   *)
(* answered as saved, except for edits that ran beside the approval, and   *)
(* for a memory whose draft was deleted beside its approval                *)
(* (memory_store_delete.go:71): that one stays and nobody can delete it.   *)
PublishedIsReviewed ==
  /\ {d \in Jobs : draft[d] = "APPROVED"} = {memory.draft} \ {NoMemory.draft, Orphan.draft}
  /\ memory \notin {NoMemory, Orphan}
        => memory.draft \in crossed \/ memory.edits = edits[memory.draft]

(* From the end of a topic to its published memory nothing is lost or      *)
(* contradicts but for the named excuses, whatever the workers and the     *)
(* admins do side by side.                                                 *)
MemoryFollowsTopic == EndedIsQueued /\ JobsAreForEnded /\ OutcomesAgree /\ PublishedIsReviewed

(* A job whose worker stopped stays PROCESSING (memory_store.go:505).      *)
Unfinished == job.status \in {"QUEUED", "PROCESSING"} /\ job.id \notin abandoned

(* A topic past its deadline ends, or is extended; a job is done or fails  *)
(* for good, or is deleted, or its worker stopped.                         *)
EndsAndIsSummarized == /\ (deadline # "ahead") ~> (status = "expired" \/ deadline = "ahead")
                       /\ Unfinished ~> ~Unfinished
================================================================================
