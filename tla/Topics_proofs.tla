---------------------------- MODULE Topics_proofs -----------------------------
(***************************************************************************)
(* Topics, in two parts. From the end of a topic to its published memory:  *)
(* for any number of workers, requests, attempts, edits and failures. And  *)
(* the requests to join it: for any number of them at a time.              *)
(***************************************************************************)
EXTENDS ForumMemory, JoinRequests, TLAPS

Plain == [step : {"idle", "extend", "create"}]
Listings == [step : {"expire"}, listed : BOOLEAN]
Rounds == [step : {"generate", "complete"}, job : Jobs, attempts : Nat]
Failures == [step : {"fail"}, job : Jobs, last : BOOLEAN]
Approvals == [step : {"approve"}, draft : Jobs, edits : Nat]
Corrections == [step : {"edit"}, draft : Jobs]
Deletions == [step : {"delete"}, draft : {d \in Jobs : Open(d)}, seen : BOOLEAN]
Works == Plain \union Listings \union Rounds \union Failures \union Approvals \union Corrections
         \union Deletions

JobRows == [id : Jobs, status : {"QUEUED", "SKIPPED", "PROCESSING", "COMPLETED", "FAILED"},
            attempts : Nat]

TypeOK == /\ enabled \in BOOLEAN
          /\ status \in {"active", "expired"} /\ deadline \in {"ahead", "passed", "moved"}
          /\ job \in {NoJob} \union JobRows /\ made \in 0..MaxJobs
          /\ draft \in [Jobs -> {"none", "DRAFT", "APPROVED", "REJECTED"}]
          /\ edits \in [Jobs -> Nat]
          /\ memory \in {NoMemory, Orphan} \union [draft : Jobs, edits : Nat]
          /\ work \in [Tasks -> Works]
          /\ missed \in BOOLEAN /\ early \in BOOLEAN
          /\ unreported \subseteq Jobs /\ crossed \subseteq Jobs

Begun == made > 0 \/ In("create") # {}
Over == status = "expired" \/ deadline # "ahead" \/ early

(* The end of the topic: it is followed by its job if its group is enabled *)
(* and by none otherwise, and nobody is about to make a job for a topic    *)
(* that an extension under way will bring back.                            *)
EndInv == /\ status = "expired" \/ deadline = "moved" => Begun \/ missed \/ ~enabled
          /\ ~enabled => made = 0
          /\ Begun => Over /\ (Locked => early)
          /\ \A s \in In("expire") : work[s].listed => Over

Serving == {"generate", "complete", "fail"}
Has(t) == work[t].step \in Serving /\ work[t].job = job.id
Drafted(j) == draft[j] # "none"

(* The queue: jobs are numbered as they are made, the one there is belongs *)
(* to at most one worker, and its status tells what became of its draft.   *)
JobInv ==
  /\ job = NoJob => made < MaxJobs
  /\ job # NoJob => job.id = made
  /\ \A d \in Jobs : Drafted(d) => d <= made
  /\ \A t \in Tasks : work[t].step \in Serving => work[t].job <= made
  /\ \A t \in Tasks : Has(t) => job.status = "PROCESSING"
  /\ \A t, u \in Tasks : Has(t) /\ Has(u) => t = u
  /\ \A t \in Tasks : Has(t) => IF work[t].step = "complete" THEN Drafted(job.id)
                                ELSE Drafted(job.id) => job.id \in unreported
  /\ job.status \in {"QUEUED", "FAILED"} /\ Drafted(job.id) => job.id \in unreported
  /\ job.status = "COMPLETED" => Drafted(job.id)

(* The review: what an approval is about to publish is what the edits left *)
(* behind, unless they cross.                                              *)
ReviewInv ==
  /\ \A d \in Jobs : draft[d] = "APPROVED" <=> d = memory.draft
  /\ memory.draft \in Jobs => memory.draft \in crossed \/ memory.edits = edits[memory.draft]
  /\ \A h \in In("approve") : \/ work[h].draft \in crossed
                              \/ work[h].edits = edits[work[h].draft]
  /\ \A h \in In("edit") : work[h].draft = memory.draft => memory.draft \in crossed

(* The inductive invariant.                                                *)
TopicInv == TypeOK /\ EndInv /\ JobInv /\ ReviewInv
--------------------------------------------------------------------------------
LEMMA Numbers == MaxJobs \in Nat /\ MaxJobs > 0 /\ Jobs = 1..MaxJobs /\ 0 \notin Jobs
               /\ MaxJobs + 1 \notin Jobs
  BY ForumMemoryAssumption DEF ForumMemoryAssumption, Jobs

LEMMA WorkFields ==
  ASSUME NEW x \in Works
  PROVE /\ x.step = "expire" => x \in Listings
        /\ x.step \in {"generate", "complete"} => x \in Rounds
        /\ x.step = "fail" => x \in Failures
        /\ x.step = "approve" => x \in Approvals
        /\ x.step = "edit" => x \in Corrections
        /\ x.step = "delete" => x \in Deletions
  BY DEF Works, Plain, Listings, Rounds, Failures, Approvals, Corrections, Deletions

LEMMA NewWork ==
  ASSUME TypeOK, NEW t \in Tasks, NEW x \in Works, Do(t, x)
  PROVE /\ work' \in [Tasks -> Works]
        /\ \A u \in Tasks : work'[u] = IF u = t THEN x ELSE work[u]
  BY DEF TypeOK, Do

LEMMA IdleWork == Idle \in Works /\ Idle.step = "idle"
  BY DEF Idle, Works, Plain

LEMMA TopicInit == Init => TopicInv
<1> SUFFICES ASSUME Init PROVE TopicInv
  OBVIOUS
<1>1. TypeOK
  <2>1. work \in [Tasks -> Works] /\ 0 \in 0..MaxJobs
    BY Numbers, IdleWork DEF Init
  <2> QED BY <2>1 DEF Init, TypeOK
<1>2. EndInv
  BY IdleWork DEF Init, EndInv, Begun, Locked, In
<1>3. JobInv
  BY Numbers, IdleWork DEF Init, JobInv, NoJob, Has, Serving, Drafted
<1>4. ReviewInv
  BY Numbers, IdleWork DEF Init, ReviewInv, In, NoMemory
<1> QED BY <1>1, <1>2, <1>3, <1>4 DEF TopicInv
--------------------------------------------------------------------------------
(* Steps that leave one part of the invariant alone.                       *)
Ending == {"extend", "expire", "create"}
Reviewing == {"approve", "edit"}

LEMMA EndQuiet ==
  ASSUME EndInv, UNCHANGED <<enabled, status, deadline, made, early>>, missed => missed',
         \A t \in Tasks : work[t].step \in Ending \/ work'[t].step \in Ending
                            => work'[t] = work[t]
  PROVE EndInv'
  BY DEF EndInv, Begun, Over, Locked, In, Ending

LEMMA JobQuiet ==
  ASSUME JobInv, UNCHANGED <<job, made>>, unreported \subseteq unreported',
         \A d \in Jobs : Drafted(d)' <=> Drafted(d),
         \A t \in Tasks : work'[t].step \in Serving => work'[t] = work[t],
         TypeOK
  PROVE JobInv'
<1>1. job.status # "none" => job.id \in Jobs
  BY DEF TypeOK, JobRows, NoJob
<1>2. \A t \in Tasks : Has(t)' => Has(t) /\ work'[t] = work[t] /\ job.id \in Jobs
  BY <1>1 DEF Has, JobInv
<1> QED BY <1>1, <1>2 DEF JobInv

LEMMA ReviewQuiet ==
  ASSUME ReviewInv, UNCHANGED review,
         \A t \in Tasks : work'[t].step \in Reviewing => work'[t] = work[t]
  PROVE ReviewInv'
  BY DEF ReviewInv, review, In, Reviewing

(* What a worker's step makes of its work.                                 *)
LEMMA OwnWork ==
  ASSUME TypeOK, NEW w \in Tasks, ClaimJob(w) \/ Generate(w) \/ CompleteJob(w) \/ FailJob(w)
                                  \/ CompletionFails(w)
  PROVE /\ work'[w].step \in {"generate", "complete", "fail", "idle"}
        /\ \A u \in Tasks : u # w => work'[u] = work[u]
        /\ Generate(w) => /\ work'[w].step \in {"complete", "fail"}
                          /\ work'[w].job = work[w].job
<1> USE DEF TypeOK
<1>1. CASE ClaimJob(w)
  BY <1>1, IdleWork DEF ClaimJob, Do, Generate
<1>2. CASE Generate(w)
  <2>1. work[w] \in Rounds
    BY <1>2, WorkFields DEF Generate
  <2>2. PICK x \in {[work[w] EXCEPT !.step = "complete"], Failing(w, TRUE), Failing(w, FALSE)} :
             work' = [work EXCEPT ![w] = x]
    BY <1>2 DEF Generate, Do
  <2>3. x.step \in {"complete", "fail"} /\ x.job = work[w].job
    BY <2>1 DEF Failing, Rounds
  <2> QED BY <2>2, <2>3
<1>3. CASE CompleteJob(w) \/ FailJob(w) \/ CompletionFails(w)
  <2>1. PICK x \in {Idle, Failing(w, FALSE)} : work' = [work EXCEPT ![w] = x]
    BY <1>3 DEF CompleteJob, FailJob, CompletionFails, Do
  <2>2. x.step \in {"idle", "fail"} /\ work[w].step # "generate"
    BY <1>3, IdleWork DEF Failing, CompleteJob, FailJob, CompletionFails
  <2> QED BY <2>1, <2>2 DEF Generate
<1> QED BY <1>1, <1>2, <1>3

(* What a step of the topic's end makes of its work.                       *)
LEMMA EndWork ==
  ASSUME TypeOK, NEW t \in Tasks,
         Extend(t) \/ Extended(t) \/ ListEnded(t) \/ ExpireListed(t) \/ InstantExpire(t)
         \/ CreateJob(t) \/ Stops(t)
  PROVE /\ work'[t].step \in {"extend", "expire", "create", "idle"}
        /\ \A u \in Tasks : u # t => work'[u] = work[u]
<1>1. PICK x \in {Idle, [step |-> "extend"], [step |-> "create"],
                  [step |-> "expire", listed |-> status = "active" /\ deadline # "ahead"]} :
           work' = [work EXCEPT ![t] = x]
  BY DEF Extend, Extended, ListEnded, ExpireListed, InstantExpire, CreateJob, Stops, Do
<1>2. x.step \in {"extend", "expire", "create", "idle"}
  BY <1>1, IdleWork
<1> QED BY <1>1, <1>2 DEF TypeOK

(* What a step of the review makes of its work.                            *)
LEMMA ReviewWork ==
  ASSUME TypeOK, NEW t \in Tasks, NEW d \in Jobs,
         Approve(t, d) \/ Edit(t, d) \/ DeleteLooks(t, d) \/ Publish(t) \/ WriteEdit(t)
  PROVE /\ work'[t].step \in {"approve", "edit", "delete", "idle"}
        /\ \A u \in Tasks : u # t => work'[u] = work[u]
<1>1. PICK x \in {Idle, [step |-> "approve", draft |-> d, edits |-> edits[d]],
                  [step |-> "edit", draft |-> d],
                  [step |-> "delete", draft |-> d, seen |-> memory.draft = d]} :
           work' = [work EXCEPT ![t] = x]
  BY DEF Approve, Edit, DeleteLooks, Publish, WriteEdit, Do
<1>2. x.step \in {"approve", "edit", "delete", "idle"}
  BY <1>1, IdleWork
<1> QED BY <1>1, <1>2 DEF TypeOK

(* What a deletion takes: the draft, its job, and who was at work on it.   *)
LEMMA DeletionWork ==
  ASSUME TypeOK, NEW h \in Tasks, DeleteCommits(h)
  PROVE /\ work[h] \in Deletions /\ work[h].draft \in Jobs /\ work[h].draft < MaxJobs
        /\ work' \in [Tasks -> Works]
        /\ \A t \in Tasks : \/ work'[t] = work[t]
                            \/ /\ work[t].step \in {"delete", "approve", "edit"}
                               /\ work'[t].step = "idle"
        /\ \A t \in Tasks : work'[t].step \in {"approve", "edit"} => work[t].draft # work[h].draft
<1>1. work[h] \in Deletions
  BY WorkFields DEF DeleteCommits, TypeOK
<1>2. work[h].draft \in Jobs /\ work[h].draft < MaxJobs
  BY <1>1 DEF Deletions, Open
<1>3. \A t \in Tasks :
        work'[t] = IF t = h \/ (t \in In("approve") \union In("edit") /\ work[t].draft = work[h].draft)
                   THEN Idle ELSE work[t]
  BY DEF DeleteCommits
<1>4. work' \in [Tasks -> Works]
  BY IdleWork DEF DeleteCommits, TypeOK
<1>5. ASSUME NEW t \in Tasks
      PROVE /\ \/ work'[t] = work[t]
               \/ work[t].step \in {"delete", "approve", "edit"} /\ work'[t].step = "idle"
            /\ work'[t].step \in {"approve", "edit"} => work[t].draft # work[h].draft
  <2>1. CASE t = h
    BY <1>3, <2>1, IdleWork DEF DeleteCommits
  <2>2. CASE t # h /\ t \in In("approve") \union In("edit") /\ work[t].draft = work[h].draft
    BY <1>3, <2>2, IdleWork DEF In
  <2>3. CASE t # h /\ ~(t \in In("approve") \union In("edit") /\ work[t].draft = work[h].draft)
    <3>1. work'[t] = work[t]
      BY <1>3, <2>3
    <3> QED BY <2>3, <3>1 DEF In
  <2> QED BY <2>1, <2>2, <2>3
<1> QED BY <1>1, <1>2, <1>4, <1>5

LEMMA TypeNext == ASSUME TypeOK, JobInv, [Next]_vars PROVE TypeOK'
<1> USE DEF TypeOK, topic, queue, review, excuses
<1>1. CASE TimePasses
  BY <1>1 DEF TimePasses
<1>2. ASSUME NEW t \in Tasks, Extend(t) \/ Extended(t) \/ ListEnded(t) \/ InstantExpire(t)
      PROVE TypeOK'
  <2>1. /\ [step |-> "extend"] \in Works /\ [step |-> "create"] \in Works
        /\ [step |-> "expire", listed |-> status = "active" /\ deadline # "ahead"] \in Works
    BY DEF Works, Plain, Listings
  <2> QED BY <1>2, <2>1, IdleWork, NewWork DEF Extend, Extended, ListEnded, InstantExpire
<1>3. ASSUME NEW s \in Tasks, ExpireListed(s) PROVE TypeOK'
  <2>1. [step |-> "create"] \in Works
    BY DEF Works, Plain
  <2> QED BY <1>3, <2>1, IdleWork, NewWork DEF ExpireListed
<1>4. ASSUME NEW t \in Tasks, CreateJob(t) PROVE TypeOK'
  <2>1. work' \in [Tasks -> Works]
    BY <1>4, IdleWork, NewWork DEF CreateJob
  <2>2. CASE enabled /\ job = NoJob
    <3>1. made + 1 \in Jobs /\ made + 1 \in 0..MaxJobs
      BY <2>2, Numbers DEF JobInv
    <3>2. job' \in JobRows
      BY <1>4, <2>2, <3>1 DEF CreateJob, JobRows
    <3> QED BY <1>4, <2>1, <2>2, <3>1, <3>2 DEF CreateJob
  <2> QED BY <1>4, <2>1, <2>2 DEF CreateJob
<1>5. ASSUME NEW w \in Tasks, ClaimJob(w) PROVE TypeOK'
  <2>1. job \in JobRows
    BY <1>5 DEF ClaimJob, Claimable, NoJob
  <2>2. [step |-> "generate", job |-> job.id, attempts |-> job.attempts + 1] \in Works
    BY <2>1 DEF JobRows, Works, Rounds
  <2>3. job.attempts + 1 \in Nat
    BY <2>1 DEF JobRows
  <2>4. [job EXCEPT !.status = "PROCESSING", !.attempts = job.attempts + 1] \in JobRows
    BY <2>1, <2>3 DEF JobRows
  <2> QED BY <1>5, <2>2, <2>4, NewWork DEF ClaimJob
<1>6. ASSUME NEW w \in Tasks, Generate(w) \/ CompleteJob(w) \/ FailJob(w) \/ CompletionFails(w)
      PROVE TypeOK'
  <2>1. work[w].job \in Jobs
    <3>1. work[w] \in Rounds \union Failures
      BY <1>6, WorkFields DEF Generate, CompleteJob, FailJob, CompletionFails
    <3> QED BY <3>1 DEF Rounds, Failures
  <2>2. \A terminal \in BOOLEAN : work[w].step \in {"generate", "complete"}
                                    => Failing(w, terminal) \in Works
    <3>1. work[w].step \in {"generate", "complete"} => work[w] \in Rounds
      BY WorkFields
    <3> QED BY <3>1, <2>1 DEF Failing, Works, Failures, Rounds
  <2>3. work[w].step = "generate" => [work[w] EXCEPT !.step = "complete"] \in Works
    <3>1. work[w].step = "generate" => work[w] \in Rounds
      BY WorkFields
    <3> QED BY <3>1 DEF Works, Rounds
  <2>4. CASE Generate(w)
    BY <2>1, <2>2, <2>3, <2>4, NewWork DEF Generate
  <2>5. CASE CompleteJob(w)
    <3>1. job.id = work[w].job => job \in JobRows
      BY <2>1, Numbers DEF NoJob
    <3>2. job.id = work[w].job => [job EXCEPT !.status = "COMPLETED"] \in JobRows
      BY <3>1 DEF JobRows
    <3> QED BY <3>2, <2>2, <2>5, IdleWork, NewWork DEF CompleteJob
  <2>6. CASE FailJob(w)
    <3>1. job.id = work[w].job => job \in JobRows
      BY <2>1, Numbers DEF NoJob
    <3>2. job.id = work[w].job => [job EXCEPT !.status = PutBack(work[w].last)] \in JobRows
      BY <3>1 DEF JobRows, PutBack
    <3> QED BY <2>6, <3>2, IdleWork, NewWork DEF FailJob
  <2>7. CASE CompletionFails(w)
    BY <2>1, <2>2, <2>7, NewWork DEF CompletionFails
  <2> QED BY <1>6, <2>4, <2>5, <2>6, <2>7
<1>7. ASSUME NEW t \in Tasks, Stops(t) PROVE TypeOK'
  BY <1>7, IdleWork, NewWork DEF Stops
<1>8. ASSUME NEW h \in Tasks, NEW d \in Jobs, Approve(h, d) \/ Edit(h, d) \/ DeleteLooks(h, d)
      PROVE TypeOK'
  <2>1. /\ [step |-> "approve", draft |-> d, edits |-> edits[d]] \in Works
        /\ [step |-> "edit", draft |-> d] \in Works
        /\ Open(d) => [step |-> "delete", draft |-> d, seen |-> memory.draft = d] \in Works
    BY DEF Works, Approvals, Corrections, Deletions
  <2> QED BY <1>8, <2>1, NewWork DEF Approve, Edit, DeleteLooks
<1>9. ASSUME NEW h \in Tasks, Publish(h) PROVE TypeOK'
  <2>1. work[h] \in Approvals
    BY <1>9, WorkFields DEF Publish
  <2>2. [draft |-> work[h].draft, edits |-> work[h].edits] \in [draft : Jobs, edits : Nat]
    BY <2>1 DEF Approvals
  <2>3. work' \in [Tasks -> Works]
    BY <1>9, IdleWork, NewWork DEF Publish
  <2> QED BY <1>9, <2>1, <2>2, <2>3 DEF Publish, Approvals
<1>10. ASSUME NEW h \in Tasks, WriteEdit(h) PROVE TypeOK'
  <2>1. work[h] \in Corrections
    BY <1>10, WorkFields DEF WriteEdit
  <2>2. work' \in [Tasks -> Works]
    BY <1>10, IdleWork, NewWork DEF WriteEdit
  <2> QED BY <1>10, <2>1, <2>2 DEF WriteEdit, Corrections
<1>11. ASSUME NEW h \in Tasks, NEW d \in Jobs, Reject(h, d) PROVE TypeOK'
  BY <1>11 DEF Reject
<1>12. ASSUME NEW h \in Tasks, DeleteCommits(h) PROVE TypeOK'
  BY <1>12, DeletionWork DEF DeleteCommits
<1>13. CASE UNCHANGED vars
  BY <1>13 DEF vars
<1> QED BY <1>1, <1>2, <1>3, <1>4, <1>5, <1>6, <1>7, <1>8, <1>9, <1>10, <1>11, <1>12, <1>13
        DEF Next, Sweep, Serve, Handle, Tasks
--------------------------------------------------------------------------------
LEMMA EndNext == ASSUME TypeOK, EndInv, JobInv, [Next]_vars PROVE EndInv'
<1> USE DEF TypeOK, Ending
<1>1. CASE TimePasses
  BY <1>1 DEF TimePasses, EndInv, Begun, Over, Locked, In, queue, excuses
<1>2. ASSUME NEW h \in Tasks, Extend(h) PROVE EndInv'
  <2>1. [step |-> "extend"] \in Works
    BY DEF Works, Plain
  <2>2. \A u \in Tasks : work'[u] = IF u = h THEN [step |-> "extend"] ELSE work[u]
    BY <1>2, <2>1, NewWork DEF Extend
  <2>3. UNCHANGED <<enabled, status, deadline, made, early, missed>> /\ work[h].step = "idle"
    BY <1>2, IdleWork DEF Extend, topic, queue, excuses
  <2>4. (Begun' <=> Begun) /\ (Over' <=> Over) /\ In("expire")' = In("expire")
    BY <2>2, <2>3 DEF Begun, Over, In
  <2>5. Begun => early
    BY <1>2 DEF Extend, EndInv, Over
  <2> QED BY <2>2, <2>3, <2>4, <2>5 DEF EndInv, In
<1>3. ASSUME NEW h \in Tasks, Extended(h) PROVE EndInv'
  <2>1. \A u \in Tasks : work'[u] = IF u = h THEN Idle ELSE work[u]
    BY <1>3, IdleWork, NewWork DEF Extended
  <2>2. UNCHANGED <<enabled, status, made, missed>> /\ deadline' = "ahead" /\ (early => early')
    BY <1>3 DEF Extended, queue
  <2>3. (Begun' <=> Begun) /\ In("expire")' = In("expire")
    BY <1>3, <2>1, <2>2, IdleWork DEF Extended, Begun, In
  <2>4. Begun => early
    BY <1>3 DEF Extended, EndInv, Locked, In
  <2>5. \A s \in In("expire") : work[s].listed => early'
    BY <1>3 DEF Extended
  <2>6. h \notin In("expire")
    BY <1>3 DEF Extended, In
  <2>7. status' = "expired" => Begun \/ missed \/ ~enabled
    BY <2>2 DEF EndInv
  <2>8. \A s \in In("expire")' : work'[s] = work[s]
    BY <2>1, <2>3, <2>6 DEF In
  <2> QED BY <2>2, <2>3, <2>4, <2>5, <2>7, <2>8 DEF EndInv, Over
<1>4. ASSUME NEW s \in Tasks, ListEnded(s) PROVE EndInv'
  <2> DEFINE x == [step |-> "expire", listed |-> status = "active" /\ deadline # "ahead"]
  <2>1. x \in Works
    BY DEF Works, Listings
  <2>2. \A u \in Tasks : work'[u] = IF u = s THEN x ELSE work[u]
    BY <1>4, <2>1, NewWork DEF ListEnded
  <2>3. UNCHANGED <<enabled, status, deadline, made, early, missed>> /\ work[s].step = "idle"
    BY <1>4, IdleWork DEF ListEnded, topic, queue, excuses
  <2>4. (Begun' <=> Begun) /\ (Over' <=> Over) /\ (Locked' <=> Locked)
    BY <2>2, <2>3 DEF Begun, Over, Locked, In
  <2>5. x.listed => Over
    BY DEF Over
  <2> QED BY <2>2, <2>3, <2>4, <2>5 DEF EndInv, In
<1>5. ASSUME NEW s \in Tasks, ExpireListed(s) PROVE EndInv'
  <2> DEFINE x == IF Listed(s) THEN [step |-> "create"] ELSE Idle
  <2>1. x \in Works
    BY IdleWork DEF Works, Plain
  <2>2. \A u \in Tasks : work'[u] = IF u = s THEN x ELSE work[u]
    BY <1>5, <2>1, NewWork DEF ExpireListed
  <2>3. /\ UNCHANGED <<enabled, deadline, made, early, missed>> /\ work[s].step = "expire"
        /\ ~Locked /\ (status' = status \/ status' = "expired")
    BY <1>5 DEF ExpireListed, queue, excuses
  <2>4. ~Locked'
    BY <2>2, <2>3, IdleWork DEF Locked, In
  <2>5. (Over => Over') /\ (status' = "expired" => Over')
    BY <2>3 DEF Over
  <2>6. CASE work[s].listed
    <3>1. Over /\ s \in In("create")'
      BY <2>2, <2>3, <2>6 DEF EndInv, In, Listed
    <3> QED BY <2>3, <2>4, <2>5, <3>1 DEF EndInv, Begun
  <2>7. CASE ~work[s].listed
    <3>1. Begun' <=> Begun
      BY <2>2, <2>3, <2>7, IdleWork DEF Begun, In, Listed
    <3>2. status' = status \/ deadline = "moved"
      BY <1>5, <2>7 DEF ExpireListed, Ends
    <3>3. \A u \in In("expire")' : u \in In("expire") /\ work'[u] = work[u]
      BY <2>2, <2>7, IdleWork DEF In, Listed
    <3> QED BY <2>3, <2>4, <2>5, <3>1, <3>2, <3>3 DEF EndInv
  <2> QED BY <2>6, <2>7
<1>6. ASSUME NEW h \in Tasks, InstantExpire(h) PROVE EndInv'
  <2>1. [step |-> "create"] \in Works
    BY DEF Works, Plain
  <2>2. \A u \in Tasks : work'[u] = IF u = h THEN [step |-> "create"] ELSE work[u]
    BY <1>6, <2>1, NewWork DEF InstantExpire
  <2>3. ~Locked' /\ Begun' /\ Over' /\ UNCHANGED <<enabled, made>>
    BY <1>6, <2>2 DEF InstantExpire, Locked, In, Begun, Over, queue
  <2> QED BY <2>3 DEF EndInv
<1>7. ASSUME NEW t \in Tasks, CreateJob(t) PROVE EndInv'
  <2>1. \A u \in Tasks : work'[u] = IF u = t THEN Idle ELSE work[u]
    BY <1>7, IdleWork, NewWork DEF CreateJob
  <2>2. UNCHANGED <<enabled, status, deadline, early, missed>> /\ Begun
    BY <1>7 DEF CreateJob, topic, excuses, Begun, In
  <2>3. IF enabled THEN made' > 0 ELSE made' = 0
    <3>1. CASE enabled /\ job = NoJob
      BY <1>7, <3>1, Numbers DEF CreateJob
    <3>2. CASE job # NoJob
      BY <1>7, <3>2, Numbers DEF CreateJob, JobInv, JobRows, EndInv
    <3>3. CASE ~enabled
      BY <1>7, <3>3 DEF CreateJob, EndInv
    <3> QED BY <3>1, <3>2, <3>3
  <2>4. (Over' <=> Over) /\ (Locked' => Locked)
    BY <2>1, <2>2, IdleWork DEF Over, Locked, In
  <2>5. \A u \in In("expire")' : u \in In("expire") /\ work'[u] = work[u]
    BY <2>1, IdleWork DEF In
  <2>6. made' > 0 => Begun'
    BY DEF Begun
  <2> QED BY <2>2, <2>3, <2>4, <2>5, <2>6 DEF EndInv
<1>8. ASSUME NEW t \in Tasks, Stops(t) PROVE EndInv'
  <2>1. \A u \in Tasks : work'[u] = IF u = t THEN Idle ELSE work[u]
    BY <1>8, IdleWork, NewWork DEF Stops
  <2>2. /\ UNCHANGED <<enabled, status, deadline, made, early>>
        /\ missed' = (missed \/ work[t].step = "create")
    BY <1>8 DEF Stops, topic, queue
  <2>3. (Over' <=> Over) /\ (Locked' => Locked) /\ (Begun' => Begun)
    BY <2>1, <2>2, IdleWork DEF Over, Locked, Begun, In
  <2>4. Begun => Begun' \/ missed'
    BY <2>1, <2>2 DEF Begun, In
  <2>5. \A u \in In("expire")' : u \in In("expire") /\ work'[u] = work[u]
    BY <2>1, IdleWork DEF In
  <2> QED BY <2>2, <2>3, <2>4, <2>5 DEF EndInv
<1>9. ASSUME NEW w \in Tasks, ClaimJob(w) \/ Generate(w) \/ CompleteJob(w) \/ FailJob(w)
                               \/ CompletionFails(w)
       PROVE EndInv'
  <2>1. work[w].step \notin Ending /\ UNCHANGED <<topic, enabled, made, early, missed>>
    BY <1>9, IdleWork DEF ClaimJob, Generate, CompleteJob, FailJob, CompletionFails, queue, excuses
  <2>2. work'[w].step \notin Ending /\ \A u \in Tasks : u # w => work'[u] = work[u]
    BY <1>9, OwnWork, IdleWork
  <2> QED BY <2>1, <2>2, EndQuiet DEF topic
<1>10. ASSUME NEW h \in Tasks, NEW d \in Jobs,
              Approve(h, d) \/ Edit(h, d) \/ DeleteLooks(h, d) \/ Publish(h) \/ WriteEdit(h)
       PROVE EndInv'
  <2>1. work[h].step \notin Ending /\ UNCHANGED <<topic, enabled, made, early, missed>>
    BY <1>10, IdleWork DEF Approve, Edit, DeleteLooks, Publish, WriteEdit, queue, excuses
  <2>2. work'[h].step \notin Ending /\ \A u \in Tasks : u # h => work'[u] = work[u]
    BY <1>10, ReviewWork
  <2> QED BY <2>1, <2>2, EndQuiet DEF topic
<1>11. ASSUME NEW h \in Tasks, NEW d \in Jobs, Reject(h, d) PROVE EndInv'
  BY <1>11, EndQuiet DEF Reject, topic, queue, excuses
<1>12. ASSUME NEW h \in Tasks, DeleteCommits(h) PROVE EndInv'
  <2>1. \A t \in Tasks : work[t].step \in Ending \/ work'[t].step \in Ending => work'[t] = work[t]
    BY <1>12, DeletionWork
  <2> QED BY <1>12, <2>1, EndQuiet DEF DeleteCommits, topic, excuses
<1>13. CASE UNCHANGED vars
  BY <1>13, EndQuiet DEF vars, topic, queue, excuses
<1> QED BY <1>1, <1>2, <1>3, <1>4, <1>5, <1>6, <1>7, <1>8, <1>9, <1>10, <1>11, <1>12, <1>13, Numbers
        DEF Next, Sweep, Serve, Handle, Tasks
--------------------------------------------------------------------------------
LEMMA JobNext == ASSUME TypeOK, JobInv, [Next]_vars PROVE JobInv'
<1> USE DEF TypeOK, Serving
<1>1. job # NoJob => job \in JobRows /\ job.id \in Jobs
  BY DEF JobRows
<1>2. \A t \in Tasks : work[t].step \in Serving => work[t].job \in Jobs
  BY WorkFields DEF Rounds, Failures
<1>3. \A t \in Tasks : Has(t) => job \in JobRows
  BY <1>1, <1>2, Numbers DEF Has, NoJob
<1>4. ASSUME NEW t \in Tasks, CreateJob(t) PROVE JobInv'
  <2>1. \A u \in Tasks : work'[u] = IF u = t THEN Idle ELSE work[u]
    BY <1>4, IdleWork, NewWork DEF CreateJob
  <2>2. UNCHANGED <<draft, unreported>>
    BY <1>4 DEF CreateJob, review, excuses
  <2>3. CASE ~enabled \/ job # NoJob
    <3>1. UNCHANGED <<job, made>>
      BY <1>4, <2>3 DEF CreateJob
    <3> QED BY <2>1, <2>2, <3>1, IdleWork, JobQuiet DEF Drafted
  <2>4. CASE enabled /\ job = NoJob
    <3>1. /\ made' = made + 1 /\ job'.id = made + 1 /\ job'.status \in {"QUEUED", "SKIPPED"}
          /\ made + 1 \in Jobs /\ job' # NoJob
      BY <1>4, <2>4, Numbers DEF CreateJob, JobInv, NoJob
    <3>2. \A u \in Tasks : work'[u].step \in Serving => work[u].step \in Serving /\ work'[u] = work[u]
      BY <2>1, IdleWork
    <3>3. \A u \in Tasks : ~Has(u)'
      BY <1>2, <3>1, <3>2, Numbers DEF Has, JobInv
    <3>4. draft'[job'.id] = "none"
      BY <2>2, <3>1, Numbers DEF Drafted, JobInv
    <3>5. \A d \in Jobs : Drafted(d)' => d <= made'
      BY <2>2, <3>1, Numbers DEF Drafted, JobInv
    <3>6. \A u \in Tasks : work'[u].step \in Serving => work'[u].job <= made'
      BY <1>2, <3>1, <3>2, Numbers DEF JobInv
    <3> QED BY <3>1, <3>3, <3>4, <3>5, <3>6 DEF JobInv, Drafted
  <2> QED BY <2>3, <2>4
<1>5. ASSUME NEW w \in Tasks, ClaimJob(w) PROVE JobInv'
  <2> DEFINE x == [step |-> "generate", job |-> job.id, attempts |-> job.attempts + 1]
  <2>1. job \in JobRows /\ job # NoJob
    BY <1>1, <1>5 DEF ClaimJob, Claimable, NoJob
  <2>2. x \in Works
    BY <2>1 DEF JobRows, Works, Rounds
  <2>3. \A u \in Tasks : work'[u] = IF u = w THEN x ELSE work[u]
    BY <1>5, <2>2, NewWork DEF ClaimJob
  <2>4. /\ UNCHANGED <<made, draft, unreported>> /\ job.status = "QUEUED"
        /\ job'.id = job.id /\ job'.status = "PROCESSING" /\ job' # NoJob
    BY <1>5, <2>1 DEF ClaimJob, Claimable, review, excuses, JobRows, NoJob
  <2>5. \A u \in Tasks : ~Has(u)
    BY <2>4 DEF JobInv
  <2>6. \A u \in Tasks : Has(u)' => u = w
    BY <2>3, <2>4, <2>5 DEF Has
  <2>7. x.step = "generate" /\ x.job = job.id /\ job.id = made
    BY <2>1 DEF JobInv
  <2>8. Drafted(job.id) => job.id \in unreported
    BY <2>4 DEF JobInv
  <2> QED BY <1>2, <2>1, <2>3, <2>4, <2>6, <2>7, <2>8 DEF JobInv, Drafted, JobRows
<1>6. ASSUME NEW w \in Tasks, Generate(w) PROVE JobInv'
  <2> DEFINE x == work'[w]
  <2>1. x.step \in {"complete", "fail"} /\ x.job = work[w].job
    BY <1>6, OwnWork
  <2>2. \A u \in Tasks : work'[u] = IF u = w THEN x ELSE work[u]
    BY <1>6, OwnWork
  <2>3. UNCHANGED <<job, made, unreported>> /\ work[w].step = "generate"
    BY <1>6 DEF Generate, queue, excuses
  <2>4. \A u \in Tasks : /\ (Has(u)' <=> Has(u))
                         /\ (work'[u].step \in Serving => work[u].step \in Serving)
                         /\ (work[u].step \in Serving => work'[u].job = work[u].job)
    BY <2>1, <2>2, <2>3 DEF Has
  <2>5. CASE draft' = draft /\ x.step = "fail"
    <3>1. \A u \in Tasks : work'[u].step = "complete" <=> work[u].step = "complete"
      BY <2>2, <2>3, <2>5
    <3> QED BY <2>3, <2>4, <2>5, <3>1 DEF JobInv, Drafted
  <2>6. CASE /\ x.step = "complete"
             /\ draft' = [draft EXCEPT ![work[w].job] = "DRAFT"] /\ ~Drafted(work[w].job)
    <3>1. \A d \in Jobs : Drafted(d)' <=> (Drafted(d) \/ d = work[w].job)
      BY <1>2, <2>3, <2>6 DEF Drafted
    <3>2. \A d \in Jobs : Drafted(d)' => d <= made
      BY <2>3, <3>1 DEF JobInv
    <3>3. CASE Has(w)
      <4>1. job.status = "PROCESSING" /\ (\A u \in Tasks : Has(u) => u = w) /\ Drafted(job.id)'
        BY <1>2, <2>3, <3>1, <3>3 DEF JobInv, Has
      <4> QED BY <2>2, <2>3, <2>4, <2>6, <3>2, <4>1 DEF JobInv
    <3>4. CASE ~Has(w)
      <4>1. job \in JobRows => (Drafted(job.id)' <=> Drafted(job.id))
        BY <2>3, <3>1, <3>4 DEF Has, JobRows
      <4>2. \A u \in Tasks : Has(u) => work'[u] = work[u]
        BY <2>2, <3>4
      <4>3. job.status \in {"QUEUED", "FAILED", "COMPLETED"} => job \in JobRows
        BY <1>1 DEF NoJob
      <4> QED BY <1>3, <2>3, <2>4, <3>2, <4>1, <4>2, <4>3 DEF JobInv
    <3> QED BY <3>3, <3>4
  <2>7. \/ draft' = draft /\ x.step = "fail"
        \/ /\ x.step = "complete"
           /\ draft' = [draft EXCEPT ![work[w].job] = "DRAFT"] /\ ~Drafted(work[w].job)
    <3>1. work'[w] = x /\ work[w] \in Rounds
      BY <2>2, <2>3, WorkFields
    <3>2. CASE draft' = draft /\ \E terminal \in BOOLEAN : Do(w, Failing(w, terminal))
      BY <3>1, <3>2 DEF Do, Failing
    <3>3. CASE /\ draft[work[w].job] = "none"
               /\ draft' = [draft EXCEPT ![work[w].job] = "DRAFT"]
               /\ Do(w, [work[w] EXCEPT !.step = "complete"])
      BY <3>1, <3>3 DEF Do, Rounds, Drafted
    <3> QED BY <1>6, <3>2, <3>3 DEF Generate
  <2> QED BY <2>5, <2>6, <2>7
<1>7. ASSUME NEW w \in Tasks, work[w].step \in Serving, job.id = work[w].job,
             NEW s, s = "COMPLETED" => work[w].step = "complete",
             s \in {"QUEUED", "FAILED"} => work[w].step = "fail",
             s \in {"COMPLETED", "QUEUED", "FAILED"},
             job' = [job EXCEPT !.status = s], Do(w, Idle), UNCHANGED <<made, draft, unreported>>
      PROVE JobInv'
  <2>1. Has(w) /\ job \in JobRows /\ job # NoJob /\ job.id \in Jobs
    BY <1>3, <1>7, Numbers DEF Has, NoJob, JobRows
  <2>2. job'.id = job.id /\ job'.status = s /\ job' # NoJob
    BY <1>7, <2>1 DEF JobRows, NoJob
  <2>3. \A u \in Tasks : work'[u] = IF u = w THEN Idle ELSE work[u]
    BY <1>7 DEF Do
  <2>4. \A u \in Tasks : ~Has(u)'
    BY <2>1, <2>2, <2>3, IdleWork DEF Has, JobInv
  <2>5. IF s = "COMPLETED" THEN Drafted(job.id) ELSE Drafted(job.id) => job.id \in unreported
    BY <1>7, <2>1 DEF JobInv
  <2> QED BY <1>7, <2>1, <2>2, <2>3, <2>4, <2>5, IdleWork DEF JobInv, Drafted
<1>8. ASSUME NEW w \in Tasks, CompleteJob(w) PROVE JobInv'
  <2>1. UNCHANGED <<made, draft, unreported>> /\ work[w].step = "complete"
    BY <1>8 DEF CompleteJob, review, excuses
  <2>2. CASE job.id = work[w].job
    BY <1>7, <1>8, <2>1, <2>2 DEF CompleteJob
  <2>3. CASE job.id # work[w].job
    <3>1. UNCHANGED job /\ Do(w, Failing(w, FALSE))
      BY <1>8, <2>3 DEF CompleteJob
    <3>2. \A u \in Tasks : work'[u] = IF u = w THEN Failing(w, FALSE) ELSE work[u]
      BY <3>1 DEF Do
    <3>3. Failing(w, FALSE).step = "fail" /\ Failing(w, FALSE).job = work[w].job
      BY DEF Failing
    <3>4. \A u \in Tasks : /\ Has(u)' => Has(u) /\ work'[u] = work[u]
                           /\ (work'[u].step \in Serving => work[u].step \in Serving)
                           /\ (work[u].step \in Serving => work'[u].job = work[u].job)
      BY <2>1, <2>3, <3>1, <3>2, <3>3 DEF Has
    <3> QED BY <2>1, <3>1, <3>4 DEF JobInv, Drafted
  <2> QED BY <2>2, <2>3
<1>9. ASSUME NEW w \in Tasks, FailJob(w) PROVE JobInv'
  <2>1. UNCHANGED <<made, draft, unreported>> /\ work[w].step = "fail" /\ Do(w, Idle)
    BY <1>9 DEF FailJob, review, excuses
  <2>2. CASE job.id = work[w].job
    BY <1>7, <1>9, <2>1, <2>2 DEF FailJob, PutBack
  <2>3. CASE job.id # work[w].job
    BY <1>9, <2>1, <2>3, JobQuiet, IdleWork DEF FailJob, Drafted, Do
  <2> QED BY <2>2, <2>3
<1>10. ASSUME NEW w \in Tasks, CompletionFails(w) PROVE JobInv'
  <2>1. UNCHANGED <<job, made, draft>> /\ unreported' = unreported \union {work[w].job}
    BY <1>10 DEF CompletionFails, queue, review
  <2>2. \A u \in Tasks : work'[u] = IF u = w THEN Failing(w, FALSE) ELSE work[u]
    BY <1>10 DEF CompletionFails, Do
  <2>3. /\ Failing(w, FALSE).step = "fail" /\ Failing(w, FALSE).job = work[w].job
        /\ work[w].step = "complete"
    BY <1>10 DEF Failing, CompletionFails
  <2>4. \A u \in Tasks : /\ (Has(u)' <=> Has(u))
                         /\ (work'[u].step \in Serving => work[u].step \in Serving)
                         /\ (work[u].step \in Serving => work'[u].job = work[u].job)
    BY <2>1, <2>2, <2>3 DEF Has
  <2>5. Has(w) => job.id \in unreported'
    BY <2>1 DEF Has
  <2> QED BY <2>1, <2>2, <2>3, <2>4, <2>5 DEF JobInv, Drafted
<1>11. ASSUME NEW h \in Tasks, DeleteCommits(h) PROVE JobInv'
  <2> DEFINE d == work[h].draft
  <2>1. /\ d \in Jobs /\ d < MaxJobs
        /\ \A e \in Jobs : Drafted(e)' <=> (Drafted(e) /\ e # d)
    BY <1>11, DeletionWork DEF DeleteCommits, Drafted
  <2>2. UNCHANGED <<made, unreported>>
    BY <1>11 DEF DeleteCommits, excuses
  <2>3. \A u \in Tasks : work'[u].step \in Serving => work'[u] = work[u]
    BY <1>11, DeletionWork
  <2>4. CASE job.id = d
    <3>1. job' = NoJob /\ made < MaxJobs
      BY <1>11, <2>1, <2>4, Numbers DEF DeleteCommits, JobInv, NoJob
    <3>2. \A u \in Tasks : ~Has(u)'
      BY <1>2, <2>3, <3>1, Numbers DEF Has, NoJob
    <3> QED BY <2>1, <2>2, <2>3, <3>1, <3>2 DEF JobInv, NoJob
  <2>5. CASE job.id # d
    <3>1. UNCHANGED job
      BY <1>11, <2>5 DEF DeleteCommits
    <3>2. \A u \in Tasks : Has(u)' => Has(u) /\ work'[u] = work[u]
      BY <2>3, <3>1 DEF Has
    <3>3. job # NoJob => (Drafted(job.id)' <=> Drafted(job.id))
      BY <1>1, <2>1, <2>5, <3>1
    <3>4. (\A u \in Tasks : Has(u) => job # NoJob) /\ NoJob.status = "none"
      BY <1>2, Numbers DEF Has, NoJob
    <3> QED BY <2>1, <2>2, <2>3, <3>1, <3>2, <3>3, <3>4 DEF JobInv
  <2> QED BY <2>4, <2>5
<1>12. ASSUME NEW t \in Tasks, Extend(t) \/ Extended(t) \/ ListEnded(t) \/ ExpireListed(t)
                               \/ InstantExpire(t) \/ Stops(t)
       PROVE JobInv'
  <2>1. work'[t].step \notin Serving /\ \A u \in Tasks : u # t => work'[u] = work[u]
    BY <1>12, EndWork
  <2>2. UNCHANGED <<job, made, draft, unreported>>
    BY <1>12 DEF Extend, Extended, ListEnded, ExpireListed, InstantExpire, Stops, queue, review, excuses
  <2> QED BY <2>1, <2>2, JobQuiet DEF Drafted
<1>13. ASSUME NEW h \in Tasks, NEW d \in Jobs,
              Approve(h, d) \/ Edit(h, d) \/ DeleteLooks(h, d) \/ Publish(h) \/ WriteEdit(h)
       PROVE JobInv'
  <2>1. work'[h].step \notin Serving /\ \A u \in Tasks : u # h => work'[u] = work[u]
    BY <1>13, ReviewWork
  <2>2. UNCHANGED <<job, made, unreported>>
    BY <1>13 DEF Approve, Edit, DeleteLooks, Publish, WriteEdit, queue, review, excuses
  <2>3. \A e \in Jobs : Drafted(e)' <=> Drafted(e)
    BY <1>13 DEF Approve, Edit, DeleteLooks, Publish, WriteEdit, review, Drafted
  <2> QED BY <2>1, <2>2, <2>3, JobQuiet
<1>14. ASSUME NEW h \in Tasks, NEW d \in Jobs, Reject(h, d) PROVE JobInv'
  BY <1>14, JobQuiet DEF Reject, Rejectable, Drafted, queue, excuses
<1>15. CASE TimePasses \/ UNCHANGED vars
  BY <1>15, JobQuiet DEF TimePasses, vars, queue, review, excuses, Drafted
<1> QED BY <1>4, <1>5, <1>6, <1>8, <1>9, <1>10, <1>11, <1>12, <1>13, <1>14, <1>15, Numbers
        DEF Next, Sweep, Serve, Handle, Tasks
--------------------------------------------------------------------------------
LEMMA ReviewNext == ASSUME TypeOK, ReviewInv, [Next]_vars PROVE ReviewInv'
<1> USE DEF TypeOK, Reviewing
<1>1. NoMemory.draft \notin Jobs /\ Orphan.draft \notin Jobs
  BY Numbers DEF NoMemory, Orphan
<1>2. /\ \A h \in In("approve") : work[h] \in Approvals
      /\ \A h \in In("edit") : work[h] \in Corrections
  BY WorkFields DEF In
<1>3. ASSUME NEW t \in Tasks, Extend(t) \/ Extended(t) \/ ListEnded(t) \/ ExpireListed(t)
                              \/ InstantExpire(t) \/ Stops(t) \/ CreateJob(t)
      PROVE ReviewInv'
  <2>1. work'[t].step \notin Reviewing /\ \A u \in Tasks : u # t => work'[u] = work[u]
    BY <1>3, EndWork
  <2>2. UNCHANGED review
    BY <1>3 DEF Extend, Extended, ListEnded, ExpireListed, InstantExpire, Stops, CreateJob
  <2> QED BY <2>1, <2>2, ReviewQuiet
<1>4. ASSUME NEW w \in Tasks, ClaimJob(w) \/ CompleteJob(w) \/ FailJob(w) \/ CompletionFails(w)
      PROVE ReviewInv'
  <2>1. work'[w].step \notin Reviewing /\ \A u \in Tasks : u # w => work'[u] = work[u]
    BY <1>4, OwnWork
  <2>2. UNCHANGED review
    BY <1>4 DEF ClaimJob, CompleteJob, FailJob, CompletionFails
  <2> QED BY <2>1, <2>2, ReviewQuiet
<1>5. ASSUME NEW w \in Tasks, Generate(w) PROVE ReviewInv'
  <2>1. \A t \in Tasks : work'[t].step \in Reviewing => work'[t] = work[t]
    BY <1>5, OwnWork
  <2>2. UNCHANGED <<edits, memory, crossed>>
    BY <1>5 DEF Generate
  <2>3. \A d \in Jobs : draft'[d] = "APPROVED" <=> draft[d] = "APPROVED"
    BY <1>5 DEF Generate
  <2> QED BY <2>1, <2>2, <2>3 DEF ReviewInv, In
<1>6. ASSUME NEW h \in Tasks, NEW d \in Jobs, Approve(h, d) \/ Edit(h, d) PROVE ReviewInv'
  <2>1. UNCHANGED <<draft, edits, memory, crossed>> /\ draft[d] = "DRAFT" /\ d # memory.draft
    BY <1>6 DEF Approve, Edit, MayEdit, review, ReviewInv
  <2>2. PICK x \in {[step |-> "approve", draft |-> d, edits |-> edits[d]],
                    [step |-> "edit", draft |-> d]} :
          \A u \in Tasks : work'[u] = IF u = h THEN x ELSE work[u]
    BY <1>6 DEF Approve, Edit, Do
  <2>3. /\ x.step = "approve" => x.draft = d /\ x.edits = edits[d]
        /\ x.step = "edit" => x.draft = d
    OBVIOUS
  <2> QED BY <2>1, <2>2, <2>3 DEF ReviewInv, In
<1>7. ASSUME NEW h \in Tasks, Publish(h) PROVE ReviewInv'
  <2> DEFINE d == work[h].draft
  <2>1. h \in In("approve") /\ d \in Jobs /\ UNCHANGED edits
    BY <1>2, <1>7 DEF Publish, In, Approvals
  <2>2. \A u \in Tasks : work'[u].step \in Reviewing => u # h /\ work'[u] = work[u]
    BY <1>7, IdleWork DEF Publish, Do
  <2>3. CASE UNCHANGED <<draft, memory, crossed>>
    BY <2>1, <2>2, <2>3, ReviewQuiet DEF review
  <2>4. CASE /\ memory = NoMemory /\ draft' = [draft EXCEPT ![d] = "APPROVED"]
             /\ memory' = [draft |-> d, edits |-> work[h].edits]
             /\ crossed' = IF \E o \in In("edit") : work[o].draft = d
                           THEN crossed \union {d} ELSE crossed
    <3>1. \A e \in Jobs : draft'[e] = "APPROVED" <=> e = memory'.draft
      BY <2>1, <2>4, Numbers DEF ReviewInv, NoMemory
    <3>2. crossed \subseteq crossed' /\ (d \in crossed \/ work[h].edits = edits[d])
      BY <2>1, <2>4 DEF ReviewInv
    <3>3. \A u \in In("edit")' : u \in In("edit") /\ work'[u] = work[u]
      BY <2>2 DEF In
    <3>4. \A u \in In("approve")' : u \in In("approve") /\ work'[u] = work[u]
      BY <2>2 DEF In
    <3>5. \A u \in In("edit")' : work'[u].draft = memory'.draft => memory'.draft \in crossed'
      BY <2>4, <3>3
    <3>6. memory'.draft \in crossed' \/ memory'.edits = edits'[memory'.draft]
      BY <2>1, <2>4, <3>2
    <3> QED BY <2>1, <3>1, <3>2, <3>4, <3>5, <3>6 DEF ReviewInv
  <2> QED BY <1>7, <2>3, <2>4 DEF Publish
<1>8. ASSUME NEW h \in Tasks, WriteEdit(h) PROVE ReviewInv'
  <2> DEFINE d == work[h].draft
  <2>1. /\ h \in In("edit") /\ d \in Jobs /\ UNCHANGED <<draft, memory>>
        /\ edits' = [edits EXCEPT ![d] = @ + 1]
        /\ crossed' = IF \E o \in In("approve") : work[o].draft = d
                      THEN crossed \union {d} ELSE crossed
    BY <1>2, <1>8 DEF WriteEdit, In, Corrections
  <2>2. \A u \in Tasks : work'[u].step \in Reviewing => work'[u] = work[u]
    BY <1>8, IdleWork DEF WriteEdit, Do
  <2>3. \A u \in In("edit")' : u \in In("edit") /\ work'[u] = work[u]
    BY <2>2 DEF In
  <2>4. \A u \in In("approve")' : u \in In("approve") /\ work'[u] = work[u]
    BY <2>2 DEF In
  <2>5. memory.draft \in Jobs => memory.draft \in crossed' \/ memory.edits = edits'[memory.draft]
    BY <1>1, <2>1 DEF ReviewInv
  <2>6. \A u \in In("approve") : work[u].draft \in crossed'
                                 \/ work[u].edits = edits'[work[u].draft]
    BY <1>2, <2>1 DEF ReviewInv, Approvals
  <2> QED BY <2>1, <2>3, <2>4, <2>5, <2>6 DEF ReviewInv
<1>9. ASSUME NEW h \in Tasks, NEW d \in Jobs, Reject(h, d) PROVE ReviewInv'
  BY <1>9 DEF Reject, Rejectable, ReviewInv, In
<1>10. ASSUME NEW h \in Tasks, DeleteCommits(h) PROVE ReviewInv'
  <2> DEFINE d == work[h].draft
  <2>1. /\ d \in Jobs
        /\ draft' = [draft EXCEPT ![d] = "none"] /\ edits' = [edits EXCEPT ![d] = 0]
        /\ crossed' = crossed \ {d}
        /\ IF memory.draft = d THEN memory' \in {NoMemory, Orphan} ELSE memory' = memory
    BY <1>10, DeletionWork DEF DeleteCommits
  <2>2. \A u \in Tasks : work'[u].step \in Reviewing
                           => u \in In("approve") \union In("edit") /\ work'[u] = work[u] /\ work[u].draft # d
    BY <1>10, DeletionWork, IdleWork DEF In
  <2>3. \A e \in Jobs : draft'[e] = "APPROVED" <=> e = memory'.draft
    BY <1>1, <2>1 DEF ReviewInv
  <2>4. memory'.draft \in Jobs => memory'.draft \in crossed' \/ memory'.edits = edits'[memory'.draft]
    BY <1>1, <2>1 DEF ReviewInv
  <2>5. \A u \in In("approve")' : /\ u \in In("approve") /\ work'[u] = work[u]
                                  /\ work[u].draft \in Jobs \ {d}
    BY <1>2, <2>2 DEF In, Approvals
  <2>6. \A u \in In("edit")' : /\ u \in In("edit") /\ work'[u] = work[u]
                               /\ work[u].draft \in Jobs \ {d}
    BY <1>2, <2>2 DEF In, Corrections
  <2>7. \A u \in In("approve")' : work'[u].draft \in crossed' \/ work'[u].edits = edits'[work'[u].draft]
    BY <2>1, <2>5 DEF ReviewInv
  <2>8. \A u \in In("edit")' : work'[u].draft = memory'.draft => memory'.draft \in crossed'
    BY <1>1, <2>1, <2>6 DEF ReviewInv
  <2> QED BY <2>3, <2>4, <2>7, <2>8 DEF ReviewInv
<1>11. ASSUME NEW h \in Tasks, NEW d \in Jobs, DeleteLooks(h, d) PROVE ReviewInv'
  <2>1. \A u \in Tasks : work'[u].step \in Reviewing => work'[u] = work[u]
    BY <1>11 DEF DeleteLooks, Do
  <2> QED BY <1>11, <2>1, ReviewQuiet DEF DeleteLooks
<1>12. CASE TimePasses \/ UNCHANGED vars
  BY <1>12, ReviewQuiet DEF TimePasses, vars, review
<1> QED BY <1>3, <1>4, <1>5, <1>6, <1>7, <1>8, <1>9, <1>10, <1>11, <1>12
        DEF Next, Sweep, Serve, Handle, Tasks
--------------------------------------------------------------------------------
LEMMA TopicNext == TopicInv /\ [Next]_vars => TopicInv'
BY TypeNext, EndNext, JobNext, ReviewNext DEF TopicInv

LEMMA InvImplies == TopicInv => MemoryFollowsTopic
<1> SUFFICES ASSUME TopicInv PROVE MemoryFollowsTopic
  OBVIOUS
<1> USE DEF TopicInv
<1>1. EndedIsQueued
  BY DEF EndedIsQueued, EndInv, Begun
<1>2. JobsAreForEnded
  BY DEF JobsAreForEnded, EndInv, Begun, Over
<1>3. OutcomesAgree
  BY DEF OutcomesAgree, JobInv, Drafted
<1>4. PublishedIsReviewed
  <2>1. /\ NoMemory.draft \notin Jobs /\ Orphan.draft \notin Jobs
        /\ memory \notin {NoMemory, Orphan} <=> memory.draft \in Jobs
        /\ memory.draft \in Jobs \union {NoMemory.draft, Orphan.draft}
    BY Numbers DEF TypeOK, NoMemory, Orphan
  <2> QED BY <2>1 DEF PublishedIsReviewed, ReviewInv
<1> QED BY <1>1, <1>2, <1>3, <1>4 DEF MemoryFollowsTopic

(* From the end of a topic to its published memory nothing is lost or      *)
(* contradicts (ExpireSubGroupsBatchDetailed, CreateJob behind its gate,   *)
(* CompleteJob, FailJob, ApproveDraft, UpdateArtifactContent), but for the *)
(* named lost inserts, edits that cross an approval, and memories whose    *)
(* draft was deleted beside their approval (DeleteDraftCascade).           *)
THEOREM MemoryFollows == Spec => []MemoryFollowsTopic
<1>1. Spec => []TopicInv
  BY TopicInit, TopicNext, PTL DEF Spec
<1> QED BY <1>1, InvImplies, PTL
--------------------------------------------------------------------------------
(***************************************************************************)
(* Join requests: for any number of requests at a time and rows.           *)
(***************************************************************************)
RequestRows == {NoRow} \union [id : Nat \ {0}, status : {"pending", "approved", "rejected"}]
Readings == [step : {"insert", "reopen", "approve", "reject"}, seen : RequestRows]

JoinTypeOK == /\ request \in RequestRows /\ inserted \in Nat
              /\ member \in {"approved", "invited", "no"} /\ ended \in BOOLEAN
              /\ joinWork \in [Requests -> {NoAnswer} \union Readings]
              /\ removed \in BOOLEAN /\ joinCrossed \in BOOLEAN

(* An answer begins from a pending request; and, unless the last words     *)
(* crossed, nobody whose request is open or was rejected is a member by an *)
(* approval.                                                               *)
AnswersPending ==
  \A t \in Requests : joinWork[t].step \in {"approve", "reject"} => joinWork[t].seen.status = "pending"
InForce == joinCrossed \/ /\ request.status \in {"pending", "rejected"} => member # "approved"
                          /\ request.status = "approved" => member # "no" \/ removed

(* The inductive invariant.                                                *)
JoinInv == JoinTypeOK /\ AnswersPending /\ InForce
--------------------------------------------------------------------------------
LEMMA ReadingKinds ==
  ASSUME NEW x \in {NoAnswer} \union Readings
  PROVE /\ x.step # "idle" => x \in Readings
        /\ x = NoAnswer => x.step = "idle"
  BY DEF NoAnswer, Readings

LEMMA ReadStep ==
  ASSUME JoinInv, NEW t \in Requests, NEW step \in {"insert", "reopen", "approve", "reject"},
         Read(t, step), step \in {"approve", "reject"} => Answerable
  PROVE JoinInv'
<1> DEFINE x == [step |-> step, seen |-> request]
<1>1. x \in Readings /\ x.step = step /\ x.seen = request
  BY DEF JoinInv, JoinTypeOK, Readings
<1>2. joinWork' \in [Requests -> {NoAnswer} \union Readings]
  BY <1>1 DEF Read, JoinInv, JoinTypeOK
<1>3. JoinTypeOK'
  BY <1>2 DEF Read, JoinInv, JoinTypeOK
<1>4. \A u \in Requests : joinWork'[u] = IF u = t THEN x ELSE joinWork[u]
  BY DEF Read, JoinInv, JoinTypeOK
<1>5. AnswersPending'
  BY <1>1, <1>4 DEF JoinInv, AnswersPending, Answerable, Read
<1>6. InForce'
  BY DEF Read, JoinInv, InForce
<1> QED BY <1>3, <1>5, <1>6 DEF JoinInv

LEMMA Finishes ==
  ASSUME JoinInv, NEW t \in Requests, Done(t)
  PROVE /\ joinWork' \in [Requests -> {NoAnswer} \union Readings]
        /\ AnswersPending'
<1>1. /\ joinWork' \in [Requests -> {NoAnswer} \union Readings]
      /\ \A u \in Requests : joinWork'[u] = IF u = t THEN NoAnswer ELSE joinWork[u]
  BY DEF Done, JoinInv, JoinTypeOK
<1>2. AnswersPending'
  BY <1>1, ReadingKinds DEF JoinInv, AnswersPending, NoAnswer
<1> QED BY <1>1, <1>2

LEMMA ApplicationStep ==
  ASSUME JoinInv, NEW t \in Requests, WriteApplication(t)
  PROVE JoinInv'
<1>1. /\ joinWork' \in [Requests -> {NoAnswer} \union Readings]
      /\ AnswersPending'
  BY Finishes DEF WriteApplication
<1>2. \/ request' = NoRow
      \/ request' \in RequestRows /\ request'.status = "pending"
  <2>1. CASE request = NoRow /\ joinWork[t].step = "insert"
    <3>1. inserted + 1 \in Nat \ {0} /\ request' = [id |-> inserted + 1, status |-> "pending"]
      BY <2>1 DEF WriteApplication, JoinInv, JoinTypeOK
    <3> QED BY <3>1 DEF RequestRows
  <2>2. CASE request # NoRow
    <3>1. /\ request \in [id : Nat \ {0}, status : {"pending", "approved", "rejected"}]
          /\ request' = [request EXCEPT !.status = "pending"]
      BY <2>2 DEF WriteApplication, JoinInv, JoinTypeOK, RequestRows
    <3> QED BY <3>1 DEF RequestRows
  <2>3. CASE request = NoRow /\ joinWork[t].step # "insert"
    <3>1. request' = IF request = NoRow THEN NoRow ELSE [request EXCEPT !.status = "pending"]
      BY <2>3, Zenon DEF WriteApplication
    <3> QED BY <2>3, <3>1
  <2> QED BY <2>1, <2>2, <2>3
<1>3. JoinTypeOK'
  <2>1. request' \in RequestRows
    BY <1>2 DEF RequestRows
  <2>2. inserted' \in Nat
    BY DEF WriteApplication, JoinInv, JoinTypeOK
  <2>3. joinCrossed' \in BOOLEAN
    BY DEF WriteApplication
  <2> QED BY <1>1, <2>1, <2>2, <2>3 DEF WriteApplication, JoinInv, JoinTypeOK
<1>4. InForce'
  <2>1. joinCrossed' \/ member = "no"
    BY DEF WriteApplication, Untouched
  <2>2. member' = member
    BY DEF WriteApplication
  <2> QED BY <1>2, <2>1, <2>2 DEF InForce, NoRow
<1> QED BY <1>1, <1>3, <1>4 DEF JoinInv

(* An answer written over what it read decides the pending request.        *)
LEMMA DecideStep ==
  ASSUME JoinInv, NEW t \in Requests, Decide(t)
  PROVE JoinInv'
<1>1. /\ joinWork' \in [Requests -> {NoAnswer} \union Readings]
      /\ AnswersPending'
  BY Finishes DEF Decide
<1> DEFINE answer == IF joinWork[t].step = "approve" THEN "approved" ELSE "rejected"
           row == Decided(request, joinWork[t].seen.id, answer)
<1>2. request' = row /\ joinWork[t] \in Readings
  BY ReadingKinds DEF Decide, JoinInv, JoinTypeOK
<1>3. row \in RequestRows
  <2>1. CASE request = NoRow
    <3>1. joinWork[t].seen.status = "pending" /\ joinWork[t].seen \in RequestRows
      BY <1>2 DEF Decide, JoinInv, AnswersPending, Readings
    <3>2. joinWork[t].seen.id # 0
      BY <3>1 DEF RequestRows, NoRow
    <3> QED BY <2>1, <3>2 DEF Decided, NoRow, RequestRows
  <2>2. CASE request \in [id : Nat \ {0}, status : {"pending", "approved", "rejected"}]
    BY <2>2 DEF Decided, RequestRows
  <2> QED BY <2>1, <2>2 DEF JoinInv, JoinTypeOK, RequestRows
<1>4. JoinTypeOK'
  <2>1. member' \in {"approved", "invited", "no"}
    BY DEF Decide, JoinInv, JoinTypeOK
  <2>2. removed' \in BOOLEAN /\ joinCrossed' \in BOOLEAN
    BY DEF Decide
  <2> QED BY <1>1, <1>2, <1>3, <2>1, <2>2 DEF Decide, JoinInv, JoinTypeOK
<1>5. InForce'
  <2>1. CASE Untouched(t) /\ ~joinCrossed
    <3>1. joinWork[t].seen = request /\ request.status = "pending" /\ member # "approved"
      BY <2>1 DEF Decide, Untouched, JoinInv, AnswersPending, InForce
    <3>2. request \in [id : Nat \ {0}, status : {"pending", "approved", "rejected"}]
      BY <3>1 DEF JoinInv, JoinTypeOK, RequestRows, NoRow
    <3>3. row.status = answer
      BY <3>1, <3>2 DEF Decided
    <3>4. CASE joinWork[t].step = "approve"
      BY <1>2, <3>1, <3>3, <3>4 DEF Decide, InForce
    <3>5. CASE joinWork[t].step # "approve"
      BY <1>2, <3>1, <3>3, <3>5 DEF Decide, InForce
    <3> QED BY <3>4, <3>5
  <2>2. CASE ~Untouched(t) \/ joinCrossed
    BY <2>2 DEF Decide, InForce
  <2> QED BY <2>1, <2>2
<1> QED BY <1>1, <1>4, <1>5 DEF JoinInv

LEMMA JoinBegins == JoinInit => JoinInv
<1>1. JoinInit => JoinTypeOK
  <2>1. JoinInit => /\ request \in RequestRows /\ inserted \in Nat
                    /\ member \in {"approved", "invited", "no"}
                    /\ joinWork \in [Requests -> {NoAnswer} \union Readings]
    BY DEF JoinInit, RequestRows
  <2>2. JoinInit => ended \in BOOLEAN /\ removed \in BOOLEAN /\ joinCrossed \in BOOLEAN
    BY DEF JoinInit
  <2> QED BY <2>1, <2>2 DEF JoinTypeOK
<1>2. JoinInit => AnswersPending /\ InForce
  BY DEF JoinInit, AnswersPending, InForce, NoAnswer, NoRow
<1> QED BY <1>1, <1>2 DEF JoinInv

LEMMA JoinStep == JoinInv /\ [JoinNext]_joinVars => JoinInv'
<1> SUFFICES ASSUME JoinInv, [JoinNext]_joinVars PROVE JoinInv'
  OBVIOUS
<1>1. CASE \E t \in Requests : Apply(t)
  BY <1>1, ReadStep DEF Apply
<1>2. CASE \E t \in Requests : WriteApplication(t)
  BY <1>2, ApplicationStep
<1>3. CASE \E t \in Requests : Decide(t)
  BY <1>3, DecideStep
<1>4. CASE \E t \in Requests, step \in {"approve", "reject"} : Answer(t, step)
  BY <1>4, ReadStep DEF Answer
<1>5. CASE Invite
  BY <1>5 DEF Invite, JoinInv, JoinTypeOK, AnswersPending, InForce
<1>6. CASE RemoveMember
  BY <1>6 DEF RemoveMember, JoinInv, JoinTypeOK, AnswersPending, InForce
<1>7. CASE Expire
  BY <1>7 DEF Expire, JoinInv, JoinTypeOK, AnswersPending, InForce
<1>8. CASE Purge
  <2>1. NoRow \in RequestRows /\ NoRow.status = "none"
    BY DEF RequestRows, NoRow
  <2> QED BY <1>8, <2>1 DEF Purge, JoinInv, JoinTypeOK, AnswersPending, InForce
<1>9. CASE UNCHANGED joinVars
  BY <1>9 DEF joinVars, JoinInv, JoinTypeOK, AnswersPending, InForce
<1> QED BY <1>1, <1>2, <1>3, <1>4, <1>5, <1>6, <1>7, <1>8, <1>9 DEF JoinNext

(* For any number of requests at a time: over any rounds of applications,  *)
(* answers, invitations and removals (sql_group_store.go), the last answer *)
(* to a request is the one in force, unless two crossed.                   *)
THEOREM LastAnswerHolds == JoinSpec => []AnswerInForce
<1>1. JoinInv => AnswerInForce
  BY DEF JoinInv, InForce, AnswerInForce
<1> QED BY JoinBegins, JoinStep, <1>1, PTL DEF JoinSpec
================================================================================
