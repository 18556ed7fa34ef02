------------------------------ MODULE JoinRequests ------------------------------
(***************************************************************************)
(* A user's request to join a private forum topic (backend/internal/store/ *)
(* sql_group_store.go): the application, the answers of several admins,    *)
(* invitations, removals, and the end of the topic, which deletes its      *)
(* requests.                                                               *)
(*                                                                         *)
(* The row is read, and written in a statement of its own that looks at    *)
(* the row's id or the applicant alone.                                    *)
(***************************************************************************)
EXTENDS Naturals

CONSTANTS Requests, \* request handlers that run side by side
          MaxRows   \* bound: rows inserted

ASSUME JoinAssumption == MaxRows \in Nat

VARIABLES
  request,    \* the applicant's row of conversation_join_requests
  inserted,   \* rows inserted so far
  member,     \* how the applicant came to be a member: "approved", "invited", "no"
  ended,      \* the topic's status is 'expired'
  joinWork,   \* what each handler is doing
  removed,    \* the applicant was removed since the last approval
  joinCrossed \* an answer or an application was written over what it had not
              \* read, since the last application that was not

joinVars == <<request, inserted, member, ended, joinWork, removed, joinCrossed>>

NoRow == [id |-> 0, status |-> "none"]
NoAnswer == [step |-> "idle"]
Read(t, step) == /\ joinWork[t] = NoAnswer
                 /\ joinWork' = [joinWork EXCEPT ![t] = [step |-> step, seen |-> request]]
                 /\ UNCHANGED <<request, inserted, member, ended, removed, joinCrossed>>
Done(t) == joinWork' = [joinWork EXCEPT ![t] = NoAnswer]

JoinInit == /\ request = NoRow /\ inserted = 0 /\ member = "no" /\ ended = FALSE
            /\ joinWork = [t \in Requests |-> NoAnswer]
            /\ removed = FALSE /\ joinCrossed = FALSE

(* RequestToJoinSubGroup; a row already answered is opened again.          *)
Apply(t) == /\ ~ended /\ member = "no" /\ request.status # "pending"
            /\ Read(t, IF request = NoRow THEN "insert" ELSE "reopen")

(* What is written was read as it is still.                                *)
Untouched(t) == /\ joinWork[t].seen = request
                /\ member = "no" \/ joinWork[t].step \in {"approve", "reject"}

(* The row is new, or the one there is opened; an update finds no row once *)
(* the topic's requests were deleted, and the applicant is told nothing.   *)
WriteApplication(t) ==
  /\ joinWork[t].step \in {"insert", "reopen"}
  /\ IF request = NoRow /\ joinWork[t].step = "insert"
     THEN /\ inserted < MaxRows /\ inserted' = inserted + 1
          /\ request' = [id |-> inserted + 1, status |-> "pending"]
     ELSE /\ request' = IF request = NoRow THEN NoRow ELSE [request EXCEPT !.status = "pending"]
          /\ UNCHANGED inserted
  /\ joinCrossed' = ~Untouched(t)
  /\ Done(t)
  /\ UNCHANGED <<member, ended, removed>>

(* Mutant: an answer needs no pending request.                             *)
AnyRequest == request # NoRow
Answerable == request.status = "pending"

(* RespondJoinRequest looks at the request, not at the topic's end.        *)
Answer(t, step) == Answerable /\ Read(t, step)

Decided(row, id, answer) == IF row.id = id THEN [row EXCEPT !.status = answer] ELSE row

(* The row by its id, and with an approval the member, in one transaction. *)
Decide(t) ==
  /\ joinWork[t].step \in {"approve", "reject"}
  /\ LET approved == joinWork[t].step = "approve"
     IN /\ request' = Decided(request, joinWork[t].seen.id, IF approved THEN "approved" ELSE "rejected")
        /\ member' = IF approved /\ member = "no" THEN "approved" ELSE member
        /\ removed' = (removed /\ ~approved)
  /\ joinCrossed' = (joinCrossed \/ ~Untouched(t))
  /\ Done(t)
  /\ UNCHANGED <<inserted, ended>>

Invite == /\ member = "no" /\ member' = "invited"
          /\ UNCHANGED <<request, inserted, ended, joinWork, removed, joinCrossed>>

RemoveMember == /\ member # "no" /\ member' = "no" /\ removed' = TRUE
                /\ UNCHANGED <<request, inserted, ended, joinWork, joinCrossed>>

(* ExpireSubGroupsBatchDetailed: the status, then the requests of all      *)
(* topics that have ended, in this sweep or in a later one.                *)
Expire == ~ended /\ ended' = TRUE /\ UNCHANGED <<request, inserted, member, joinWork, removed, joinCrossed>>

Purge == ended /\ request' = NoRow /\ UNCHANGED <<inserted, member, ended, joinWork, removed, joinCrossed>>

JoinNext == \/ \E t \in Requests : \/ Apply(t) \/ WriteApplication(t) \/ Decide(t)
                                \/ \E step \in {"approve", "reject"} : Answer(t, step)
            \/ Invite \/ RemoveMember \/ Expire \/ Purge

JoinSpec == JoinInit /\ [][JoinNext]_joinVars
--------------------------------------------------------------------------------
(* The last answer to a request is the one in force, over several rounds   *)
(* of applications, removals and invitations: who was rejected was not let *)
(* in by an approval, and who was approved is a member unless removed.     *)
(* Except where two answers, or two applications, crossed: the second is   *)
(* written over the first (sql_group_store.go:1511).                       *)
AnswerInForce == joinCrossed \/ /\ request.status = "rejected" => member # "approved"
                                /\ request.status = "approved" => member # "no" \/ removed
================================================================================
