-------------------------------- MODULE MCTopics --------------------------------
(***************************************************************************)
(* A topic and its applicants, in two parts that do not touch each other:  *)
(* a behaviour is about one of them, and the other stays as it began.      *)
(*                                                                         *)
(*   memory  a topic of a group that is enabled or not, which may be       *)
(*           extended once; one TTL worker, one job worker and two         *)
(*           requests at a time; two jobs and a failure                    *)
(*   joins   one applicant, three requests at a time                       *)
(***************************************************************************)
EXTENDS ForumMemory, JoinRequests

VARIABLE part

TopicsInit == part \in {"memory", "joins"} /\ Init /\ JoinInit

InMemory(A) == part = "memory" /\ A /\ UNCHANGED <<part, joinVars>>
InJoins(A) == part = "joins" /\ A /\ UNCHANGED <<part, vars>>

TopicsNext == InMemory(Next) \/ InJoins(JoinNext)

all == <<part, vars, joinVars>>

(* The fairness is that of ForumMemory.                                    *)
TopicsSpec == /\ TopicsInit /\ [][TopicsNext]_all
              /\ \A s \in Sweepers : WF_all(InMemory(Sweep(s)))
              /\ \A w \in Workers : WF_all(InMemory(Serve(w)))
              /\ WF_all(InMemory(\E h \in Handlers : Extended(h)))
================================================================================
