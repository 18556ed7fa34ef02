------------------------------- MODULE Friendship -------------------------------
(***************************************************************************)
(* The relation of two users (backend/internal/connection/service.go and   *)
(* infra/sql_repository.go): requests, answers, unfriending and blocks     *)
(* from both sides at once, and the cache of friendships each node keeps.  *)
(*                                                                         *)
(* Every operation reads the row, decides, and writes in a statement of    *)
(* its own that looks at nothing but the row's id or the pair.  A unique   *)
(* index allows the pair one row (store/sql.go:691).  Rate limits, quotas  *)
(* and the cooldown of a declined request only refuse: any request may be  *)
(* refused, which is the same as not being made.                           *)
(***************************************************************************)
EXTENDS Naturals

CONSTANTS Pair, PairNodes,
          PairTasks, \* request handlers that run side by side
          MaxRows    \* bound: rows inserted

ASSUME FriendshipAssumption == MaxRows \in Nat

VARIABLES
  pairRow,     \* the pair's row of user_connections, NoRow without one
  inserted,    \* rows inserted so far
  friendCache, \* ConnectionService.friendCache of each node
  pairWork,    \* what each handler is doing
  pairDoubtful \* nodes whose cache a change of the friendship did not reach

pairVars == <<pairRow, inserted, friendCache, pairWork, pairDoubtful>>

NoRow == [id |-> 0, status |-> "none"]
NoWork == [step |-> "idle"]
Proceed(t, x) == pairWork' = [pairWork EXCEPT ![t] = x]
Friends == pairRow.status = "accepted"

FriendsInit == /\ pairRow = NoRow /\ inserted = 0
               /\ friendCache = [n \in PairNodes |-> "unknown"]
               /\ pairWork = [t \in PairTasks |-> NoWork]
               /\ pairDoubtful = {}

(* FindConnection: what follows is a write of the given kind, or nothing.  *)
Decide(t, u, n, step, status) ==
  /\ pairWork[t] = NoWork
  /\ Proceed(t, [step |-> step, node |-> n, user |-> u, id |-> pairRow.id, status |-> status])
  /\ UNCHANGED <<pairRow, inserted, friendCache, pairDoubtful>>

(* RequestConnection: a new row, the acceptance of the other's request, or *)
(* a declined one opened again.                                            *)
RequestConnection(t, u, n) ==
  \/ pairRow = NoRow /\ Decide(t, u, n, "insert", "pending")
  \/ pairRow.status = "pending" /\ pairRow.by # u /\ Decide(t, u, n, "update", "accepted")
  \/ pairRow.status = "declined" /\ Decide(t, u, n, "reset", "pending")

RespondConnection(t, u, n) ==
  /\ pairRow.status = "pending" /\ pairRow.by # u
  /\ \E answer \in {"accepted", "declined"} : Decide(t, u, n, "update", answer)

(* Mutant: a block is no reason not to delete the row.                     *)
MayUnfriendAll == TRUE
MayUnfriend == pairRow.status # "blocked"

Unfriend(t, u, n) == MayUnfriend /\ Decide(t, u, n, "delete", "none")

(* A row of any kind is deleted first, the other's block included.         *)
BlockUser(t, u, n) ==
  \/ pairRow = NoRow /\ Decide(t, u, n, "insert", "blocked")
  \/ /\ pairRow # NoRow /\ ~(pairRow.status = "blocked" /\ pairRow.by = u)
     /\ Decide(t, u, n, "delete", "blocked")

(* Mutant: whoever asks opens the block.                                   *)
AnyBlock(u) == pairRow.status = "blocked"
OwnBlock(u) == pairRow.status = "blocked" /\ pairRow.by = u

UnblockUser(t, u, n) == OwnBlock(u) /\ Decide(t, u, n, "delete", "none")
--------------------------------------------------------------------------------
(* A write on node n makes r of the row; invalidateFriendCache follows on  *)
(* that node, and a fill under way will store what it read before.         *)
Write(t, r, then) ==
  /\ pairRow' = r
  /\ pairWork' = [o \in PairTasks |-> IF o = t THEN then
                              ELSE IF pairWork[o].step = "fill" /\ r.status # pairRow.status
                                   THEN [pairWork[o] EXCEPT !.late = TRUE] ELSE pairWork[o]]
  /\ pairDoubtful' = IF r.status = pairRow.status THEN pairDoubtful
                 ELSE pairDoubtful \union (PairNodes \ {pairWork[t].node})

Invalidating(t) == [step |-> "invalidate", node |-> pairWork[t].node]

(* CreateRequest fails where there is a row: the handler ends with an      *)
(* error, and a row it had deleted before is not announced.                *)
Insert(t) ==
  LET x == pairWork[t]
  IN /\ x.step = "insert" /\ inserted < MaxRows
     /\ IF pairRow = NoRow
        THEN /\ Write(t, [id |-> inserted + 1, status |-> x.status, by |-> x.user], Invalidating(t))
             /\ inserted' = inserted + 1
        ELSE /\ Proceed(t, NoWork)
             /\ pairDoubtful' = pairDoubtful \union (IF x.id = 0 THEN {} ELSE {x.node})
             /\ UNCHANGED <<pairRow, inserted>>
     /\ UNCHANGED friendCache

(* UpdateStatus and ResetRequest, of the row with the id read before.      *)
Update(t) ==
  LET x == pairWork[t]
  IN /\ x.step \in {"update", "reset"}
     /\ IF pairRow.id = x.id
        THEN Write(t, [pairRow EXCEPT !.status = x.status,
                                      !.by = IF x.step = "reset" THEN x.user ELSE @],
                   Invalidating(t))
        ELSE /\ Proceed(t, IF x.step = "reset" THEN Invalidating(t) ELSE NoWork)
             /\ UNCHANGED <<pairRow, pairDoubtful>>
     /\ UNCHANGED <<inserted, friendCache>>

(* DeleteConnection, of whatever row the pair has; a block goes on.        *)
Delete(t) ==
  /\ pairWork[t].step = "delete"
  /\ Write(t, NoRow, IF pairWork[t].status = "blocked" THEN [pairWork[t] EXCEPT !.step = "insert"]
                     ELSE Invalidating(t))
  /\ UNCHANGED <<inserted, friendCache>>

(* Mutant: the entry of the cache stays.                                   *)
Untouched(n) == friendCache
Forgotten(n) == [friendCache EXCEPT ![n] = "unknown"]

Invalidate(t) ==
  /\ pairWork[t].step = "invalidate"
  /\ friendCache' = Forgotten(pairWork[t].node)
  /\ pairDoubtful' = pairDoubtful \ {pairWork[t].node}
  /\ Proceed(t, NoWork)
  /\ UNCHANGED <<pairRow, inserted>>

(* IsFriend: the database is read where the cache has nothing, and the     *)
(* answer stored.                                                          *)
IsFriend(t, n) ==
  /\ pairWork[t] = NoWork /\ friendCache[n] = "unknown"
  /\ Proceed(t, [step |-> "fill", node |-> n, answer |-> IF Friends THEN "friends" ELSE "not",
            late |-> FALSE])
  /\ UNCHANGED <<pairRow, inserted, friendCache, pairDoubtful>>

Fill(t) ==
  LET x == pairWork[t]
  IN /\ x.step = "fill"
     /\ friendCache' = [friendCache EXCEPT ![x.node] = x.answer]
     /\ pairDoubtful' = IF x.late THEN pairDoubtful \union {x.node} ELSE pairDoubtful \ {x.node}
     /\ Proceed(t, NoWork)
     /\ UNCHANGED <<pairRow, inserted>>

(* The entry's time to live ends.                                          *)
Expire(n) == /\ friendCache[n] # "unknown"
             /\ friendCache' = [friendCache EXCEPT ![n] = "unknown"]
             /\ pairDoubtful' = pairDoubtful \ {n}
             /\ UNCHANGED <<pairRow, inserted, pairWork>>

FriendsNext ==
  \/ \E t \in PairTasks :
       \/ Insert(t) \/ Update(t) \/ Delete(t) \/ Invalidate(t) \/ Fill(t)
       \/ \E n \in PairNodes :
            \/ IsFriend(t, n)
            \/ \E u \in Pair : \/ RequestConnection(t, u, n) \/ RespondConnection(t, u, n)
                               \/ Unfriend(t, u, n) \/ BlockUser(t, u, n) \/ UnblockUser(t, u, n)
  \/ \E n \in PairNodes : Expire(n)

FriendsSpec == FriendsInit /\ [][FriendsNext]_pairVars
--------------------------------------------------------------------------------
(* The handlers that just deleted or changed the row.                      *)
Writers == {t \in PairTasks : /\ pairWork[t].step \in {"update", "reset", "delete"}
                              /\ pairWork'[t] # pairWork[t]}

(* A block ends by its owner's hand, however requests, answers and removals *)
(* cross it.  Except by a removal that had read the row before the block   *)
(* (service.go:276: the DELETE looks at the pair alone), and by the other  *)
(* user's own block, which takes its place (service.go:306).               *)
BlockSticks ==
  [][pairRow.status = "blocked" /\ pairRow' # pairRow
       => \E t \in Writers : \/ pairWork[t].user = pairRow.by
                             \/ pairWork[t].id # pairRow.id
                             \/ pairWork[t].status = "blocked"]_pairVars

(* A user's block is only lifted by himself ("blokir dari pihak lain tidak *)
(* bisa dibuka", service.go:328): never by what the other had decided      *)
(* knowing of it.                                                          *)
OnlyOwnBlocksAreLifted ==
  [][pairRow.status = "blocked" /\ pairRow' # pairRow
       => \E t \in Writers : pairWork[t].user = pairRow.by \/ pairWork[t].id # pairRow.id]_pairVars

(* The row was changed, and the node's own entry is about to be removed.   *)
Announcing(t) == \/ pairWork[t].step = "invalidate"
                 \/ pairWork[t].step = "insert" /\ pairWork[t].id # 0

(* A node answers from its cache what the database would answer, but for   *)
(* entries a change does not reach: those of other nodes, one being filled *)
(* while the change is made (service.go:482), and that of a block which    *)
(* deleted the friendship but lost its place to a new request.             *)
FriendCacheIsCurrent ==
  \A n \in PairNodes : \/ friendCache[n] = "unknown" \/ n \in pairDoubtful
                       \/ \E t \in PairTasks : Announcing(t) /\ pairWork[t].node = n
                       \/ friendCache[n] = IF Friends THEN "friends" ELSE "not"
================================================================================
