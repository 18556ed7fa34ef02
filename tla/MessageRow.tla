------------------------------ MODULE MessageRow ------------------------------
(***************************************************************************)
(* One row of the messages table and the requests that change it:          *)
(* EditMessage, DeleteMessage (for everyone, for me) and ToggleReaction of *)
(* backend/internal/store/sql.go.  Each reads the row, decides, and then   *)
(* updates its own columns with a second statement; nothing locks the row  *)
(* in between, so requests of several users overlap.                       *)
(***************************************************************************)
EXTENDS Naturals

CONSTANTS Members,
          Sender,      \* messages.from_id
          Requests     \* requests in progress at the same time

ASSUME SenderAssumption == Sender \in Members

VARIABLES row,      \* the row's columns
          age,      \* 0: up to a minute old, 1: up to 15 minutes, 2: older
          req,      \* what each request has read and is about to write
          hiders,   \* users whose "delete for me" succeeded
          reactors, \* users whose last successful toggle put the reaction
          lost      \* operations that overwrote what changed since their read

rowVars == <<row, age, req, hiders, reactors, lost>>

Ops == {"edit", "erase", "hide", "react"}
Idle == [op |-> "none"]

RowInit == /\ row \in [text : {"original"}, media : BOOLEAN, deleted : {FALSE},
                       hidden : {{}}, reacted : {{}}]
           /\ age = 0
           /\ req = [p \in Requests |-> Idle]
           /\ hiders = {} /\ reactors = {} /\ lost = {}

TimePasses == age < 2 /\ age' = age + 1 /\ UNCHANGED <<row, req, hiders, reactors, lost>>

(* Mutant: a deleted message may be edited.                                *)
AllowedOnDeleted(op, u) ==
  \/ op = "edit" /\ u = Sender /\ ~row.media /\ age <= 1
  \/ op = "erase" /\ u = Sender /\ age = 0
  \/ op \in {"hide", "react"}

(* The checks each operation makes on the row it read.                     *)
Allowed(op, u) ==
  \/ op = "edit" /\ u = Sender /\ ~row.deleted /\ ~row.media /\ age <= 1
  \/ op = "erase" /\ u = Sender /\ age = 0
  \/ op \in {"hide", "react"}

(* The column an operation decides by, or is to write back changed.        *)
Column(op) == CASE op = "hide" -> [hidden |-> row.hidden]
              [] op = "react" -> [reacted |-> row.reacted]
              [] OTHER -> [deleted |-> row.deleted]

(* GetMessageByID (or the SELECT of reactions) and the checks.             *)
Begin(p, op, u) ==
  /\ req[p] = Idle
  /\ Allowed(op, u)
  /\ req' = [req EXCEPT ![p] = [op |-> op, user |-> u, seen |-> Column(op)]]
  /\ UNCHANGED <<row, age, hiders, reactors, lost>>

(* The new text; the edit touches no other column.                         *)
Edited(r) == [row EXCEPT !.text = "edited"]

(* Deleting for everyone: placeholder, media columns and reactions cleared. *)
Erased(r) == [row EXCEPT !.text = "placeholder", !.media = FALSE, !.deleted = TRUE,
                         !.reacted = {}]

(* Mutant: the list of users is started anew.                              *)
HiddenOnly(r) == [row EXCEPT !.hidden = {r.user}]

(* The JSON list read before, with the user in it.                         *)
HiddenFrom(r) == [row EXCEPT !.hidden = r.seen.hidden \union {r.user}]

Toggled(s, u) == IF u \in s THEN s \ {u} ELSE s \union {u}

(* Mutant: the reaction is only ever added.                                *)
ReactedAdding(r) == [row EXCEPT !.reacted = r.seen.reacted \union {r.user}]

(* The JSON list read before, toggled.                                     *)
Reacted(r) == [row EXCEPT !.reacted = Toggled(r.seen.reacted, r.user)]

(* What the request decided by, or is about to write back, has changed     *)
(* since it read the row.                                                  *)
Overtaken(r) == r.op # "erase" /\ Column(r.op) # r.seen

(* The UPDATE that ends the request.                                       *)
Finish(p) ==
  LET r == req[p]
  IN /\ r # Idle
     /\ \/ r.op = "edit" /\ row' = Edited(r) /\ UNCHANGED <<hiders, reactors>>
        \/ r.op = "erase" /\ row' = Erased(r) /\ reactors' = {} /\ UNCHANGED hiders
        \/ r.op = "hide" /\ row' = HiddenFrom(r) /\ hiders' = hiders \union {r.user}
                         /\ UNCHANGED reactors
        \/ r.op = "react" /\ row' = Reacted(r) /\ reactors' = Toggled(reactors, r.user)
                          /\ UNCHANGED hiders
     /\ lost' = IF Overtaken(r) THEN lost \union {r.op} ELSE lost
     /\ req' = [req EXCEPT ![p] = Idle]
     /\ UNCHANGED age

RowNext == \/ TimePasses
           \/ \E p \in Requests : \/ Finish(p)
                                  \/ \E op \in Ops, u \in Members : Begin(p, op, u)

RowSpec == RowInit /\ [][RowNext]_rowVars

-----------------------------------------------------------------------------
(* A message deleted for everyone shows the placeholder and nothing of the *)
(* message (MESSAGING_CHAT.md, rule 3), unless an edit had read the row    *)
(* before the deletion (sql.go:1758): no other overlap does that.          *)
DeletedIsPlaceholder ==
  row.deleted => ~row.media /\ (row.text = "placeholder" \/ "edit" \in lost)

(* A user who deleted the message for himself does not see it again        *)
(* (MESSAGING_CHAT.md, rule 3), unless another user who hid it had read    *)
(* the list before him and wrote it back after him (sql.go:1704).          *)
HiddenStaysHidden == hiders \subseteq row.hidden \/ "hide" \in lost

(* The stored reactions are those the users' toggles made, unless two      *)
(* users' toggles overlapped (sql.go:910): edits and hidings, overlapping  *)
(* or not, touch none.                                                     *)
ReactionsAreTheUsers ==
  ~row.deleted => row.reacted = reactors \/ "react" \in lost

(* The row shows what the requests made of it, but for the three overlaps  *)
(* above: no other one loses or brings back anything.                      *)
RowAsRequested == DeletedIsPlaceholder /\ HiddenStaysHidden /\ ReactionsAreTheUsers
=============================================================================
