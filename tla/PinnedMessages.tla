---------------------------- MODULE PinnedMessages ----------------------------
(***************************************************************************)
(* The pinned messages of one conversation: PinMessage, UnpinMessage and   *)
(* the deletion of a message for everyone (backend/internal/store/sql.go). *)
(* PinMessage looks for the pin, counts the pins, drops the oldest and     *)
(* inserts, each with a statement of its own; requests overlap, and only   *)
(* the errors of the UPDATE and the INSERT end a request.                  *)
(***************************************************************************)
EXTENDS Naturals, Sequences, SequencesExt, FiniteSets

CONSTANTS Pinnable,    \* messages of the conversation
          PinRequests, \* requests in progress at the same time
          MaxPins      \* 3

ASSUME PinsAssumption == MaxPins \in Nat \ {0} /\ IsFiniteSet(PinRequests)

VARIABLES pins,       \* messages with a row in pinned_messages, by pinned_at
          deleted,    \* messages deleted for everyone
          pinReq,     \* the operation of each request and how far it is
          pinCrossed, \* messages erased while a request was about to pin
                      \* them, or whose unpinning failed
          overlooked  \* pins let in over the limit with none dropped for
                      \* them, less those gone since

pinsVars == <<pins, deleted, pinReq, pinCrossed, overlooked>>

NoPin == [step |-> "idle"]

PinsInit == /\ pins = <<>> /\ deleted = {} /\ pinReq = [p \in PinRequests |-> NoPin]
            /\ pinCrossed = {} /\ overlooked = 0

At(p, step) == pinReq[p].step = step
GoTo(p, step, m) == pinReq' = [pinReq EXCEPT ![p] = [step |-> step, msg |-> m]]
PinDone(p) == pinReq' = [pinReq EXCEPT ![p] = NoPin]

Pinned(m) == m \in ToSet(pins)

(* DELETE of the row of m: a message has one (sql.go:203).                 *)
WithoutPin(m) ==
  IF Pinned(m) THEN RemoveAt(pins, CHOOSE i \in DOMAIN pins : pins[i] = m) ELSE pins

Dropping(m) == {q \in PinRequests : At(q, "picked") /\ pinReq[q].row = m}

(* Whose UPDATE or DELETE of m's row by its id finds nothing now: the      *)
(* former ends, the latter goes on to its INSERT with nothing dropped.     *)
RowGone(rs, m) ==
  [q \in PinRequests |->
     IF q \in Dropping(m) THEN [step |-> "inserting", msg |-> rs[q].msg]
     ELSE IF rs[q] = [step |-> "refreshing", msg |-> m] THEN NoPin ELSE rs[q]]

Lessened(n) == IF n = 0 THEN 0 ELSE n - 1

(* The row of m goes: one pin less, whoever else was about to drop it.     *)
DeleteRow(m) ==
  /\ pins' = WithoutPin(m)
  /\ overlooked' = IF Pinned(m) THEN Lessened(overlooked + Cardinality(Dropping(m))) ELSE overlooked

(* GetMessageByID and the check that the message is not deleted.           *)
PinCheck(p, m) ==
  /\ At(p, "idle")
  /\ m \notin deleted
  /\ GoTo(p, "checked", m)
  /\ UNCHANGED <<pins, deleted, pinCrossed, overlooked>>

(* SELECT id: a message that is pinned already is only brought up to date; *)
(* if the query fails, it counts as not pinned.                            *)
PinLookup(p) ==
  /\ At(p, "checked")
  /\ \/ Pinned(pinReq[p].msg) /\ GoTo(p, "refreshing", pinReq[p].msg)
     \/ GoTo(p, "counting", pinReq[p].msg)
  /\ UNCHANGED <<pins, deleted, pinCrossed, overlooked>>

(* UPDATE pinned_at of the row that was found: it is the newest pin now.   *)
PinRefresh(p) ==
  LET m == pinReq[p].msg
  IN /\ At(p, "refreshing")
     /\ pins' = Append(WithoutPin(m), m)
     /\ PinDone(p)
     /\ UNCHANGED <<deleted, pinCrossed, overlooked>>

(* Mutant: one more pin is let in before the oldest goes.                  *)
FullLate == Len(pins) > MaxPins

(* The count of the conversation's pins, three or more.                    *)
Full == Len(pins) >= MaxPins

(* With all places taken the oldest pin is deleted, by a second statement. *)
PinCount(p) ==
  /\ At(p, "counting")
  /\ GoTo(p, IF Full THEN "dropping" ELSE "inserting", pinReq[p].msg)
  /\ UNCHANGED <<pins, deleted, pinCrossed, overlooked>>

(* Nothing is dropped for a pin: the COUNT failed, which leaves it zero,   *)
(* or the DELETE did, before or after it picked its row.                   *)
PinOverlooks(p) ==
  /\ \/ At(p, "counting") /\ Full
     \/ At(p, "dropping") \/ At(p, "picked")
  /\ GoTo(p, "inserting", pinReq[p].msg)
  /\ overlooked' = overlooked + 1
  /\ UNCHANGED <<pins, deleted, pinCrossed>>

(* DELETE WHERE id IN (SELECT the oldest): the row is picked from what is  *)
(* committed by then, and two requests may pick the same one.              *)
PinPick(p) ==
  /\ At(p, "dropping")
  /\ IF pins = <<>>
     THEN GoTo(p, "inserting", pinReq[p].msg)
     ELSE pinReq' = [pinReq EXCEPT ![p] = [step |-> "picked", msg |-> @.msg, row |-> Head(pins)]]
  /\ UNCHANGED <<pins, deleted, pinCrossed, overlooked>>

PinDrop(p) ==
  /\ At(p, "picked")
  /\ DeleteRow(pinReq[p].row)
  /\ pinReq' = RowGone(pinReq, pinReq[p].row)
  /\ UNCHANGED <<deleted, pinCrossed>>

(* INSERT; the unique key refuses a message pinned meanwhile.              *)
PinInsert(p) ==
  LET m == pinReq[p].msg
  IN /\ At(p, "inserting")
     /\ pins' = IF Pinned(m) THEN pins ELSE Append(pins, m)
     /\ overlooked' = IF Pinned(m) THEN Lessened(overlooked) ELSE overlooked
     /\ PinDone(p)
     /\ UNCHANGED <<deleted, pinCrossed>>

Unpin(p, m) ==
  /\ At(p, "idle")
  /\ DeleteRow(m)
  /\ pinReq' = RowGone(pinReq, m)
  /\ UNCHANGED <<deleted, pinCrossed>>

(* A request has found m undeleted and goes on to pin it.                  *)
BeingPinned(m) ==
  \E p \in PinRequests : pinReq[p] # NoPin /\ pinReq[p].msg = m /\ pinReq[p].step # "erased"

(* DeleteMessage for everyone, by the sender: the row, then its pin.       *)
Erase(p, m) ==
  /\ At(p, "idle")
  /\ deleted' = deleted \union {m}
  /\ pinCrossed' = IF BeingPinned(m) THEN pinCrossed \union {m} ELSE pinCrossed
  /\ GoTo(p, "erased", m)
  /\ UNCHANGED <<pins, overlooked>>

(* Mutant: the pin of the erased message is left.                          *)
PinLeft(m) == pins' = pins /\ overlooked' = overlooked

PinGone(m) == DeleteRow(m)

EraseUnpins(p) ==
  /\ At(p, "erased")
  /\ PinGone(pinReq[p].msg)
  /\ pinReq' = RowGone([pinReq EXCEPT ![p] = NoPin], pinReq[p].msg)
  /\ UNCHANGED <<deleted, pinCrossed>>

(* A request goes no further: its node stops, or a statement fails whose   *)
(* error is returned, or the last one of an erasure, whose error is not.   *)
PinStops(p) ==
  /\ pinReq[p] # NoPin
  /\ pinCrossed' = IF At(p, "erased") THEN pinCrossed \union {pinReq[p].msg} ELSE pinCrossed
  /\ overlooked' = IF At(p, "inserting") THEN Lessened(overlooked) ELSE overlooked
  /\ PinDone(p)
  /\ UNCHANGED <<pins, deleted>>

PinsNext == \E p \in PinRequests :
          \/ PinLookup(p) \/ PinRefresh(p) \/ PinCount(p) \/ PinOverlooks(p) \/ PinPick(p)
          \/ PinDrop(p) \/ PinInsert(p) \/ EraseUnpins(p) \/ PinStops(p)
          \/ \E m \in Pinnable : PinCheck(p, m) \/ Unpin(p, m) \/ Erase(p, m)

PinsSpec == PinsInit /\ [][PinsNext]_pinsVars

-----------------------------------------------------------------------------
(* A conversation has at most three pinned messages (MESSAGING_CHAT.md,    *)
(* rule 4) as long as requests come one by one and no statement fails.     *)
(* Each further request in progress may add one pin beyond the limit       *)
(* (sql.go:2074), once; what goes beyond that was let in by a COUNT or a   *)
(* DELETE that failed, or by two DELETEs of one row (sql.go:2078), and     *)
(* stays no longer than until as many pins have gone without a successor.  *)
OverrunBounded == Len(pins) <= MaxPins + Cardinality(PinRequests) - 1 + overlooked

(* A deleted message is not pinned, once its deletion is complete: "pesan  *)
(* yang telah dihapus tidak dapat disematkan" (sql.go:2024); except one    *)
(* erased between the check and the INSERT of a pin (sql.go:2098), or one  *)
(* whose unpinning failed (sql.go:1679).                                   *)
PinnedIsNotDeleted ==
  \A m \in deleted \ pinCrossed : Pinned(m) => \E p \in PinRequests : pinReq[p] = [step |-> "erased", msg |-> m]

(* Requests that cross or fail break neither rule by more than that.       *)
PinsInOrder == OverrunBounded /\ PinnedIsNotDeleted
=============================================================================
