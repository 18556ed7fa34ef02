----------------------------- MODULE SessionSlots -----------------------------
(***************************************************************************)
(* What the hub promises about connected devices (docs/domains/            *)
(* AUTH_SESSION.md, hub.go Register): a user has at most one session per   *)
(* device and at most MaxActiveDevices sessions; a session is only pushed  *)
(* out by its own device's successor or when the user has no slot left.    *)
(***************************************************************************)
EXTENDS Integers, FiniteSets

CONSTANTS Conns, UserOf, DeviceOf, NoDevice, MaxActiveDevices

VARIABLE registered    \* the sessions in force

SlotHolder(c) == {o \in registered : UserOf[o] = UserOf[c] /\ DeviceOf[o] = DeviceOf[c]}
SessionsWith(c) == {o \in registered : UserOf[o] = UserOf[c]}

Init == registered = {}

(* A new session takes its device's slot.  One more session of the user    *)
(* may go, and only if all slots are taken and the device (when it says    *)
(* which it is) had none.                                                  *)
Enter(c) ==
  \E out \in SUBSET SessionsWith(c) :
    /\ Cardinality(out) <= 1
    /\ out # {} => /\ Cardinality(SessionsWith(c)) >= MaxActiveDevices
                   /\ DeviceOf[c] = NoDevice \/ SlotHolder(c) = {}
    /\ registered' = (registered \ (SlotHolder(c) \union out)) \union {c}
    /\ Cardinality(SessionsWith(c)') <= MaxActiveDevices

(* The session of one device ends.                                         *)
Leave(c) == registered' = registered \ SlotHolder(c)

Next == \E c \in Conns : Enter(c) \/ Leave(c)

Spec == Init /\ [][Next]_registered
=============================================================================
