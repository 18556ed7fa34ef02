------------------------------- MODULE MCMessages -------------------------------
(***************************************************************************)
(* What becomes of stored messages, in parts that do not touch each other: *)
(* a behaviour is about one of them, and the others stay as they began.    *)
(*                                                                         *)
(*   frames  two messages of the peer, a queue of a few frames, a few      *)
(*           breaks, and a few openings of the room and clicks             *)
(*   row     one message, its sender and a reader, two requests at a time  *)
(*   pins    three messages, one of which fits, two requests at a time     *)
(*   status  Alice shares a room with Bob and has one with Carol: what     *)
(*           happens in one must not show in the other                     *)
(***************************************************************************)
EXTENDS MessageRow, MessageStatus, PinnedMessages, DurableFrames, TLC

CONSTANTS alice, bob, carol, ab, ac, m1, m2

VARIABLE part

Memberships == alice :> {ab, ac} @@ bob :> {ab} @@ carol :> {ac}
InAb == m1 :> ab @@ m2 :> ab
Authors == m1 :> alice @@ m2 :> bob

MessagesInit == /\ part \in {"frames", "row", "pins", "status"}
                /\ FramesInit /\ RowInit /\ PinsInit /\ Init
                /\ row.media => part = "row"

Turn(p) == part = p /\ UNCHANGED part
FramesStep == Turn("frames") /\ FramesNext /\ UNCHANGED <<vars, rowVars, pinsVars>>
RowStep == Turn("row") /\ RowNext /\ UNCHANGED <<vars, framesVars, pinsVars>>
PinsStep == Turn("pins") /\ PinsNext /\ UNCHANGED <<vars, framesVars, rowVars>>
StatusStep == Turn("status") /\ Next /\ UNCHANGED <<framesVars, rowVars, pinsVars>>

MessagesNext == FramesStep \/ RowStep \/ PinsStep \/ StatusStep

all == <<part, vars, framesVars, rowVars, pinsVars>>

(* The fairness is that of DurableFrames.                                  *)
MessagesSpec == /\ MessagesInit /\ [][MessagesNext]_all
                /\ WF_all(Turn("frames") /\ Reopen /\ UNCHANGED <<vars, rowVars, pinsVars>>)
================================================================================
