------------------------------ MODULE MCBroadcast ------------------------------
(***************************************************************************)
(* What goes through Hub.BroadcastRoom of two nodes, in two parts that do  *)
(* not touch each other: a behaviour is about one of them, and the other   *)
(* stays as it began.                                                      *)
(*                                                                         *)
(*   messages  one sender, two messages, up to three sockets               *)
(*   calls     Ann calls Bob, who has two devices on the other node        *)
(***************************************************************************)
EXTENDS OutboundDelivery, CallSignaling, TLC

CONSTANTS a, b1, b2, ann, bob, n1, n2

VARIABLE part

UserOfDevice == a :> ann @@ b1 :> bob @@ b2 :> bob
NodeOfDevice == a :> n1 @@ b1 :> n2 @@ b2 :> n2

BroadcastInit == part \in {"messages", "calls"} /\ Init /\ CallInit

InMessages(A) == part = "messages" /\ A /\ UNCHANGED <<part, callVars>>
InCalls(A) == part = "calls" /\ A /\ UNCHANGED <<part, vars>>

BroadcastNext == InMessages(Next) \/ InCalls(CallNext)

all == <<part, vars, callVars>>

(* The fairness is that of OutboundDelivery.                               *)
BroadcastSpec == /\ BroadcastInit /\ [][BroadcastNext]_all
                 /\ WF_all(InMessages(Receive))
                 /\ WF_all(InMessages(\E n \in Nodes : Open(n)))
                 /\ \A k \in Sockets : WF_all(InMessages(Serve(k)))
================================================================================
