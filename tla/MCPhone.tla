--------------------------------- MODULE MCPhone --------------------------------
(***************************************************************************)
(* The phone, in two parts that do not touch each other: a behaviour is    *)
(* about one of them, and the other stays as it began.                     *)
(*                                                                         *)
(*   session   a few sign-ins, three mixes of what ends or breaks them     *)
(*   timeline  two messages of the user's, three of the peer's, histories  *)
(*             of two rows                                                 *)
(***************************************************************************)
EXTENDS PhoneSocket, MobileTimeline

CONSTANTS m1, m2, p1, p2, p3

VARIABLE part

WrittenInOrder == <<m1, m2>>
ComingInOrder == <<p1, p2, p3>>

Budget(kinds, list) == [e \in kinds |-> Cardinality({i \in DOMAIN list : list[i] = e})]

Cases == {Budget(Events, l) : l \in {
  <<"leave", "leave", "kick", "kick", "break", "break", "again">>,
  <<"leave", "kick", "break", "again", "block", "block">>,
  <<"leave", "leave", "kick", "restart", "restart", "break", "block">>}}

TimelineCases == {Budget(TimelineEvents, l) : l \in {
  <<"write", "peer", "change", "break">>, <<"write", "write", "receipt", "break">>,
  <<"write", "receipt", "receipt", "break", "restart">>, <<"write", "request", "fault">>,
  <<"write", "request", "restart">>, <<"peer", "peer", "request", "fault">>,
  <<"peer", "change", "request", "restart">>, <<"peer", "peer", "peer", "request">>}}

PhoneInit == /\ part \in {"session", "timeline"}
             /\ Init /\ TimelineInit
             /\ part = "timeline" => left = CHOOSE b \in Cases : TRUE
             /\ part = "session" => timelineLeft = CHOOSE b \in TimelineCases : TRUE

InSession(A) == part = "session" /\ A /\ UNCHANGED <<part, timelineVars>>
InTimeline(A) == part = "timeline" /\ A /\ UNCHANGED <<part, vars>>

PhoneNext == InSession(Next) \/ InTimeline(TimelineNext)

all == <<part, vars, timelineVars>>

(* The fairness is that of PhoneSocket and MobileTimeline.                 *)
PhoneSpec == /\ PhoneInit /\ [][PhoneNext]_all
             /\ WF_all(InSession(Callbacks))
             /\ WF_all(InSession(Started \/ LoggedOut \/ Cancelled))
             /\ WF_all(InTimeline(Progress))
--------------------------------------------------------------------------------
(* In the end everything is quiet, saved and shown.                        *)
TimelineSettles == part = "timeline" => EverythingSettles
================================================================================
