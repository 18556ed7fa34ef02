----------------------------- MODULE CallSignaling -----------------------------
(***************************************************************************)
(* Voice calls in one conversation: the call state machines of the devices *)
(* (mobile/src/context/CallContext.tsx) and the hub's arbiter              *)
(* (BroadcastRoom and activeCalls of backend/internal/ws/hub.go), on one   *)
(* node or several.  Signals travel in order on each connection and each   *)
(* cluster channel, and overtake each other otherwise; what the server     *)
(* decides and what the devices believe may differ meanwhile.              *)
(***************************************************************************)
EXTENDS Naturals, Sequences, FiniteSets

CONSTANTS Devices, Users, CallNodes,
          UserOf, NodeOf,   \* of each device
          Callers,          \* devices that place calls
          MaxCalls,         \* bound: calls placed
          MaxHangUps,       \* bound: calls hung up by a user
          MaxRejects        \* bound: calls rejected by a user

ASSUME CallAssumption ==
  /\ UserOf \in [Devices -> Users] /\ NodeOf \in [Devices -> CallNodes]
  /\ Callers \subseteq Devices
  /\ {MaxCalls, MaxHangUps, MaxRejects} \subseteq Nat

VARIABLES
  phase,      \* activeCall.status of each device, "idle" without a call
  isCaller,   \* activeCall.isCaller
  about,      \* the call a device's session belongs to (its SDP)
  offering,   \* calls whose offer is still being prepared, by device
  answering,  \* calls whose answer is still being prepared, by device
  timers,     \* pending timers that will clear the device's activeCall
  signalsUp, signalsDown,  \* signals in flight on each connection
  fan,        \* the signal each connection's handler is about to fan out
  bus,        \* signals published to each node by the others
  active,     \* Hub.activeCalls of each node, for this room
  placed, hangups, rejects,
  cut,        \* calls of which an end or a rejection was let through
  late        \* calls of which an offer or an answer was let through after it

devVars == <<phase, isCaller, about, offering, answering, timers>>
hubVars == <<fan, bus, active, cut, late>>
callCounts == <<placed, hangups, rejects>>
callVars == <<devVars, hubVars, signalsUp, signalsDown, callCounts>>

Calls == 1..MaxCalls
NoSignal == [type |-> "none"]
NoCall == [status |-> "none"]
Ringing(k) == [status |-> "ringing", call |-> k]
Answered(d, k) == [status |-> "answered", call |-> k, by |-> d]

CallInit ==
  /\ phase = [d \in Devices |-> "idle"]
  /\ isCaller = [d \in Devices |-> FALSE]
  /\ about = [d \in Devices |-> 0]
  /\ offering = [d \in Devices |-> 0] /\ answering = [d \in Devices |-> 0]
  /\ timers = [d \in Devices |-> 0]
  /\ signalsUp = [d \in Devices |-> <<>>] /\ signalsDown = [d \in Devices |-> <<>>]
  /\ fan = [d \in Devices |-> NoSignal]
  /\ bus = [n \in CallNodes |-> <<>>]
  /\ active = [n \in CallNodes |-> NoCall]
  /\ placed = 0 /\ hangups = 0 /\ rejects = 0
  /\ cut = {} /\ late = {}

-----------------------------------------------------------------------------
(* A device.                                                               *)

Transmit(d, type) ==
  signalsUp' = [signalsUp EXCEPT ![d] = Append(@, [type |-> type, dev |-> d, call |-> about[d]])]
Phase(d, p) == phase' = [phase EXCEPT ![d] = p]

(* Status "ended", and a timer that removes the call from the screen.      *)
EndSession(d) == /\ Phase(d, IF phase[d] = "idle" THEN "idle" ELSE "ended")
                 /\ timers' = [timers EXCEPT ![d] = @ + 1]

(* startCall, up to where it waits for the ICE servers and the SDP.        *)
StartCall(d) ==
  /\ d \in Callers /\ phase[d] = "idle" /\ offering[d] = 0 /\ placed < MaxCalls
  /\ placed' = placed + 1
  /\ Phase(d, "calling")
  /\ isCaller' = [isCaller EXCEPT ![d] = TRUE]
  /\ about' = [about EXCEPT ![d] = placed + 1]
  /\ offering' = [offering EXCEPT ![d] = placed + 1]
  /\ UNCHANGED <<answering, timers, hubVars, signalsUp, signalsDown, hangups, rejects>>

(* The rest of startCall: the offer goes out, whatever happened meanwhile. *)
SendOffer(d) ==
  /\ offering[d] # 0
  /\ signalsUp' = [signalsUp EXCEPT ![d] = Append(@, [type |-> "offer", dev |-> d, call |-> offering[d]])]
  /\ offering' = [offering EXCEPT ![d] = 0]
  /\ UNCHANGED <<phase, isCaller, about, answering, timers, hubVars, signalsDown, callCounts>>

(* Or no offer can be made; the session, back on the screen, is ended.     *)
OfferFails(d) ==
  /\ offering[d] # 0
  /\ offering' = [offering EXCEPT ![d] = 0]
  /\ Phase(d, "ended")
  /\ timers' = [timers EXCEPT ![d] = @ + 1]
  /\ UNCHANGED <<isCaller, about, answering, hubVars, signalsUp, signalsDown, callCounts>>

(* acceptCall, up to where it waits.                                       *)
Accept(d) ==
  /\ phase[d] = "ringing" /\ answering[d] = 0
  /\ Phase(d, "connecting")
  /\ answering' = [answering EXCEPT ![d] = about[d]]
  /\ UNCHANGED <<isCaller, about, offering, timers, hubVars, signalsUp, signalsDown, callCounts>>

(* The rest of acceptCall: the answer goes out and whatever session is on  *)
(* the screen by now counts as connected.                                  *)
SendAnswer(d) ==
  /\ answering[d] # 0
  /\ signalsUp' = [signalsUp EXCEPT ![d] = Append(@, [type |-> "answer", dev |-> d, call |-> answering[d]])]
  /\ answering' = [answering EXCEPT ![d] = 0]
  /\ Phase(d, IF phase[d] = "idle" THEN "idle" ELSE "connected")
  /\ UNCHANGED <<isCaller, about, offering, timers, hubVars, signalsDown, callCounts>>

AnswerFails(d) ==
  /\ answering[d] # 0
  /\ answering' = [answering EXCEPT ![d] = 0]
  /\ EndSession(d)
  /\ UNCHANGED <<isCaller, about, offering, hubVars, signalsUp, signalsDown, callCounts>>

(* rejectCall.                                                             *)
Reject(d) ==
  /\ phase[d] = "ringing" /\ rejects < MaxRejects
  /\ rejects' = rejects + 1
  /\ Transmit(d, "reject")
  /\ EndSession(d)
  /\ UNCHANGED <<isCaller, about, offering, answering, hubVars, signalsDown, placed, hangups>>

(* endCall.                                                                *)
HangUp(d) ==
  /\ phase[d] \in {"calling", "connecting", "connected"} /\ hangups < MaxHangUps
  /\ hangups' = hangups + 1
  /\ Transmit(d, "end")
  /\ EndSession(d)
  /\ UNCHANGED <<isCaller, about, offering, answering, hubVars, signalsDown, placed, rejects>>

(* A timer clears the call on the screen, be it the one it was set for.    *)
TimerFires(d) ==
  /\ timers[d] > 0
  /\ timers' = [timers EXCEPT ![d] = @ - 1]
  /\ Phase(d, "idle")
  /\ UNCHANGED <<isCaller, about, offering, answering, hubVars, signalsUp, signalsDown, callCounts>>

(* An offer rings, unless the device has a call already.                   *)
OnOffer(d, s) ==
  IF phase[d] \in {"idle", "ended"}
  THEN /\ Phase(d, "ringing")
       /\ isCaller' = [isCaller EXCEPT ![d] = FALSE]
       /\ about' = [about EXCEPT ![d] = s.call]
       /\ UNCHANGED <<timers, signalsUp>>
  ELSE /\ signalsUp' = [signalsUp EXCEPT ![d] = Append(@, [type |-> "busy", dev |-> d, call |-> s.call])]
       /\ UNCHANGED <<phase, isCaller, about, timers>>

(* Mutant: the callee's other devices are not stopped.                     *)
StillRinging(d) == IF phase[d] # "idle" /\ isCaller[d] THEN "connected" ELSE phase[d]

(* An answer connects the caller and stops the callee's other devices.     *)
AfterAnswer(d) == CASE phase[d] # "idle" /\ isCaller[d] -> "connected"
                    [] phase[d] = "ringing" /\ ~isCaller[d] -> "idle"
                    [] OTHER -> phase[d]

OnAnswer(d) ==
  /\ Phase(d, AfterAnswer(d))
  /\ UNCHANGED <<isCaller, about, timers, signalsUp>>

(* A rejection does not disturb a connected call; an end or a busy does.   *)
OnReject(d) ==
  /\ IF phase[d] = "connected" THEN UNCHANGED <<phase, timers>> ELSE EndSession(d)
  /\ UNCHANGED <<isCaller, about, signalsUp>>

OnEnd(d) == EndSession(d) /\ UNCHANGED <<isCaller, about, signalsUp>>

ReceiveSignal(d) ==
  /\ signalsDown[d] # <<>>
  /\ signalsDown' = [signalsDown EXCEPT ![d] = Tail(@)]
  /\ LET s == Head(signalsDown[d])
     IN \/ s.type = "offer" /\ OnOffer(d, s)
        \/ s.type = "answer" /\ OnAnswer(d)
        \/ s.type = "reject" /\ OnReject(d)
        \/ s.type \in {"end", "busy"} /\ OnEnd(d)
  /\ UNCHANGED <<offering, answering, hubVars, callCounts>>

-----------------------------------------------------------------------------
(* The hub.                                                                *)

(* The call was answered by another session.                               *)
Taken(n, d) == active[n].status = "answered" /\ active[n].by # d

(* Mutant: a rejection also ends a call that was answered.                 *)
NeverTooLate(n) == FALSE

(* Another device has answered: a rejection is ignored.                    *)
TooLateToReject(n) == active[n].status = "answered"

(* Mutant: the device that came too late is not told.                      *)
NotTold(d, s) == signalsDown
(* The device that came too late gets a busy.                              *)
ToldBusy(d, s) == [signalsDown EXCEPT ![d] = Append(@, [s EXCEPT !.type = "busy"])]

(* IsCallAllowed said no: the caller gets a rejection.                     *)
ToldRejected(d, s) == [signalsDown EXCEPT ![d] = Append(@, [s EXCEPT !.type = "reject"])]

(* The sender's handler consults and updates activeCalls of its node: the  *)
(* signal goes on to the fan-out, is dropped, or is answered with a busy.  *)
Judge(d) ==
  LET n == NodeOf[d]
      s == Head(signalsUp[d])
      Set(c) == active' = [active EXCEPT ![n] = c]
      GoOn == fan' = [fan EXCEPT ![d] = s]
  IN /\ fan[d] = NoSignal /\ signalsUp[d] # <<>>
     /\ signalsUp' = [signalsUp EXCEPT ![d] = Tail(@)]
     /\ \/ s.type = "offer" /\ Set(Ringing(s.call)) /\ GoOn /\ UNCHANGED signalsDown
        \/ s.type = "offer" /\ signalsDown' = ToldRejected(d, s) /\ UNCHANGED <<active, fan>>
        \/ s.type = "answer" /\ Taken(n, d) /\ signalsDown' = ToldBusy(d, s)
           /\ UNCHANGED <<active, fan>>
        \/ s.type = "answer" /\ ~Taken(n, d) /\ Set(Answered(d, s.call)) /\ GoOn
           /\ UNCHANGED signalsDown
        \/ s.type = "reject" /\ TooLateToReject(n) /\ UNCHANGED <<active, fan, signalsDown>>
        \/ s.type = "reject" /\ ~TooLateToReject(n) /\ Set(NoCall) /\ GoOn
           /\ UNCHANGED signalsDown
        \/ s.type = "end" /\ Set(NoCall) /\ GoOn /\ UNCHANGED signalsDown
        \/ s.type = "busy" /\ GoOn /\ UNCHANGED <<active, signalsDown>>
     /\ cut' = IF fan'[d] # NoSignal /\ s.type \in {"end", "reject"}
               THEN cut \union {s.call} ELSE cut
     /\ late' = IF fan'[d] # NoSignal /\ s.type \in {"offer", "answer"} /\ s.call \in cut
                THEN late \union {s.call} ELSE late
     /\ UNCHANGED <<devVars, bus, callCounts>>

(* broadcastLocal: every other device in the conversation; an offer does   *)
(* not go to the caller's own.                                             *)
Targets(n, s) == {d \in Devices : /\ NodeOf[d] = n /\ d # s.dev
                                  /\ s.type = "offer" => UserOf[d] # UserOf[s.dev]}

Delivered(n, s) ==
  [d \in Devices |-> IF d \in Targets(n, s) THEN Append(signalsDown[d], s) ELSE signalsDown[d]]

(* The fan-out on the node, and the publication to the others.             *)
FanOut(d) ==
  LET s == fan[d]
  IN /\ s # NoSignal
     /\ signalsDown' = Delivered(NodeOf[d], s)
     /\ bus' = [n \in CallNodes |-> IF n = NodeOf[d] THEN bus[n] ELSE Append(bus[n], s)]
     /\ fan' = [fan EXCEPT ![d] = NoSignal]
     /\ UNCHANGED <<devVars, active, cut, late, signalsUp, callCounts>>

(* Another node's signal: a local broadcast, nothing else.                 *)
FromCluster(n) ==
  /\ bus[n] # <<>>
  /\ signalsDown' = Delivered(n, Head(bus[n]))
  /\ bus' = [bus EXCEPT ![n] = Tail(@)]
  /\ UNCHANGED <<devVars, fan, active, cut, late, signalsUp, callCounts>>

CallNext ==
  \/ \E d \in Devices :
       \/ StartCall(d) \/ SendOffer(d) \/ OfferFails(d) \/ Accept(d) \/ SendAnswer(d)
       \/ AnswerFails(d) \/ Reject(d) \/ HangUp(d) \/ TimerFires(d) \/ ReceiveSignal(d)
       \/ Judge(d) \/ FanOut(d)
  \/ \E n \in CallNodes : FromCluster(n)

CallSpec == CallInit /\ [][CallNext]_callVars

-----------------------------------------------------------------------------
(* A node's arbiter holds on to the first device that answered, until the  *)
(* call is ended or a new one is offered: neither a rejection nor another  *)
(* answer, late or early, takes the call from it.                          *)
FirstDeviceWins ==
  [][\A n \in CallNodes, d \in Devices :
       (active[n].status = "answered" /\ active[n].by # d)
         => ~(active'[n].status = "answered" /\ active'[n].by = d)
            /\ (active'[n] = NoCall => \E e \in Devices : fan'[e] # NoSignal /\ fan'[e].type = "end")
    ]_callVars

Quiet == /\ \A d \in Devices : /\ signalsUp[d] = <<>> /\ signalsDown[d] = <<>> /\ fan[d] = NoSignal
                               /\ offering[d] = 0 /\ answering[d] = 0 /\ timers[d] = 0
         /\ \A n \in CallNodes : bus[n] = <<>>

InPhase(p) == {d \in Devices : phase[d] = p}

(* When everything has arrived, a connected caller talks to exactly one    *)
(* device, and a connected device to a caller (PROGRESS.md:4140); unless   *)
(* an answer crossed the end or the rejection of the call (hub.go:884).    *)
BothEndsConnected ==
  Quiet => \/ InPhase("connected") = {}
           \/ \E c, d \in Devices : /\ isCaller[c] /\ ~isCaller[d]
                                    /\ InPhase("connected") = {c, d}
           \/ late # {}

(* When everything has arrived, a device rings only for a call that        *)
(* somebody is still placing (BACKEND_API.md:2589: call_end cancels);      *)
(* unless the offer went out after the call was cancelled                  *)
(* (CallContext.tsx:377).                                                  *)
RingsOnlyForACaller ==
  Quiet => \A d \in InPhase("ringing") : InPhase("calling") # {} \/ about[d] \in late

(* The ends of a call agree once everything has arrived: on who talks to   *)
(* whom, and on what still rings.                                          *)
EndsAgree == BothEndsConnected /\ RingsOnlyForACaller
=============================================================================
