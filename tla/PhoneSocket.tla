------------------------------ MODULE PhoneSocket ------------------------------
(***************************************************************************)
(* The phone's WebSocketClient (mobile/src/services/websocket.ts), a       *)
(* singleton whose sockets call back late, and the steps of AuthContext    *)
(* (mobile/src/context/AuthContext.tsx) that connect, disconnect and reset *)
(* it as sessions begin and end.                                           *)
(*                                                                         *)
(* A session stands for the account and its token; its sliding renewal is  *)
(* left out.  A socket that is closed reports it later, with the code of   *)
(* whichever end closed it first.  The server admits every connection: the *)
(* handler of /ws checks the token's signature, not whether it is revoked. *)
(***************************************************************************)
EXTENDS Naturals, FiniteSets, Functions

CONSTANTS Sessions,  \* bound: logins, 1 .. how many
          SocketIds, \* bound: sockets that exist at a time
          Budgets    \* bound: how often each kind of event may happen

Events == {"leave", "again", "kick", "block", "break", "restart"}

ASSUME SocketAssumption ==
  /\ Sessions \in Nat \ {0} /\ 0 \notin SocketIds
  /\ Budgets \subseteq [Events -> Nat]

VARIABLES
  net,       \* the client and its sockets
  session,   \* token and user of AuthContext, 0 for none
  logins,    \* sessions begun
  starting,  \* the session startSession or checkExistingAuth will connect, or 0
  leaving,   \* "logout" or "cancel" under way, or "no"
  blocked,   \* accountSuspended
  stray,     \* a connection was made that no session asked for
  left       \* what is left of the bounds

vars == <<net, session, logins, starting, leaving, blocked, stray, left>>

Up == {"connecting", "open"}
Fresh == [ws |-> 0, token |-> 0, state |-> "disconnected", timer |-> FALSE,
          closed |-> FALSE, over |-> FALSE, sockets |-> [s \in {} |-> 0]]

Init == /\ net = Fresh
        /\ session = 0 /\ logins = 0 /\ starting = 0 /\ leaving = "no"
        /\ blocked = FALSE /\ stray = FALSE
        /\ left \in Budgets

Spend(e) == left[e] > 0 /\ left' = [left EXCEPT ![e] = @ - 1]
--------------------------------------------------------------------------------
(* The methods of WebSocketClient.                                         *)

Live(n) == n.ws # 0 /\ n.sockets[n.ws].phase \in Up

(* Mutant: a socket is opened beside the one there is. *)
MayOpenAgain(n) == n.token # 0 /\ ~n.closed /\ ~n.over
MayOpen(n) == n.token # 0 /\ ~n.closed /\ ~n.over /\ ~Live(n)

Room == \E s \in SocketIds : s \notin DOMAIN net.sockets
InitSocket(n) ==
  LET s == CHOOSE i \in SocketIds : i \notin DOMAIN n.sockets
      new == [token |-> n.token, phase |-> "connecting", code |-> "none"]
  IN IF MayOpen(n)
     THEN [n EXCEPT !.state = "connecting", !.ws = s,
                    !.sockets = [i \in DOMAIN @ \union {s} |-> IF i = s THEN new ELSE @[i]]]
     ELSE n

Reset(n) == [n EXCEPT !.over = FALSE, !.closed = FALSE, !.timer = FALSE, !.state = "disconnected"]

Connect(n, token) ==
  IF n.over THEN n ELSE InitSocket([n EXCEPT !.token = token, !.closed = FALSE, !.timer = FALSE])

(* ws.close: the code of an end that closed before stays.                  *)
CloseWs(n, code) ==
  IF ~Live(n) THEN [n EXCEPT !.ws = 0]
  ELSE [n EXCEPT !.ws = 0,
                 !.sockets[n.ws] = [token |-> @.token, phase |-> "closing",
                                    code |-> IF @.code = "none" THEN code ELSE @.code]]

(* Mutant: the socket is forgotten and stays open. *)
DisconnectForgetting(n) == [n EXCEPT !.closed = TRUE, !.timer = FALSE, !.state = "disconnected", !.ws = 0]
Disconnect(n) == [CloseWs(n, "plain") EXCEPT !.closed = TRUE, !.timer = FALSE, !.state = "disconnected"]

(* Mutant: a closed connection is not made again. *)
ScheduleNothing(n) == [n EXCEPT !.state = "connecting"]
ScheduleReconnect(n) ==
  IF n.closed \/ n.over THEN n ELSE [n EXCEPT !.timer = TRUE, !.state = "connecting"]

Terminate(n) == [n EXCEPT !.over = TRUE, !.state = "terminated", !.timer = FALSE]
HandleSessionReplaced(n) ==
  IF n.over THEN n
  ELSE Terminate(IF Live(n) THEN CloseWs(n, "replaced") ELSE n)

(* What onclose does, by the code.                                         *)
AfterClose(n, code) ==
  CASE code = "suspended" -> Disconnect(Terminate(n))
    [] code = "replaced" -> HandleSessionReplaced(n)
    [] OTHER -> ScheduleReconnect([n EXCEPT !.state = "disconnected"])
--------------------------------------------------------------------------------
(* The steps of AuthContext.                                               *)

(* startSession: the session is there before its keys are, and only then   *)
(* the client is connected.                                                *)
Login ==
  /\ session = 0 /\ leaving = "no" /\ logins < Sessions
  /\ logins' = logins + 1 /\ session' = logins' /\ starting' = logins' /\ blocked' = FALSE
  /\ UNCHANGED <<net, leaving, stray, left>>

(* The end of startSession, or of checkExistingAuth once getMe answered or *)
(* failed.  Neither looks whether the session is still there.              *)
Started ==
  /\ starting # 0 /\ starting' = 0 /\ Room
  /\ net' = Connect(Reset(net), starting)
  /\ stray' = (stray \/ starting # session \/ leaving # "no" \/ blocked)
  /\ UNCHANGED <<session, logins, leaving, blocked, left>>

(* checkExistingAuth: getMe answers 401, or that the account is suspended. *)
RestoreFails ==
  /\ starting # 0 /\ starting' = 0 /\ starting = session /\ Spend("block")
  /\ \/ session' = 0 /\ UNCHANGED blocked
     \/ blocked' = TRUE /\ UNCHANGED session
  /\ UNCHANGED <<net, logins, leaving, stray>>

(* logout disconnects, tells the server, and resets.                       *)
Logout ==
  /\ session # 0 /\ leaving = "no" /\ Spend("leave")
  /\ net' = Disconnect(net) /\ leaving' = "logout"
  /\ UNCHANGED <<session, logins, starting, blocked, stray>>

LoggedOut ==
  /\ leaving = "logout" /\ leaving' = "no" /\ session' = 0 /\ blocked' = FALSE
  /\ net' = Reset(net)
  /\ UNCHANGED <<logins, starting, stray, left>>

(* cancelKeyConflict disconnects and resets in one go.                     *)
CancelKeyConflict ==
  /\ session # 0 /\ leaving = "no" /\ Spend("leave")
  /\ net' = Reset(Disconnect(net)) /\ leaving' = "cancel"
  /\ UNCHANGED <<session, logins, starting, blocked, stray>>

Cancelled ==
  /\ leaving = "cancel" /\ leaving' = "no" /\ session' = 0 /\ blocked' = FALSE
  /\ UNCHANGED <<net, logins, starting, stray, left>>

(* A key transfer, or the end of a suspension, connects again.             *)
ConnectAgain ==
  /\ session # 0 /\ leaving = "no" /\ starting = 0 /\ Room /\ Spend("again")
  /\ blocked' = FALSE /\ net' = Connect(Reset(net), session)
  /\ UNCHANGED <<session, logins, starting, leaving, stray>>

(* A request is answered ACCOUNT_SUSPENDED.                                *)
Suspended ==
  /\ session # 0 /\ Spend("block")
  /\ blocked' = TRUE /\ net' = Disconnect(net)
  /\ UNCHANGED <<session, logins, starting, leaving, stray>>

(* dismissSessionAlert, after SESSION_REPLACED.                            *)
DismissAlert ==
  /\ session = 0 /\ net.over /\ net' = Reset(net)
  /\ UNCHANGED <<session, logins, starting, leaving, blocked, stray, left>>

(* The app starts again; checkExistingAuth connects a session it finds.    *)
Restart ==
  /\ Spend("restart")
  /\ net' = Fresh /\ starting' = session /\ leaving' = "no" /\ blocked' = FALSE
  /\ UNCHANGED <<session, logins, stray>>
--------------------------------------------------------------------------------
(* The timer and the sockets.                                              *)

Retry ==
  /\ net.timer /\ Room
  /\ net' = InitSocket([net EXCEPT !.timer = FALSE])
  /\ UNCHANGED <<session, logins, starting, leaving, blocked, stray, left>>

OnOpen(s) ==
  /\ net.sockets[s].phase = "connecting" /\ net.sockets[s].code = "none"
  /\ net' = [net EXCEPT !.sockets[s].phase = "open", !.timer = FALSE, !.state = "connected"]
  /\ UNCHANGED <<session, logins, starting, leaving, blocked, stray, left>>

(* The connection breaks, or cannot be made, or the server closes it.      *)
Breaks(s, code) ==
  /\ net.sockets[s].code = "none" /\ net.sockets[s].phase \in Up
  /\ Spend(IF code = "plain" THEN "break" ELSE "kick")
  /\ code # "plain" => net.sockets[s].phase = "open"
  /\ net' = [net EXCEPT !.sockets[s].code = code]
  /\ UNCHANGED <<session, logins, starting, leaving, blocked, stray>>

(* AuthContext's handler of SESSION_REPLACED ends whatever session there is.*)
EndIfReplaced ==
  IF net'.over /\ ~net.over THEN session' = 0 /\ blocked' = FALSE ELSE UNCHANGED <<session, blocked>>

(* The payload SESSION_REPLACED comes before the close.                    *)
OnReplacedMessage(s) ==
  /\ net.sockets[s].code = "replaced" /\ net.sockets[s].phase = "open"
  /\ net' = HandleSessionReplaced(net)
  /\ EndIfReplaced
  /\ UNCHANGED <<logins, starting, leaving, stray, left>>

Gone(s) == [net EXCEPT !.ws = IF @ = s THEN 0 ELSE @, !.sockets = Restrict(@, DOMAIN @ \ {s})]

(* Mutant: every terminal close ends the session. *)
EndsAlways(code) == code # "plain"
Ends(code) == code = "replaced"

(* onclose uses the client's fields as they are when it runs, whichever    *)
(* socket it reports.                                                      *)
OnClose(s) ==
  LET was == net.sockets[s]
  IN /\ was.code # "none"
     /\ net' = AfterClose(Gone(s), was.code)
     /\ IF Ends(was.code) THEN EndIfReplaced
        ELSE /\ blocked' = (blocked \/ (was.code = "suspended" /\ session # 0))
             /\ UNCHANGED session
     /\ stray' = (stray \/ (net'.timer /\ was.phase = "closing"))
     /\ UNCHANGED <<logins, starting, leaving, left>>
--------------------------------------------------------------------------------
Auth == \/ Login \/ Started \/ RestoreFails \/ Logout \/ LoggedOut \/ CancelKeyConflict \/ Cancelled
        \/ ConnectAgain \/ Suspended \/ DismissAlert \/ Restart

Callbacks == \/ Retry
             \/ \E s \in DOMAIN net.sockets : OnOpen(s) \/ OnReplacedMessage(s) \/ OnClose(s)

Breaking == \E s \in DOMAIN net.sockets, code \in {"plain", "replaced", "suspended"} : Breaks(s, code)

Next == Auth \/ Callbacks \/ Breaking

Spec == Init /\ [][Next]_vars

(* Timers fire, sockets report, and what AuthContext began it ends.        *)
FairSpec == Spec /\ WF_vars(Callbacks) /\ WF_vars(Started \/ LoggedOut \/ Cancelled)
--------------------------------------------------------------------------------
(* Nothing is under way.                                                   *)
Quiet == /\ starting = 0 /\ leaving = "no" /\ ~net.timer
         /\ \A s \in DOMAIN net.sockets : net.sockets[s].phase = "open" /\ net.sockets[s].code = "none"

(* The client never loses sight of a connection, and shows one only when   *)
(* there is one.                                                           *)
OneConnection ==
  /\ \A s \in DOMAIN net.sockets : net.sockets[s].phase \in Up => s = net.ws
  /\ net.state = "connected" => net.ws # 0 /\ net.sockets[net.ws].phase = "open"

(* The one connection is the session's, and there is none without a        *)
(* session or while the account is suspended: unless a close was reported  *)
(* after the client was reset, or a sign-in ended only after its session.  *)
ConnectionIsTheSessions ==
  /\ OneConnection
  /\ ~stray => \A s \in DOMAIN net.sockets :
                 net.sockets[s].phase \in Up => net.sockets[s].token = session /\ ~blocked

(* The server ends a session through its own connection, or else through   *)
(* one the phone had closed already, or one nobody had asked for.          *)
EndedByItsOwn ==
  [][session # 0 /\ session' = 0 /\ leaving' = leaving /\ starting' = starting =>
       \E s \in DOMAIN net.sockets :
          /\ net.sockets[s].code = "replaced"
          /\ net.sockets[s].token = session \/ net.sockets[s].phase = "closing" \/ stray]_vars

(* In the end a session that was not stopped is connected, however often   *)
(* its connection broke.                                                   *)
StaysConnected ==
  <>[](session # 0 /\ ~blocked =>
         net.ws # 0 /\ net.sockets[net.ws].phase = "open")

(* websocket.ts:136, "Connect to WebSocket with token & device_id": once   *)
(* all is quiet, a session that has a connection uses one of its own.      *)
SessionUsesItsOwn ==
  Quiet /\ session # 0 => \A s \in DOMAIN net.sockets : net.sockets[s].token = session
================================================================================
