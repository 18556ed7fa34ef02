---------------------------- MODULE Phone_proofs -------------------------------
(***************************************************************************)
(* The phone: its one connection, for any number of sessions, sockets,     *)
(* breaks and restarts; and the list of a conversation, for any messages,  *)
(* any length of a history, and any faults and requests.                   *)
(***************************************************************************)
EXTENDS PhoneSocket, MobileTimeline, FiniteSetTheorems, SequenceTheorems, TLAPS

Codes == {"none", "plain", "replaced", "suspended"}
Sockets == [token : Nat, phase : {"connecting", "open", "closing"}, code : Codes]
States == {"disconnected", "connecting", "connected", "terminated"}
Nets == [ws : SocketIds \union {0}, token : Nat, state : States, timer : BOOLEAN,
         closed : BOOLEAN, over : BOOLEAN, sockets : UNION {[S -> Sockets] : S \in SUBSET SocketIds}]

IsUp(n, s) == n.sockets[s].phase \in Up
Ups(n) == {s \in DOMAIN n.sockets : IsUp(n, s)}

(* What holds of the client, whoever calls its methods: it has the one     *)
(* connection there is in ws, and none once the session was replaced.      *)
OneWs(n) ==
  /\ n \in Nets
  /\ n.ws # 0 => n.ws \in DOMAIN n.sockets
  /\ Ups(n) \subseteq {n.ws}

ClientInv(n) ==
  /\ OneWs(n)
  /\ n.state = "connected" => n.ws # 0 /\ n.sockets[n.ws].phase = "open"
  /\ n.over => Ups(n) = {} /\ n.state # "connected"

Silent(n) == Ups(n) = {} /\ ~n.timer
IsFor(n, k) == n.token = k /\ \A s \in Ups(n) : n.sockets[s].token = k

NumbersOK == session \in Nat /\ logins \in Nat /\ starting \in Nat
FlagsOK == leaving \in {"no", "logout", "cancel"} /\ blocked \in BOOLEAN /\ stray \in BOOLEAN

(* The client is silent, or works for the session, and nothing else is     *)
(* under way then.                                                         *)
Serves == stray \/ Silent(net) \/ /\ session # 0 /\ starting = 0 /\ leaving = "no" /\ ~blocked
                                  /\ IsFor(net, session)

(* The inductive invariant.                                                *)
PhoneInv == NumbersOK /\ FlagsOK /\ ClientInv(net) /\ Serves
--------------------------------------------------------------------------------
(* The methods of WebSocketClient, one by one.                             *)

LEMMA NetFields ==
  ASSUME NEW n \in Nets
  PROVE /\ n.token \in Nat /\ n.state \in States /\ n.timer \in BOOLEAN
        /\ n.closed \in BOOLEAN /\ n.over \in BOOLEAN /\ n.ws \in SocketIds \union {0}
        /\ DOMAIN n.sockets \subseteq SocketIds
        /\ n.sockets \in [DOMAIN n.sockets -> Sockets]
        /\ \A s \in DOMAIN n.sockets : n.sockets[s] \in Sockets
  BY DEF Nets

LEMMA LiveIsUp ==
  ASSUME NEW n, OneWs(n)
  PROVE /\ Live(n) <=> n.ws \in Ups(n)
        /\ ~Live(n) => Ups(n) = {}
        /\ Live(n) => Ups(n) = {n.ws} /\ n.ws # 0 /\ n.ws \in DOMAIN n.sockets
<1>1. 0 \notin DOMAIN n.sockets
  BY SocketAssumption, NetFields DEF OneWs
<1> QED BY <1>1 DEF OneWs, Live, Ups, IsUp

LEMMA NewSocket ==
  ASSUME NEW n, ClientInv(n), \E s \in SocketIds : s \notin DOMAIN n.sockets
  PROVE /\ ClientInv(InitSocket(n))
        /\ InitSocket(n).token = n.token /\ InitSocket(n).timer = n.timer
        /\ \A k : IsFor(n, k) => IsFor(InitSocket(n), k)
<1>1. CASE ~MayOpen(n)
  BY <1>1 DEF InitSocket
<1>2. CASE MayOpen(n)
  <2> DEFINE s == CHOOSE i \in SocketIds : i \notin DOMAIN n.sockets
             new == [token |-> n.token, phase |-> "connecting", code |-> "none"]
             all == [i \in DOMAIN n.sockets \union {s} |-> IF i = s THEN new ELSE n.sockets[i]]
  <2>1. s \in SocketIds /\ s \notin DOMAIN n.sockets /\ s # 0
    BY SocketAssumption
  <2> HIDE DEF s
  <2>2. /\ DOMAIN all = DOMAIN n.sockets \union {s}
        /\ all[s] = new /\ \A i \in DOMAIN n.sockets : all[i] = n.sockets[i]
    BY <2>1
  <2>3. n \in Nets /\ new \in Sockets
    BY NetFields DEF ClientInv, OneWs, Sockets, Codes
  <2>4. all \in UNION {[S -> Sockets] : S \in SUBSET SocketIds}
    <3>1. DOMAIN n.sockets \union {s} \in SUBSET SocketIds
      BY <2>1, <2>3, NetFields
    <3>2. all \in [DOMAIN n.sockets \union {s} -> Sockets]
      BY <2>2, <2>3, NetFields
    <3> QED BY <3>1, <3>2
  <2> DEFINE m == [n EXCEPT !.state = "connecting", !.ws = s, !.sockets = all]
  <2> HIDE DEF all, new
  <2>5. /\ m \in Nets /\ m.state = "connecting" /\ m.ws = s /\ m.sockets = all
        /\ m.token = n.token /\ m.timer = n.timer /\ m.over = n.over
    BY <2>1, <2>3, <2>4 DEF Nets, States
  <2>6. InitSocket(n) = m
    BY <1>2, <2>3 DEF InitSocket, s, all, new, Nets
  <2> HIDE DEF m
  <2>7. Ups(n) = {}
    BY <1>2, LiveIsUp DEF MayOpen, ClientInv
  <2>8. Ups(m) = {s}
    BY <2>2, <2>5, <2>7 DEF Ups, IsUp, Up, new
  <2>9. ClientInv(m)
    BY <1>2, <2>1, <2>2, <2>5, <2>8 DEF ClientInv, OneWs, MayOpen
  <2>10. m.sockets[s].token = n.token
    BY <2>2, <2>5 DEF new
  <2> QED BY <2>5, <2>6, <2>8, <2>9, <2>10 DEF IsFor
<1> QED BY <1>1, <1>2

LEMMA ResetClient ==
  ASSUME NEW n, ClientInv(n)
  PROVE /\ ClientInv(Reset(n)) /\ ~Reset(n).timer /\ ~Reset(n).over
        /\ Reset(n).sockets = n.sockets /\ Reset(n).token = n.token /\ Ups(Reset(n)) = Ups(n)
<1>1. /\ Reset(n) \in Nets /\ Reset(n).sockets = n.sockets /\ Reset(n).token = n.token
      /\ Reset(n).ws = n.ws /\ ~Reset(n).timer /\ ~Reset(n).over
      /\ Reset(n).state = "disconnected"
  BY DEF ClientInv, OneWs, Reset, Nets, States
<1> QED BY <1>1 DEF ClientInv, OneWs, Ups, IsUp

LEMMA ConnectClient ==
  ASSUME NEW n, ClientInv(n), NEW k \in Nat, ~n.over, ~n.timer,
         \E s \in SocketIds : s \notin DOMAIN n.sockets
  PROVE /\ ClientInv(Connect(n, k)) /\ ~Connect(n, k).timer
        /\ (\A s \in Ups(n) : n.sockets[s].token = k) => IsFor(Connect(n, k), k)
<1> DEFINE m == [n EXCEPT !.token = k, !.closed = FALSE, !.timer = FALSE]
<1>1. /\ m \in Nets /\ m.sockets = n.sockets /\ m.token = k /\ m.ws = n.ws /\ ~m.timer
      /\ m.over = n.over /\ m.state = n.state
  BY DEF ClientInv, OneWs, Nets
<1>2. Connect(n, k) = InitSocket(m)
  BY DEF Connect
<1> HIDE DEF m
<1>3. ClientInv(m) /\ Ups(m) = Ups(n)
  BY <1>1 DEF ClientInv, OneWs, Ups, IsUp
<1>4. (\A s \in Ups(n) : n.sockets[s].token = k) => IsFor(m, k)
  BY <1>1, <1>3 DEF IsFor
<1> QED BY <1>1, <1>2, <1>3, <1>4, NewSocket

LEMMA ClosedWs ==
  ASSUME NEW n, OneWs(n), NEW code \in Codes
  PROVE /\ CloseWs(n, code) \in Nets /\ CloseWs(n, code).ws = 0
        /\ CloseWs(n, code).timer = n.timer /\ CloseWs(n, code).over = n.over
        /\ CloseWs(n, code).state = n.state /\ Ups(CloseWs(n, code)) = {}
<1>1. n \in Nets
  BY DEF OneWs
<1>2. CASE ~Live(n)
  BY <1>1, <1>2, LiveIsUp DEF CloseWs, Nets, Ups, IsUp
<1>3. CASE Live(n)
  <2> DEFINE old == n.sockets[n.ws]
             end == IF old.code = "none" THEN code ELSE old.code
             shut == [token |-> old.token, phase |-> "closing", code |-> end]
             all == [n.sockets EXCEPT ![n.ws] = shut]
             m == [n EXCEPT !.ws = 0, !.sockets = all]
  <2>1. n.ws \in DOMAIN n.sockets /\ Ups(n) = {n.ws} /\ old \in Sockets
    BY <1>1, <1>3, LiveIsUp, NetFields
  <2>2. shut \in Sockets
    BY <2>1 DEF Sockets
  <2>3. CloseWs(n, code) = m
    BY <1>3 DEF CloseWs
  <2>4. all \in [DOMAIN n.sockets -> Sockets] /\ DOMAIN n.sockets \in SUBSET SocketIds
    BY <1>1, <2>1, <2>2, NetFields
  <2> HIDE DEF all
  <2>5. all \in UNION {[S -> Sockets] : S \in SUBSET SocketIds}
    BY <2>4
  <2>6. /\ m \in Nets /\ m.ws = 0 /\ m.sockets = all /\ m.timer = n.timer
        /\ m.over = n.over /\ m.state = n.state
    BY <1>1, <2>5 DEF Nets
  <2>7. Ups(m) = {}
    BY <2>1, <2>2, <2>4, <2>6 DEF Ups, IsUp, Up, all
  <2> QED BY <2>3, <2>6, <2>7
<1> QED BY <1>2, <1>3

LEMMA DisconnectClient ==
  ASSUME NEW n, OneWs(n)
  PROVE ClientInv(Disconnect(n)) /\ Silent(Disconnect(n))
<1> DEFINE m == CloseWs(n, "plain")
<1>1. m \in Nets /\ m.ws = 0 /\ m.over = n.over /\ Ups(m) = {}
  BY ClosedWs DEF Codes
<1> HIDE DEF m
<1>2. /\ Disconnect(n) \in Nets /\ Disconnect(n).ws = 0 /\ Disconnect(n).sockets = m.sockets
      /\ ~Disconnect(n).timer /\ Disconnect(n).state = "disconnected"
  BY <1>1 DEF Disconnect, m, Nets, States
<1>3. Ups(Disconnect(n)) = {}
  BY <1>1, <1>2 DEF Ups, IsUp
<1> QED BY <1>2, <1>3 DEF ClientInv, OneWs, Silent

LEMMA TerminateClient ==
  ASSUME NEW n, OneWs(n), Ups(n) = {}
  PROVE ClientInv(Terminate(n)) /\ Silent(Terminate(n)) /\ Terminate(n).over
<1>1. /\ Terminate(n) \in Nets /\ Terminate(n).ws = n.ws /\ Terminate(n).sockets = n.sockets
      /\ ~Terminate(n).timer /\ Terminate(n).over /\ Terminate(n).state = "terminated"
  BY DEF OneWs, Terminate, Nets, States
<1>2. Ups(Terminate(n)) = {}
  BY <1>1 DEF Ups, IsUp
<1> QED BY <1>1, <1>2 DEF ClientInv, OneWs, Silent

LEMMA ReplacedClient ==
  ASSUME NEW n, OneWs(n), ~n.over
  PROVE /\ ClientInv(HandleSessionReplaced(n)) /\ Silent(HandleSessionReplaced(n))
        /\ HandleSessionReplaced(n).over
<1> DEFINE m == CloseWs(n, "replaced")
<1>1. CASE Live(n)
  <2>1. m \in Nets /\ m.ws = 0 /\ Ups(m) = {} /\ m.over = n.over
    BY ClosedWs DEF Codes
  <2> HIDE DEF m
  <2>2. /\ Terminate(m) \in Nets /\ Terminate(m).ws = 0 /\ Terminate(m).sockets = m.sockets
        /\ ~Terminate(m).timer /\ Terminate(m).over /\ Terminate(m).state = "terminated"
    BY <2>1 DEF Terminate, Nets, States
  <2>3. Ups(Terminate(m)) = {}
    BY <2>1, <2>2 DEF Ups, IsUp
  <2> QED BY <1>1, <2>2, <2>3 DEF HandleSessionReplaced, ClientInv, OneWs, Silent, m
<1>2. CASE ~Live(n)
  BY <1>2, LiveIsUp, TerminateClient DEF HandleSessionReplaced
<1> QED BY <1>1, <1>2

(* A socket that has reported its close is gone.                           *)
LEMMA GoneSocket ==
  ASSUME ClientInv(net), NEW s \in DOMAIN net.sockets
  PROVE /\ Gone(s) \in Nets /\ Ups(Gone(s)) = Ups(net) \ {s}
        /\ Gone(s).timer = net.timer /\ Gone(s).over = net.over /\ Gone(s).token = net.token
        /\ Gone(s).closed = net.closed /\ Gone(s).state = net.state
        /\ Gone(s).ws # 0 => Gone(s).ws = net.ws /\ Gone(s).ws \in DOMAIN Gone(s).sockets
        /\ Ups(Gone(s)) \subseteq {Gone(s).ws}
        /\ \A i \in Ups(Gone(s)) : Gone(s).sockets[i] = net.sockets[i]
<1> DEFINE all == Restrict(net.sockets, DOMAIN net.sockets \ {s})
           w == IF net.ws = s THEN 0 ELSE net.ws
           m == [net EXCEPT !.ws = w, !.sockets = all]
<1>1. net \in Nets
  BY DEF ClientInv, OneWs
<1>2. all = [i \in DOMAIN net.sockets \ {s} |-> net.sockets[i]]
  BY DEF Restrict
<1>3. all \in [DOMAIN net.sockets \ {s} -> Sockets] /\ DOMAIN net.sockets \ {s} \in SUBSET SocketIds
  BY <1>1, <1>2, NetFields
<1>4. Gone(s) = m
  BY <1>1 DEF Gone, Nets
<1> HIDE DEF all
<1>5. all \in UNION {[S -> Sockets] : S \in SUBSET SocketIds}
  BY <1>3
<1>6. /\ m \in Nets /\ m.ws = w /\ m.sockets = all /\ m.timer = net.timer /\ m.over = net.over
      /\ m.token = net.token /\ m.closed = net.closed /\ m.state = net.state
  BY <1>1, <1>5 DEF Nets
<1>7. Ups(m) = Ups(net) \ {s}
  BY <1>2, <1>6 DEF Ups, IsUp
<1>8. \A i \in Ups(m) : m.sockets[i] = net.sockets[i]
  BY <1>2, <1>6 DEF Ups
<1>9. /\ m.ws # 0 => m.ws = net.ws /\ m.ws \in DOMAIN m.sockets
      /\ Ups(m) \subseteq {m.ws}
  BY <1>2, <1>6, <1>7 DEF ClientInv, OneWs
<1> HIDE DEF m
<1> QED BY <1>4, <1>6, <1>7, <1>8, <1>9
--------------------------------------------------------------------------------
LEMMA PhoneInit == Init => PhoneInv
<1> SUFFICES ASSUME Init PROVE PhoneInv
  OBVIOUS
<1>1. net \in Nets /\ DOMAIN net.sockets = {} /\ net.ws = 0 /\ net.state = "disconnected"
      /\ ~net.timer /\ ~net.over
  <2>1. [s \in {} |-> 0] \in [{} -> Sockets] /\ {} \in SUBSET SocketIds
    OBVIOUS
  <2>2. [s \in {} |-> 0] \in UNION {[S -> Sockets] : S \in SUBSET SocketIds}
    BY <2>1
  <2> QED BY <2>2 DEF Init, Fresh, Nets, States
<1>2. Ups(net) = {}
  BY <1>1 DEF Ups
<1> QED BY <1>1, <1>2 DEF Init, PhoneInv, NumbersOK, FlagsOK, ClientInv, OneWs, Serves, Silent

LEMMA AuthNext == ASSUME PhoneInv, Auth PROVE PhoneInv'
<1> USE DEF PhoneInv, NumbersOK, FlagsOK
<1>1. CASE Login
  <2>1. NumbersOK' /\ FlagsOK'
    <3>1. NumbersOK'
      BY <1>1 DEF Login
    <3>2. FlagsOK'
      BY <1>1 DEF Login
    <3> QED BY <3>1, <3>2
  <2>2. UNCHANGED <<net, stray>> /\ session = 0
    BY <1>1 DEF Login
  <2> QED BY <2>1, <2>2 DEF Serves
<1>2. CASE Started
  <2> DEFINE n == Reset(net)
  <2>1. /\ ClientInv(n) /\ ~n.timer /\ ~n.over /\ n.sockets = net.sockets /\ Ups(n) = Ups(net)
    BY ResetClient
  <2> HIDE DEF n
  <2>2. \E s \in SocketIds : s \notin DOMAIN n.sockets
    BY <1>2, <2>1 DEF Started, Room
  <2>3. /\ ClientInv(net') /\ ((\A s \in Ups(n) : n.sockets[s].token = starting) => IsFor(net', starting))
    BY <1>2, <2>1, <2>2, ConnectClient DEF Started, n
  <2>4. CASE ~stray'
    <3>1. /\ ~stray /\ starting = session /\ leaving = "no" /\ ~blocked /\ starting # 0
          /\ UNCHANGED <<session, leaving, blocked>> /\ starting' = 0
      BY <1>2, <2>4 DEF Started
    <3>2. Ups(n) = {}
      BY <2>1, <3>1 DEF Serves, Silent
    <3> QED BY <1>2, <2>3, <3>1, <3>2 DEF Started, Serves
  <2> QED BY <1>2, <2>3, <2>4 DEF Started, Serves
<1>3. CASE RestoreFails
  <2>1. NumbersOK' /\ FlagsOK'
    <3>1. NumbersOK'
      BY <1>3 DEF RestoreFails
    <3>2. FlagsOK'
      BY <1>3 DEF RestoreFails
    <3> QED BY <3>1, <3>2
  <2>2. UNCHANGED <<net, stray>> /\ starting # 0
    BY <1>3 DEF RestoreFails
  <2> QED BY <2>1, <2>2 DEF Serves
<1>4. CASE Logout \/ Suspended
  <2>1. net' = Disconnect(net) /\ ClientInv(net) /\ OneWs(net)
    BY <1>4 DEF Logout, Suspended, ClientInv
  <2>2. ClientInv(net') /\ Silent(net')
    BY <2>1, DisconnectClient
  <2>3. NumbersOK'
    BY <1>4 DEF Logout, Suspended
  <2>4. FlagsOK'
    BY <1>4 DEF Logout, Suspended
  <2> QED BY <2>2, <2>3, <2>4 DEF Serves
<1>5. CASE CancelKeyConflict
  <2>1. ClientInv(Disconnect(net)) /\ Silent(Disconnect(net))
    BY DisconnectClient DEF ClientInv
  <2>2. ClientInv(net') /\ Silent(net')
    BY <1>5, <2>1, ResetClient DEF CancelKeyConflict, Silent
  <2> QED BY <1>5, <2>2 DEF CancelKeyConflict, Serves
<1>6. CASE LoggedOut \/ DismissAlert
  <2>1. ClientInv(net') /\ (Silent(net) => Silent(net'))
    BY <1>6, ResetClient DEF LoggedOut, DismissAlert, Silent
  <2>2. NumbersOK' /\ FlagsOK'
    <3>1. NumbersOK'
      BY <1>6 DEF LoggedOut, DismissAlert
    <3>2. FlagsOK'
      BY <1>6 DEF LoggedOut, DismissAlert
    <3> QED BY <3>1, <3>2
  <2>3. UNCHANGED stray /\ (session = 0 \/ leaving # "no")
    BY <1>6 DEF LoggedOut, DismissAlert
  <2> QED BY <2>1, <2>2, <2>3 DEF Serves
<1>7. CASE Cancelled
  BY <1>7 DEF Cancelled, Serves
<1>8. CASE ConnectAgain
  <2> DEFINE n == Reset(net)
  <2>1. /\ ClientInv(n) /\ ~n.timer /\ ~n.over /\ n.sockets = net.sockets /\ Ups(n) = Ups(net)
    BY ResetClient
  <2> HIDE DEF n
  <2>2. \E s \in SocketIds : s \notin DOMAIN n.sockets
    BY <1>8, <2>1 DEF ConnectAgain, Room
  <2>3. /\ ClientInv(net') /\ ((\A s \in Ups(n) : n.sockets[s].token = session) => IsFor(net', session))
    BY <1>8, <2>1, <2>2, ConnectClient DEF ConnectAgain, n
  <2>4. CASE ~stray
    <3>1. \A s \in Ups(n) : n.sockets[s].token = session
      BY <2>1, <2>4 DEF Serves, Silent, IsFor
    <3> QED BY <1>8, <2>3, <3>1 DEF ConnectAgain, Serves
  <2> QED BY <1>8, <2>3, <2>4 DEF ConnectAgain, Serves
<1>9. CASE Restart
  <2>1. net' \in Nets /\ DOMAIN net'.sockets = {} /\ net'.ws = 0 /\ net'.state = "disconnected"
        /\ ~net'.timer /\ ~net'.over
    <3>1. [s \in {} |-> 0] \in [{} -> Sockets] /\ {} \in SUBSET SocketIds
      OBVIOUS
    <3>2. [s \in {} |-> 0] \in UNION {[S -> Sockets] : S \in SUBSET SocketIds}
      BY <3>1
    <3> QED BY <1>9, <3>2 DEF Restart, Fresh, Nets, States
  <2>2. Ups(net') = {}
    BY <2>1 DEF Ups
  <2> QED BY <1>9, <2>1, <2>2 DEF Restart, ClientInv, OneWs, Serves, Silent
<1> QED BY <1>1, <1>2, <1>3, <1>4, <1>5, <1>6, <1>7, <1>8, <1>9 DEF Auth

LEMMA CallbackNext == ASSUME PhoneInv, Callbacks \/ Breaking PROVE PhoneInv'
<1> USE DEF PhoneInv, NumbersOK, FlagsOK
<1>0. net \in Nets
  BY DEF ClientInv, OneWs
<1>1. CASE Retry
  <2> DEFINE n == [net EXCEPT !.timer = FALSE]
  <2>1. /\ n \in Nets /\ n.sockets = net.sockets /\ n.token = net.token /\ n.ws = net.ws
        /\ n.over = net.over /\ n.state = net.state /\ ~n.timer
    BY <1>0 DEF Nets
  <2> HIDE DEF n
  <2>2. ClientInv(n) /\ Ups(n) = Ups(net)
    BY <2>1 DEF ClientInv, OneWs, Ups, IsUp
  <2>3. ClientInv(net') /\ \A k : IsFor(n, k) => IsFor(net', k)
    BY <1>1, <2>1, <2>2, NewSocket DEF Retry, Room, n
  <2>4. ~stray => IsFor(n, session) /\ ~Silent(net)
    BY <1>1, <2>1, <2>2 DEF Retry, Serves, Silent, IsFor
  <2> QED BY <1>1, <2>3, <2>4 DEF Retry, Serves
<1>2. ASSUME NEW s \in DOMAIN net.sockets, NEW c \in Sockets, UNCHANGED session,
             c.token = net.sockets[s].token, (c.phase \in Up <=> IsUp(net, s)),
             net.sockets[s].phase = "open" => c.phase = "open",
             NEW st \in States, NEW tm \in BOOLEAN, tm => net.timer,
             st = "connected" => net.state = "connected" \/ c.phase = "open",
             net' = [net EXCEPT !.sockets = [@ EXCEPT ![s] = c], !.timer = tm, !.state = st],
             UNCHANGED <<logins, starting, leaving, blocked, stray>>
      PROVE PhoneInv'
  <2> DEFINE all == [net.sockets EXCEPT ![s] = c]
  <2>1. all \in [DOMAIN net.sockets -> Sockets] /\ DOMAIN net.sockets \in SUBSET SocketIds
    BY <1>0, NetFields
  <2>2. \A i \in DOMAIN net.sockets : all[i] = IF i = s THEN c ELSE net.sockets[i]
    OBVIOUS
  <2> HIDE DEF all
  <2>3. all \in UNION {[S -> Sockets] : S \in SUBSET SocketIds}
    BY <2>1
  <2>4. /\ net' \in Nets /\ net'.sockets = all /\ net'.timer = tm /\ net'.state = st
        /\ net'.ws = net.ws /\ net'.token = net.token /\ net'.over = net.over
    BY <1>0, <1>2, <2>3 DEF Nets, all
  <2>5. Ups(net') = Ups(net) /\ DOMAIN all = DOMAIN net.sockets
    BY <1>2, <2>1, <2>2, <2>4 DEF Ups, IsUp
  <2>6. st = "connected" => ~net.over /\ net.ws # 0 /\ all[net.ws].phase = "open"
    <3>1. CASE net.state = "connected"
      BY <1>2, <2>2, <3>1 DEF ClientInv, OneWs
    <3>2. CASE c.phase = "open"
      <4>1. s \in Ups(net)
        BY <1>2, <3>2 DEF Ups, Up
      <4> QED BY <2>2, <3>2, <4>1, SocketAssumption, NetFields DEF ClientInv, OneWs
    <3> QED BY <1>2, <3>1, <3>2
  <2>7. ClientInv(net')
    BY <2>4, <2>5, <2>6 DEF ClientInv, OneWs
  <2>8. \A k : IsFor(net, k) => IsFor(net', k)
    BY <1>2, <2>2, <2>4, <2>5 DEF IsFor, Ups
  <2> QED BY <1>2, <2>4, <2>5, <2>7, <2>8 DEF Serves, Silent
<1>3. ASSUME NEW s \in DOMAIN net.sockets, OnOpen(s) PROVE PhoneInv'
  <2> DEFINE c == [net.sockets[s] EXCEPT !.phase = "open"]
  <2>1. net.sockets[s] \in Sockets
    BY <1>0, NetFields
  <2>2. c \in Sockets /\ c.token = net.sockets[s].token /\ c.phase = "open"
    BY <2>1 DEF Sockets
  <2>3. net' = [net EXCEPT !.sockets = [@ EXCEPT ![s] = c], !.timer = FALSE, !.state = "connected"]
    BY <1>3 DEF OnOpen
  <2>4. net.sockets[s].phase = "connecting"
        /\ UNCHANGED <<session, logins, starting, leaving, blocked, stray>>
    BY <1>3 DEF OnOpen
  <2> HIDE DEF c
  <2> QED BY <1>2, <2>2, <2>3, <2>4 DEF IsUp, Up, States
<1>4. ASSUME NEW s \in DOMAIN net.sockets, NEW code \in {"plain", "replaced", "suspended"},
             Breaks(s, code)
      PROVE PhoneInv'
  <2> DEFINE c == [net.sockets[s] EXCEPT !.code = code]
  <2>1. net.sockets[s] \in Sockets
    BY <1>0, NetFields
  <2>2. c \in Sockets /\ c.token = net.sockets[s].token /\ c.phase = net.sockets[s].phase
    BY <2>1 DEF Sockets, Codes
  <2>3. net' = [net EXCEPT !.sockets = [@ EXCEPT ![s] = c], !.timer = net.timer, !.state = net.state]
    BY <1>0, <1>4 DEF Breaks, Nets
  <2>4. UNCHANGED <<session, logins, starting, leaving, blocked, stray>>
    BY <1>4 DEF Breaks
  <2> HIDE DEF c
  <2> QED BY <1>0, <1>2, <2>2, <2>3, <2>4, NetFields DEF IsUp
<1>5. ASSUME NEW s \in DOMAIN net.sockets, OnReplacedMessage(s) PROVE PhoneInv'
  <2>1. ~net.over
    BY <1>5 DEF OnReplacedMessage, ClientInv, OneWs, Ups, IsUp, Up
  <2>2. ClientInv(net') /\ Silent(net')
    BY <1>5, <2>1, ReplacedClient DEF OnReplacedMessage, ClientInv
  <2>3. NumbersOK' /\ FlagsOK'
    <3>1. NumbersOK'
      BY <1>5 DEF OnReplacedMessage, EndIfReplaced
    <3>2. FlagsOK'
      BY <1>5 DEF OnReplacedMessage, EndIfReplaced
    <3> QED BY <3>1, <3>2
  <2> QED BY <2>2, <2>3 DEF Serves
<1>6. ASSUME NEW s \in DOMAIN net.sockets, OnClose(s) PROVE PhoneInv'
  <2> DEFINE was == net.sockets[s]
             n == Gone(s)
  <2>1. was \in Sockets
    BY <1>0, NetFields
  <2>2. /\ n \in Nets /\ Ups(n) = Ups(net) \ {s} /\ n.timer = net.timer /\ n.over = net.over
        /\ n.token = net.token /\ n.closed = net.closed /\ n.state = net.state
        /\ n.ws # 0 => n.ws = net.ws /\ n.ws \in DOMAIN n.sockets
        /\ Ups(n) \subseteq {n.ws}
        /\ \A i \in Ups(n) : n.sockets[i] = net.sockets[i]
    BY GoneSocket
  <2>3. net' = AfterClose(n, was.code) /\ UNCHANGED <<logins, starting, leaving>>
    BY <1>6 DEF OnClose
  <2> HIDE DEF n
  <2>4. n.over => Ups(n) = {} /\ n.state # "connected"
    BY <2>2 DEF ClientInv, OneWs
  <2>5. NumbersOK' /\ FlagsOK'
    <3>1. (session' = 0 /\ blocked' = FALSE) \/ (session' = session /\ blocked' \in BOOLEAN)
      BY <1>6 DEF OnClose, EndIfReplaced
    <3>2. stray' \in BOOLEAN
      BY <1>6 DEF OnClose
    <3>3. NumbersOK'
      BY <2>3, <3>1
    <3>4. FlagsOK'
      BY <2>3, <3>1, <3>2
    <3> QED BY <3>3, <3>4
  <2>6. CASE was.code = "suspended"
    <3>1. OneWs(Terminate(n))
      <4>1. /\ Terminate(n) \in Nets /\ Terminate(n).ws = n.ws /\ Terminate(n).sockets = n.sockets
        BY <2>2 DEF Terminate, Nets, States
      <4> QED BY <2>2, <4>1 DEF OneWs, Ups, IsUp
    <3>2. ClientInv(net') /\ Silent(net')
      BY <2>3, <2>6, <3>1, DisconnectClient DEF AfterClose
    <3> QED BY <2>5, <3>2 DEF Serves
  <2>7. CASE was.code = "replaced" /\ ~n.over
    <3>1. ClientInv(net') /\ Silent(net')
      BY <2>2, <2>3, <2>7, ReplacedClient DEF AfterClose, OneWs
    <3> QED BY <2>5, <3>1 DEF Serves
  <2>8. CASE was.code = "replaced" /\ n.over
    <3>1. net' = n
      BY <2>3, <2>8 DEF AfterClose, HandleSessionReplaced
    <3>2. ClientInv(net')
      BY <2>2, <2>4, <2>8, <3>1 DEF ClientInv, OneWs
    <3>3. UNCHANGED <<session, blocked>>
      BY <1>6, <2>2, <2>8, <3>1 DEF OnClose, Ends, EndIfReplaced
    <3>4. stray => stray'
      BY <1>6 DEF OnClose
    <3>5. Ups(net') = {} /\ net'.timer = net.timer /\ net'.token = net.token
      BY <2>2, <2>4, <2>8, <3>1
    <3> QED BY <2>3, <2>5, <3>2, <3>3, <3>4, <3>5 DEF Serves, Silent, IsFor
  <2>9. CASE was.code \notin {"suspended", "replaced"}
    <3> DEFINE m == [n EXCEPT !.state = "disconnected"]
    <3>1. net' = ScheduleReconnect(m)
      BY <2>3, <2>9 DEF AfterClose
    <3>2. /\ net' \in Nets /\ net'.ws = n.ws /\ net'.sockets = n.sockets /\ net'.token = n.token
          /\ net'.over = n.over /\ net'.state # "connected"
      BY <2>2, <3>1 DEF ScheduleReconnect, Nets, States
    <3>3. Ups(net') = Ups(n)
      BY <3>2 DEF Ups, IsUp
    <3>4. ClientInv(net')
      BY <2>2, <2>4, <3>2, <3>3 DEF ClientInv, OneWs
    <3>5. session' = session /\ (blocked' <=> blocked)
      BY <1>6, <2>9 DEF OnClose, Ends
    <3>6. (stray => stray') /\ (net'.timer /\ was.phase = "closing" => stray')
      BY <1>6 DEF OnClose
    <3>7. Silent(net) => was.phase = "closing" /\ Ups(net') = {}
      BY <2>1, <2>2, <3>3 DEF Silent, Ups, IsUp, Up, Sockets
    <3>8. \A k : IsFor(net, k) => IsFor(net', k)
      BY <2>2, <3>2, <3>3 DEF IsFor
    <3> QED BY <2>3, <2>5, <3>4, <3>5, <3>6, <3>7, <3>8 DEF Serves, Silent
  <2> QED BY <2>6, <2>7, <2>8, <2>9
<1> QED BY <1>1, <1>3, <1>4, <1>5, <1>6 DEF Callbacks, Breaking

LEMMA PhoneNext == PhoneInv /\ [Next]_vars => PhoneInv'
<1>1. ASSUME PhoneInv, Next PROVE PhoneInv'
  BY <1>1, AuthNext, CallbackNext DEF Next
<1>2. ASSUME PhoneInv, UNCHANGED vars PROVE PhoneInv'
  BY <1>2 DEF PhoneInv, NumbersOK, FlagsOK, Serves, vars
<1> QED BY <1>1, <1>2

(* The inductive invariant holds of every state of the client.             *)
THEOREM PhoneInvariant == Spec => []PhoneInv
  BY PhoneInit, PhoneNext, PTL DEF Spec

(* There is one connection at most, in ws, and it is the session's: none   *)
(* without a session or while suspended, but for a stray one.              *)
THEOREM SessionsConnection == Spec => []ConnectionIsTheSessions
<1>1. ASSUME PhoneInv PROVE ConnectionIsTheSessions
  <2>1. OneConnection
    BY <1>1 DEF PhoneInv, ClientInv, OneWs, OneConnection, Ups, IsUp
  <2>2. ASSUME ~stray, NEW s \in DOMAIN net.sockets, net.sockets[s].phase \in Up
        PROVE net.sockets[s].token = session /\ ~blocked
    <3>1. s \in Ups(net)
      BY <2>2 DEF Ups, IsUp
    <3> QED BY <1>1, <2>2, <3>1 DEF PhoneInv, Serves, Silent, IsFor
  <2> QED BY <2>1, <2>2 DEF ConnectionIsTheSessions
<1> QED BY <1>1, PhoneInvariant, PTL

(* The step that ends a session for the server's sake reports a socket of  *)
(* that session, one the phone had closed, or a stray one.                 *)
LEMMA EndedByNext ==
  ASSUME PhoneInv, [Next]_vars, session # 0, session' = 0, UNCHANGED <<leaving, starting>>
  PROVE \E s \in DOMAIN net.sockets :
           /\ net.sockets[s].code = "replaced"
           /\ net.sockets[s].token = session \/ net.sockets[s].phase = "closing" \/ stray
<1>1. PICK s \in DOMAIN net.sockets :
        OnReplacedMessage(s) \/ (OnClose(s) /\ Ends(net.sockets[s].code))
  <2>1. session' # session
    OBVIOUS
  <2>2. Next
    BY <2>1 DEF vars
  <2>3. ~Auth
    <3>1. ~Login /\ ~LoggedOut /\ ~Cancelled
      BY DEF Login, LoggedOut, Cancelled
    <3>2. ~Started /\ ~RestoreFails
      BY DEF Started, RestoreFails
    <3>3. ~Logout /\ ~CancelKeyConflict /\ ~ConnectAgain /\ ~Suspended /\ ~DismissAlert /\ ~Restart
      BY <2>1 DEF Logout, CancelKeyConflict, ConnectAgain, Suspended, DismissAlert, Restart
    <3> QED BY <3>1, <3>2, <3>3 DEF Auth
  <2>4. ~Retry /\ ~Breaking
    BY <2>1 DEF Retry, Breaking, Breaks
  <2>5. \A s \in DOMAIN net.sockets : ~OnOpen(s)
    BY <2>1 DEF OnOpen
  <2>6. PICK s \in DOMAIN net.sockets : OnReplacedMessage(s) \/ OnClose(s)
    BY <2>2, <2>3, <2>4, <2>5 DEF Next, Callbacks
  <2>7. OnClose(s) => Ends(net.sockets[s].code)
    BY <2>1 DEF OnClose
  <2> QED BY <2>6, <2>7
<1>2. net.sockets[s].code = "replaced"
  BY <1>1 DEF OnReplacedMessage, Ends
<1>3. net.sockets[s] \in Sockets
  BY NetFields DEF PhoneInv, ClientInv, OneWs
<1>4. CASE net.sockets[s].phase # "closing"
  <2>1. s \in Ups(net)
    BY <1>3, <1>4 DEF Ups, IsUp, Up, Sockets
  <2>2. stray \/ net.sockets[s].token = session
    BY <2>1 DEF PhoneInv, Serves, Silent, IsFor
  <2> QED BY <1>2, <2>2
<1> QED BY <1>2, <1>4

(* The server ends a session only through a connection of its own, one the *)
(* phone had closed already, or one nobody had asked for.                  *)
THEOREM SessionsEnd == Spec => EndedByItsOwn
<1>1. PhoneInv /\ [Next]_vars =>
        [session # 0 /\ session' = 0 /\ leaving' = leaving /\ starting' = starting =>
           \E s \in DOMAIN net.sockets :
              /\ net.sockets[s].code = "replaced"
              /\ net.sockets[s].token = session \/ net.sockets[s].phase = "closing" \/ stray]_vars
  BY EndedByNext
<1> QED BY <1>1, PhoneInvariant, PTL DEF Spec, EndedByItsOwn
--------------------------------------------------------------------------------
(* The list of a conversation, from here on: the values it is made of, and *)
(* what the operators on lists return.                                     *)

Texts == {"first", "second", "gone"}
Statuses == {"sending", "failed", "sent", "delivered", "read"}
Entries == [text : Texts, erased : BOOLEAN, status : Statuses]
Lists == UNION {[S -> Entries] : S \in SUBSET Messages}

LEMMA OverIs ==
  ASSUME NEW f, NEW g
  PROVE /\ DOMAIN Over(f, g) = DOMAIN f \union DOMAIN g
        /\ \A x \in DOMAIN f : Over(f, g)[x] = f[x]
        /\ \A x \in DOMAIN g \ DOMAIN f : Over(f, g)[x] = g[x]
  BY DEF Over

LEMMA OneIs ==
  ASSUME NEW m, NEW e
  PROVE DOMAIN One(m, e) = {m} /\ One(m, e)[m] = e
  BY DEF One

LEMMA RestrictIs ==
  ASSUME NEW f, NEW S
  PROVE DOMAIN Restrict(f, S) = S /\ \A x \in S : Restrict(f, S)[x] = f[x]
  BY DEF Restrict

LEMMA ListIs ==
  ASSUME NEW f \in Lists
  PROVE /\ DOMAIN f \subseteq Messages /\ f \in [DOMAIN f -> Entries]
        /\ \A m \in DOMAIN f : f[m] \in Entries
  BY DEF Lists

LEMMA IsList ==
  ASSUME NEW S \in SUBSET Messages, NEW f \in [S -> Entries]
  PROVE f \in Lists
  BY DEF Lists

LEMMA OverList ==
  ASSUME NEW f \in Lists, NEW g \in Lists
  PROVE Over(f, g) \in Lists
<1>1. Over(f, g) \in [DOMAIN f \union DOMAIN g -> Entries]
  BY ListIs DEF Over
<1>2. DOMAIN f \union DOMAIN g \in SUBSET Messages
  BY ListIs
<1> QED BY <1>1, <1>2, IsList

LEMMA RestrictList ==
  ASSUME NEW f \in Lists, NEW S \in SUBSET DOMAIN f
  PROVE Restrict(f, S) \in Lists
<1>1. Restrict(f, S) \in [S -> Entries] /\ S \in SUBSET Messages
  BY ListIs DEF Restrict
<1> QED BY <1>1, IsList

LEMMA OneList ==
  ASSUME NEW m \in Messages, NEW e \in Entries
  PROVE One(m, e) \in Lists
<1>1. One(m, e) \in [{m} -> Entries] /\ {m} \in SUBSET Messages
  BY DEF One
<1> QED BY <1>1, IsList

LEMMA EmptyList == Empty \in Lists /\ DOMAIN Empty = {}
<1>1. Empty \in [{} -> Entries]
  BY DEF Empty
<1> QED BY <1>1, IsList DEF Empty

LEMMA EntryFields ==
  ASSUME NEW e \in Entries
  PROVE /\ e.text \in Texts /\ e.erased \in BOOLEAN /\ e.status \in Statuses
        /\ Reword(e) \in Entries /\ Blank(e) \in Entries /\ Wiped(e) = Blank(e)
        /\ Reword(e).text = "second" /\ Reword(e).erased = e.erased /\ Reword(e).status = e.status
        /\ Blank(e).text = "gone" /\ Blank(e).erased = TRUE /\ Blank(e).status = e.status
  BY DEF Entries, Texts, Reword, Blank, Wiped

LEMMA StatusSet ==
  ASSUME NEW e \in Entries, NEW s \in Statuses
  PROVE /\ [e EXCEPT !.status = s] \in Entries /\ [e EXCEPT !.status = s].text = e.text
        /\ [e EXCEPT !.status = s].erased = e.erased /\ [e EXCEPT !.status = s].status = s
  BY DEF Entries

LEMMA TextSet ==
  ASSUME NEW e \in Entries, NEW t \in Texts
  PROVE /\ [e EXCEPT !.text = t] \in Entries /\ [e EXCEPT !.text = t].text = t
        /\ [e EXCEPT !.text = t].erased = e.erased /\ [e EXCEPT !.text = t].status = e.status
  BY DEF Entries
--------------------------------------------------------------------------------
Named(new, cause) == IF cause \in DOMAIN new THEN new[cause] ELSE {}
Causes == {"lost", "text", "erased", "status", "back"}
Excuses == [lost : SUBSET Messages, text : SUBSET Messages, erased : SUBSET Messages,
            status : SUBSET Messages, back : SUBSET Messages]

LEMMA ChangedIs ==
  ASSUME shown \in Lists, NEW m, NEW e, m \in DOMAIN shown => e \in Entries
  PROVE /\ Changed(m, e) \in Lists /\ DOMAIN Changed(m, e) = {m} \intersect DOMAIN shown
        /\ m \in DOMAIN shown => Changed(m, e)[m] = e
<1>1. CASE m \in DOMAIN shown
  <2>1. m \in Messages
    BY <1>1, ListIs
  <2> QED BY <1>1, <2>1, OneIs, OneList DEF Changed
<1>2. CASE m \notin DOMAIN shown
  BY <1>2, EmptyList DEF Changed
<1> QED BY <1>1, <1>2

LEMMA UpdateIs ==
  ASSUME shown \in Lists, queue \in Lists, NEW changed \in Lists,
         DOMAIN changed \subseteq DOMAIN shown, Update(changed)
  PROVE /\ shown' \in Lists /\ queue' \in Lists /\ disk' = disk
        /\ DOMAIN shown' = DOMAIN shown
        /\ \A m \in DOMAIN changed : shown'[m] = changed[m]
        /\ \A m \in DOMAIN shown \ DOMAIN changed : shown'[m] = shown[m]
        /\ DOMAIN queue \subseteq DOMAIN queue'
        /\ DOMAIN queue' \subseteq DOMAIN queue \union DOMAIN changed
        /\ (\A m \in DOMAIN queue : queue[m].status # "sending")
              => \A m \in DOMAIN queue' : queue'[m].status # "sending"
<1>1. PICK S : S = {m \in DOMAIN changed : changed[m].status # "sending"}
  OBVIOUS
<1>2. PICK part : part = Restrict(changed, S)
  OBVIOUS
<1>3. part \in Lists /\ DOMAIN part = S /\ \A m \in S : part[m] = changed[m]
  BY <1>1, <1>2, RestrictIs, RestrictList
<1>4. shown' = Over(changed, shown) /\ queue' = Over(part, queue) /\ disk' = disk
  BY <1>1, <1>2 DEF Update, QueuePersist
<1>5. shown' \in Lists /\ queue' \in Lists
  BY <1>3, <1>4, OverList
<1>6. /\ DOMAIN shown' = DOMAIN changed \union DOMAIN shown
      /\ \A m \in DOMAIN changed : shown'[m] = changed[m]
      /\ \A m \in DOMAIN shown \ DOMAIN changed : shown'[m] = shown[m]
  <2>1. /\ DOMAIN Over(changed, shown) = DOMAIN changed \union DOMAIN shown
        /\ \A m \in DOMAIN changed : Over(changed, shown)[m] = changed[m]
        /\ \A m \in DOMAIN shown \ DOMAIN changed : Over(changed, shown)[m] = shown[m]
    BY OverIs
  <2> QED BY <1>4, <2>1
<1>7. /\ DOMAIN queue' = S \union DOMAIN queue
      /\ \A m \in S : queue'[m] = part[m]
      /\ \A m \in DOMAIN queue \ S : queue'[m] = queue[m]
  <2>1. /\ DOMAIN Over(part, queue) = DOMAIN part \union DOMAIN queue
        /\ \A m \in DOMAIN part : Over(part, queue)[m] = part[m]
        /\ \A m \in DOMAIN queue \ DOMAIN part : Over(part, queue)[m] = queue[m]
    BY OverIs
  <2> QED BY <1>3, <1>4, <2>1
<1>8. ASSUME \A m \in DOMAIN queue : queue[m].status # "sending", NEW m \in DOMAIN queue'
      PROVE queue'[m].status # "sending"
  BY <1>1, <1>3, <1>7, <1>8
<1>9. DOMAIN queue \subseteq DOMAIN queue' /\ DOMAIN queue' \subseteq DOMAIN queue \union DOMAIN changed
  BY <1>1, <1>3, <1>7
<1> QED BY <1>4, <1>5, <1>6, <1>8, <1>9

LEMMA AppendMessageIs ==
  ASSUME shown \in Lists, disk \in Lists, NEW m \in Messages, AppendMessage(m)
  PROVE /\ shown' \in Lists /\ disk' \in Lists /\ queue' = queue
        /\ DOMAIN shown' = DOMAIN shown \union {m} /\ DOMAIN disk' = DOMAIN disk \union {m}
        /\ \A x \in DOMAIN shown : shown'[x] = shown[x]
        /\ m \notin DOMAIN shown => shown'[m] = Entry("first", FALSE, "delivered")
<1>1. PICK new : new = Entry("first", FALSE, "delivered")
  OBVIOUS
<1>2. new \in Entries
  BY <1>1 DEF Entry, Entries, Texts, Statuses
<1>3. PICK one : one = One(m, new)
  OBVIOUS
<1>4. one \in Lists /\ DOMAIN one = {m} /\ one[m] = new
  BY <1>2, <1>3, OneIs, OneList
<1>5. shown' = Over(shown, one) /\ disk' = Over(one, disk) /\ queue' = queue
  BY <1>1, <1>3 DEF AppendMessage
<1>6. shown' \in Lists /\ disk' \in Lists
  BY <1>4, <1>5, OverList
<1>7. /\ DOMAIN shown' = DOMAIN shown \union {m}
      /\ \A x \in DOMAIN shown : shown'[x] = shown[x]
      /\ \A x \in {m} \ DOMAIN shown : shown'[x] = one[x]
  <2>1. /\ DOMAIN Over(shown, one) = DOMAIN shown \union DOMAIN one
        /\ \A x \in DOMAIN shown : Over(shown, one)[x] = shown[x]
        /\ \A x \in DOMAIN one \ DOMAIN shown : Over(shown, one)[x] = one[x]
    BY OverIs
  <2> QED BY <1>4, <1>5, <2>1
<1>8. DOMAIN disk' = DOMAIN disk \union {m}
  <2>1. DOMAIN Over(one, disk) = DOMAIN one \union DOMAIN disk
    BY OverIs
  <2> QED BY <1>4, <1>5, <2>1
<1> QED BY <1>1, <1>4, <1>5, <1>6, <1>7, <1>8

LEMMA WithoutIs ==
  ASSUME NEW f \in Lists, NEW S
  PROVE /\ Without(f, S) \in Lists /\ DOMAIN Without(f, S) = DOMAIN f \ S
        /\ \A m \in DOMAIN f \ S : Without(f, S)[m] = f[m]
  BY RestrictIs, RestrictList DEF Without

LEMMA RemoveMessageIs ==
  ASSUME shown \in Lists, disk \in Lists, queue \in Lists, NEW m, RemoveMessage(m)
  PROVE /\ shown' \in Lists /\ disk' \in Lists /\ queue' \in Lists
        /\ DOMAIN shown' = DOMAIN shown \ {m} /\ DOMAIN disk' = DOMAIN disk \ {m}
        /\ DOMAIN queue' = DOMAIN queue \ {m}
        /\ \A x \in DOMAIN shown \ {m} : shown'[x] = shown[x]
        /\ \A x \in DOMAIN queue \ {m} : queue'[x] = queue[x]
<1>1. shown' = Without(shown, {m}) /\ disk' = Without(disk, {m}) /\ queue' = Without(queue, {m})
  BY DEF RemoveMessage
<1>2. /\ Without(shown, {m}) \in Lists /\ DOMAIN Without(shown, {m}) = DOMAIN shown \ {m}
      /\ \A x \in DOMAIN shown \ {m} : Without(shown, {m})[x] = shown[x]
  BY WithoutIs
<1>3. Without(disk, {m}) \in Lists /\ DOMAIN Without(disk, {m}) = DOMAIN disk \ {m}
  BY WithoutIs
<1>4. /\ Without(queue, {m}) \in Lists /\ DOMAIN Without(queue, {m}) = DOMAIN queue \ {m}
      /\ \A x \in DOMAIN queue \ {m} : Without(queue, {m})[x] = queue[x]
  BY WithoutIs
<1> QED BY <1>1, <1>2, <1>3, <1>4

LEMMA MappedIs ==
  ASSUME shown \in Lists, NEW m, NEW e \in Entries
  PROVE /\ Mapped(m, e) \in Entries
        /\ Mapped(m, e).erased = e.erased /\ Mapped(m, e).status = e.status
        /\ Mapped(m, e).text = IF m \in DOMAIN shown THEN shown[m].text ELSE e.text
<1>1. CASE m \in DOMAIN shown
  <2>1. shown[m].text \in Texts
    BY <1>1, ListIs, EntryFields
  <2>2. PICK text : text = shown[m].text
    OBVIOUS
  <2>3. Mapped(m, e) = [e EXCEPT !.text = text]
    BY <1>1, <2>2 DEF Mapped
  <2>4. text \in Texts
    BY <2>1, <2>2
  <2> QED BY <1>1, <2>2, <2>3, <2>4, TextSet
<1>2. CASE m \notin DOMAIN shown
  BY <1>2 DEF Mapped
<1> QED BY <1>1, <1>2

LEMMA ReconcileIs ==
  ASSUME shown \in Lists, disk \in Lists, queue \in Lists, NEW rows \in Lists, Reconcile(rows)
  PROVE /\ shown' \in Lists /\ disk' \in Lists /\ queue' \in Lists
        /\ DOMAIN shown' = DOMAIN rows \union Beside(shown, rows)
        /\ DOMAIN disk' = DOMAIN shown' \union Beside(disk, rows)
        /\ DOMAIN queue' = DOMAIN queue \intersect (DOMAIN rows \union Beside(queue, rows))
        /\ \A m \in DOMAIN rows : shown'[m] = Mapped(m, rows[m])
        /\ \A m \in Beside(shown, rows) : shown'[m] = shown[m]
        /\ \A m \in DOMAIN queue' : queue'[m] = queue[m]
<1>1. PICK window : window = [m \in DOMAIN rows |-> Mapped(m, rows[m])]
  OBVIOUS
<1>2. window \in Lists /\ DOMAIN window = DOMAIN rows
  <2>1. \A m \in DOMAIN rows : Mapped(m, rows[m]) \in Entries
    BY ListIs, MappedIs
  <2>2. DOMAIN rows \in SUBSET Messages /\ window \in [DOMAIN rows -> Entries]
    BY <1>1, <2>1, ListIs
  <2> QED BY <1>1, <2>2, IsList
<1>3. \A list : Beside(list, window) = Beside(list, rows)
  BY <1>2 DEF Beside
<1>4. \A list : Beside(list, rows) \subseteq DOMAIN list /\ Beside(list, rows) \intersect DOMAIN rows = {}
  BY DEF Beside
<1>5. PICK kept, old : /\ kept = Restrict(shown, Beside(shown, rows))
                       /\ old = Restrict(disk, Beside(disk, rows))
  OBVIOUS
<1>6. /\ kept \in Lists /\ DOMAIN kept = Beside(shown, rows)
      /\ \A m \in Beside(shown, rows) : kept[m] = shown[m]
      /\ old \in Lists /\ DOMAIN old = Beside(disk, rows)
  BY <1>4, <1>5, RestrictIs, RestrictList
<1>7. shown' = Over(window, kept) /\ disk' = Over(shown', old) /\ queue' = StillPending(window)
  BY <1>1, <1>3, <1>5 DEF Reconcile
<1>8. shown' \in Lists /\ disk' \in Lists
  BY <1>2, <1>6, <1>7, OverList
<1>9. /\ DOMAIN shown' = DOMAIN rows \union Beside(shown, rows)
      /\ DOMAIN disk' = DOMAIN shown' \union Beside(disk, rows)
      /\ \A m \in DOMAIN rows : shown'[m] = window[m]
      /\ \A m \in Beside(shown, rows) \ DOMAIN rows : shown'[m] = kept[m]
  <2>1. /\ DOMAIN Over(window, kept) = DOMAIN window \union DOMAIN kept
        /\ \A m \in DOMAIN window : Over(window, kept)[m] = window[m]
        /\ \A m \in DOMAIN kept \ DOMAIN window : Over(window, kept)[m] = kept[m]
    BY OverIs
  <2>2. PICK after : after = shown'
    OBVIOUS
  <2>3. DOMAIN Over(after, old) = DOMAIN after \union DOMAIN old
    BY OverIs
  <2> QED BY <1>2, <1>6, <1>7, <2>1, <2>2, <2>3
<1>10. /\ queue' \in Lists
       /\ DOMAIN queue' = DOMAIN queue \intersect (DOMAIN rows \union Beside(queue, rows))
       /\ \A m \in DOMAIN queue' : queue'[m] = queue[m]
  <2>1. PICK S : S = DOMAIN queue \intersect (DOMAIN rows \union Beside(queue, rows))
    OBVIOUS
  <2>2. queue' = Restrict(queue, S)
    BY <1>2, <1>3, <1>7, <2>1 DEF StillPending
  <2> QED BY <2>1, <2>2, RestrictIs, RestrictList
<1> QED BY <1>1, <1>4, <1>6, <1>8, <1>9, <1>10

(* What an excuse becomes in a step: it lasts as long as the difference.   *)
LEMMA ExcuseIs ==
  ASSUME NEW new, Excuse(new)
  PROVE /\ excuse'.lost = (excuse.lost \union Named(new, "lost")) \ DOMAIN shown'
        /\ excuse'.back = (excuse.back \union Named(new, "back")) \intersect (DOMAIN shown' \union DOMAIN disk')
        /\ excuse'.text = {m \in excuse.text \union Named(new, "text") : Unlike(m, "text")}
        /\ excuse'.erased = {m \in excuse.erased \union Named(new, "erased") : Unlike(m, "erased")}
        /\ excuse'.status = {m \in excuse.status \union Named(new, "status") : Unlike(m, "status")}
  BY DEF Excuse, Named

LEMMA ExcuseType ==
  ASSUME NEW new, Excuse(new), excuse \in Excuses, \A c \in Causes : Named(new, c) \subseteq Messages
  PROVE excuse' \in Excuses
<1>1. \A c \in Causes : excuse[c] \subseteq Messages /\ Named(new, c) \subseteq Messages
  BY DEF Excuses, Causes
<1> QED BY <1>1 DEF Excuse, Excuses, Causes, Named
--------------------------------------------------------------------------------
(* Types.                                                                  *)

Histories == [kind : {"history"}, rows : Lists, saved : SUBSET Messages]
Receipts == [kind : {"receipt"}, req : SUBSET Mine, status : {"sent", "delivered", "read"}]
Frames == Histories \union Receipts \union [kind : {"edit", "erase"}, id : Messages]
          \union [kind : {"message"}, id : Theirs] \union [kind : {"ack"}, id : Mine]
Outgoing == [kind : {"message"}, id : Mine] \union {[kind |-> "join"]}
Deletions == [kind : {"hide", "erase", "edit"}, id : Messages, step : {"asked", "done", "failed"}, before : Lists]
Requests == {NoRequest} \union [kind : {"audio"}, id : Mine] \union [kind : {"older"}, rows : Lists]
            \union Deletions
Joinings == {[step |-> "no"], [step |-> "joined"]}
            \union [step : {"read"}, rows : Lists, saved : SUBSET Messages]

ServerOK == /\ order \in Seq(Messages) /\ row \in Lists /\ hidden \subseteq DOMAIN row
            /\ saving \subseteq Theirs /\ inRoom \in BOOLEAN /\ joining \in Joinings
WireOK == /\ open \in BOOLEAN /\ toServer \in Seq(Outgoing) /\ toPhone \in Seq(Frames)
          /\ keyed \in BOOLEAN /\ held \subseteq Frames
ListsOK == shown \in Lists /\ disk \in Lists /\ queue \in Lists
AskedOK == request \in Requests /\ excuse \in Excuses /\ timelineLeft \in [TimelineEvents -> Nat]
TimelineTypeOK == ServerOK /\ WireOK /\ ListsOK /\ AskedOK

LEMMA FrameKinds ==
  ASSUME NEW f \in Frames
  PROVE /\ f.kind \in {"history", "receipt", "edit", "erase", "message", "ack"}
        /\ f.kind = "history" => f \in Histories /\ f.rows \in Lists /\ f.saved \subseteq Messages
        /\ f.kind = "receipt" => f \in Receipts /\ f.req \subseteq Mine /\ f.status \in {"sent", "delivered", "read"}
        /\ f.kind \in {"edit", "erase"} => f.id \in Messages
        /\ f.kind = "message" => f.id \in Theirs
        /\ f.kind = "ack" => f.id \in Mine
  BY DEF Frames, Histories, Receipts

LEMMA RequestKinds ==
  ASSUME NEW r \in Requests
  PROVE /\ r.kind \in {"none", "audio", "older", "hide", "erase", "edit"}
        /\ r.kind = "none" => r = NoRequest
        /\ r.kind = "audio" => r.id \in Mine
        /\ r.kind = "older" => r.rows \in Lists
        /\ r.kind \in {"hide", "erase", "edit"} =>
              /\ r \in Deletions /\ r.id \in Messages /\ r.before \in Lists
              /\ r.step \in {"asked", "done", "failed"}
  BY DEF Requests, NoRequest, Deletions

LEMMA JoiningKinds ==
  ASSUME NEW j \in Joinings
  PROVE /\ j.step \in {"no", "joined", "read"}
        /\ j.step = "read" => j.rows \in Lists /\ j.saved \subseteq Messages
  BY DEF Joinings

(* A frame's listener runs: at once, or after it waited.                   *)
Runs(frame) ==
  /\ \/ toPhone # <<>> /\ frame = Head(toPhone) /\ toPhone' = Tail(toPhone) /\ held' = held
     \/ frame \in held /\ held' = held \ {frame} /\ toPhone' = toPhone
  /\ keyed' \in BOOLEAN /\ UNCHANGED <<open, toServer, timelineLeft>>
Waits ==
  /\ toPhone # <<>> /\ toPhone' = Tail(toPhone) /\ held' = held \union {Head(toPhone)}
  /\ NeedsKey(Head(toPhone)) /\ UNCHANGED <<server, open, toServer, keyed, phone, request, excuse, timelineLeft>>
Listens == Receive \/ \E frame \in held : GoOn(frame)

LEMMA Listening ==
  ASSUME WireOK, Listens
  PROVE Waits \/ \E frame \in Frames : Runs(frame) /\ Handle(frame)
<1>1. CASE Receive
  <2>1. Head(toPhone) \in Frames
    <3>1. toPhone \in Seq(Frames) /\ toPhone # <<>>
      BY <1>1 DEF WireOK, Receive
    <3> QED BY <3>1
  <2>2. CASE NeedsKey(Head(toPhone)) /\ ~keyed
    BY <1>1, <2>2 DEF Receive, Waits
  <2>3. CASE ~(NeedsKey(Head(toPhone)) /\ ~keyed)
    <3>1. Runs(Head(toPhone)) /\ Handle(Head(toPhone))
      BY <1>1, <2>3 DEF Receive, Runs, WireOK
    <3> QED BY <2>1, <3>1
  <2> QED BY <2>2, <2>3
<1>2. CASE \E frame \in held : GoOn(frame)
  <2>1. PICK frame \in held : GoOn(frame)
    BY <1>2
  <2>2. Runs(frame) /\ Handle(frame) /\ frame \in Frames
    BY <2>1 DEF GoOn, Runs, WireOK, network
  <2> QED BY <2>2
<1> QED BY <1>1, <1>2 DEF Listens

(* What a listener leaves alone, and which one it is.                      *)
LEMMA Handles ==
  ASSUME NEW frame \in Frames, Handle(frame)
  PROVE /\ UNCHANGED <<server, request>>
        /\ \/ frame.kind = "history" /\ OnHistory(frame)
           \/ frame.kind = "message" /\ OnMessage(frame)
           \/ frame.kind = "edit" /\ OnEdited(frame)
           \/ frame.kind = "erase" /\ OnDeleted(frame)
           \/ frame.kind = "receipt" /\ OnReceipt(frame)
           \/ frame.kind = "ack" /\ OnAck(frame)
<1>1. \/ frame.kind = "history" /\ OnHistory(frame)
      \/ frame.kind = "message" /\ OnMessage(frame)
      \/ frame.kind = "edit" /\ OnEdited(frame)
      \/ frame.kind = "erase" /\ OnDeleted(frame)
      \/ frame.kind = "receipt" /\ OnReceipt(frame)
      \/ frame.kind = "ack" /\ OnAck(frame)
  BY FrameKinds DEF Handle
<1> QED BY <1>1 DEF OnHistory, OnMessage, OnEdited, OnDeleted, OnReceipt, OnAck
--------------------------------------------------------------------------------
(* What the listeners, and the screen's own changes, do to the lists.      *)

QueueGrows ==
  /\ DOMAIN queue \subseteq DOMAIN queue' /\ DOMAIN queue' \subseteq DOMAIN queue \union DOMAIN shown
  /\ (\A m \in DOMAIN queue : queue[m].status # "sending")
       => \A m \in DOMAIN queue' : queue'[m].status # "sending"

LEMMA OneUpdated ==
  ASSUME ListsOK, NEW m, NEW e, m \in DOMAIN shown => e \in Entries, Update(Changed(m, e))
  PROVE /\ ListsOK' /\ disk' = disk /\ DOMAIN shown' = DOMAIN shown /\ QueueGrows
        /\ m \in DOMAIN shown => shown'[m] = e
        /\ \A x \in DOMAIN shown \ {m} : shown'[x] = shown[x]
<1>1. PICK changed : changed = Changed(m, e)
  OBVIOUS
<1>2. /\ changed \in Lists /\ DOMAIN changed = {m} \intersect DOMAIN shown
      /\ m \in DOMAIN shown => changed[m] = e
  BY <1>1, ChangedIs DEF ListsOK
<1>3. Update(changed)
  BY <1>1
<1> QED BY <1>2, <1>3, UpdateIs DEF ListsOK, QueueGrows

LEMMA EditedIs ==
  ASSUME ListsOK, NEW frame, OnEdited(frame)
  PROVE /\ ListsOK' /\ disk' = disk /\ DOMAIN shown' = DOMAIN shown /\ QueueGrows
        /\ frame.id \in DOMAIN shown => shown'[frame.id] = Reword(shown[frame.id])
        /\ \A x \in DOMAIN shown \ {frame.id} : shown'[x] = shown[x]
<1>1. frame.id \in DOMAIN shown => Reword(shown[frame.id]) \in Entries
  BY ListIs, EntryFields DEF ListsOK
<1> QED BY <1>1, OneUpdated DEF OnEdited

LEMMA DeletedIs ==
  ASSUME ListsOK, NEW m, Update(Changed(m, Blank(shown[m])))
  PROVE /\ ListsOK' /\ disk' = disk /\ DOMAIN shown' = DOMAIN shown /\ QueueGrows
        /\ m \in DOMAIN shown => shown'[m] = Blank(shown[m])
        /\ \A x \in DOMAIN shown \ {m} : shown'[x] = shown[x]
<1>1. m \in DOMAIN shown => Blank(shown[m]) \in Entries
  BY ListIs, EntryFields DEF ListsOK
<1> QED BY <1>1, OneUpdated

LEMMA AckedIs ==
  ASSUME ListsOK, NEW frame, OnAck(frame)
  PROVE /\ ListsOK' /\ disk' = disk /\ DOMAIN shown' = DOMAIN shown /\ QueueGrows
        /\ \A x \in DOMAIN shown : shown'[x].text = shown[x].text /\ shown'[x].erased = shown[x].erased
        /\ \A x \in DOMAIN shown \ {frame.id} : shown'[x] = shown[x]
<1>1. PICK e : e = [shown[frame.id] EXCEPT !.status = "sent"]
  OBVIOUS
<1>2. ASSUME frame.id \in DOMAIN shown
      PROVE /\ e \in Entries /\ e.text = shown[frame.id].text /\ e.erased = shown[frame.id].erased
  <2>1. shown[frame.id] \in Entries /\ "sent" \in Statuses
    BY <1>2, ListIs DEF ListsOK, Statuses
  <2> QED BY <1>1, <2>1, StatusSet
<1>3. Update(Changed(frame.id, e))
  BY <1>1 DEF OnAck, Acked
<1>4. /\ ListsOK' /\ disk' = disk /\ DOMAIN shown' = DOMAIN shown /\ QueueGrows
      /\ frame.id \in DOMAIN shown => shown'[frame.id] = e
      /\ \A x \in DOMAIN shown \ {frame.id} : shown'[x] = shown[x]
  BY <1>2, <1>3, OneUpdated
<1> QED BY <1>2, <1>4

(* The messages a receipt is taken for.                                    *)
TakenFor(frame, m) == m \in Mine /\ (m \in frame.req \/ frame.status # "sent")

LEMMA ReceiptIs ==
  ASSUME ListsOK, NEW frame \in Receipts, OnReceipt(frame)
  PROVE /\ ListsOK' /\ disk' = disk /\ DOMAIN shown' = DOMAIN shown /\ QueueGrows
        /\ \A x \in DOMAIN shown :
             /\ shown'[x].text = shown[x].text /\ shown'[x].erased = shown[x].erased
             /\ shown'[x].status = IF TakenFor(frame, x) THEN frame.status ELSE shown[x].status
<1>1. PICK changed : changed = Receipted(frame)
  OBVIOUS
<1>2. PICK S : S = {n \in DOMAIN shown \intersect Mine : /\ n \in frame.req \/ frame.status # "sent"
                                                         /\ shown[n].status # frame.status}
  OBVIOUS
<1>3. frame.status \in Statuses
  BY DEF Receipts, Statuses
<1>4. /\ DOMAIN changed = S
      /\ \A m \in S : /\ changed[m] \in Entries /\ changed[m].text = shown[m].text
                      /\ changed[m].erased = shown[m].erased /\ changed[m].status = frame.status
  <2>1. changed = [m \in S |-> [shown[m] EXCEPT !.status = frame.status]]
    BY <1>1, <1>2 DEF Receipted
  <2>2. \A m \in S : shown[m] \in Entries
    BY <1>2, ListIs DEF ListsOK
  <2> QED BY <1>3, <2>1, <2>2, StatusSet
<1>5. changed \in Lists /\ S \subseteq DOMAIN shown
  <2>1. S \in SUBSET Messages /\ S \subseteq DOMAIN shown
    BY <1>2, ListIs DEF ListsOK
  <2>2. changed \in [S -> Entries]
    <3>1. changed = [m \in S |-> [shown[m] EXCEPT !.status = frame.status]]
      BY <1>1, <1>2 DEF Receipted
    <3> QED BY <1>4, <3>1
  <2> QED BY <2>1, <2>2, IsList
<1>6. Update(changed)
  BY <1>1 DEF OnReceipt
<1>7. /\ ListsOK' /\ disk' = disk /\ DOMAIN shown' = DOMAIN shown /\ QueueGrows
      /\ \A m \in S : shown'[m] = changed[m]
      /\ \A m \in DOMAIN shown \ S : shown'[m] = shown[m]
  BY <1>4, <1>5, <1>6, UpdateIs DEF ListsOK, QueueGrows
<1>8. \A x \in DOMAIN shown \ S : TakenFor(frame, x) => shown[x].status = frame.status
  BY <1>2 DEF TakenFor
<1>9. \A x \in S : TakenFor(frame, x)
  BY <1>2 DEF TakenFor
<1> QED BY <1>4, <1>5, <1>7, <1>8, <1>9

(* What the user's own changes put in place of an entry, or add.           *)
LEMMA ReplaceIs ==
  ASSUME shown \in Lists, NEW m, NEW e, m \in DOMAIN shown => e \in Entries,
         shown' = Over(Changed(m, e), shown)
  PROVE /\ shown' \in Lists /\ DOMAIN shown' = DOMAIN shown
        /\ m \in DOMAIN shown => shown'[m] = e
        /\ \A x \in DOMAIN shown \ {m} : shown'[x] = shown[x]
<1>1. PICK changed : changed = Changed(m, e)
  OBVIOUS
<1>2. /\ changed \in Lists /\ DOMAIN changed = {m} \intersect DOMAIN shown
      /\ m \in DOMAIN shown => changed[m] = e
  BY <1>1, ChangedIs
<1>3. /\ Over(changed, shown) \in Lists /\ DOMAIN Over(changed, shown) = DOMAIN changed \union DOMAIN shown
      /\ \A x \in DOMAIN changed : Over(changed, shown)[x] = changed[x]
      /\ \A x \in DOMAIN shown \ DOMAIN changed : Over(changed, shown)[x] = shown[x]
  BY <1>2, OverIs, OverList
<1> QED BY <1>1, <1>2, <1>3

LEMMA AddIs ==
  ASSUME NEW list \in Lists, NEW m \in Messages, NEW e \in Entries
  PROVE /\ Over(list, One(m, e)) \in Lists
        /\ DOMAIN Over(list, One(m, e)) = DOMAIN list \union {m}
        /\ \A x \in DOMAIN list : Over(list, One(m, e))[x] = list[x]
        /\ m \notin DOMAIN list => Over(list, One(m, e))[m] = e
<1>1. PICK one : one = One(m, e)
  OBVIOUS
<1>2. one \in Lists /\ DOMAIN one = {m} /\ one[m] = e
  BY <1>1, OneIs, OneList
<1>3. /\ Over(list, one) \in Lists /\ DOMAIN Over(list, one) = DOMAIN list \union DOMAIN one
      /\ \A x \in DOMAIN list : Over(list, one)[x] = list[x]
      /\ \A x \in DOMAIN one \ DOMAIN list : Over(list, one)[x] = one[x]
  BY <1>2, OverIs, OverList
<1> QED BY <1>1, <1>2, <1>3

LEMMA EntryIs ==
  ASSUME NEW status \in Statuses
  PROVE /\ Entry("first", FALSE, status) \in Entries
        /\ Entry("first", FALSE, status).text = "first" /\ Entry("first", FALSE, status).erased = FALSE
        /\ Entry("first", FALSE, status).status = status
  BY DEF Entry, Entries, Texts
--------------------------------------------------------------------------------
(* Types are kept.                                                         *)

LEMMA Members ==
  /\ \A i \in DOMAIN Written : Written[i] \in Mine
  /\ \A m, list : IsNext(m, list) => m \notin Range(order)
  /\ Mine \subseteq Messages /\ Theirs \subseteq Messages
  BY DEF Mine, Range, IsNext, Messages

LEMMA Outgoings ==
  /\ [kind |-> "join"] \in Outgoing /\ \A m \in Mine : [kind |-> "message", id |-> m] \in Outgoing
  /\ <<>> \in Seq(Outgoing) /\ Rejoin \in Seq(Outgoing)
<1>1. [kind |-> "join"] \in Outgoing /\ \A m \in Mine : [kind |-> "message", id |-> m] \in Outgoing
  BY DEF Outgoing
<1> QED BY <1>1 DEF Rejoin

LEMMA SpendType ==
  ASSUME AskedOK, NEW e \in TimelineEvents, SpendOne(e)
  PROVE timelineLeft' \in [TimelineEvents -> Nat] /\ timelineLeft' # timelineLeft
<1>1. timelineLeft \in [TimelineEvents -> Nat] /\ timelineLeft[e] > 0
      /\ timelineLeft' = [timelineLeft EXCEPT ![e] = timelineLeft[e] - 1]
  BY DEF AskedOK, SpendOne, May
<1>2. timelineLeft[e] - 1 \in Nat /\ timelineLeft'[e] = timelineLeft[e] - 1
  BY <1>1
<1> QED BY <1>1, <1>2

LEMMA HandOverType ==
  ASSUME WireOK, NEW m \in Mine, HandOver(m)
  PROVE toServer' \in Seq(Outgoing)
  BY Outgoings DEF WireOK, HandOver

LEMMA ExcuseKeeps ==
  ASSUME NEW new, Excuse(new), AskedOK, \A c \in Causes : Named(new, c) \subseteq Messages
  PROVE excuse' \in Excuses
  BY ExcuseType DEF AskedOK

LEMMA WriteType ==
  ASSUME TimelineTypeOK, NEW m \in Mine, Send(m) \/ SendAudio(m)
  PROVE TimelineTypeOK'
<1> USE DEF TimelineTypeOK
<1>1. m \in Messages /\ order' \in Seq(Messages) /\ "write" \in TimelineEvents
  <2>1. order' = Append(order, m) /\ order \in Seq(Messages)
    BY DEF Send, SendAudio, ServerOK
  <2>2. m \in Messages /\ "write" \in TimelineEvents
    BY Members DEF TimelineEvents
  <2> QED BY <2>1, <2>2
<1>2. ServerOK'
  BY <1>1 DEF Send, SendAudio, ServerOK
<1>3. timelineLeft' \in [TimelineEvents -> Nat]
  BY <1>1, SpendType DEF Send, SendAudio
<1>4. WireOK'
  BY HandOverType DEF Send, SendAudio, WireOK, network
<1>5. ListsOK'
  <2>1. PICK status \in Statuses : shown' = Over(shown, One(m, Entry("first", FALSE, status)))
    BY DEF Send, SendAudio, FirstStatus, Statuses
  <2>2. shown' \in Lists
    BY <1>1, <2>1, AddIs, EntryIs DEF ListsOK
  <2> QED BY <2>2 DEF Send, SendAudio, ListsOK
<1>6. request' \in Requests /\ excuse' = excuse
  <2>1. [kind |-> "audio", id |-> m] \in Requests
    BY DEF Requests
  <2> QED BY <2>1 DEF Send, SendAudio, AskedOK
<1> QED BY <1>2, <1>3, <1>4, <1>5, <1>6 DEF AskedOK

LEMMA UploadedIs ==
  ASSUME TimelineTypeOK, NEW fails \in BOOLEAN, AudioUploaded(fails)
  PROVE LET status == IF open /\ ~fails THEN "sent" ELSE "failed"
        IN /\ shown' \in Lists /\ DOMAIN shown' = DOMAIN shown /\ disk' = disk /\ queue' = queue
           /\ request.kind = "audio" /\ request.id \in Mine /\ request' = NoRequest
           /\ \A x \in DOMAIN shown :
                /\ shown'[x].text = shown[x].text /\ shown'[x].erased = shown[x].erased
                /\ shown'[x].status = IF x = request.id THEN status ELSE shown[x].status
           /\ Excuse([status |-> IF status = "sent" THEN {request.id} ELSE {}])
<1> DEFINE status == IF open /\ ~fails THEN "sent" ELSE "failed"
<1>1. PICK e : e = [shown[request.id] EXCEPT !.status = status]
  OBVIOUS
<1>2. ASSUME request.id \in DOMAIN shown
      PROVE /\ e \in Entries /\ e.text = shown[request.id].text /\ e.erased = shown[request.id].erased
            /\ e.status = status
  <2>1. shown[request.id] \in Entries /\ status \in Statuses
    BY <1>2, ListIs DEF TimelineTypeOK, ListsOK, Statuses
  <2> QED BY <1>1, <2>1, StatusSet
<1>3. shown' = Over(Changed(request.id, e), shown)
  BY <1>1 DEF AudioUploaded
<1>4. /\ shown' \in Lists /\ DOMAIN shown' = DOMAIN shown
      /\ request.id \in DOMAIN shown => shown'[request.id] = e
      /\ \A x \in DOMAIN shown \ {request.id} : shown'[x] = shown[x]
  BY <1>2, <1>3, ReplaceIs DEF TimelineTypeOK, ListsOK
<1>5. /\ request.kind = "audio" /\ request' = NoRequest /\ disk' = disk /\ queue' = queue
      /\ Excuse([status |-> IF status = "sent" THEN {request.id} ELSE {}])
  BY DEF AudioUploaded
<1>6. request.id \in Mine
  BY <1>5, RequestKinds DEF TimelineTypeOK, AskedOK
<1> QED BY <1>2, <1>4, <1>5, <1>6

LEMMA UploadedType ==
  ASSUME TimelineTypeOK, NEW fails \in BOOLEAN, AudioUploaded(fails)
  PROVE TimelineTypeOK'
<1>1. PICK status : status = IF open /\ ~fails THEN "sent" ELSE "failed"
  OBVIOUS
<1>2. PICK new : new = [status |-> IF status = "sent" THEN {request.id} ELSE {}]
  OBVIOUS
<1>3. /\ shown' \in Lists /\ disk' = disk /\ queue' = queue /\ request.id \in Mine /\ request' = NoRequest
      /\ Excuse(new)
  BY <1>1, <1>2, UploadedIs
<1>4. \A c \in Causes : Named(new, c) \subseteq Messages
  BY <1>2, <1>3, Members DEF Named
<1>5. excuse' \in Excuses
  BY <1>3, <1>4, ExcuseKeeps DEF TimelineTypeOK
<1>6. ServerOK'
  BY DEF AudioUploaded, server, TimelineTypeOK, ServerOK
<1>7. toServer' \in Seq(Outgoing)
  BY <1>3, HandOverType DEF AudioUploaded, TimelineTypeOK, WireOK
<1>8. WireOK'
  BY <1>7 DEF AudioUploaded, TimelineTypeOK, WireOK
<1>9. timelineLeft' \in [TimelineEvents -> Nat]
  <2>1. "fault" \in TimelineEvents
    BY DEF TimelineEvents
  <2> QED BY <2>1, SpendType DEF AudioUploaded, TimelineTypeOK, AskedOK
<1> QED BY <1>3, <1>5, <1>6, <1>8, <1>9 DEF TimelineTypeOK, ListsOK, AskedOK, Requests
LEMMA AskIs ==
  ASSUME TimelineTypeOK, NEW m, NEW kind \in {"hide", "erase", "edit"}, Ask(m, kind)
  PROVE /\ shown' \in Lists /\ disk' = disk /\ queue' = queue /\ m \in DOMAIN shown /\ m \in Messages
        /\ request' = [kind |-> kind, id |-> m, step |-> "asked", before |-> shown] /\ request = NoRequest
        /\ DOMAIN shown' = IF kind = "hide" THEN DOMAIN shown \ {m} ELSE DOMAIN shown
        /\ \A x \in DOMAIN shown \ {m} : shown'[x] = shown[x]
        /\ kind = "erase" => shown'[m] = Blank(shown[m])
        /\ kind = "edit" => shown'[m] = Reword(shown[m])
        /\ Excuse([text |-> IF kind = "edit" THEN {m} ELSE {}])
<1>1. /\ m \in DOMAIN shown /\ disk' = disk /\ queue' = queue /\ request = NoRequest
      /\ request' = [kind |-> kind, id |-> m, step |-> "asked", before |-> shown]
      /\ Excuse([text |-> IF kind = "edit" THEN {m} ELSE {}])
  BY DEF Ask
<1>2. /\ shown \in Lists /\ m \in Messages
      /\ Blank(shown[m]) \in Entries /\ Reword(shown[m]) \in Entries
  BY <1>1, ListIs, EntryFields DEF TimelineTypeOK, ListsOK
<1>3. CASE kind = "hide"
  <2>1. shown' = Without(shown, {m})
    BY <1>3 DEF Ask
  <2>2. /\ Without(shown, {m}) \in Lists /\ DOMAIN Without(shown, {m}) = DOMAIN shown \ {m}
        /\ \A x \in DOMAIN shown \ {m} : Without(shown, {m})[x] = shown[x]
    BY <1>2, WithoutIs
  <2> QED BY <1>1, <1>2, <1>3, <2>1, <2>2
<1>4. CASE kind = "erase"
  <2>1. shown' = Over(Changed(m, Blank(shown[m])), shown)
    BY <1>4 DEF Ask
  <2>2. /\ shown' \in Lists /\ DOMAIN shown' = DOMAIN shown /\ shown'[m] = Blank(shown[m])
        /\ \A x \in DOMAIN shown \ {m} : shown'[x] = shown[x]
    BY <1>1, <1>2, <2>1, ReplaceIs
  <2> QED BY <1>1, <1>2, <1>4, <2>2
<1>5. CASE kind = "edit"
  <2>1. shown' = Over(Changed(m, Reword(shown[m])), shown)
    BY <1>5 DEF Ask
  <2>2. /\ shown' \in Lists /\ DOMAIN shown' = DOMAIN shown /\ shown'[m] = Reword(shown[m])
        /\ \A x \in DOMAIN shown \ {m} : shown'[x] = shown[x]
    BY <1>1, <1>2, <2>1, ReplaceIs
  <2> QED BY <1>1, <1>2, <1>5, <2>2
<1> QED BY <1>3, <1>4, <1>5

LEMMA AskType ==
  ASSUME TimelineTypeOK, NEW m, NEW kind \in {"hide", "erase", "edit"}, Ask(m, kind)
  PROVE TimelineTypeOK'
<1>1. PICK new : new = [text |-> IF kind = "edit" THEN {m} ELSE {}]
  OBVIOUS
<1>2. /\ shown' \in Lists /\ disk' = disk /\ queue' = queue /\ m \in Messages
      /\ request' = [kind |-> kind, id |-> m, step |-> "asked", before |-> shown]
      /\ Excuse(new)
  BY <1>1, AskIs
<1>3. excuse' \in Excuses
  <2>1. \A c \in Causes : Named(new, c) \subseteq Messages
    BY <1>1, <1>2 DEF Named
  <2> QED BY <1>2, <2>1, ExcuseKeeps DEF TimelineTypeOK
<1>4. request' \in Requests
  BY <1>2 DEF Requests, Deletions, TimelineTypeOK, ListsOK
<1>5. timelineLeft' \in [TimelineEvents -> Nat]
  <2>1. "request" \in TimelineEvents
    BY DEF TimelineEvents
  <2> QED BY <2>1, SpendType DEF Ask, TimelineTypeOK
<1>6. ServerOK' /\ WireOK'
  BY DEF Ask, TimelineTypeOK, ServerOK, WireOK, server, network
<1> QED BY <1>2, <1>3, <1>4, <1>5, <1>6 DEF TimelineTypeOK, ListsOK, AskedOK

LEMMA AskOlderType ==
  ASSUME TimelineTypeOK, AskOlder
  PROVE TimelineTypeOK'
<1>1. PICK older : /\ older = {m \in DOMAIN row \ hidden : \A n \in DOMAIN shown : Before(m, n)}
                   /\ request' = [kind |-> "older", rows |-> Restrict(row, older)]
  BY DEF AskOlder
<1>2. Restrict(row, older) \in Lists
  BY <1>1, RestrictList DEF TimelineTypeOK, ServerOK
<1>3. request' \in Requests
  BY <1>1, <1>2 DEF Requests
<1>4. timelineLeft' \in [TimelineEvents -> Nat]
  <2>1. "request" \in TimelineEvents
    BY DEF TimelineEvents
  <2> QED BY <2>1, SpendType DEF AskOlder, TimelineTypeOK
<1> QED BY <1>3, <1>4 DEF AskOlder, TimelineTypeOK, ServerOK, WireOK, ListsOK, AskedOK, server, network, phone

LEMMA OlderIs ==
  ASSUME TimelineTypeOK, OlderArrives
  PROVE /\ request.kind = "older" /\ request.rows \in Lists /\ request' = NoRequest
        /\ shown' \in Lists /\ disk' = disk /\ queue' = queue
        /\ DOMAIN shown' = DOMAIN shown \union DOMAIN request.rows
        /\ \A x \in DOMAIN shown : shown'[x] = shown[x]
        /\ LET late == DOMAIN request.rows \ DOMAIN shown
           IN Excuse([text |-> late, erased |-> late, status |-> late, back |-> late \intersect hidden])
<1>1. request.kind = "older" /\ shown' = Over(shown, request.rows) /\ request.rows \in Lists
  BY RequestKinds DEF OlderArrives, TimelineTypeOK, AskedOK
<1>2. /\ Over(shown, request.rows) \in Lists
      /\ DOMAIN Over(shown, request.rows) = DOMAIN shown \union DOMAIN request.rows
      /\ \A x \in DOMAIN shown : Over(shown, request.rows)[x] = shown[x]
  <2>1. Over(shown, request.rows) \in Lists
    BY <1>1, OverList DEF TimelineTypeOK, ListsOK
  <2> QED BY <2>1, OverIs
<1> QED BY <1>1, <1>2 DEF OlderArrives

LEMMA OlderType ==
  ASSUME TimelineTypeOK, OlderArrives
  PROVE TimelineTypeOK'
<1>1. PICK late : late = DOMAIN request.rows \ DOMAIN shown
  OBVIOUS
<1>2. PICK new : new = [text |-> late, erased |-> late, status |-> late, back |-> late \intersect hidden]
  OBVIOUS
<1>3. shown' \in Lists /\ Excuse(new) /\ late \subseteq Messages
  BY <1>1, <1>2, OlderIs, ListIs
<1>4. \A c \in Causes : Named(new, c) \subseteq Messages
  BY <1>2, <1>3 DEF Named
<1>5. excuse' \in Excuses
  BY <1>3, <1>4, ExcuseKeeps DEF TimelineTypeOK
<1>6. NoRequest \in Requests
  BY DEF Requests
<1> QED BY <1>3, <1>5, <1>6 DEF OlderArrives, TimelineTypeOK, ServerOK, WireOK, ListsOK, AskedOK, server, network

LEMMA AnsweredType ==
  ASSUME TimelineTypeOK, DeleteAnswered
  PROVE TimelineTypeOK'
<1>1. request.before \in Lists /\ request' = NoRequest /\ NoRequest \in Requests
  BY RequestKinds DEF DeleteAnswered, TimelineTypeOK, AskedOK, Requests
<1>2. ListsOK'
  <2>1. CASE request.step = "done" /\ request.kind = "hide"
    BY <2>1, RemoveMessageIs DEF DeleteAnswered, Answered, TimelineTypeOK, ListsOK
  <2>2. CASE request.step = "done" /\ request.kind # "hide"
    BY <2>2, DeletedIs DEF DeleteAnswered, Answered, TimelineTypeOK
  <2>3. CASE request.step # "done"
    BY <1>1, <2>3 DEF DeleteAnswered, PutBack, TimelineTypeOK, ListsOK
  <2> QED BY <2>1, <2>2, <2>3
<1>3. excuse' \in Excuses
  <2>1. CASE request.step = "done"
    <3>1. PICK new : new = <<>>
      OBVIOUS
    <3>2. \A c \in Causes : Named(new, c) \subseteq Messages
      BY <3>1 DEF Named, Causes
    <3>3. Excuse(new)
      BY <2>1, <3>1 DEF DeleteAnswered, NoExcuse
    <3> QED BY <3>2, <3>3, ExcuseKeeps DEF TimelineTypeOK
  <2>2. CASE request.step # "done"
    <3>1. PICK was : was = DOMAIN request.before
      OBVIOUS
    <3>2. PICK new : new = [lost |-> DOMAIN shown \ was, text |-> was, erased |-> was, status |-> was,
                            back |-> was \intersect hidden]
      OBVIOUS
    <3>3. Excuse(new) /\ was \subseteq Messages /\ DOMAIN shown \subseteq Messages
      BY <1>1, <2>2, <3>1, <3>2, ListIs DEF DeleteAnswered, TimelineTypeOK, ListsOK
    <3>4. \A c \in Causes : Named(new, c) \subseteq Messages
      BY <3>2, <3>3 DEF Named
    <3> QED BY <3>3, <3>4, ExcuseKeeps DEF TimelineTypeOK
  <2> QED BY <2>1, <2>2
<1> QED BY <1>1, <1>2, <1>3 DEF DeleteAnswered, TimelineTypeOK, ServerOK, WireOK, AskedOK, server, network
LEMMA NothingNew == \A c \in Causes : Named(<<>>, c) \subseteq Messages
<1>1. PICK new : new = <<>>
  OBVIOUS
<1>2. \A c \in Causes : Named(new, c) \subseteq Messages
  BY <1>1 DEF Named, Causes
<1> QED BY <1>1, <1>2

LEMMA ChangeRowIs ==
  ASSUME ServerOK, toPhone \in Seq(Frames), NEW m, NEW kind \in {"erase", "edit"}, ChangeRow(m, kind)
  PROVE LET unheard == IF inRoom THEN {} ELSE {m}
        IN /\ m \in DOMAIN row /\ m \in Messages /\ ~row[m].erased /\ (kind = "edit" => row[m].text = "first")
           /\ row' \in Lists /\ DOMAIN row' = DOMAIN row
           /\ row'[m] = IF kind = "edit" THEN Reword(row[m]) ELSE Blank(row[m])
           /\ \A x \in DOMAIN row \ {m} : row'[x] = row[x]
           /\ [kind |-> kind, id |-> m] \in Frames /\ toPhone' \in Seq(Frames)
           /\ toPhone' = IF inRoom THEN Append(toPhone, [kind |-> kind, id |-> m]) ELSE toPhone
           /\ UNCHANGED phone /\ Excuse([text |-> unheard, erased |-> unheard])
<1>1. /\ m \in DOMAIN row /\ ~row[m].erased /\ (kind = "edit" => row[m].text = "first")
      /\ row' = [row EXCEPT ![m] = IF kind = "edit" THEN Reword(row[m]) ELSE Wiped(row[m])]
      /\ toPhone' = IF inRoom THEN Append(toPhone, [kind |-> kind, id |-> m]) ELSE toPhone
      /\ UNCHANGED phone
  BY DEF ChangeRow, Reaches
<1>2. PICK e : e = IF kind = "edit" THEN Reword(row[m]) ELSE Blank(row[m])
  OBVIOUS
<1>3. row[m] \in Entries /\ e \in Entries /\ m \in Messages
  BY <1>1, <1>2, ListIs, EntryFields DEF ServerOK
<1>4. row \in [DOMAIN row -> Entries] /\ DOMAIN row \in SUBSET Messages
  BY ListIs DEF ServerOK
<1>5. row' = [row EXCEPT ![m] = e]
  BY <1>1, <1>2, <1>3, EntryFields
<1>6. /\ row' \in [DOMAIN row -> Entries] /\ DOMAIN row' = DOMAIN row /\ row'[m] = e
      /\ \A x \in DOMAIN row \ {m} : row'[x] = row[x]
  BY <1>1, <1>3, <1>4, <1>5
<1>7. row' \in Lists
  BY <1>4, <1>6, IsList
<1>8. [kind |-> kind, id |-> m] \in Frames
  BY <1>3 DEF Frames
<1>9. toPhone' \in Seq(Frames)
  BY <1>1, <1>8
<1>10. LET unheard == IF inRoom THEN {} ELSE {m} IN Excuse([text |-> unheard, erased |-> unheard])
  BY DEF ChangeRow
<1> QED BY <1>1, <1>2, <1>3, <1>6, <1>7, <1>8, <1>9, <1>10

LEMMA ChangeRowType ==
  ASSUME TimelineTypeOK, NEW m, NEW kind \in {"erase", "edit"}, ChangeRow(m, kind)
  PROVE ListsOK' /\ excuse' \in Excuses /\ row' \in Lists /\ DOMAIN row' = DOMAIN row
        /\ toPhone' \in Seq(Frames)
<1>1. PICK unheard : unheard = IF inRoom THEN {} ELSE {m}
  OBVIOUS
<1>2. PICK new : new = [text |-> unheard, erased |-> unheard]
  OBVIOUS
<1>3. /\ row' \in Lists /\ DOMAIN row' = DOMAIN row /\ toPhone' \in Seq(Frames) /\ UNCHANGED phone
      /\ m \in Messages /\ Excuse(new)
  BY <1>1, <1>2, ChangeRowIs DEF TimelineTypeOK, WireOK
<1>4. \A c \in Causes : Named(new, c) \subseteq Messages
  BY <1>1, <1>2, <1>3 DEF Named
<1>5. excuse' \in Excuses
  BY <1>3, <1>4, ExcuseKeeps DEF TimelineTypeOK
<1> QED BY <1>3, <1>5 DEF TimelineTypeOK, ListsOK, phone

LEMMA JoinType ==
  ASSUME TimelineTypeOK, Join \/ SendHistory \/ (\E fails \in BOOLEAN : ReadHistory(fails))
  PROVE TimelineTypeOK'
<1>1. CASE Join
  <2>1. toServer' \in Seq(Outgoing) /\ joining' \in Joinings
    BY <1>1 DEF Join, Joinings, TimelineTypeOK, WireOK
  <2> QED BY <1>1, <2>1 DEF Join, TimelineTypeOK, ServerOK, WireOK, ListsOK, AskedOK, phone
<1>2. CASE SendHistory
  <2>1. joining.rows \in Lists /\ joining.saved \subseteq Messages
    BY <1>2, JoiningKinds DEF SendHistory, TimelineTypeOK, ServerOK
  <2>2. [kind |-> "history", rows |-> joining.rows, saved |-> joining.saved] \in Frames
    BY <2>1 DEF Frames, Histories
  <2>3. toPhone' \in Seq(Frames) /\ joining' \in Joinings
    BY <1>2, <2>2 DEF SendHistory, Joinings, TimelineTypeOK, WireOK
  <2> QED BY <1>2, <2>3 DEF SendHistory, TimelineTypeOK, ServerOK, WireOK, ListsOK, AskedOK, phone
<1>3. CASE \E fails \in BOOLEAN : ReadHistory(fails)
  <2>1. PICK fails \in BOOLEAN : ReadHistory(fails)
    BY <1>3
  <2>2. PICK new : new = [lost |-> saving \union (IF fails THEN DOMAIN row ELSE {})]
    OBVIOUS
  <2>3. DOMAIN row \subseteq Messages /\ saving \subseteq Messages /\ Excuse(new)
    BY <2>1, <2>2, ListIs, Members DEF ReadHistory, TimelineTypeOK, ServerOK
  <2>4. \A c \in Causes : Named(new, c) \subseteq Messages
    BY <2>2, <2>3 DEF Named
  <2>5. excuse' \in Excuses
    BY <2>3, <2>4, ExcuseKeeps DEF TimelineTypeOK
  <2>6. joining' \in Joinings
    <3>1. Latest \subseteq DOMAIN row /\ Latest \ hidden \subseteq DOMAIN row
      BY DEF Latest
    <3>2. PICK rows, saved : /\ rows = IF fails THEN Empty ELSE Restrict(row, Latest \ hidden)
                             /\ saved = IF fails THEN {} ELSE DOMAIN row
      OBVIOUS
    <3>3. rows \in Lists /\ saved \in SUBSET Messages
      BY <2>3, <3>1, <3>2, EmptyList, RestrictList DEF TimelineTypeOK, ServerOK
    <3>4. joining' = [step |-> "read", saved |-> saved, rows |-> rows]
      BY <2>1, <3>2 DEF ReadHistory
    <3> QED BY <3>3, <3>4 DEF Joinings
  <2>7. timelineLeft' \in [TimelineEvents -> Nat]
    <3>1. "fault" \in TimelineEvents
      BY DEF TimelineEvents
    <3> QED BY <2>1, <3>1, SpendType DEF ReadHistory, TimelineTypeOK, AskedOK
  <2> QED BY <2>1, <2>5, <2>6, <2>7
           DEF ReadHistory, TimelineTypeOK, ServerOK, WireOK, ListsOK, AskedOK, phone, network
<1> QED BY <1>1, <1>2, <1>3
Outcomes == {"saved", "unsaved", "rejected"}
Confirmations == {"sent", "delivered"}

LEMMA TakeIs ==
  ASSUME TimelineTypeOK, NEW outcome \in Outcomes, NEW status \in Confirmations, Take(outcome, status)
  PROVE \E m \in Mine :
          LET receipt == [kind |-> "receipt", req |-> {m}, status |-> status]
              ack == [kind |-> "ack", id |-> m]
          IN /\ toServer # <<>> /\ Head(toServer) = [kind |-> "message", id |-> m] /\ joining.step = "no"
             /\ toServer' = Tail(toServer) /\ toServer' \in Seq(Outgoing)
             /\ row' \in Lists /\ receipt \in Frames /\ receipt \in Receipts /\ ack \in Frames
             /\ outcome # "saved" => row' = row
             /\ outcome = "saved" =>
                  /\ DOMAIN row' = DOMAIN row \union {m}
                  /\ \A x \in DOMAIN row : row'[x] = row[x]
                  /\ m \notin DOMAIN row => row'[m] = Entry("first", FALSE, status)
             /\ toPhone' = IF outcome = "rejected" THEN Append(toPhone, ack) ELSE Append(Append(toPhone, receipt), ack)
             /\ toPhone' \in Seq(Frames)
<1>1. toServer # <<>> /\ toServer \in Seq(Outgoing) /\ Head(toServer).kind = "message"
  BY DEF Take, TimelineTypeOK, WireOK
<1>2. Head(toServer) \in Outgoing /\ Tail(toServer) \in Seq(Outgoing)
  BY <1>1
<1>3. PICK m \in Mine : Head(toServer) = [kind |-> "message", id |-> m]
  BY <1>1, <1>2 DEF Outgoing
<1>4. m = Head(toServer).id /\ m \in Messages
  BY <1>3, Members
<1>5. PICK receipt, ack : /\ receipt = [kind |-> "receipt", req |-> {m}, status |-> status]
                          /\ ack = [kind |-> "ack", id |-> m]
  OBVIOUS
<1>6. receipt \in Frames /\ receipt \in Receipts /\ ack \in Frames
  <2>1. receipt \in Receipts
    BY <1>5 DEF Receipts, Confirmations
  <2> QED BY <1>5, <2>1 DEF Frames
<1>7. status \in Statuses
  BY DEF Confirmations, Statuses
<1>8. /\ row' = IF outcome = "saved" THEN Over(row, One(m, Entry("first", FALSE, status))) ELSE row
      /\ joining.step = "no" /\ toServer' = Tail(toServer)
      /\ toPhone' = toPhone \o (IF outcome = "rejected" THEN <<ack>> ELSE <<receipt, ack>>)
  BY <1>4, <1>5 DEF Take
<1>9. row \in Lists /\ toPhone \in Seq(Frames)
  BY DEF TimelineTypeOK, ServerOK, WireOK
<1>10. toPhone' = IF outcome = "rejected" THEN Append(toPhone, ack) ELSE Append(Append(toPhone, receipt), ack)
  BY <1>6, <1>8, <1>9
<1>11. toPhone' \in Seq(Frames)
  BY <1>6, <1>9, <1>10
<1>12. PICK e : e = Entry("first", FALSE, status)
  OBVIOUS
<1>13. /\ Over(row, One(m, e)) \in Lists /\ DOMAIN Over(row, One(m, e)) = DOMAIN row \union {m}
       /\ \A x \in DOMAIN row : Over(row, One(m, e))[x] = row[x]
       /\ m \notin DOMAIN row => Over(row, One(m, e))[m] = e
  <2>1. e \in Entries
    BY <1>7, <1>12, EntryIs
  <2> QED BY <1>4, <1>9, <2>1, AddIs
<1>14. /\ row' \in Lists
       /\ outcome # "saved" => row' = row
       /\ outcome = "saved" =>
             /\ DOMAIN row' = DOMAIN row \union {m}
             /\ \A x \in DOMAIN row : row'[x] = row[x]
             /\ m \notin DOMAIN row => row'[m] = Entry("first", FALSE, status)
  BY <1>8, <1>9, <1>12, <1>13
<1> QED BY <1>1, <1>2, <1>3, <1>5, <1>6, <1>8, <1>10, <1>11, <1>14

LEMMA TakeType ==
  ASSUME TimelineTypeOK, NEW outcome \in Outcomes, NEW status \in Confirmations, Take(outcome, status)
  PROVE TimelineTypeOK'
<1>1. /\ toServer' \in Seq(Outgoing) /\ toPhone' \in Seq(Frames) /\ row' \in Lists
      /\ DOMAIN row \subseteq DOMAIN row'
  BY TakeIs
<1>2. excuse' \in Excuses
  BY NothingNew, ExcuseKeeps DEF Take, NoExcuse, TimelineTypeOK
<1>3. timelineLeft' \in [TimelineEvents -> Nat]
  <2>1. "fault" \in TimelineEvents
    BY DEF TimelineEvents
  <2> QED BY <2>1, SpendType DEF Take, TimelineTypeOK, AskedOK
<1> QED BY <1>1, <1>2, <1>3 DEF Take, TimelineTypeOK, ServerOK, WireOK, ListsOK, AskedOK, phone

LEMMA FinishType ==
  ASSUME TimelineTypeOK, Asked, NEW answer \in {"done", "failed"}, Finish(answer)
  PROVE /\ request' \in Requests /\ request.id \in Messages /\ request.kind \in {"hide", "erase", "edit"}
        /\ request.kind = "edit" => request' = NoRequest
        /\ request.kind # "edit" => request' = [request EXCEPT !.step = answer]
        /\ request.kind # "edit" =>
              /\ request'.kind = request.kind /\ request'.id = request.id
              /\ request'.before = request.before /\ request'.step = answer
<1>1. request \in Deletions /\ request.id \in Messages /\ request.kind \in {"hide", "erase", "edit"}
  BY RequestKinds DEF Asked, TimelineTypeOK, AskedOK
<1>2. CASE request.kind = "edit"
  BY <1>1, <1>2 DEF Finish, Requests
<1>3. CASE request.kind # "edit"
  <2>1. request' = [request EXCEPT !.step = answer]
    BY <1>3 DEF Finish
  <2>2. /\ request' \in Deletions
        /\ request'.kind = request.kind /\ request'.id = request.id
        /\ request'.before = request.before /\ request'.step = answer
    BY <1>1, <2>1 DEF Deletions
  <2> QED BY <1>1, <1>3, <2>1, <2>2 DEF Requests
<1> QED BY <1>2, <1>3

LEMMA ServeType ==
  ASSUME TimelineTypeOK, (\E answer \in {"done", "failed"} : Serve(answer)) \/ Refuse
  PROVE TimelineTypeOK'
<1>f. "fault" \in TimelineEvents
  BY DEF TimelineEvents
<1>1. ASSUME NEW answer \in {"done", "failed"}, Serve(answer) PROVE TimelineTypeOK'
  <2>1. request' \in Requests /\ request.id \in DOMAIN row /\ request.kind \in {"hide", "erase", "edit"}
    BY <1>1, FinishType DEF Serve, Grantable
  <2>2. timelineLeft' \in [TimelineEvents -> Nat]
    BY <1>1, <1>f, SpendType DEF Serve, TimelineTypeOK, AskedOK
  <2>3. CASE request.kind = "hide"
    BY <1>1, <2>1, <2>2, <2>3 DEF Serve, TimelineTypeOK, ServerOK, WireOK, ListsOK, AskedOK, phone
  <2>4. CASE request.kind # "hide"
    <3>1. /\ ListsOK' /\ excuse' \in Excuses /\ row' \in Lists /\ DOMAIN row' = DOMAIN row
          /\ toPhone' \in Seq(Frames)
      BY <1>1, <2>1, <2>4, ChangeRowType DEF Serve
    <3> QED BY <1>1, <2>1, <2>2, <2>4, <3>1 DEF Serve, TimelineTypeOK, ServerOK, WireOK, AskedOK
  <2> QED BY <2>3, <2>4
<1>2. ASSUME Refuse PROVE TimelineTypeOK'
  <2>1. request' \in Requests
    BY <1>2, FinishType DEF Refuse
  <2>2. timelineLeft' \in [TimelineEvents -> Nat]
    BY <1>2, <1>f, SpendType DEF Refuse, TimelineTypeOK, AskedOK
  <2> QED BY <1>2, <2>1, <2>2 DEF Refuse, TimelineTypeOK, ServerOK, WireOK, ListsOK, AskedOK, phone, network, server
<1> QED BY <1>1, <1>2

LEMMA PeerSavedIs ==
  ASSUME TimelineTypeOK, NEW m \in Theirs, PeerSaved(m)
  PROVE /\ row' \in Lists /\ DOMAIN row' = DOMAIN row \union {m} /\ m \in saving
        /\ \A x \in DOMAIN row : row'[x] = row[x]
        /\ m \notin DOMAIN row => row'[m] = Entry("first", FALSE, "delivered")
<1>1. PICK e : e = Entry("first", FALSE, "delivered")
  OBVIOUS
<1>2. row' = Over(row, One(m, e)) /\ m \in saving
  BY <1>1 DEF PeerSaved
<1>3. m \in Messages /\ row \in Lists /\ e \in Entries
  BY <1>1, Members, EntryIs DEF Statuses, TimelineTypeOK, ServerOK
<1>4. /\ Over(row, One(m, e)) \in Lists /\ DOMAIN Over(row, One(m, e)) = DOMAIN row \union {m}
      /\ \A x \in DOMAIN row : Over(row, One(m, e))[x] = row[x]
      /\ m \notin DOMAIN row => Over(row, One(m, e))[m] = e
  BY <1>3, AddIs
<1> QED BY <1>1, <1>2, <1>4

LEMMA ReceiptRows ==
  ASSUME TimelineTypeOK, NEW S, NEW status \in {"delivered", "read"}, PeerReceipt(S, status)
  PROVE LET marked == {m \in S \intersect DOMAIN row : Stored(m) < Rank(status)}
        IN /\ S \subseteq Mine /\ row' \in Lists /\ DOMAIN row' = DOMAIN row
           /\ \A m \in DOMAIN row :
                /\ row'[m].text = row[m].text /\ row'[m].erased = row[m].erased
                /\ row'[m].status = IF m \in marked THEN status ELSE row[m].status
           /\ [kind |-> "receipt", req |-> {}, status |-> status] \in Receipts
           /\ [kind |-> "receipt", req |-> {}, status |-> status] \in Frames
           /\ toPhone' = IF inRoom THEN Append(toPhone, [kind |-> "receipt", req |-> {}, status |-> status]) ELSE toPhone
           /\ toPhone' \in Seq(Frames)
           /\ Excuse([status |-> IF inRoom THEN {} ELSE marked])
<1>1. PICK marked : marked = {m \in S \intersect DOMAIN row : Stored(m) < Rank(status)}
  OBVIOUS
<1>2. /\ S \subseteq Mine
      /\ row' = [m \in DOMAIN row |-> IF m \in marked THEN [row[m] EXCEPT !.status = status] ELSE row[m]]
      /\ Excuse([status |-> IF inRoom THEN {} ELSE marked])
      /\ toPhone' = IF inRoom THEN Append(toPhone, [kind |-> "receipt", req |-> {}, status |-> status]) ELSE toPhone
  BY <1>1 DEF PeerReceipt, Reaches
<1>3. row \in Lists /\ status \in Statuses /\ toPhone \in Seq(Frames)
  BY DEF TimelineTypeOK, ServerOK, WireOK, Statuses
<1>4. \A m \in DOMAIN row :
        /\ row[m] \in Entries /\ [row[m] EXCEPT !.status = status] \in Entries
        /\ [row[m] EXCEPT !.status = status].text = row[m].text
        /\ [row[m] EXCEPT !.status = status].erased = row[m].erased
        /\ [row[m] EXCEPT !.status = status].status = status
  BY <1>3, ListIs, StatusSet
<1>5. row' \in [DOMAIN row -> Entries] /\ DOMAIN row \in SUBSET Messages /\ DOMAIN row' = DOMAIN row
  BY <1>2, <1>3, <1>4, ListIs
<1>6. row' \in Lists
  BY <1>5, IsList
<1>7. \A m \in DOMAIN row :
        /\ row'[m].text = row[m].text /\ row'[m].erased = row[m].erased
        /\ row'[m].status = IF m \in marked THEN status ELSE row[m].status
  BY <1>2, <1>4
<1>8. PICK receipt : receipt = [kind |-> "receipt", req |-> {}, status |-> status]
  OBVIOUS
<1>9. receipt \in Receipts /\ receipt \in Frames
  BY <1>8 DEF Receipts, Frames
<1>10. toPhone' \in Seq(Frames)
  BY <1>2, <1>3, <1>8, <1>9
<1> QED BY <1>1, <1>2, <1>5, <1>6, <1>7, <1>8, <1>9, <1>10

LEMMA PeerType ==
  ASSUME TimelineTypeOK, Peer
  PROVE TimelineTypeOK'
<1>e. {"peer", "change", "receipt"} \subseteq TimelineEvents
  BY DEF TimelineEvents
<1>1. ASSUME NEW m \in Theirs, PeerSends(m) PROVE TimelineTypeOK'
  <2>1. order' = Append(order, m) /\ order \in Seq(Messages) /\ m \in Messages
    BY <1>1, Members DEF PeerSends, TimelineTypeOK, ServerOK
  <2>2. order' \in Seq(Messages)
    BY <2>1
  <2>3. [kind |-> "message", id |-> m] \in Frames
    BY DEF Frames
  <2>4. toPhone' \in Seq(Frames)
    BY <1>1, <2>3 DEF PeerSends, Reaches, TimelineTypeOK, WireOK
  <2>5. timelineLeft' \in [TimelineEvents -> Nat]
    BY <1>1, <1>e, SpendType DEF PeerSends, TimelineTypeOK
  <2> QED BY <1>1, <2>2, <2>4, <2>5 DEF PeerSends, TimelineTypeOK, ServerOK, WireOK, ListsOK, AskedOK, phone
<1>2. ASSUME NEW m \in Theirs, PeerSaved(m) PROVE TimelineTypeOK'
  BY <1>2, PeerSavedIs DEF PeerSaved, TimelineTypeOK, ServerOK, WireOK, ListsOK, AskedOK, phone, network
<1>3. ASSUME NEW m \in Theirs, NEW kind \in {"erase", "edit"}, PeerChanges(m, kind) PROVE TimelineTypeOK'
  <2>1. /\ ListsOK' /\ excuse' \in Excuses /\ row' \in Lists /\ DOMAIN row' = DOMAIN row
        /\ toPhone' \in Seq(Frames)
    BY <1>3, ChangeRowType DEF PeerChanges
  <2>2. timelineLeft' \in [TimelineEvents -> Nat]
    BY <1>3, <1>e, SpendType DEF PeerChanges, TimelineTypeOK
  <2> QED BY <1>3, <2>1, <2>2 DEF PeerChanges, TimelineTypeOK, ServerOK, WireOK, AskedOK
<1>4. ASSUME NEW S, NEW status \in {"delivered", "read"}, PeerReceipt(S, status) PROVE TimelineTypeOK'
  <2>1. PICK marked : marked = {m \in S \intersect DOMAIN row : Stored(m) < Rank(status)}
    OBVIOUS
  <2>2. PICK new : new = [status |-> IF inRoom THEN {} ELSE marked]
    OBVIOUS
  <2>3. row' \in Lists /\ DOMAIN row' = DOMAIN row /\ toPhone' \in Seq(Frames) /\ Excuse(new)
    BY <1>4, <2>1, <2>2, ReceiptRows
  <2>4. \A c \in Causes : Named(new, c) \subseteq Messages
    <3>1. marked \subseteq Messages
      BY <2>1, ListIs DEF TimelineTypeOK, ServerOK
    <3> QED BY <2>2, <3>1 DEF Named
  <2>5. excuse' \in Excuses
    BY <2>3, <2>4, ExcuseKeeps DEF TimelineTypeOK
  <2>6. timelineLeft' \in [TimelineEvents -> Nat]
    BY <1>4, <1>e, SpendType DEF PeerReceipt, TimelineTypeOK
  <2> QED BY <1>4, <2>3, <2>5, <2>6 DEF PeerReceipt, TimelineTypeOK, ServerOK, WireOK, ListsOK, AskedOK, phone
<1> QED BY <1>1, <1>2, <1>3, <1>4 DEF Peer
LEMMA CutType ==
  ASSUME TimelineTypeOK, Cut
  PROVE ServerOK' /\ open' \in BOOLEAN /\ toServer' \in Seq(Outgoing) /\ toPhone' \in Seq(Frames)
<1>1. joining' \in Joinings
  BY DEF Cut, Joinings
<1>2. toPhone' = <<>> /\ toServer' = <<>> /\ <<>> \in Seq(Frames)
  BY DEF Cut
<1> QED BY <1>1, <1>2, Outgoings DEF Cut, TimelineTypeOK, ServerOK

LEMMA BreakType ==
  ASSUME TimelineTypeOK, Break
  PROVE TimelineTypeOK'
<1>1. PICK new : new = [text |-> Unheard({"edit", "erase"}), erased |-> Unheard({"erase"}), status |-> UnheardReceipts]
  OBVIOUS
<1>2. \A c \in Causes : Named(new, c) \subseteq Messages
  BY <1>1, Members DEF Named, Unheard, UnheardReceipts
<1>3. Excuse(new)
  BY <1>1 DEF Break
<1>4. excuse' \in Excuses
  BY <1>2, <1>3, ExcuseKeeps DEF TimelineTypeOK
<1>5. timelineLeft' \in [TimelineEvents -> Nat]
  <2>1. "break" \in TimelineEvents
    BY DEF TimelineEvents
  <2> QED BY <2>1, SpendType DEF Break, TimelineTypeOK
<1>6. ServerOK' /\ open' \in BOOLEAN /\ toServer' \in Seq(Outgoing) /\ toPhone' \in Seq(Frames)
  BY CutType DEF Break
<1> QED BY <1>4, <1>5, <1>6 DEF Break, TimelineTypeOK, WireOK, ListsOK, AskedOK, phone

(* What the restarted app takes the place of, by cause.                    *)
Behind == {m \in DOMAIN disk : m \in DOMAIN shown => disk[m] # shown[m]}
WaitingEdits == {f.id : f \in {g \in held : g.kind = "edit"}}
AskedErasure == IF request.kind = "erase" THEN {request.id} ELSE {}
Restarted == [text |-> Behind \union WaitingEdits \union AskedErasure \union Unheard({"edit", "erase"}),
              erased |-> Behind \union AskedErasure \union Unheard({"erase"}),
              status |-> Behind \union UnheardReceipts, back |-> DOMAIN disk \intersect hidden]

LEMMA StartAgainIs ==
  ASSUME StartAgain
  PROVE /\ Cut /\ SpendOne("restart") /\ shown' = disk /\ disk' = disk /\ queue' = Empty /\ held' = {}
        /\ request' = NoRequest /\ keyed' = ~Encrypted /\ Excuse(Restarted)
<1>1. Excuse(Restarted)
  BY DEF StartAgain, Restarted, Behind, WaitingEdits, AskedErasure
<1> QED BY <1>1 DEF StartAgain

LEMMA StartAgainType ==
  ASSUME TimelineTypeOK, StartAgain
  PROVE TimelineTypeOK'
<1>1. PICK new : new = Restarted
  OBVIOUS
<1>2. \A c \in Causes : Named(new, c) \subseteq Messages
  <2>1. Behind \subseteq Messages /\ DOMAIN disk \intersect hidden \subseteq Messages
    BY ListIs DEF Behind, TimelineTypeOK, ListsOK
  <2>2. WaitingEdits \subseteq Messages
    BY FrameKinds DEF WaitingEdits, TimelineTypeOK, WireOK
  <2>3. AskedErasure \subseteq Messages
    BY RequestKinds DEF AskedErasure, TimelineTypeOK, AskedOK
  <2>4. Unheard({"edit", "erase"}) \subseteq Messages /\ Unheard({"erase"}) \subseteq Messages
        /\ UnheardReceipts \subseteq Messages
    BY Members DEF Unheard, UnheardReceipts
  <2> QED BY <1>1, <2>1, <2>2, <2>3, <2>4 DEF Named, Restarted
<1>3. excuse' \in Excuses
  BY <1>1, <1>2, StartAgainIs, ExcuseKeeps DEF TimelineTypeOK
<1>4. timelineLeft' \in [TimelineEvents -> Nat]
  <2>1. "restart" \in TimelineEvents
    BY DEF TimelineEvents
  <2> QED BY <2>1, StartAgainIs, SpendType DEF TimelineTypeOK
<1>5. ServerOK' /\ open' \in BOOLEAN /\ toServer' \in Seq(Outgoing) /\ toPhone' \in Seq(Frames)
  BY CutType, StartAgainIs
<1>6. keyed' \in BOOLEAN /\ NoRequest \in Requests
  BY StartAgainIs DEF Requests
<1> QED BY <1>3, <1>4, <1>5, <1>6, StartAgainIs, EmptyList DEF TimelineTypeOK, WireOK, ListsOK, AskedOK

LEMMA FlushIs ==
  ASSUME ListsOK, Flush
  PROVE /\ ListsOK' /\ shown' = shown /\ DOMAIN queue' = {}
        /\ DOMAIN disk' = DOMAIN queue \union DOMAIN disk
<1>1. disk' = Over(queue, disk) /\ queue' = Empty /\ shown' = shown
  BY DEF Flush
<1>2. Over(queue, disk) \in Lists /\ DOMAIN Over(queue, disk) = DOMAIN queue \union DOMAIN disk
  BY OverIs, OverList DEF ListsOK
<1> QED BY <1>1, <1>2, EmptyList DEF ListsOK

LEMMA LinkType ==
  ASSUME TimelineTypeOK, Flush \/ SocketOpens
  PROVE TimelineTypeOK'
<1>1. CASE Flush
  BY <1>1, FlushIs DEF Flush, TimelineTypeOK, ServerOK, WireOK, AskedOK, server, network
<1>2. CASE SocketOpens
  BY <1>2, Outgoings DEF SocketOpens, TimelineTypeOK, ServerOK, WireOK, ListsOK, AskedOK, server, phone
<1> QED BY <1>1, <1>2

LEMMA HistoryIs ==
  ASSUME TimelineTypeOK, NEW frame \in Histories, OnHistory(frame)
  PROVE LET dropped == {m \in DOMAIN shown \ DOMAIN shown' : shown[m].status # "sending"}
            rows == DOMAIN frame.rows
        IN /\ frame.rows \in Lists /\ Reconcile(frame.rows)
           /\ Excuse([lost |-> IF rows = {} THEN dropped ELSE dropped \ frame.saved,
                      text |-> rows \ DOMAIN shown,
                      erased |-> {m \in rows : ~frame.rows[m].erased},
                      status |-> rows, back |-> rows \intersect hidden])
  BY DEF OnHistory, Histories

LEMMA ListensType ==
  ASSUME TimelineTypeOK, Listens
  PROVE TimelineTypeOK'
<1>1. CASE Waits
  <2>1. toPhone \in Seq(Frames) /\ toPhone # <<>>
    BY <1>1 DEF Waits, TimelineTypeOK, WireOK
  <2>2. Head(toPhone) \in Frames /\ Tail(toPhone) \in Seq(Frames)
    BY <2>1
  <2> QED BY <1>1, <2>2 DEF Waits, TimelineTypeOK, ServerOK, WireOK, ListsOK, AskedOK, server, phone
<1>2. ASSUME NEW frame \in Frames, Runs(frame), Handle(frame) PROVE TimelineTypeOK'
  <2>1. WireOK'
    <3>1. toPhone' \in Seq(Frames)
      BY <1>2 DEF Runs, TimelineTypeOK, WireOK
    <3> QED BY <1>2, <3>1 DEF Runs, TimelineTypeOK, WireOK
  <2>2. ServerOK' /\ request' = request /\ timelineLeft' = timelineLeft
    BY <1>2, Handles DEF Runs, TimelineTypeOK, ServerOK, server
  <2>3. ListsOK' /\ excuse' \in Excuses
    <3>m. Late(frame.id) \subseteq {frame.id}
      BY DEF Late
    <3>l. DOMAIN shown \subseteq Messages
      BY ListIs DEF TimelineTypeOK, ListsOK
    <3>1. CASE frame.kind = "history" /\ OnHistory(frame)
      <4>1. PICK dropped, rows : /\ dropped = {m \in DOMAIN shown \ DOMAIN shown' : shown[m].status # "sending"}
                                 /\ rows = DOMAIN frame.rows
        OBVIOUS
      <4>2. PICK new : new = [lost |-> IF rows = {} THEN dropped ELSE dropped \ frame.saved,
                              text |-> rows \ DOMAIN shown,
                              erased |-> {m \in rows : ~frame.rows[m].erased},
                              status |-> rows, back |-> rows \intersect hidden]
        OBVIOUS
      <4>3. frame \in Histories /\ frame.rows \in Lists
        BY <3>1, FrameKinds
      <4>4. Reconcile(frame.rows) /\ Excuse(new)
        BY <3>1, <4>1, <4>2, <4>3, HistoryIs
      <4>5. ListsOK'
        BY <4>3, <4>4, ReconcileIs DEF TimelineTypeOK, ListsOK
      <4>6. \A c \in Causes : Named(new, c) \subseteq Messages
        <5>1. rows \subseteq Messages /\ dropped \subseteq Messages
          BY <3>l, <4>1, <4>3, ListIs
        <5> QED BY <4>2, <5>1 DEF Named
      <4> QED BY <4>4, <4>5, <4>6, ExcuseKeeps DEF TimelineTypeOK
    <3>2. CASE frame.kind = "message" /\ OnMessage(frame)
      <4>1. PICK new : new = [text |-> Late(frame.id), erased |-> Late(frame.id), back |-> {frame.id} \intersect hidden]
        OBVIOUS
      <4>2. frame.id \in Messages
        BY <3>2, FrameKinds, Members
      <4>3. AppendMessage(frame.id) /\ Excuse(new)
        BY <3>2, <4>1 DEF OnMessage
      <4>4. \A c \in Causes : Named(new, c) \subseteq Messages
        BY <3>m, <4>1, <4>2 DEF Named
      <4> QED BY <4>2, <4>3, <4>4, AppendMessageIs, ExcuseKeeps DEF TimelineTypeOK, ListsOK
    <3>3. CASE frame.kind = "edit" /\ OnEdited(frame)
      <4>1. PICK new : new = [text |-> Late(frame.id) \union ({frame.id} \ DOMAIN shown)]
        OBVIOUS
      <4>2. frame.id \in Messages /\ Excuse(new)
        BY <3>3, <4>1, FrameKinds DEF OnEdited
      <4>3. \A c \in Causes : Named(new, c) \subseteq Messages
        BY <3>m, <4>1, <4>2 DEF Named
      <4> QED BY <3>3, <4>2, <4>3, EditedIs, ExcuseKeeps DEF TimelineTypeOK
    <3>4. CASE frame.kind = "erase" /\ OnDeleted(frame)
      <4>1. PICK new : new = [text |-> {frame.id} \ DOMAIN shown, erased |-> {frame.id} \ DOMAIN shown]
        OBVIOUS
      <4>2. frame.id \in Messages /\ Excuse(new)
        BY <3>4, <4>1, FrameKinds DEF OnDeleted
      <4>3. \A c \in Causes : Named(new, c) \subseteq Messages
        BY <4>1, <4>2 DEF Named
      <4> QED BY <3>4, <4>2, <4>3, DeletedIs, ExcuseKeeps DEF TimelineTypeOK, OnDeleted
    <3>5. CASE frame.kind = "receipt" /\ OnReceipt(frame)
      <4>1. PICK new : new = [status |-> DOMAIN Receipted(frame) \ (frame.req \intersect DOMAIN row)]
        OBVIOUS
      <4>2. frame \in Receipts /\ Excuse(new)
        BY <3>5, <4>1, FrameKinds DEF OnReceipt
      <4>3. \A c \in Causes : Named(new, c) \subseteq Messages
        BY <3>l, <4>1 DEF Named, Receipted
      <4> QED BY <3>5, <4>2, <4>3, ReceiptIs, ExcuseKeeps DEF TimelineTypeOK
    <3>6. CASE frame.kind = "ack" /\ OnAck(frame)
      <4>1. PICK new : new = [status |-> {frame.id}]
        OBVIOUS
      <4>2. frame.id \in Messages /\ Excuse(new)
        BY <3>6, <4>1, FrameKinds, Members DEF OnAck
      <4>3. \A c \in Causes : Named(new, c) \subseteq Messages
        BY <4>1, <4>2 DEF Named
      <4> QED BY <3>6, <4>2, <4>3, AckedIs, ExcuseKeeps DEF TimelineTypeOK
    <3> QED BY <1>2, <3>1, <3>2, <3>3, <3>4, <3>5, <3>6, Handles
  <2> QED BY <2>1, <2>2, <2>3 DEF TimelineTypeOK, AskedOK
<1> QED BY <1>1, <1>2, Listening DEF TimelineTypeOK

(* A step is one of these, each with a lemma above.                        *)
Actions ==
  \/ \E m \in Mine : Send(m) \/ SendAudio(m)
  \/ \E fails \in BOOLEAN : AudioUploaded(fails)
  \/ \E m \in Messages, kind \in {"hide", "erase", "edit"} : Ask(m, kind)
  \/ AskOlder \/ OlderArrives \/ DeleteAnswered \/ Listens \/ Flush \/ SocketOpens \/ Break \/ StartAgain
  \/ Join \/ SendHistory \/ \E fails \in BOOLEAN : ReadHistory(fails)
  \/ \E outcome \in Outcomes, status \in Confirmations : Take(outcome, status)
  \/ \E answer \in {"done", "failed"} : Serve(answer)
  \/ Refuse \/ Peer

LEMMA StepIsAction == TimelineNext => Actions
  BY DEF TimelineNext, Phone, Server, Actions, Listens, Outcomes, Confirmations

LEMMA TypeStep ==
  ASSUME TimelineTypeOK, TimelineNext
  PROVE TimelineTypeOK'
  BY StepIsAction, WriteType, UploadedType, AskType, AskOlderType, OlderType, AnsweredType, ListensType,
     LinkType, BreakType, StartAgainType, JoinType, TakeType, ServeType, PeerType DEF Actions
--------------------------------------------------------------------------------
(* The order of the messages, the rows, the connection and the requests.   *)

LEMMA TailIs ==
  ASSUME NEW S, NEW s \in Seq(S), s # <<>>
  PROVE /\ Tail(s) \in Seq(S) /\ Head(s) \in S /\ Head(s) = s[1] /\ 1 \in DOMAIN s
        /\ \A i \in DOMAIN Tail(s) : i + 1 \in DOMAIN s /\ Tail(s)[i] = s[i + 1]
        /\ \A j \in DOMAIN s : j = 1 \/ (j - 1 \in DOMAIN Tail(s) /\ Tail(s)[j - 1] = s[j])
        /\ DOMAIN s \subseteq Nat \ {0} /\ DOMAIN Tail(s) \subseteq Nat \ {0}
        /\ Range(s) = {Head(s)} \union Range(Tail(s))
<1>1. /\ Tail(s) \in Seq(S) /\ Len(Tail(s)) = Len(s) - 1 /\ Head(s) = s[1] /\ Len(s) \in Nat /\ Len(s) > 0
      /\ \A i \in 1..Len(s) - 1 : Tail(s)[i] = s[i + 1]
      /\ DOMAIN Tail(s) = 1..Len(s) - 1 /\ DOMAIN s = 1..Len(s) /\ s[1] \in S
  OBVIOUS
<1>2. \A i \in 1..Len(s) - 1 : i + 1 \in 1..Len(s)
  BY <1>1
<1>3. \A j \in 1..Len(s) : j = 1 \/ (j - 1 \in 1..Len(s) - 1 /\ (j - 1) + 1 = j)
  BY <1>1
<1>4. \A j \in DOMAIN s : j = 1 \/ (j - 1 \in DOMAIN Tail(s) /\ Tail(s)[j - 1] = s[j])
  BY <1>1, <1>3
<1>5. 1 \in DOMAIN s
  BY <1>1
<1>6. Range(s) = {s[1]} \union Range(Tail(s))
  <2>1. PICK t : t = Tail(s)
    OBVIOUS
  <2>2. \A x : x \in Range(t) <=> \E i \in DOMAIN t : x = t[i]
    BY DEF Range
  <2>3. \A x : x \in Range(s) <=> \E i \in DOMAIN s : x = s[i]
    BY DEF Range
  <2>4. \A x \in Range(t) : x \in Range(s)
    BY <1>1, <1>2, <2>1, <2>2, <2>3
  <2>5. \A x \in Range(s) : x = s[1] \/ x \in Range(t)
    BY <1>4, <2>1, <2>2, <2>3
  <2>6. s[1] \in Range(s)
    BY <1>5, <2>3
  <2> QED BY <2>1, <2>4, <2>5, <2>6
<1> QED BY <1>1, <1>2, <1>4, <1>5, <1>6

LEMMA AppendIs ==
  ASSUME NEW S, NEW s \in Seq(S), NEW x \in S
  PROVE /\ Append(s, x) \in Seq(S) /\ Append(s, x) # <<>>
        /\ Len(s) + 1 \in DOMAIN Append(s, x) /\ Append(s, x)[Len(s) + 1] = x
        /\ DOMAIN Append(s, x) = DOMAIN s \union {Len(s) + 1}
        /\ \A i \in DOMAIN s : Append(s, x)[i] = s[i] /\ i < Len(s) + 1 /\ i \in Nat \ {0}
        /\ Range(Append(s, x)) = Range(s) \union {x}
        /\ s # <<>> => Head(Append(s, x)) = Head(s)
        /\ Len(s) \in Nat
<1>1. /\ Append(s, x) \in Seq(S) /\ DOMAIN Append(s, x) = 1..Len(s) + 1 /\ Len(s) \in Nat
      /\ Append(s, x)[Len(s) + 1] = x /\ \A i \in 1..Len(s) : Append(s, x)[i] = s[i]
      /\ DOMAIN s = 1..Len(s)
  OBVIOUS
<1>4. Append(s, x) # <<>>
  BY <1>1
<1>5. s # <<>> => Head(Append(s, x)) = Head(s)
  <2>1. s # <<>> => 1 \in 1..Len(s)
    OBVIOUS
  <2> QED BY <1>1, <2>1
<1>2. DOMAIN Append(s, x) = DOMAIN s \union {Len(s) + 1}
  BY <1>1
<1>3. Range(Append(s, x)) = Range(s) \union {x}
  <2>1. PICK t : t = Append(s, x)
    OBVIOUS
  <2> QED BY <1>1, <1>2, <2>1 DEF Range
<1> QED BY <1>1, <1>2, <1>3, <1>4, <1>5

Known == Range(order)
OrderOK == IsInjective(order) /\ DOMAIN row \subseteq Known /\ saving \subseteq Known
RowOK == \A m \in DOMAIN row : /\ row[m].erased <=> row[m].text = "gone"
                               /\ row[m].status \in {"sent", "delivered", "read"}

(* A connection that is not in the room has just been opened, or is broken. *)
Connected ==
  ~inRoom => /\ toPhone = <<>> /\ joining.step = "no"
             /\ IF open THEN toServer # <<>> /\ Head(toServer).kind = "join" ELSE toServer = <<>>

(* Each of the user's messages is handed to the socket once.               *)
OnWire == {m \in Mine : [kind |-> "message", id |-> m] \in Range(toServer)}
Recording == IF request.kind = "audio" THEN {request.id} ELSE {}
Unsent == OnWire \union Recording
SentOnce ==
  /\ Unsent \subseteq Known \ DOMAIN row /\ OnWire \intersect Recording = {}
  /\ \A i, j \in DOMAIN toServer : toServer[i] = toServer[j] /\ toServer[i].kind = "message" => i = j
  /\ \A i \in DOMAIN toPhone : toPhone[i].kind = "receipt" => toPhone[i].req \subseteq Known \ Unsent

(* What a deletion under way remembers, and what its answer says.          *)
RequestOK ==
  /\ request.kind \in {"hide", "erase"} => request.id \in DOMAIN request.before
  /\ request.kind = "hide" /\ request.step = "done" => request.id \in hidden
  /\ request.kind = "erase" /\ request.step = "done" => request.id \in DOMAIN row /\ row[request.id].erased

Basics == TimelineTypeOK /\ OrderOK /\ RowOK /\ Connected /\ SentOnce /\ RequestOK

(* Which steps change what.                                                *)
LEMMA Changes ==
  ASSUME TimelineTypeOK, TimelineNext
  PROVE \/ row' = row /\ toPhone' = toPhone
        \/ row' = row /\ Listens /\ toPhone # <<>> /\ toPhone' = Tail(toPhone)
        \/ row' = row /\ Cut
        \/ row' = row /\ joining.step = "read" /\ SendHistory
        \/ \E outcome \in Outcomes, status \in Confirmations : Take(outcome, status)
        \/ \E m \in Messages, kind \in {"erase", "edit"} : ChangeRow(m, kind)
        \/ \E m \in Theirs : PeerSends(m) \/ PeerSaved(m)
        \/ \E S \in SUBSET Mine, status \in {"delivered", "read"} : PeerReceipt(S, status)
<1>1. ASSUME Listens PROVE row' = row /\ (toPhone' = toPhone \/ (toPhone # <<>> /\ toPhone' = Tail(toPhone)))
  BY <1>1, Listening, Handles DEF Waits, Runs, server, TimelineTypeOK
<1>2. ASSUME NEW answer, Serve(answer)
      PROVE \/ row' = row /\ toPhone' = toPhone
            \/ \E m \in Messages, kind \in {"erase", "edit"} : ChangeRow(m, kind)
  <2>1. request.kind \in {"hide", "erase", "edit"} /\ request.id \in Messages
    BY <1>2, RequestKinds DEF Serve, Asked, TimelineTypeOK, AskedOK
  <2>2. CASE request.kind = "hide"
    BY <1>2, <2>2 DEF Serve
  <2>3. CASE request.kind # "hide"
    <3>1. ChangeRow(request.id, request.kind) /\ request.kind \in {"erase", "edit"}
      BY <1>2, <2>1, <2>3 DEF Serve
    <3> QED BY <2>1, <3>1
  <2> QED BY <2>2, <2>3
<1>3. ASSUME Peer
      PROVE \/ \E m \in Messages, kind \in {"erase", "edit"} : ChangeRow(m, kind)
            \/ \E m \in Theirs : PeerSends(m) \/ PeerSaved(m)
            \/ \E S \in SUBSET Mine, status \in {"delivered", "read"} : PeerReceipt(S, status)
  <2>1. \A m \in Theirs, kind \in {"erase", "edit"} : PeerChanges(m, kind) => ChangeRow(m, kind)
    BY DEF PeerChanges
  <2>2. \A m \in Mine : {m} \in SUBSET Mine
    OBVIOUS
  <2> QED BY <1>3, <2>1, <2>2, Members DEF Peer
<1>4. /\ \A m : Send(m) \/ SendAudio(m) => row' = row /\ toPhone' = toPhone
      /\ \A fails : AudioUploaded(fails) \/ ReadHistory(fails) => row' = row /\ toPhone' = toPhone
      /\ AskOlder \/ OlderArrives \/ DeleteAnswered \/ Flush \/ SocketOpens => row' = row /\ toPhone' = toPhone
      /\ Join \/ Refuse => row' = row /\ toPhone' = toPhone
  BY DEF Send, SendAudio, AudioUploaded, ReadHistory, AskOlder, OlderArrives, DeleteAnswered, Flush,
         SocketOpens, Join, Refuse, server, network
<1>5. \A m, kind : Ask(m, kind) => row' = row /\ toPhone' = toPhone
  BY DEF Ask, server, network
<1>6. Break \/ StartAgain => row' = row /\ Cut
  BY DEF Break, StartAgain, Cut
<1>7. SendHistory => row' = row /\ joining.step = "read"
  BY DEF SendHistory
<1> QED BY StepIsAction, <1>1, <1>2, <1>3, <1>4, <1>5, <1>6, <1>7 DEF Actions

LEMMA RowCauses ==
  ASSUME TimelineTypeOK, TimelineNext
  PROVE \/ row' = row
        \/ \E outcome \in Outcomes, status \in Confirmations : Take(outcome, status)
        \/ \E m \in Messages, kind \in {"erase", "edit"} : ChangeRow(m, kind)
        \/ \E m \in Theirs : PeerSaved(m)
        \/ \E S \in SUBSET Mine, status \in {"delivered", "read"} : PeerReceipt(S, status)
<1>1. \A m : PeerSends(m) => row' = row
  BY DEF PeerSends
<1> QED BY <1>1, Changes

LEMMA HiddenCauses ==
  ASSUME TimelineTypeOK, TimelineNext
  PROVE hidden' = hidden \/ \E answer \in {"done", "failed"} : /\ Serve(answer) /\ request.kind = "hide"
                                                               /\ hidden' = hidden \union {request.id}
<1>1. ASSUME Listens PROVE hidden' = hidden
  BY <1>1, Listening, Handles DEF Waits, server, TimelineTypeOK
<1>2. ASSUME Peer PROVE hidden' = hidden
  BY <1>2 DEF Peer, PeerSends, PeerSaved, PeerChanges, PeerReceipt
<1>3. /\ \A m : Send(m) \/ SendAudio(m) => hidden' = hidden
      /\ \A fails : AudioUploaded(fails) \/ ReadHistory(fails) => hidden' = hidden
      /\ \A m, kind : Ask(m, kind) => hidden' = hidden
      /\ AskOlder \/ OlderArrives \/ DeleteAnswered \/ Flush \/ SocketOpens => hidden' = hidden
      /\ Join \/ SendHistory \/ Refuse => hidden' = hidden
      /\ \A outcome, status : Take(outcome, status) => hidden' = hidden
  BY DEF Send, SendAudio, AudioUploaded, ReadHistory, Ask, AskOlder, OlderArrives, DeleteAnswered, Flush,
         SocketOpens, Join, SendHistory, Refuse, Take, server
<1>4. Break \/ StartAgain => hidden' = hidden
  BY DEF Break, StartAgain, Cut
<1>5. \A answer : Serve(answer) => hidden' = hidden \/ (request.kind = "hide" /\ hidden' = hidden \union {request.id})
  BY DEF Serve
<1> QED BY StepIsAction, <1>1, <1>2, <1>3, <1>4, <1>5 DEF Actions

(* Rows are only added, keep their erasure, and hidden only grows.         *)
LEMMA RowsStay ==
  ASSUME TimelineTypeOK, RowOK, TimelineNext
  PROVE /\ DOMAIN row \subseteq DOMAIN row' /\ hidden \subseteq hidden'
        /\ \A m \in DOMAIN row : row[m].erased => row'[m].erased
        /\ RowOK'
<1>1. hidden \subseteq hidden'
  BY HiddenCauses DEF TimelineTypeOK
<1>2. CASE row' = row
  BY <1>1, <1>2 DEF RowOK
<1>3. ASSUME NEW outcome \in Outcomes, NEW status \in Confirmations, Take(outcome, status)
      PROVE DOMAIN row \subseteq DOMAIN row' /\ (\A m \in DOMAIN row : row'[m] = row[m]) /\ RowOK'
  <2>1. PICK m \in Mine :
          /\ outcome # "saved" => row' = row
          /\ outcome = "saved" => /\ DOMAIN row' = DOMAIN row \union {m}
                                  /\ \A x \in DOMAIN row : row'[x] = row[x]
                                  /\ m \notin DOMAIN row => row'[m] = Entry("first", FALSE, status)
    BY <1>3, TakeIs
  <2>2. /\ Entry("first", FALSE, status).erased = FALSE /\ Entry("first", FALSE, status).text = "first"
        /\ Entry("first", FALSE, status).status = status /\ status \in {"sent", "delivered", "read"}
    BY EntryIs DEF Confirmations, Statuses
  <2> QED BY <2>1, <2>2 DEF RowOK
<1>4. ASSUME NEW m, NEW kind \in {"erase", "edit"}, ChangeRow(m, kind)
      PROVE DOMAIN row = DOMAIN row' /\ (\A x \in DOMAIN row : row[x].erased => row'[x].erased) /\ RowOK'
  <2>1. /\ m \in DOMAIN row /\ ~row[m].erased /\ DOMAIN row' = DOMAIN row
        /\ row'[m] = IF kind = "edit" THEN Reword(row[m]) ELSE Blank(row[m])
        /\ \A x \in DOMAIN row \ {m} : row'[x] = row[x]
    BY <1>4, ChangeRowIs DEF TimelineTypeOK, WireOK
  <2>2. /\ Reword(row[m]).text = "second" /\ Reword(row[m]).erased = row[m].erased
        /\ Reword(row[m]).status = row[m].status
        /\ Blank(row[m]).text = "gone" /\ Blank(row[m]).erased = TRUE /\ Blank(row[m]).status = row[m].status
    BY <2>1, ListIs, EntryFields DEF TimelineTypeOK, ServerOK
  <2> QED BY <2>1, <2>2 DEF RowOK
<1>5. ASSUME NEW m \in Theirs, PeerSaved(m)
      PROVE DOMAIN row \subseteq DOMAIN row' /\ (\A x \in DOMAIN row : row'[x] = row[x]) /\ RowOK'
  <2>1. /\ Entry("first", FALSE, "delivered").erased = FALSE /\ Entry("first", FALSE, "delivered").text = "first"
        /\ Entry("first", FALSE, "delivered").status = "delivered"
    BY EntryIs DEF Statuses
  <2>2. /\ DOMAIN row' = DOMAIN row \union {m} /\ \A x \in DOMAIN row : row'[x] = row[x]
        /\ m \notin DOMAIN row => row'[m] = Entry("first", FALSE, "delivered")
    BY <1>5, PeerSavedIs
  <2> QED BY <2>1, <2>2 DEF RowOK
<1>6. ASSUME NEW S, NEW status \in {"delivered", "read"}, PeerReceipt(S, status)
      PROVE DOMAIN row = DOMAIN row' /\ (\A x \in DOMAIN row : row'[x].erased = row[x].erased) /\ RowOK'
  BY <1>6, ReceiptRows DEF RowOK
<1> QED BY <1>1, <1>2, <1>3, <1>4, <1>5, <1>6, RowCauses DEF TimelineTypeOK
LEMMA Writers ==
  ASSUME TimelineTypeOK, TimelineNext
  PROVE \/ order' = order
        \/ \E m \in Mine : Send(m) \/ SendAudio(m)
        \/ \E m \in Theirs : PeerSends(m)
<1>1. ASSUME Listens PROVE order' = order
  BY <1>1, Listening, Handles DEF Waits, server, TimelineTypeOK
<1>2. ASSUME Peer PROVE order' = order \/ \E m \in Theirs : PeerSends(m)
  <2>1. /\ \A m : PeerSaved(m) => order' = order
        /\ \A m, kind : PeerChanges(m, kind) => order' = order
        /\ \A S, status : PeerReceipt(S, status) => order' = order
    BY DEF PeerSaved, PeerChanges, PeerReceipt
  <2> QED BY <1>2, <2>1 DEF Peer
<1>3. /\ \A fails : AudioUploaded(fails) \/ ReadHistory(fails) => order' = order
      /\ \A m, kind : Ask(m, kind) => order' = order
      /\ AskOlder \/ OlderArrives \/ DeleteAnswered \/ Flush \/ SocketOpens => order' = order
      /\ Join \/ SendHistory \/ Refuse => order' = order
      /\ \A outcome, status : Take(outcome, status) => order' = order
      /\ \A answer : Serve(answer) => order' = order
  BY DEF AudioUploaded, ReadHistory, Ask, AskOlder, OlderArrives, DeleteAnswered, Flush, SocketOpens, Join,
         SendHistory, Refuse, Take, Serve, server
<1>4. Break \/ StartAgain => order' = order
  BY DEF Break, StartAgain, Cut
<1> QED BY StepIsAction, <1>1, <1>2, <1>3, <1>4 DEF Actions

LEMMA OrderCauses ==
  ASSUME TimelineTypeOK, TimelineNext
  PROVE order' = order \/ \E m \in Messages \ Known : order' = Append(order, m)
<1>1. \A m \in Theirs : PeerSends(m) => m \in Messages \ Known /\ order' = Append(order, m)
  BY Members DEF PeerSends, Known
<1>2. \A m \in Mine : Send(m) \/ SendAudio(m) => m \in Messages \ Known /\ order' = Append(order, m)
  BY Members DEF Send, SendAudio, Known
<1> QED BY <1>1, <1>2, Writers

LEMMA OrderAppended ==
  ASSUME order \in Seq(Messages), IsInjective(order), NEW m \in Messages \ Known, order' = Append(order, m)
  PROVE /\ Known' = Known \union {m} /\ IsInjective(order)'
        /\ \A x, y : Before(x, y) => Before(x, y)'
        /\ \A x, y \in Known : Before(x, y)' => Before(x, y)
<1>1. PICK after : after = Append(order, m)
  OBVIOUS
<1>2. /\ DOMAIN after = DOMAIN order \union {Len(order) + 1} /\ after[Len(order) + 1] = m
      /\ \A i \in DOMAIN order : after[i] = order[i] /\ i < Len(order) + 1 /\ i \in Nat
      /\ Range(after) = Range(order) \union {m} /\ Len(order) \in Nat
  BY <1>1, AppendIs
<1>3. \A i \in DOMAIN order : order[i] # m
  BY DEF Known, Range
<1>4. IsInjective(after)
  BY <1>2, <1>3 DEF IsInjective
<1>5. ASSUME NEW x, NEW y, Before(x, y) PROVE Before(x, y)'
  <2>1. PICK i, j \in DOMAIN order : i < j /\ order[i] = x /\ order[j] = y
    BY <1>5 DEF Before
  <2>2. i \in DOMAIN after /\ j \in DOMAIN after /\ after[i] = x /\ after[j] = y
    BY <1>2, <2>1
  <2> QED BY <1>1, <2>1, <2>2 DEF Before
<1>6. ASSUME NEW x \in Known, NEW y \in Known, Before(x, y)' PROVE Before(x, y)
  <2>1. PICK i, j \in DOMAIN after : i < j /\ after[i] = x /\ after[j] = y
    BY <1>1, <1>6 DEF Before
  <2>2. i \in DOMAIN order /\ j \in DOMAIN order
    BY <1>2, <2>1
  <2> QED BY <1>2, <2>1, <2>2 DEF Before
<1> QED BY <1>1, <1>2, <1>4, <1>5, <1>6 DEF Known

LEMMA OrderStays ==
  ASSUME TimelineTypeOK, OrderOK, TimelineNext
  PROVE /\ Known \subseteq Known' /\ IsInjective(order)'
        /\ \A x, y : Before(x, y) => Before(x, y)'
        /\ \A x, y \in Known : Before(x, y)' => Before(x, y)
<1>1. CASE order' = order
  BY <1>1 DEF Known, Before, OrderOK
<1>2. CASE \E m \in Messages \ Known : order' = Append(order, m)
  BY <1>2, OrderAppended DEF TimelineTypeOK, ServerOK, OrderOK
<1> QED BY <1>1, <1>2, OrderCauses

LEMMA SavingCauses ==
  ASSUME TimelineTypeOK, TimelineNext
  PROVE saving' \subseteq saving \/ \E m \in Theirs : PeerSends(m)
<1>1. Listens => saving' = saving
  BY Listening, Handles DEF Waits, server, TimelineTypeOK
<1>2. /\ \A m : Send(m) \/ SendAudio(m) => saving' = saving
      /\ \A fails : AudioUploaded(fails) \/ ReadHistory(fails) => saving' = saving
      /\ \A m, kind : Ask(m, kind) => saving' = saving
      /\ AskOlder \/ OlderArrives \/ DeleteAnswered \/ Flush \/ SocketOpens => saving' = saving
      /\ Join \/ SendHistory \/ Refuse => saving' = saving
      /\ \A outcome, status : Take(outcome, status) => saving' = saving
      /\ \A answer : Serve(answer) => saving' = saving
  BY DEF Send, SendAudio, AudioUploaded, ReadHistory, Ask, AskOlder, OlderArrives, DeleteAnswered, Flush,
         SocketOpens, Join, SendHistory, Refuse, Take, Serve, server
<1>3. Break \/ StartAgain => saving' = saving
  BY DEF Break, StartAgain, Cut
<1>4. /\ \A m : PeerSaved(m) => saving' \subseteq saving
      /\ \A m, kind : PeerChanges(m, kind) => saving' = saving
      /\ \A S, status : PeerReceipt(S, status) => saving' = saving
  BY DEF PeerSaved, PeerChanges, PeerReceipt
<1> QED BY StepIsAction, <1>1, <1>2, <1>3, <1>4 DEF Actions, Peer

LEMMA OrderStep ==
  ASSUME Basics, TimelineNext
  PROVE OrderOK'
<1>1. Known \subseteq Known' /\ IsInjective(order)'
  BY OrderStays DEF Basics
<1>2. DOMAIN row' \subseteq Known'
  <2>1. CASE row' = row
    BY <1>1, <2>1 DEF Basics, OrderOK
  <2>2. ASSUME NEW outcome \in Outcomes, NEW status \in Confirmations, Take(outcome, status)
        PROVE DOMAIN row' \subseteq Known'
    <3>1. PICK m \in Mine :
            /\ toServer # <<>> /\ Head(toServer) = [kind |-> "message", id |-> m]
            /\ outcome # "saved" => row' = row
            /\ outcome = "saved" => DOMAIN row' = DOMAIN row \union {m}
      BY <2>2, TakeIs DEF Basics
    <3>2. m \in Unsent
      BY <3>1, TailIs DEF Basics, TimelineTypeOK, WireOK, Unsent, OnWire
    <3> QED BY <1>1, <3>1, <3>2 DEF Basics, SentOnce, OrderOK
  <2>3. \A m \in Messages, kind \in {"erase", "edit"} : ChangeRow(m, kind) => DOMAIN row' = DOMAIN row
    BY ChangeRowIs DEF Basics, TimelineTypeOK, WireOK
  <2>4. \A m \in Theirs : PeerSaved(m) => DOMAIN row' = DOMAIN row \union {m} /\ m \in saving
    BY PeerSavedIs DEF Basics
  <2>5. \A S \in SUBSET Mine, status \in {"delivered", "read"} : PeerReceipt(S, status) => DOMAIN row' = DOMAIN row
    BY ReceiptRows DEF Basics
  <2> QED BY <1>1, <2>1, <2>2, <2>3, <2>4, <2>5, RowCauses DEF Basics, OrderOK
<1>3. saving' \subseteq Known'
  <2>1. saving' \subseteq saving \/ \E m \in Theirs : PeerSends(m)
    BY SavingCauses DEF Basics
  <2>2. ASSUME NEW m \in Theirs, PeerSends(m) PROVE saving' = saving \union {m} /\ m \in Known'
    <3>1. order' = Append(order, m) /\ m \in Messages \ Known /\ saving' = saving \union {m}
      BY <2>2, Members DEF PeerSends, Known
    <3> QED BY <3>1, OrderAppended DEF Basics, TimelineTypeOK, ServerOK, OrderOK
  <2> QED BY <1>1, <2>1, <2>2 DEF Basics, OrderOK
<1> QED BY <1>1, <1>2, <1>3 DEF OrderOK
LEMMA TwoSenders == Mine \intersect Theirs = {}
<1> SUFFICES ASSUME NEW m \in Mine, m \in Theirs
             PROVE FALSE
  OBVIOUS
<1>1. Written \in Seq(Mine) /\ Coming \in Seq(Theirs) /\ IsInjective(Written \o Coming)
  BY TimelineAssumption DEF TimelineAssumption
<1>2. PICK i \in DOMAIN Written, j \in DOMAIN Coming : Written[i] = m /\ Coming[j] = m
  BY DEF Mine, Theirs, Range
<1>3. /\ Len(Written) \in Nat /\ Len(Coming) \in Nat /\ i \in 1..Len(Written) /\ j \in 1..Len(Coming)
  BY <1>1, <1>2
<1>4. /\ DOMAIN (Written \o Coming) = 1..Len(Written) + Len(Coming)
      /\ (Written \o Coming)[i] = m /\ (Written \o Coming)[Len(Written) + j] = m
  BY <1>1, <1>2, <1>3
<1>5. i # Len(Written) + j /\ i \in 1..Len(Written) + Len(Coming) /\ Len(Written) + j \in 1..Len(Written) + Len(Coming)
  BY <1>3
<1> QED BY <1>1, <1>4, <1>5 DEF IsInjective

(* How the two queues of the connection change.                            *)
LEMMA ServerWire ==
  ASSUME TimelineTypeOK, TimelineNext
  PROVE \/ toServer' = toServer /\ (request' = request \/ request'.kind # "audio")
        \/ /\ Join \/ \E outcome \in Outcomes, status \in Confirmations : Take(outcome, status)
           /\ toServer # <<>> /\ toServer' = Tail(toServer) /\ request' = request
        \/ /\ (SocketOpens /\ toServer' = Rejoin) \/ (Cut /\ toServer' = <<>>)
           /\ request' = request \/ request'.kind # "audio"
        \/ \E m \in Mine : Send(m) \/ SendAudio(m)
        \/ \E fails \in BOOLEAN : AudioUploaded(fails)
<1>n. NoRequest.kind # "audio"
  BY DEF NoRequest
<1>1. Listens => toServer' = toServer /\ request' = request
  BY Listening, Handles DEF Waits, Runs, TimelineTypeOK
<1>2. Peer => toServer' = toServer /\ request' = request
  BY DEF Peer, PeerSends, PeerSaved, PeerChanges, PeerReceipt, network
<1>3. /\ Flush \/ SendHistory => toServer' = toServer /\ request' = request
      /\ \A fails : ReadHistory(fails) => toServer' = toServer /\ request' = request
      /\ SocketOpens => toServer' = Rejoin /\ request' = request
      /\ Join => toServer # <<>> /\ toServer' = Tail(toServer) /\ request' = request
      /\ \A outcome, status : Take(outcome, status)
            => toServer # <<>> /\ toServer' = Tail(toServer) /\ request' = request
  BY DEF Flush, SendHistory, ReadHistory, SocketOpens, Join, Take, network
<1>8. \A m \in Messages, kind \in {"hide", "erase", "edit"} :
       Ask(m, kind) => toServer' = toServer /\ request'.kind # "audio"
  BY DEF Ask, network
<1>9. AskOlder => toServer' = toServer /\ request'.kind # "audio"
  BY DEF AskOlder, network
<1>a. OlderArrives \/ DeleteAnswered => toServer' = toServer /\ request' = NoRequest
  BY DEF OlderArrives, DeleteAnswered, network
<1>4. \A answer \in {"done", "failed"} : Serve(answer) => toServer' = toServer /\ request'.kind # "audio"
  BY <1>n, FinishType DEF Serve
<1>5. Refuse => toServer' = toServer /\ request'.kind # "audio"
  BY <1>n, FinishType DEF Refuse, network
<1>6. Break => Cut /\ toServer' = <<>> /\ request' = request
  BY DEF Break, Cut
<1>7. StartAgain => Cut /\ toServer' = <<>> /\ request' = NoRequest
  BY StartAgainIs DEF Cut
<1> QED BY StepIsAction, <1>n, <1>1, <1>2, <1>3, <1>4, <1>5, <1>6, <1>7, <1>8, <1>9, <1>a DEF Actions

(* A frame but a confirmation: what the connection is sent in the room.    *)
Tells(f) == f.kind = "receipt" => f.req = {}

LEMMA PhoneWire ==
  ASSUME TimelineTypeOK, TimelineNext
  PROVE \/ toPhone' = toPhone
        \/ Listens /\ toPhone # <<>> /\ toPhone' = Tail(toPhone)
        \/ Cut
        \/ \E outcome \in Outcomes, status \in Confirmations : Take(outcome, status)
        \/ joining.step = "read" /\ SendHistory
        \/ inRoom /\ \E f \in Frames : f.kind # "history" /\ Tells(f) /\ toPhone' = Append(toPhone, f)
<1>1. ASSUME NEW m \in Messages, NEW kind \in {"erase", "edit"}, ChangeRow(m, kind)
      PROVE \/ toPhone' = toPhone
            \/ inRoom /\ \E f \in Frames : f.kind # "history" /\ Tells(f) /\ toPhone' = Append(toPhone, f)
  <2>1. PICK f : f = [kind |-> kind, id |-> m]
    OBVIOUS
  <2>2. f \in Frames /\ toPhone' = IF inRoom THEN Append(toPhone, f) ELSE toPhone
    BY <1>1, <2>1, ChangeRowIs DEF TimelineTypeOK, WireOK
  <2>3. f.kind # "history" /\ Tells(f)
    BY <2>1 DEF Tells
  <2> QED BY <2>2, <2>3
<1>2. ASSUME NEW m \in Theirs, PeerSends(m)
      PROVE \/ toPhone' = toPhone
            \/ inRoom /\ \E f \in Frames : f.kind # "history" /\ Tells(f) /\ toPhone' = Append(toPhone, f)
  <2>1. PICK f : f = [kind |-> "message", id |-> m]
    OBVIOUS
  <2>2. f \in Frames /\ f.kind # "history" /\ Tells(f)
    BY <2>1 DEF Frames, Tells
  <2> QED BY <1>2, <2>1, <2>2 DEF PeerSends, Reaches
<1>3. \A m \in Theirs : PeerSaved(m) => toPhone' = toPhone
  BY DEF PeerSaved, network
<1>4. ASSUME NEW S, NEW status \in {"delivered", "read"}, PeerReceipt(S, status)
      PROVE \/ toPhone' = toPhone
            \/ inRoom /\ \E f \in Frames : f.kind # "history" /\ Tells(f) /\ toPhone' = Append(toPhone, f)
  <2>1. PICK f : f = [kind |-> "receipt", req |-> {}, status |-> status]
    OBVIOUS
  <2>2. f \in Frames /\ toPhone' = IF inRoom THEN Append(toPhone, f) ELSE toPhone
    BY <1>4, <2>1, ReceiptRows
  <2>3. f.kind # "history" /\ Tells(f)
    BY <2>1 DEF Tells
  <2> QED BY <2>2, <2>3
<1> QED BY <1>1, <1>2, <1>3, <1>4, Changes
--------------------------------------------------------------------------------
(* Why the registration in the room and the queues change, and that what   *)
(* the list rests on is kept.                                              *)

LEMMA RoomCauses ==
  ASSUME TimelineTypeOK, TimelineNext
  PROVE \/ Cut \/ Join \/ SocketOpens
        \/ /\ inRoom' = inRoom /\ open' = open
           /\ joining' = joining \/ joining.step \in {"joined", "read"}
<1>1. Listens => inRoom' = inRoom /\ open' = open /\ joining' = joining
  BY Listening, Handles DEF Waits, Runs, server, TimelineTypeOK
<1>2. Peer => inRoom' = inRoom /\ open' = open /\ joining' = joining
  BY DEF Peer, PeerSends, PeerSaved, PeerChanges, PeerReceipt, network
<1>3. /\ \A m : Send(m) \/ SendAudio(m) => inRoom' = inRoom /\ open' = open /\ joining' = joining
      /\ \A fails : AudioUploaded(fails) => inRoom' = inRoom /\ open' = open /\ joining' = joining
      /\ AskOlder \/ OlderArrives \/ DeleteAnswered \/ Flush \/ Refuse
           => inRoom' = inRoom /\ open' = open /\ joining' = joining
      /\ \A outcome, status : Take(outcome, status) => inRoom' = inRoom /\ open' = open /\ joining' = joining
      /\ \A answer : Serve(answer) => inRoom' = inRoom /\ open' = open /\ joining' = joining
  BY DEF Send, SendAudio, AudioUploaded, AskOlder, OlderArrives, DeleteAnswered, Flush, Refuse, Take, Serve,
         server, network
<1>4. \A m, kind : Ask(m, kind) => inRoom' = inRoom /\ open' = open /\ joining' = joining
  BY DEF Ask, server, network
<1>5. /\ SendHistory => inRoom' = inRoom /\ open' = open /\ joining.step = "read"
      /\ \A fails : ReadHistory(fails) => inRoom' = inRoom /\ open' = open /\ joining.step = "joined"
  BY DEF SendHistory, ReadHistory, network
<1>6. Break \/ StartAgain => Cut
  BY DEF Break, StartAgain
<1> QED BY StepIsAction, <1>1, <1>2, <1>3, <1>4, <1>5, <1>6 DEF Actions

LEMMA ConnectedStep ==
  ASSUME Basics, TimelineNext
  PROVE Connected'
<1> SUFFICES ASSUME ~inRoom'
             PROVE /\ toPhone' = <<>> /\ joining'.step = "no"
                   /\ IF open' THEN toServer' # <<>> /\ Head(toServer').kind = "join" ELSE toServer' = <<>>
  BY DEF Connected
<1>1. CASE Cut
  BY <1>1 DEF Cut
<1>2. CASE Join
  BY <1>2 DEF Join
<1>3. CASE SocketOpens
  <2>1. ~inRoom /\ toPhone' = toPhone /\ joining' = joining /\ toServer' = Rejoin /\ open'
    BY <1>3 DEF SocketOpens, server
  <2>2. Rejoin # <<>> /\ Head(Rejoin).kind = "join"
    BY DEF Rejoin
  <2> QED BY <2>1, <2>2 DEF Basics, Connected
<1>4. CASE /\ inRoom' = inRoom /\ open' = open /\ (joining' = joining \/ joining.step \in {"joined", "read"})
           /\ ~Cut /\ ~Join /\ ~SocketOpens
  <2>1. /\ toPhone = <<>> /\ joining.step = "no" /\ joining' = joining
        /\ IF open THEN toServer # <<>> /\ Head(toServer).kind = "join" ELSE toServer = <<>>
    BY <1>4 DEF Basics, Connected
  <2>2. ~\E outcome \in Outcomes, status \in Confirmations : Take(outcome, status)
    BY <2>1 DEF Take
  <2>3. toPhone' = toPhone
    BY <1>4, <2>1, <2>2, PhoneWire DEF Basics
  <2>4. ASSUME NEW m \in Mine, HandOver(m)
        PROVE IF open THEN toServer' # <<>> /\ Head(toServer').kind = "join" ELSE toServer' = <<>>
    <3>1. CASE open
      BY <2>1, <2>4, <3>1, AppendIs, Outgoings DEF HandOver, Basics, TimelineTypeOK, WireOK
    <3>2. CASE ~open
      BY <2>1, <2>4, <3>2 DEF HandOver
    <3> QED BY <3>1, <3>2
  <2>5. \A m \in Mine : /\ Send(m) => HandOver(m)
                        /\ SendAudio(m) => toServer' = toServer
    BY DEF Send, SendAudio, network
  <2>6. \A fails \in BOOLEAN : AudioUploaded(fails) => toServer' = toServer \/ \E m \in Mine : HandOver(m)
    BY UploadedIs DEF Basics, AudioUploaded
  <2> QED BY <1>4, <2>1, <2>2, <2>3, <2>4, <2>5, <2>6, ServerWire DEF Basics
<1> QED BY <1>1, <1>2, <1>3, <1>4, RoomCauses DEF Basics

(* What is handed over was handed over before, or is new.                  *)
HandedOnce ==
  /\ OnWire \intersect Recording = {}
  /\ \A i, j \in DOMAIN toServer : toServer[i] = toServer[j] /\ toServer[i].kind = "message" => i = j

LEMMA HandedOver ==
  ASSUME Basics, NEW m \in Mine, m \notin OnWire, HandOver(m), Recording' \subseteq Recording \ {m}
  PROVE HandedOnce' /\ Unsent' \subseteq Unsent \union {m}
<1>1. HandedOnce
  BY DEF Basics, SentOnce, HandedOnce
<1>2. PICK f : f = [kind |-> "message", id |-> m]
  OBVIOUS
<1>3. f \in Outgoing /\ toServer \in Seq(Outgoing)
  BY <1>2, Outgoings DEF Basics, TimelineTypeOK, WireOK
<1>4. CASE open
  <2>1. toServer' = Append(toServer, f)
    BY <1>2, <1>4 DEF HandOver
  <2>2. PICK after : after = toServer'
    OBVIOUS
  <2>3. Range(after) = Range(toServer) \union {f}
    BY <1>3, <2>1, <2>2, AppendIs
  <2>4. OnWire' \subseteq OnWire \union {m}
    BY <1>2, <2>2, <2>3 DEF OnWire
  <2>5. \A i \in DOMAIN toServer : toServer[i] # f
    BY <1>2 DEF OnWire, Range
  <2>6. \A i, j \in DOMAIN after : after[i] = after[j] /\ after[i].kind = "message" => i = j
    BY <1>3, <2>1, <2>2, <2>5, AppendIs DEF Basics, SentOnce
  <2> QED BY <1>1, <2>2, <2>4, <2>6 DEF HandedOnce, Unsent
<1>5. CASE ~open
  <2>1. toServer' = toServer
    BY <1>5 DEF HandOver
  <2> QED BY <1>1, <2>1 DEF HandedOnce, Unsent, OnWire, Basics, SentOnce
<1> QED BY <1>4, <1>5

LEMMA WireStep ==
  ASSUME Basics, TimelineNext
  PROVE HandedOnce' /\ \A m \in Unsent' : m \in Unsent \/ (m \in Known' \ Known /\ row' = row)
<1>1. HandedOnce
  BY DEF Basics, SentOnce, HandedOnce
<1>2. CASE toServer' = toServer /\ (request' = request \/ request'.kind # "audio")
  <2>1. OnWire' = OnWire /\ Recording' \subseteq Recording
    BY <1>2 DEF OnWire, Recording
  <2> QED BY <1>1, <1>2, <2>1 DEF HandedOnce, Unsent
<1>3. CASE toServer # <<>> /\ toServer' = Tail(toServer) /\ request' = request
  <2>1. toServer \in Seq(Outgoing)
    BY DEF Basics, TimelineTypeOK, WireOK
  <2>2. PICK after : after = toServer'
    OBVIOUS
  <2>3. Range(after) \subseteq Range(toServer)
    BY <1>3, <2>1, <2>2, TailIs
  <2>4. OnWire' \subseteq OnWire /\ Recording' = Recording
    BY <1>3, <2>2, <2>3 DEF OnWire, Recording
  <2>5. \A i \in DOMAIN after : i + 1 \in DOMAIN toServer /\ after[i] = toServer[i + 1] /\ i \in Nat
    BY <1>3, <2>1, <2>2, TailIs
  <2>6. ASSUME NEW i \in DOMAIN after, NEW j \in DOMAIN after, after[i] = after[j], after[i].kind = "message"
        PROVE i = j
    <3>1. i + 1 = j + 1
      BY <1>1, <2>5, <2>6 DEF HandedOnce
    <3> QED BY <2>5, <3>1
  <2> QED BY <1>1, <2>2, <2>4, <2>6 DEF HandedOnce, Unsent
<1>4. CASE toServer' \in {<<>>, Rejoin} /\ (request' = request \/ request'.kind # "audio")
  <2>1. \A i \in DOMAIN toServer' : toServer'[i].kind = "join" /\ i = 1
    BY <1>4 DEF Rejoin
  <2>2. OnWire' = {}
    BY <2>1 DEF OnWire, Range
  <2>3. Recording' \subseteq Recording
    BY <1>4 DEF Recording
  <2> QED BY <2>1, <2>2, <2>3 DEF HandedOnce, Unsent
<1>5. ASSUME NEW m \in Mine, Send(m) \/ SendAudio(m)
      PROVE HandedOnce' /\ \A n \in Unsent' : n \in Unsent \/ (n \in Known' \ Known /\ row' = row)
  <2>1. m \notin Known /\ row' = row /\ order' = Append(order, m) /\ m \in Messages
    BY <1>5, Members DEF Send, SendAudio, Known
  <2>2. m \in Known'
    BY <2>1, OrderAppended DEF Basics, TimelineTypeOK, ServerOK, OrderOK
  <2>3. m \notin Unsent
    BY <2>1 DEF Basics, SentOnce
  <2>4. CASE Send(m)
    <3>1. HandOver(m) /\ Recording' = Recording
      BY <2>4 DEF Send, Recording
    <3> QED BY <2>1, <2>2, <2>3, <3>1, HandedOver DEF Unsent
  <2>5. CASE SendAudio(m)
    <3>1. request = NoRequest /\ request' = [kind |-> "audio", id |-> m] /\ toServer' = toServer
      BY <2>5 DEF SendAudio, network
    <3>2. Recording' = {m} /\ OnWire' = OnWire
      BY <3>1 DEF Recording, OnWire
    <3> QED BY <1>1, <2>1, <2>2, <2>3, <3>1, <3>2 DEF HandedOnce, Unsent
  <2> QED BY <1>5, <2>4, <2>5
<1>6. ASSUME NEW fails \in BOOLEAN, AudioUploaded(fails)
      PROVE HandedOnce' /\ Unsent' \subseteq Unsent
  <2>1. request.kind = "audio" /\ request.id \in Mine /\ request' = NoRequest
    BY <1>6, UploadedIs DEF Basics
  <2>5. Recording' = {} /\ Recording = {request.id}
    BY <2>1 DEF Recording, NoRequest
  <2>2. request.id \notin OnWire
    BY <1>1, <2>5 DEF HandedOnce
  <2>3. CASE HandOver(request.id)
    BY <2>1, <2>2, <2>3, <2>5, HandedOver DEF Unsent
  <2>4. CASE toServer' = toServer
    <3>1. OnWire' = OnWire
      BY <2>4 DEF OnWire
    <3> QED BY <1>1, <2>4, <2>5, <3>1 DEF HandedOnce, Unsent
  <2> QED BY <1>6, <2>3, <2>4 DEF AudioUploaded
<1> QED BY <1>2, <1>3, <1>4, <1>5, <1>6, ServerWire DEF Basics

LEMMA SentOnceStep ==
  ASSUME Basics, TimelineNext
  PROVE SentOnce'
<1>1. HandedOnce' /\ \A m \in Unsent' : m \in Unsent \/ (m \in Known' \ Known /\ row' = row)
  BY WireStep
<1>2. Known \subseteq Known'
  BY OrderStays DEF Basics
<1>3. ASSUME NEW outcome \in Outcomes, NEW status \in Confirmations, Take(outcome, status),
             NEW m \in Mine, Head(toServer) = [kind |-> "message", id |-> m]
      PROVE m \in Known /\ m \notin Unsent'
  <2>1. toServer # <<>> /\ toServer' = Tail(toServer) /\ request' = request /\ toServer \in Seq(Outgoing)
    BY <1>3 DEF Take, Basics, TimelineTypeOK, WireOK
  <2>2. PICK after : after = toServer'
    OBVIOUS
  <2>3. 1 \in DOMAIN toServer /\ toServer[1] = [kind |-> "message", id |-> m]
    BY <1>3, <2>1, TailIs
  <2>4. m \in OnWire
    BY <2>3 DEF OnWire, Range
  <2>5. \A i \in DOMAIN after : i + 1 \in DOMAIN toServer /\ after[i] = toServer[i + 1] /\ i \in Nat \ {0}
    BY <2>1, <2>2, TailIs
  <2>6. \A i \in DOMAIN after : after[i] # [kind |-> "message", id |-> m]
    <3> SUFFICES ASSUME NEW i \in DOMAIN after, after[i] = [kind |-> "message", id |-> m]
                 PROVE FALSE
      OBVIOUS
    <3>1. toServer[i + 1] = toServer[1] /\ toServer[i + 1].kind = "message" /\ i + 1 \in DOMAIN toServer
      BY <2>3, <2>5
    <3>2. i + 1 = 1
      BY <2>3, <3>1 DEF Basics, SentOnce
    <3> QED BY <2>5, <3>2
  <2>7. m \notin OnWire'
    BY <2>2, <2>6 DEF OnWire, Range
  <2>8. m \notin Recording'
    BY <2>1, <2>4 DEF Basics, SentOnce, Recording
  <2> QED BY <2>4, <2>7, <2>8 DEF Unsent, Basics, SentOnce
<1>4. Unsent' \subseteq Known'
  BY <1>1, <1>2 DEF Basics, SentOnce
<1>5. \A m \in Unsent' : m \notin DOMAIN row'
  <2>1. \A m \in Unsent' : m \notin DOMAIN row
    BY <1>1 DEF Basics, SentOnce, OrderOK
  <2>2. ASSUME NEW outcome \in Outcomes, NEW status \in Confirmations, Take(outcome, status)
        PROVE \A m \in Unsent' : m \notin DOMAIN row'
    <3>1. PICK m \in Mine : /\ Head(toServer) = [kind |-> "message", id |-> m]
                            /\ outcome # "saved" => row' = row
                            /\ outcome = "saved" => DOMAIN row' = DOMAIN row \union {m}
      BY <2>2, TakeIs DEF Basics
    <3> QED BY <1>3, <2>1, <2>2, <3>1
  <2>3. \A m \in Messages, kind \in {"erase", "edit"} : ChangeRow(m, kind) => DOMAIN row' = DOMAIN row
    BY ChangeRowIs DEF Basics, TimelineTypeOK, WireOK
  <2>4. \A m \in Theirs : PeerSaved(m) => DOMAIN row' = DOMAIN row \union {m}
    BY PeerSavedIs DEF Basics
  <2>5. \A S \in SUBSET Mine, status \in {"delivered", "read"} : PeerReceipt(S, status) => DOMAIN row' = DOMAIN row
    BY ReceiptRows DEF Basics
  <2>6. Unsent' \subseteq Mine
    <3>1. Recording' \subseteq Mine
      BY TypeStep, RequestKinds DEF Recording, Basics, TimelineTypeOK, AskedOK
    <3> QED BY <3>1 DEF Unsent, OnWire
  <2> QED BY <2>1, <2>2, <2>3, <2>4, <2>5, <2>6, TwoSenders, RowCauses DEF Basics
<1>6. ASSUME NEW i \in DOMAIN toPhone', toPhone'[i].kind = "receipt"
      PROVE toPhone'[i].req \subseteq Known' \ Unsent'
  <2>w. toPhone \in Seq(Frames)
    BY DEF Basics, TimelineTypeOK, WireOK
  <2>o. ASSUME NEW j \in DOMAIN toPhone, toPhone'[i] = toPhone[j]
        PROVE toPhone'[i].req \subseteq Known' \ Unsent'
    BY <1>1, <1>2, <1>6, <2>o DEF Basics, SentOnce
  <2>t. ASSUME NEW f \in Frames, f.kind # "receipt" \/ f.req = {}, toPhone' = Append(toPhone, f)
        PROVE toPhone'[i].req \subseteq Known' \ Unsent'
    <3>1. i \in DOMAIN toPhone \/ toPhone'[i] = f
      BY <2>t, <2>w, AppendIs
    <3>2. i \in DOMAIN toPhone => toPhone'[i] = toPhone[i]
      BY <2>t, <2>w, AppendIs
    <3> QED BY <1>6, <2>o, <2>t, <3>1, <3>2
  <2>1. CASE toPhone' = toPhone
    BY <2>1, <2>o
  <2>2. CASE toPhone # <<>> /\ toPhone' = Tail(toPhone)
    BY <2>2, <2>o, <2>w, TailIs
  <2>3. CASE Cut
    BY <1>6, <2>3 DEF Cut
  <2>4. ASSUME NEW outcome \in Outcomes, NEW status \in Confirmations, Take(outcome, status)
        PROVE toPhone'[i].req \subseteq Known' \ Unsent'
    <3>1. PICK m \in Mine :
            LET receipt == [kind |-> "receipt", req |-> {m}, status |-> status]
                ack == [kind |-> "ack", id |-> m]
            IN /\ Head(toServer) = [kind |-> "message", id |-> m] /\ receipt \in Frames /\ ack \in Frames
               /\ toPhone' = IF outcome = "rejected" THEN Append(toPhone, ack) ELSE Append(Append(toPhone, receipt), ack)
      BY <2>4, TakeIs DEF Basics
    <3>2. PICK receipt, ack : /\ receipt = [kind |-> "receipt", req |-> {m}, status |-> status]
                              /\ ack = [kind |-> "ack", id |-> m]
      OBVIOUS
    <3>3. m \in Known' /\ m \notin Unsent'
      BY <1>2, <1>3, <2>4, <3>1
    <3>4. receipt \in Frames /\ ack \in Frames /\ receipt.req = {m} /\ ack.kind # "receipt"
      BY <3>1, <3>2
    <3>5. CASE toPhone' = Append(toPhone, ack)
      BY <2>t, <3>4, <3>5
    <3>6. CASE toPhone' = Append(Append(toPhone, receipt), ack)
      <4>1. Append(toPhone, receipt) \in Seq(Frames)
        BY <2>w, <3>4
      <4>2. i \in DOMAIN Append(toPhone, receipt) \/ toPhone'[i] = ack
        BY <3>4, <3>6, <4>1, AppendIs
      <4>3. i \in DOMAIN Append(toPhone, receipt) => toPhone'[i] = Append(toPhone, receipt)[i]
        BY <3>4, <3>6, <4>1, AppendIs
      <4>4. i \in DOMAIN Append(toPhone, receipt) => i \in DOMAIN toPhone \/ Append(toPhone, receipt)[i] = receipt
        BY <2>w, <3>4, AppendIs
      <4>5. i \in DOMAIN toPhone => Append(toPhone, receipt)[i] = toPhone[i] /\ i \in DOMAIN Append(toPhone, receipt)
        BY <2>w, <3>4, AppendIs
      <4> QED BY <1>6, <2>o, <3>3, <3>4, <4>2, <4>3, <4>4, <4>5
    <3> QED BY <3>1, <3>2, <3>5, <3>6
  <2>5. ASSUME SendHistory, joining.step = "read" PROVE toPhone'[i].req \subseteq Known' \ Unsent'
    <3>1. PICK f : f = [kind |-> "history", rows |-> joining.rows, saved |-> joining.saved]
      OBVIOUS
    <3>2. f \in Frames /\ f.kind # "receipt" /\ toPhone' = Append(toPhone, f)
      BY <2>5, <3>1, JoiningKinds DEF SendHistory, Frames, Histories, Basics, TimelineTypeOK, ServerOK
    <3> QED BY <2>t, <3>2
  <2> QED BY <2>1, <2>2, <2>3, <2>4, <2>5, <2>t, PhoneWire DEF Basics, Tells
<1> QED BY <1>1, <1>4, <1>5, <1>6 DEF SentOnce, HandedOnce

LEMMA RequestCauses ==
  ASSUME TimelineTypeOK, TimelineNext
  PROVE \/ request' = request
        \/ request' = NoRequest
        \/ \E m \in Mine : SendAudio(m)
        \/ AskOlder
        \/ \E m \in Messages, kind \in {"hide", "erase", "edit"} : Ask(m, kind)
        \/ \E answer \in {"done", "failed"} : Serve(answer)
        \/ Refuse
<1>1. Listens => request' = request
  BY Listening, Handles DEF Waits, TimelineTypeOK
<1>2. Peer => request' = request
  BY DEF Peer, PeerSends, PeerSaved, PeerChanges, PeerReceipt
<1>3. /\ \A m : Send(m) => request' = request
      /\ \A fails : AudioUploaded(fails) => request' = NoRequest
      /\ OlderArrives \/ DeleteAnswered => request' = NoRequest
      /\ Flush \/ SocketOpens \/ Join \/ SendHistory => request' = request
      /\ \A fails : ReadHistory(fails) => request' = request
      /\ \A outcome, status : Take(outcome, status) => request' = request
  BY DEF Send, AudioUploaded, OlderArrives, DeleteAnswered, Flush, SocketOpens, Join, SendHistory, ReadHistory, Take
<1>4. Break => request' = request
  BY DEF Break
<1>5. StartAgain => request' = NoRequest
  BY StartAgainIs
<1> QED BY StepIsAction, <1>1, <1>2, <1>3, <1>4, <1>5 DEF Actions

LEMMA RequestStep ==
  ASSUME Basics, TimelineNext
  PROVE RequestOK'
<1>t. /\ DOMAIN row \subseteq DOMAIN row' /\ hidden \subseteq hidden'
      /\ \A m \in DOMAIN row : row[m].erased => row'[m].erased
  BY RowsStay DEF Basics
<1>1. CASE request' = request
  BY <1>t, <1>1 DEF Basics, RequestOK
<1>2. CASE request' = NoRequest
  BY <1>2 DEF NoRequest, RequestOK
<1>3. ASSUME NEW m, SendAudio(m) PROVE RequestOK'
  <2>1. request'.kind = "audio"
    BY <1>3 DEF SendAudio
  <2> QED BY <2>1 DEF RequestOK
<1>4. CASE AskOlder
  <2>1. request'.kind = "older"
    BY <1>4 DEF AskOlder
  <2> QED BY <2>1 DEF RequestOK
<1>5. ASSUME NEW m \in Messages, NEW kind \in {"hide", "erase", "edit"}, Ask(m, kind) PROVE RequestOK'
  <2>1. request' = [kind |-> kind, id |-> m, step |-> "asked", before |-> shown] /\ m \in DOMAIN shown
    BY <1>5, AskIs DEF Basics
  <2> QED BY <2>1 DEF RequestOK
<1>6. ASSUME NEW answer \in {"done", "failed"}, Finish(answer), Asked,
             answer = "done" /\ request.kind = "hide" => request.id \in hidden',
             answer = "done" /\ request.kind = "erase" => request.id \in DOMAIN row' /\ row'[request.id].erased
      PROVE RequestOK'
  <2>1. /\ request.kind = "edit" => request' = NoRequest
        /\ request.kind # "edit" =>
              /\ request'.kind = request.kind /\ request'.id = request.id
              /\ request'.before = request.before /\ request'.step = answer
    BY <1>6, FinishType DEF Basics
  <2> QED BY <1>2, <1>6, <2>1 DEF RequestOK, Basics
<1>7. ASSUME NEW answer \in {"done", "failed"}, Serve(answer) PROVE RequestOK'
  <2>1. Finish(answer) /\ Asked
    BY <1>7 DEF Serve
  <2>2. request.kind = "hide" => request.id \in hidden'
    BY <1>7 DEF Serve
  <2>3. ASSUME request.kind = "erase" PROVE request.id \in DOMAIN row' /\ row'[request.id].erased
    <3>1. ChangeRow(request.id, "erase")
      BY <1>7, <2>3 DEF Serve
    <3>2. /\ request.id \in DOMAIN row /\ DOMAIN row' = DOMAIN row
          /\ row'[request.id] = Blank(row[request.id])
      BY <3>1, ChangeRowIs DEF Basics, TimelineTypeOK, WireOK
    <3>3. Blank(row[request.id]).erased = TRUE
      BY <3>2, ListIs, EntryFields DEF Basics, TimelineTypeOK, ServerOK
    <3> QED BY <3>2, <3>3
  <2> QED BY <1>6, <2>1, <2>2, <2>3
<1>8. CASE Refuse
  BY <1>6, <1>8 DEF Refuse
<1> QED BY <1>1, <1>2, <1>3, <1>4, <1>5, <1>7, <1>8, RequestCauses DEF Basics

LEMMA BasicsStep ==
  ASSUME Basics, TimelineNext
  PROVE Basics'
<1>1. TimelineTypeOK' /\ RowOK'
  BY TypeStep, RowsStay DEF Basics
<1> QED BY <1>1, OrderStep, ConnectedStep, SentOnceStep, RequestStep DEF Basics
--------------------------------------------------------------------------------
(* Histories: what the server reads, and what merging one keeps.           *)

LEMMA FiniteRange ==
  ASSUME NEW S, NEW s \in Seq(S)
  PROVE IsFiniteSet(Range(s))
<1>1. s \in [1..Len(s) -> Range(s)]
  BY DEF Range
<1>2. \A x \in Range(s) : \E i \in 1..Len(s) : s[i] = x
  BY DEF Range
<1>3. s \in Surjection(1..Len(s), Range(s))
  BY <1>1, <1>2 DEF Surjection
<1>4. IsFiniteSet(1..Len(s))
  BY FS_Interval
<1> QED BY <1>3, <1>4, FS_Surjection

(* Timestamps order the messages, and only finitely many are written.      *)
Newer(m) == {n \in DOMAIN row : Before(m, n)}

LEMMA OrderIsTotal ==
  ASSUME order \in Seq(Messages), IsInjective(order)
  PROVE /\ \A x, y \in Known : x = y \/ Before(x, y) \/ Before(y, x)
        /\ \A x, y, z : Before(x, y) /\ Before(y, z) => Before(x, z)
        /\ \A x, y : Before(x, y) => x \in Known /\ y \in Known /\ ~Before(y, x)
        /\ IsFiniteSet(Known)
<1>0. DOMAIN order = 1..Len(order) /\ Len(order) \in Nat
  OBVIOUS
<1>1. ASSUME NEW x \in Known, NEW y \in Known PROVE x = y \/ Before(x, y) \/ Before(y, x)
  <2>1. PICK i \in DOMAIN order, j \in DOMAIN order : order[i] = x /\ order[j] = y
    BY DEF Known, Range
  <2>2. i < j \/ j < i \/ i = j
    BY <1>0, <2>1
  <2> QED BY <2>1, <2>2 DEF Before
<1>2. ASSUME NEW x, NEW y, NEW z, Before(x, y), Before(y, z) PROVE Before(x, z)
  <2>1. PICK i \in DOMAIN order, j \in DOMAIN order : i < j /\ order[i] = x /\ order[j] = y
    BY <1>2 DEF Before
  <2>2. PICK k \in DOMAIN order, l \in DOMAIN order : k < l /\ order[k] = y /\ order[l] = z
    BY <1>2 DEF Before
  <2>3. j = k
    BY <2>1, <2>2 DEF IsInjective
  <2>4. i < l
    BY <1>0, <2>1, <2>2, <2>3
  <2> QED BY <2>1, <2>2, <2>4 DEF Before
<1>3. ASSUME NEW x, NEW y, Before(x, y) PROVE x \in Known /\ y \in Known /\ ~Before(y, x)
  <2>1. PICK i \in DOMAIN order, j \in DOMAIN order : i < j /\ order[i] = x /\ order[j] = y
    BY <1>3 DEF Before
  <2>2. ASSUME Before(y, x) PROVE FALSE
    <3>1. PICK k \in DOMAIN order, l \in DOMAIN order : k < l /\ order[k] = y /\ order[l] = x
      BY <2>2 DEF Before
    <3>2. k = j /\ l = i
      BY <2>1, <3>1 DEF IsInjective
    <3> QED BY <1>0, <2>1, <3>1, <3>2
  <2> QED BY <2>1, <2>2 DEF Known, Range
<1>4. IsFiniteSet(Known)
  BY FiniteRange DEF Known
<1> QED BY <1>1, <1>2, <1>3, <1>4

LEMMA LatestIs ==
  ASSUME TimelineTypeOK, OrderOK
  PROVE /\ Latest \subseteq DOMAIN row
        /\ \A m \in DOMAIN row, w \in Latest : ~Before(m, w) /\ m # w => m \in Latest
        /\ \A m \in DOMAIN row : m \in Latest <=> Cardinality(Newer(m)) < HistoryLimit
        /\ \A m : IsFiniteSet(Newer(m)) /\ Cardinality(Newer(m)) \in Nat
<1>1. \A m \in DOMAIN row : m \in Latest <=> Cardinality(Newer(m)) < HistoryLimit
  BY DEF Latest, Newer
<1>2. \A m : Newer(m) \subseteq Known
  BY DEF Newer, OrderOK
<1>3. order \in Seq(Messages) /\ IsInjective(order) /\ HistoryLimit \in Nat
  BY TimelineAssumption DEF TimelineTypeOK, ServerOK, OrderOK, TimelineAssumption
<1>4. IsFiniteSet(Known)
  BY <1>3, OrderIsTotal
<1>5. \A m : IsFiniteSet(Newer(m)) /\ Cardinality(Newer(m)) \in Nat
  BY <1>2, <1>4, FS_Subset, FS_CardinalityType
<1>6. ASSUME NEW m \in DOMAIN row, NEW w \in Latest, ~Before(m, w), m # w
      PROVE m \in Latest
  <2>1. w \in DOMAIN row /\ Cardinality(Newer(w)) < HistoryLimit
    BY <1>1 DEF Latest
  <2>2. Before(w, m)
    BY <1>3, <1>6, <2>1, OrderIsTotal DEF OrderOK
  <2>3. Newer(m) \subseteq Newer(w)
    BY <1>3, <2>2, OrderIsTotal DEF Newer
  <2>4. Cardinality(Newer(m)) <= Cardinality(Newer(w))
    BY <1>5, <2>3, FS_Subset
  <2>5. Cardinality(Newer(m)) < HistoryLimit
    <3>1. PICK a, b : a = Cardinality(Newer(m)) /\ b = Cardinality(Newer(w))
      OBVIOUS
    <3>2. a \in Nat /\ b \in Nat /\ a <= b /\ b < HistoryLimit
      BY <1>5, <2>1, <2>4, <3>1
    <3>3. a < HistoryLimit
      BY <1>3, <3>2
    <3> QED BY <3>1, <3>3
  <2> QED BY <1>1, <2>5
<1> QED BY <1>1, <1>5, <1>6 DEF Latest

(* What a step adds to the frames under way.                               *)
LEMMA HeldFrames ==
  ASSUME TimelineTypeOK, TimelineNext
  PROVE /\ held' \subseteq held \union Range(toPhone)
        /\ \A f \in held' : f \in held \/ NeedsKey(f)
        /\ Listens \/ StartAgain \/ held' = held
<1>1. ASSUME Listens PROVE held' \subseteq held \union Range(toPhone) /\ \A f \in held' : f \in held \/ NeedsKey(f)
  <2>1. toPhone # <<>> => Head(toPhone) \in Range(toPhone)
    BY TailIs DEF TimelineTypeOK, WireOK
  <2> QED BY <1>1, <2>1, Listening DEF Waits, Runs, TimelineTypeOK
<1>2. Peer => held' = held
  BY DEF Peer, PeerSends, PeerSaved, PeerChanges, PeerReceipt
<1>3. /\ \A m : Send(m) \/ SendAudio(m) => held' = held
      /\ \A fails : AudioUploaded(fails) \/ ReadHistory(fails) => held' = held
      /\ AskOlder \/ OlderArrives \/ DeleteAnswered \/ Flush \/ SocketOpens \/ Join \/ SendHistory \/ Refuse
           => held' = held
      /\ \A outcome, status : Take(outcome, status) => held' = held
      /\ \A answer : Serve(answer) => held' = held
  BY DEF Send, SendAudio, AudioUploaded, ReadHistory, AskOlder, OlderArrives, DeleteAnswered, Flush, SocketOpens,
         Join, SendHistory, Refuse, Take, Serve
<1>4. \A m, kind : Ask(m, kind) => held' = held
  BY DEF Ask
<1>5. Break => held' = held
  BY DEF Break
<1>6. StartAgain => held' = {}
  BY StartAgainIs
<1> QED BY StepIsAction, <1>1, <1>2, <1>3, <1>4, <1>5, <1>6 DEF Actions

LEMMA HistoryFrames ==
  ASSUME TimelineTypeOK, TimelineNext, NEW f \in held' \union Range(toPhone'), f.kind = "history"
  PROVE \/ f \in held \union Range(toPhone)
        \/ /\ joining.step = "read" /\ joining' = [step |-> "no"]
           /\ f = [kind |-> "history", rows |-> joining.rows, saved |-> joining.saved]
<1>w. toPhone \in Seq(Frames)
  BY DEF TimelineTypeOK, WireOK
<1>1. f \in held' => f \in held \union Range(toPhone)
  BY HeldFrames
<1>2. PICK after : after = toPhone'
  OBVIOUS
<1>3. ASSUME NEW g \in Frames, toPhone' = Append(toPhone, g) PROVE Range(toPhone') = Range(toPhone) \union {g}
  <2>1. Range(Append(toPhone, g)) = Range(toPhone) \union {g}
    BY <1>w, AppendIs
  <2> QED BY <1>3, <2>1
<1>4. toPhone # <<>> /\ toPhone' = Tail(toPhone) => Range(toPhone') \subseteq Range(toPhone)
  <2>1. toPhone # <<>> => Range(Tail(toPhone)) \subseteq Range(toPhone)
    BY <1>w, TailIs
  <2> QED BY <2>1
<1>5. Cut => Range(toPhone') = {}
  BY DEF Cut, Range
<1>6. ASSUME NEW outcome \in Outcomes, NEW status \in Confirmations, Take(outcome, status), f \in Range(toPhone')
      PROVE f \in Range(toPhone)
  <2>1. PICK m \in Mine :
          LET receipt == [kind |-> "receipt", req |-> {m}, status |-> status]
              ack == [kind |-> "ack", id |-> m]
          IN /\ receipt \in Frames /\ ack \in Frames
             /\ toPhone' = IF outcome = "rejected" THEN Append(toPhone, ack) ELSE Append(Append(toPhone, receipt), ack)
    BY <1>6, TakeIs
  <2>2. PICK receipt, ack : /\ receipt = [kind |-> "receipt", req |-> {m}, status |-> status]
                            /\ ack = [kind |-> "ack", id |-> m]
    OBVIOUS
  <2>3. receipt.kind # "history" /\ ack.kind # "history" /\ receipt \in Frames /\ ack \in Frames
    BY <2>1, <2>2
  <2>4. /\ Range(Append(toPhone, receipt)) = Range(toPhone) \union {receipt}
        /\ Append(toPhone, receipt) \in Seq(Frames)
    BY <1>w, <2>3, AppendIs
  <2>5. Range(Append(Append(toPhone, receipt), ack)) = Range(toPhone) \union {receipt, ack}
    <3>1. PICK mid : mid = Append(toPhone, receipt)
      OBVIOUS
    <3>2. mid \in Seq(Frames) /\ ack \in Frames
      BY <2>3, <2>4, <3>1
    <3>3. Range(Append(mid, ack)) = Range(mid) \union {ack}
      BY <3>2, AppendIs
    <3> QED BY <2>4, <3>1, <3>3
  <2>6. CASE toPhone' = Append(toPhone, ack)
    BY <1>3, <1>6, <2>3, <2>6, f.kind = "history"
  <2>7. CASE toPhone' = Append(Append(toPhone, receipt), ack)
    <3>1. Range(toPhone') = Range(toPhone) \union {receipt, ack}
      BY <2>5, <2>7
    <3> QED BY <1>6, <2>3, <3>1, f.kind = "history"
  <2> QED BY <2>1, <2>2, <2>6, <2>7
<1>7. ASSUME SendHistory, joining.step = "read", f \in Range(toPhone')
      PROVE \/ f \in Range(toPhone)
            \/ /\ joining' = [step |-> "no"]
               /\ f = [kind |-> "history", rows |-> joining.rows, saved |-> joining.saved]
  <2>1. PICK g : g = [kind |-> "history", rows |-> joining.rows, saved |-> joining.saved]
    OBVIOUS
  <2>2. g \in Frames /\ toPhone' = Append(toPhone, g)
    BY <1>7, <2>1, JoiningKinds DEF SendHistory, Frames, Histories, TimelineTypeOK, ServerOK
  <2> QED BY <1>3, <1>7, <2>1, <2>2 DEF SendHistory
<1>8. ASSUME toPhone' = toPhone, f \in Range(toPhone') PROVE f \in Range(toPhone)
  BY <1>8
<1> QED BY <1>1, <1>3, <1>4, <1>5, <1>6, <1>7, <1>8, PhoneWire, f.kind = "history"

(* What the connection's join goes through.                                *)
LEMMA JoiningSteps ==
  ASSUME TimelineTypeOK, TimelineNext
  PROVE \/ joining' = joining \/ Cut
        \/ joining.step = "no" /\ Join
        \/ joining.step = "joined" /\ \E fails \in BOOLEAN : ReadHistory(fails)
        \/ joining.step = "read" /\ SendHistory
<1>1. Listens => joining' = joining
  BY Listening, Handles DEF Waits, server, TimelineTypeOK
<1>2. Peer => joining' = joining
  BY DEF Peer, PeerSends, PeerSaved, PeerChanges, PeerReceipt
<1>3. /\ \A m : Send(m) \/ SendAudio(m) => joining' = joining
      /\ \A fails : AudioUploaded(fails) => joining' = joining
      /\ AskOlder \/ OlderArrives \/ DeleteAnswered \/ Flush \/ SocketOpens \/ Refuse => joining' = joining
      /\ \A outcome, status : Take(outcome, status) => joining' = joining
      /\ \A answer : Serve(answer) => joining' = joining
  BY DEF Send, SendAudio, AudioUploaded, AskOlder, OlderArrives, DeleteAnswered, Flush, SocketOpens,
         Refuse, Take, Serve, server
<1>4. \A m, kind : Ask(m, kind) => joining' = joining
  BY DEF Ask, server
<1>5. Break \/ StartAgain => Cut
  BY DEF Break, StartAgain
<1>6. /\ Join => joining.step = "no"
      /\ SendHistory => joining.step = "read"
      /\ \A fails : ReadHistory(fails) => joining.step = "joined"
  BY DEF Join, SendHistory, ReadHistory
<1> QED BY StepIsAction, <1>1, <1>2, <1>3, <1>4, <1>5, <1>6 DEF Actions

LEMMA JoiningCauses ==
  ASSUME TimelineTypeOK, TimelineNext
  PROVE joining' = joining \/ joining'.step # "read" \/ \E fails \in BOOLEAN : ReadHistory(fails)
<1>1. Cut \/ Join \/ SendHistory => joining'.step # "read"
  BY DEF Cut, Join, SendHistory
<1> QED BY <1>1, JoiningSteps

(* A history has every row it knew of, but for older ones, and erases none *)
(* that is not erased.                                                     *)
HistoryOK(rows, saved) ==
  /\ \A m \in saved \ hidden : m \in DOMAIN rows \/ \A w \in DOMAIN rows : Before(m, w)
  /\ \A m \in DOMAIN rows : rows[m].erased => m \in DOMAIN row /\ row[m].erased
HistoriesOK ==
  /\ \A f \in held \union Range(toPhone) : f.kind = "history" => HistoryOK(f.rows, f.saved)
  /\ joining.step = "read" => HistoryOK(joining.rows, joining.saved)

LEMMA HistoryStaysOK ==
  ASSUME Basics, TimelineNext, NEW rows, NEW saved, HistoryOK(rows, saved)
  PROVE HistoryOK(rows, saved)'
<1>1. /\ DOMAIN row \subseteq DOMAIN row' /\ hidden \subseteq hidden'
      /\ \A m \in DOMAIN row : row[m].erased => row'[m].erased
  BY RowsStay DEF Basics
<1>2. \A x, y : Before(x, y) => Before(x, y)'
  BY OrderStays DEF Basics
<1>3. ASSUME NEW m \in saved \ hidden', m \notin DOMAIN rows
      PROVE \A w \in DOMAIN rows : Before(m, w)'
  BY <1>1, <1>2, <1>3 DEF HistoryOK
<1> QED BY <1>1, <1>3 DEF HistoryOK

LEMMA ReadIsOK ==
  ASSUME Basics, NEW fails \in BOOLEAN, ReadHistory(fails)
  PROVE HistoryOK(joining.rows, joining.saved)' /\ (~fails => joining'.rows = Restrict(row, Latest \ hidden))
<1>0. row' = row /\ hidden' = hidden /\ order' = order
  BY DEF ReadHistory
<1>1. CASE fails
  <2>1. joining'.saved = {} /\ joining'.rows = Empty
    BY <1>1 DEF ReadHistory
  <2> QED BY <1>1, <2>1, EmptyList DEF HistoryOK
<1>2. CASE ~fails
  <2>1. joining'.saved = DOMAIN row /\ joining'.rows = Restrict(row, Latest \ hidden)
    BY <1>2 DEF ReadHistory
  <2>2. /\ DOMAIN Restrict(row, Latest \ hidden) = Latest \ hidden
        /\ \A m \in Latest \ hidden : Restrict(row, Latest \ hidden)[m] = row[m]
    BY RestrictIs
  <2>3. Latest \subseteq DOMAIN row /\ \A m \in DOMAIN row, w \in Latest : ~Before(m, w) /\ m # w => m \in Latest
    BY LatestIs DEF Basics
  <2>4. HistoryOK(Restrict(row, Latest \ hidden), DOMAIN row)
    BY <2>2, <2>3 DEF HistoryOK
  <2>5. PICK rows, saved : rows = joining'.rows /\ saved = joining'.saved
    OBVIOUS
  <2>6. HistoryOK(rows, saved)
    BY <2>1, <2>4, <2>5
  <2>7. HistoryOK(rows, saved)'
    BY <1>0, <2>6 DEF HistoryOK, Before
  <2> QED BY <2>1, <2>5, <2>7 DEF HistoryOK
<1> QED BY <1>1, <1>2

LEMMA HistoriesStep ==
  ASSUME Basics, HistoriesOK, TimelineNext
  PROVE HistoriesOK'
<1>1. ASSUME NEW f \in held' \union Range(toPhone'), f.kind = "history"
      PROVE HistoryOK(f.rows, f.saved)'
  <2>1. PICK rows, saved : rows = f.rows /\ saved = f.saved
    OBVIOUS
  <2>2. HistoryOK(rows, saved)
    BY <1>1, <2>1, HistoryFrames DEF HistoriesOK, Basics
  <2>3. HistoryOK(rows, saved)'
    BY <2>2, HistoryStaysOK
  <2> QED BY <2>1, <2>3
<1>2. ASSUME joining'.step = "read" PROVE HistoryOK(joining.rows, joining.saved)'
  <2>1. CASE joining' = joining
    <3>1. PICK rows, saved : rows = joining.rows /\ saved = joining.saved
      OBVIOUS
    <3>2. HistoryOK(rows, saved)
      BY <1>2, <2>1, <3>1 DEF HistoriesOK
    <3>3. HistoryOK(rows, saved)'
      BY <3>2, HistoryStaysOK
    <3> QED BY <2>1, <3>1, <3>3
  <2> QED BY <1>2, <2>1, JoiningCauses, ReadIsOK DEF Basics
<1> QED BY <1>1, <1>2 DEF HistoriesOK

(* A frame that was handled had its handler run, or is waiting still.      *)
LEMMA HandledIs ==
  ASSUME TimelineTypeOK, TimelineNext, timelineLeft' = timelineLeft, NEW x \in Handled
  PROVE shown' = shown \/ (x \in Frames /\ Handle(x))
<1>w. toPhone \in Seq(Frames)
  BY DEF TimelineTypeOK, WireOK
<1>1. CASE Listens
  <2>1. CASE Waits
    BY <2>1 DEF Waits, phone
  <2>2. ASSUME NEW frame \in Frames, Runs(frame), Handle(frame) PROVE x = frame
    <3>1. CASE toPhone # <<>> /\ frame = Head(toPhone) /\ toPhone' = Tail(toPhone) /\ held' = held
      <4>1. Range(toPhone) = {frame} \union Range(Tail(toPhone))
        BY <1>w, <3>1, TailIs
      <4> QED BY <3>1, <4>1 DEF Handled
    <3>2. CASE frame \in held /\ held' = held \ {frame} /\ toPhone' = toPhone
      BY <3>2 DEF Handled
    <3> QED BY <2>2, <3>1, <3>2 DEF Runs
  <2> QED BY <1>1, <2>1, <2>2, Listening DEF TimelineTypeOK
<1>2. CASE StartAgain
  <2>1. SpendOne("restart") /\ "restart" \in TimelineEvents
    BY <1>2, StartAgainIs DEF TimelineEvents
  <2> QED BY <2>1, SpendType DEF TimelineTypeOK
<1>3. CASE held' = held /\ ~Listens
  <2>1. open' /\ x \in Range(toPhone) /\ x \notin Range(toPhone')
    BY <1>3 DEF Handled
  <2>2. \A f \in Frames : Range(Append(toPhone, f)) = Range(toPhone) \union {f} /\ Append(toPhone, f) \in Seq(Frames)
    BY <1>w, AppendIs
  <2>3. ASSUME NEW f \in Frames, toPhone' = Append(toPhone, f) PROVE FALSE
    <3>1. Range(toPhone') = Range(toPhone) \union {f}
      BY <2>2, <2>3
    <3> QED BY <2>1, <3>1
  <2>4. ASSUME NEW f \in Frames, NEW g \in Frames, toPhone' = Append(Append(toPhone, f), g) PROVE FALSE
    <3>1. PICK mid : mid = Append(toPhone, f)
      OBVIOUS
    <3>2. mid \in Seq(Frames) /\ Range(mid) = Range(toPhone) \union {f}
      BY <2>2, <3>1
    <3>3. Range(Append(mid, g)) = Range(mid) \union {g}
      BY <3>2, AppendIs
    <3>4. Range(toPhone') = Range(Append(mid, g))
      BY <2>4, <3>1
    <3> QED BY <2>1, <3>2, <3>3, <3>4
  <2>5. ~\E outcome \in Outcomes, status \in Confirmations : Take(outcome, status)
    BY <2>3, <2>4, TakeIs
  <2>6. ~(joining.step = "read" /\ SendHistory)
    <3> SUFFICES ASSUME joining.step = "read", SendHistory PROVE FALSE
      OBVIOUS
    <3>1. PICK g : g = [kind |-> "history", rows |-> joining.rows, saved |-> joining.saved]
      OBVIOUS
    <3>2. g \in Frames /\ toPhone' = Append(toPhone, g)
      BY <3>1, JoiningKinds DEF SendHistory, Frames, Histories, TimelineTypeOK, ServerOK
    <3> QED BY <2>3, <3>2
  <2>7. ~Cut /\ toPhone' # toPhone
    BY <2>1 DEF Cut
  <2> QED BY <1>3, <2>3, <2>5, <2>6, <2>7, PhoneWire
<1> QED BY <1>1, <1>2, <1>3, HeldFrames

LEMMA HistoryKeeps ==
  ASSUME Basics, HistoriesOK, NEW frame \in Frames, frame \in held \union Range(toPhone), OnHistory(frame),
         frame.kind = "history", DOMAIN frame.rows # {}
  PROVE frame.saved \intersect DOMAIN shown \subseteq DOMAIN shown' \union hidden
<1>1. DOMAIN shown' = DOMAIN frame.rows \union Beside(shown, frame.rows)
  BY FrameKinds, HistoryIs, ReconcileIs DEF Basics, TimelineTypeOK, ListsOK
<1>2. HistoryOK(frame.rows, frame.saved)
  BY DEF HistoriesOK
<1> QED BY <1>1, <1>2 DEF HistoryOK, Beside

LEMMA HistoryKeepsStep ==
  ASSUME Basics, HistoriesOK, TimelineNext, timelineLeft' = timelineLeft,
         NEW frame \in Handled, frame.kind = "history", DOMAIN frame.rows # {}
  PROVE frame.saved \intersect DOMAIN shown \subseteq DOMAIN shown' \union hidden
<1>1. frame \in held \union Range(toPhone)
  BY DEF Handled
<1>2. shown' = shown \/ (frame \in Frames /\ OnHistory(frame))
  BY HandledIs, Handles, frame.kind = "history" DEF Basics
<1> QED BY <1>1, <1>2, HistoryKeeps
--------------------------------------------------------------------------------
(* What left the screen stays away.                                        *)

(* A deletion for himself that the user asked for.                         *)
Hiding == IF request.kind = "hide" THEN {request.id} ELSE {}
Deleting == request.kind \in {"hide", "erase"}

(* What was discarded, or deleted by the user, stays away, but for what he *)
(* is deleting; queue holds no message on its way; and a deletion that     *)
(* fails brings back only what it remembers.                               *)
NothingBack ==
  /\ DOMAIN disk \union DOMAIN queue \subseteq DOMAIN shown \union excuse.lost \union hidden \union Hiding
  /\ (DOMAIN disk \union DOMAIN shown) \intersect hidden \subseteq excuse.back \union Hiding
  /\ DOMAIN queue \intersect hidden \subseteq DOMAIN shown \union DOMAIN disk \union Hiding
  /\ Deleting => DOMAIN shown \intersect hidden \subseteq DOMAIN request.before \union DOMAIN disk
  /\ \A m \in DOMAIN queue : queue[m].status # "sending"

ExcuseStays ==
  /\ excuse.lost \ DOMAIN shown' \subseteq excuse'.lost
  /\ excuse.back \intersect (DOMAIN shown' \union DOMAIN disk') \subseteq excuse'.back

LEMMA ExcuseGrows ==
  ASSUME excuse' = excuse \/ \E new : Excuse(new)
  PROVE ExcuseStays
  BY ExcuseIs DEF ExcuseStays

(* The request under way, if any, goes on, or is about what is shown.      *)
RequestStays ==
  /\ Hiding \subseteq Hiding'
  /\ Deleting' => DOMAIN shown \subseteq DOMAIN request'.before \/ (Deleting /\ request'.before = request.before)

LEMMA NothingMoves ==
  ASSUME NothingBack, ExcuseStays, RequestStays, hidden' = hidden,
         DOMAIN shown' = DOMAIN shown, disk' = disk, queue' = queue \/ QueueGrows
  PROVE NothingBack'
<1>1. /\ DOMAIN queue' \subseteq DOMAIN queue \union DOMAIN shown
      /\ \A m \in DOMAIN queue' : queue'[m].status # "sending"
  BY DEF QueueGrows, NothingBack
<1>2. DOMAIN disk' \union DOMAIN queue' \subseteq DOMAIN shown' \union excuse'.lost \union hidden' \union Hiding'
  BY <1>1 DEF NothingBack, ExcuseStays, RequestStays
<1>3. (DOMAIN disk' \union DOMAIN shown') \intersect hidden' \subseteq excuse'.back \union Hiding'
  BY DEF NothingBack, ExcuseStays, RequestStays
<1>4. DOMAIN queue' \intersect hidden' \subseteq DOMAIN shown' \union DOMAIN disk' \union Hiding'
  BY <1>1 DEF NothingBack, RequestStays
<1>5. Deleting' => DOMAIN shown' \intersect hidden' \subseteq DOMAIN request'.before \union DOMAIN disk'
  BY DEF NothingBack, RequestStays
<1> QED BY <1>1, <1>2, <1>3, <1>4, <1>5 DEF NothingBack

LEMMA SameRequest ==
  ASSUME request' = request
  PROVE RequestStays
  BY DEF RequestStays, Hiding, Deleting

LEMMA OtherRequest ==
  ASSUME request.kind # "hide", request'.kind \notin {"hide", "erase"}
  PROVE RequestStays
  BY DEF RequestStays, Hiding, Deleting

LEMMA WriteBack ==
  ASSUME Basics, NothingBack, NEW m \in Mine, Send(m) \/ SendAudio(m)
  PROVE NothingBack'
<1>1. m \notin Known /\ m \in Messages /\ hidden' = hidden /\ excuse' = excuse /\ disk' = disk /\ queue' = queue
  BY Members DEF Send, SendAudio, Known
<1>2. m \notin hidden
  BY <1>1 DEF Basics, TimelineTypeOK, ServerOK, OrderOK
<1>3. Hiding' = Hiding /\ Deleting' = Deleting /\ (Deleting => request' = request)
  <2>1. CASE Send(m)
    BY <2>1 DEF Send, Hiding, Deleting
  <2>2. CASE SendAudio(m)
    BY <2>2 DEF SendAudio, NoRequest, Hiding, Deleting
  <2> QED BY <2>1, <2>2
<1>4. DOMAIN shown' = DOMAIN shown \union {m}
  <2>1. \A s \in Statuses : Entry("first", FALSE, s) \in Entries
    BY EntryIs
  <2>2. PICK s \in Statuses : shown' = Over(shown, One(m, Entry("first", FALSE, s)))
    BY DEF Send, SendAudio, FirstStatus, Statuses
  <2>3. PICK e : e = Entry("first", FALSE, s)
    OBVIOUS
  <2>4. e \in Entries /\ shown' = Over(shown, One(m, e)) /\ shown \in Lists
    BY <2>1, <2>2, <2>3 DEF Basics, TimelineTypeOK, ListsOK
  <2>5. DOMAIN Over(shown, One(m, e)) = DOMAIN shown \union {m}
    BY <1>1, <2>4, AddIs
  <2> QED BY <2>4, <2>5
<1> QED BY <1>1, <1>2, <1>3, <1>4 DEF NothingBack

LEMMA AskBack ==
  ASSUME Basics, NothingBack, NEW m \in Messages, NEW kind \in {"hide", "erase", "edit"}, Ask(m, kind)
  PROVE NothingBack'
<1>1. /\ disk' = disk /\ queue' = queue /\ m \in DOMAIN shown /\ request = NoRequest
      /\ request' = [kind |-> kind, id |-> m, step |-> "asked", before |-> shown]
      /\ DOMAIN shown' = IF kind = "hide" THEN DOMAIN shown \ {m} ELSE DOMAIN shown
      /\ Excuse([text |-> IF kind = "edit" THEN {m} ELSE {}])
  BY AskIs DEF Basics
<1>2. ExcuseStays /\ hidden' = hidden
  BY <1>1, ExcuseGrows DEF Ask, server
<1>3. Hiding = {} /\ Hiding' = (IF kind = "hide" THEN {m} ELSE {}) /\ request'.before = shown
  BY <1>1 DEF Hiding, NoRequest
<1>4. CASE kind = "hide"
  BY <1>1, <1>2, <1>3, <1>4 DEF NothingBack, ExcuseStays
<1>5. CASE kind # "hide"
  <2>1. RequestStays
    BY <1>3 DEF RequestStays
  <2> QED BY <1>1, <1>2, <1>5, <2>1, NothingMoves
<1> QED BY <1>4, <1>5

LEMMA OlderBack ==
  ASSUME Basics, NothingBack, OlderArrives
  PROVE NothingBack'
<1>1. PICK late : late = DOMAIN request.rows \ DOMAIN shown
  OBVIOUS
<1>2. PICK new : new = [text |-> late, erased |-> late, status |-> late, back |-> late \intersect hidden]
  OBVIOUS
<1>3. /\ request.kind = "older" /\ request' = NoRequest /\ disk' = disk /\ queue' = queue
      /\ DOMAIN shown' = DOMAIN shown \union DOMAIN request.rows /\ Excuse(new)
  BY <1>1, <1>2, OlderIs DEF Basics
<1>4. Named(new, "back") = late \intersect hidden /\ Named(new, "lost") = {}
  BY <1>2 DEF Named
<1>5. /\ excuse'.lost = (excuse.lost \union {}) \ DOMAIN shown'
      /\ excuse'.back = (excuse.back \union (late \intersect hidden)) \intersect (DOMAIN shown' \union DOMAIN disk')
  BY <1>3, <1>4, ExcuseIs
<1>6. Hiding = {} /\ Hiding' = {} /\ ~Deleting' /\ hidden' = hidden
  BY <1>3 DEF Hiding, Deleting, NoRequest, OlderArrives, server
<1> QED BY <1>1, <1>3, <1>5, <1>6 DEF NothingBack

LEMMA AnsweredBack ==
  ASSUME Basics, NothingBack, DeleteAnswered
  PROVE NothingBack'
<1>1. /\ Deleting /\ request' = NoRequest /\ hidden' = hidden
      /\ IF request.step = "done" THEN Answered(request.id) ELSE PutBack
  BY DEF DeleteAnswered, Deleting, server
<1>2. Hiding' = {} /\ ~Deleting'
  BY <1>1 DEF Hiding, Deleting, NoRequest
<1>3. CASE request.step = "done" /\ request.kind = "hide"
  <2>1. RemoveMessage(request.id) /\ NoExcuse
    BY <1>1, <1>3 DEF DeleteAnswered, Answered
  <2>2. /\ DOMAIN shown' = DOMAIN shown \ {request.id} /\ DOMAIN disk' = DOMAIN disk \ {request.id}
        /\ DOMAIN queue' = DOMAIN queue \ {request.id}
        /\ \A x \in DOMAIN queue \ {request.id} : queue'[x] = queue[x]
    BY <2>1, RemoveMessageIs DEF Basics, TimelineTypeOK, ListsOK
  <2>3. ExcuseStays
    BY <2>1, ExcuseGrows DEF NoExcuse
  <2>4. Hiding = {request.id} /\ request.id \in hidden
    BY <1>3 DEF Hiding, Basics, RequestOK
  <2> QED BY <1>1, <1>2, <2>2, <2>3, <2>4 DEF NothingBack, ExcuseStays
<1>4. CASE request.step = "done" /\ request.kind # "hide"
  <2>1. Update(Changed(request.id, Blank(shown[request.id]))) /\ NoExcuse
    BY <1>1, <1>4 DEF DeleteAnswered, Answered
  <2>2. disk' = disk /\ DOMAIN shown' = DOMAIN shown /\ QueueGrows
    BY <2>1, DeletedIs DEF Basics, TimelineTypeOK
  <2>3. ExcuseStays
    BY <2>1, ExcuseGrows DEF NoExcuse
  <2>4. RequestStays
    BY <1>1, <1>4, OtherRequest DEF NoRequest
  <2> QED BY <1>1, <2>2, <2>3, <2>4, NothingMoves
<1>5. CASE request.step # "done"
  <2>1. PICK was : was = DOMAIN request.before
    OBVIOUS
  <2>2. PICK new : new = [lost |-> DOMAIN shown \ was, text |-> was, erased |-> was, status |-> was,
                          back |-> was \intersect hidden]
    OBVIOUS
  <2>3. PutBack /\ Excuse(new)
    BY <1>1, <1>5, <2>1, <2>2 DEF DeleteAnswered
  <2>4. Named(new, "lost") = DOMAIN shown \ was /\ Named(new, "back") = was \intersect hidden
    BY <2>2 DEF Named
  <2>5. DOMAIN shown' = was /\ disk' = disk /\ queue' = queue
    BY <2>1, <2>3 DEF PutBack
  <2>6. /\ excuse'.lost = (excuse.lost \union (DOMAIN shown \ was)) \ was
        /\ excuse'.back = (excuse.back \union (was \intersect hidden)) \intersect (was \union DOMAIN disk)
    BY <2>3, <2>4, <2>5, ExcuseIs
  <2>7. Hiding \subseteq was
    BY <2>1 DEF Hiding, Basics, RequestOK
  <2> QED BY <1>1, <1>2, <2>1, <2>5, <2>6, <2>7 DEF NothingBack
<1> QED BY <1>3, <1>4, <1>5

LEMMA HistoryLoses ==
  ASSUME Basics, HistoriesOK, NEW frame \in Frames, frame \in held \union Range(toPhone),
         frame.kind = "history", OnHistory(frame),
         NEW x \in DOMAIN shown, x \notin DOMAIN shown', x \notin hidden
  PROVE x \in excuse'.lost
<1>1. PICK dropped, rows, saved : /\ dropped = {m \in DOMAIN shown \ DOMAIN shown' : shown[m].status # "sending"}
                                  /\ rows = DOMAIN frame.rows /\ saved = frame.saved
  OBVIOUS
<1>2. PICK lost : lost = IF rows = {} THEN dropped ELSE dropped \ saved
  OBVIOUS
<1>3. PICK new : new = [lost |-> lost, text |-> rows \ DOMAIN shown,
                        erased |-> {m \in rows : ~frame.rows[m].erased},
                        status |-> rows, back |-> rows \intersect hidden]
  OBVIOUS
<1>4. frame.rows \in Lists /\ Reconcile(frame.rows) /\ Excuse(new)
  BY <1>1, <1>2, <1>3, FrameKinds, HistoryIs DEF Basics
<1>5. Named(new, "lost") = lost
  BY <1>3 DEF Named
<1>6. excuse'.lost = (excuse.lost \union lost) \ DOMAIN shown'
  BY <1>4, <1>5, ExcuseIs
<1>7. DOMAIN shown' = rows \union Beside(shown, frame.rows)
  BY <1>1, <1>4, ReconcileIs DEF Basics, TimelineTypeOK, ListsOK
<1>8. x \notin rows /\ x \notin Beside(shown, frame.rows)
  BY <1>7
<1>9. shown[x].status # "sending" /\ ~(rows # {} /\ \A w \in rows : Before(x, w))
  BY <1>1, <1>8 DEF Beside
<1>10. x \in dropped
  BY <1>1, <1>9
<1>11. \A m \in saved \ hidden : m \in rows \/ \A w \in rows : Before(m, w)
  BY <1>1 DEF HistoriesOK, HistoryOK
<1>12. x \in lost
  BY <1>2, <1>8, <1>9, <1>10, <1>11
<1> QED BY <1>6, <1>12

LEMMA HistoryBack ==
  ASSUME Basics, HistoriesOK, NothingBack, NEW frame \in Frames, frame \in held \union Range(toPhone),
         frame.kind = "history", OnHistory(frame)
  PROVE NothingBack'
<1>1. PICK dropped, rows, saved : /\ dropped = {m \in DOMAIN shown \ DOMAIN shown' : shown[m].status # "sending"}
                                  /\ rows = DOMAIN frame.rows /\ saved = frame.saved
  OBVIOUS
<1>2. PICK lost : lost = IF rows = {} THEN dropped ELSE dropped \ saved
  OBVIOUS
<1>3. PICK new : new = [lost |-> lost, text |-> rows \ DOMAIN shown,
                        erased |-> {m \in rows : ~frame.rows[m].erased},
                        status |-> rows, back |-> rows \intersect hidden]
  OBVIOUS
<1>4. frame.rows \in Lists /\ Reconcile(frame.rows) /\ Excuse(new)
  BY <1>1, <1>2, <1>3, FrameKinds, HistoryIs DEF Basics
<1>5. hidden' = hidden /\ request' = request
  BY DEF OnHistory, server
<1>6. Named(new, "lost") = lost /\ Named(new, "back") = rows \intersect hidden
  BY <1>3 DEF Named
<1>7. /\ excuse'.lost = (excuse.lost \union lost) \ DOMAIN shown'
      /\ excuse'.back = (excuse.back \union (rows \intersect hidden)) \intersect (DOMAIN shown' \union DOMAIN disk')
  BY <1>4, <1>6, ExcuseIs
<1>8. /\ DOMAIN shown' = rows \union Beside(shown, frame.rows)
      /\ DOMAIN disk' = DOMAIN shown' \union Beside(disk, frame.rows)
      /\ DOMAIN queue' = DOMAIN queue \intersect (rows \union Beside(queue, frame.rows))
      /\ \A m \in DOMAIN queue' : queue'[m] = queue[m]
  BY <1>1, <1>4, ReconcileIs DEF Basics, TimelineTypeOK, ListsOK
<1>9. Hiding' = Hiding
  BY <1>5 DEF Hiding
<1>11. \A list : Beside(list, frame.rows) \subseteq DOMAIN list
  BY DEF Beside
<1>12. \A x \in DOMAIN shown : x \in DOMAIN shown' \/ x \in hidden \/ x \in excuse'.lost
  BY HistoryLoses
<1>13. DOMAIN disk' \union DOMAIN queue' \subseteq DOMAIN shown' \union excuse'.lost \union hidden' \union Hiding'
  <2>1. DOMAIN disk' \subseteq DOMAIN shown' \union DOMAIN disk /\ DOMAIN queue' \subseteq DOMAIN queue
    BY <1>8, <1>11
  <2> QED BY <1>5, <1>7, <1>9, <1>12, <2>1 DEF NothingBack
<1>14. (DOMAIN disk' \union DOMAIN shown') \intersect hidden' \subseteq excuse'.back \union Hiding'
  BY <1>5, <1>7, <1>8, <1>9, <1>11 DEF NothingBack
<1>15. DOMAIN queue' \intersect hidden' \subseteq DOMAIN shown' \union DOMAIN disk' \union Hiding'
  <2> SUFFICES ASSUME NEW x \in DOMAIN queue', x \in hidden, x \notin rows
               PROVE x \in DOMAIN shown' \union DOMAIN disk' \union Hiding
    BY <1>5, <1>8, <1>9
  <2>1. x \in DOMAIN queue /\ queue[x].status # "sending" /\ x \in Beside(queue, frame.rows)
    BY <1>8 DEF NothingBack
  <2>2. rows # {} /\ \A w \in rows : Before(x, w)
    BY <1>1, <2>1 DEF Beside
  <2>3. \A list : x \in DOMAIN list => x \in Beside(list, frame.rows)
    BY <1>1, <2>2 DEF Beside
  <2>4. x \in DOMAIN shown \union DOMAIN disk \union Hiding
    BY <2>1 DEF NothingBack
  <2> QED BY <1>8, <2>3, <2>4
<1>16. Deleting' => DOMAIN shown' \intersect hidden' \subseteq DOMAIN request'.before \union DOMAIN disk'
  BY <1>8
<1>17. \A m \in DOMAIN queue' : queue'[m].status # "sending"
  BY <1>8 DEF NothingBack
<1> QED BY <1>13, <1>14, <1>15, <1>16, <1>17 DEF NothingBack

LEMMA ListensBack ==
  ASSUME Basics, HistoriesOK, NothingBack, Listens
  PROVE NothingBack'
<1>1. CASE Waits
  <2>1. UNCHANGED <<shown, disk, queue, hidden, request, excuse>>
    BY <1>1 DEF Waits, phone, server
  <2> QED BY <2>1, ExcuseGrows, SameRequest, NothingMoves
<1>2. ASSUME NEW frame \in Frames, Runs(frame), Handle(frame) PROVE NothingBack'
  <2>1. frame \in held \union Range(toPhone)
    BY <1>2, TailIs DEF Runs, Basics, TimelineTypeOK, WireOK
  <2>2. hidden' = hidden /\ request' = request
    BY <1>2, Handles DEF server
  <2>3. RequestStays
    BY <2>2, SameRequest
  <2>4. CASE frame.kind = "history" /\ OnHistory(frame)
    BY <2>1, <2>4, HistoryBack
  <2>5. CASE frame.kind = "message" /\ OnMessage(frame)
    <3>1. PICK new : new = [text |-> Late(frame.id), erased |-> Late(frame.id), back |-> {frame.id} \intersect hidden]
      OBVIOUS
    <3>2. AppendMessage(frame.id) /\ Excuse(new) /\ frame.id \in Messages
      BY <2>5, <3>1, FrameKinds, Members DEF OnMessage
    <3>3. Named(new, "back") = {frame.id} \intersect hidden /\ Named(new, "lost") = {}
      BY <3>1 DEF Named
    <3>4. /\ excuse'.lost = (excuse.lost \union {}) \ DOMAIN shown'
          /\ excuse'.back = (excuse.back \union ({frame.id} \intersect hidden))
                            \intersect (DOMAIN shown' \union DOMAIN disk')
      BY <3>2, <3>3, ExcuseIs
    <3>5. queue' = queue /\ DOMAIN shown' = DOMAIN shown \union {frame.id} /\ DOMAIN disk' = DOMAIN disk \union {frame.id}
      BY <3>2, AppendMessageIs DEF Basics, TimelineTypeOK, ListsOK
    <3>6. Hiding' = Hiding
      BY <2>2 DEF Hiding
    <3>7. Deleting' = Deleting
      BY <2>2 DEF Deleting
    <3> QED BY <2>2, <3>4, <3>5, <3>6, <3>7 DEF NothingBack
  <2>6. CASE frame.kind = "edit" /\ OnEdited(frame)
    <3>1. disk' = disk /\ DOMAIN shown' = DOMAIN shown /\ QueueGrows
      BY <2>6, EditedIs DEF Basics, TimelineTypeOK
    <3>2. ExcuseStays
      BY <2>6, ExcuseGrows DEF OnEdited
    <3> QED BY <2>2, <2>3, <3>1, <3>2, NothingMoves
  <2>7. CASE frame.kind = "erase" /\ OnDeleted(frame)
    <3>1. disk' = disk /\ DOMAIN shown' = DOMAIN shown /\ QueueGrows
      BY <2>7, DeletedIs DEF Basics, TimelineTypeOK, OnDeleted
    <3>2. ExcuseStays
      BY <2>7, ExcuseGrows DEF OnDeleted
    <3> QED BY <2>2, <2>3, <3>1, <3>2, NothingMoves
  <2>8. CASE frame.kind = "receipt" /\ OnReceipt(frame)
    <3>1. disk' = disk /\ DOMAIN shown' = DOMAIN shown /\ QueueGrows
      BY <2>8, FrameKinds, ReceiptIs DEF Basics, TimelineTypeOK
    <3>2. ExcuseStays
      BY <2>8, ExcuseGrows DEF OnReceipt
    <3> QED BY <2>2, <2>3, <3>1, <3>2, NothingMoves
  <2>9. CASE frame.kind = "ack" /\ OnAck(frame)
    <3>1. disk' = disk /\ DOMAIN shown' = DOMAIN shown /\ QueueGrows
      BY <2>9, AckedIs DEF Basics, TimelineTypeOK
    <3>2. ExcuseStays
      BY <2>9, ExcuseGrows DEF OnAck
    <3> QED BY <2>2, <2>3, <3>1, <3>2, NothingMoves
  <2> QED BY <1>2, <2>4, <2>5, <2>6, <2>7, <2>8, <2>9, Handles
<1> QED BY <1>1, <1>2, Listening DEF Basics, TimelineTypeOK

LEMMA ServeBack ==
  ASSUME Basics, NothingBack, NEW answer \in {"done", "failed"}, Serve(answer)
  PROVE NothingBack'
<1>1. /\ request.kind = "edit" => request' = NoRequest
      /\ request.kind # "edit" => /\ request'.kind = request.kind /\ request'.id = request.id
                                  /\ request'.before = request.before
  BY FinishType DEF Serve, Basics
<1>2. Hiding' = Hiding /\ RequestStays
  BY <1>1 DEF Hiding, RequestStays, Deleting, NoRequest
<1>3. CASE request.kind = "hide"
  <2>1. hidden' = hidden \union {request.id} /\ UNCHANGED <<shown, disk, queue, excuse>>
    BY <1>3 DEF Serve, phone
  <2>2. Hiding = {request.id} /\ request.id \in DOMAIN request.before /\ Deleting
    BY <1>3 DEF Hiding, Deleting, Basics, RequestOK
  <2> QED BY <1>1, <1>2, <1>3, <2>1, <2>2 DEF NothingBack
<1>4. CASE request.kind # "hide"
  <2>1. hidden' = hidden /\ UNCHANGED <<shown, disk, queue>> /\ \E new : Excuse(new)
    BY <1>4 DEF Serve, ChangeRow, phone
  <2> QED BY <1>2, <2>1, ExcuseGrows, NothingMoves
<1> QED BY <1>3, <1>4

LEMMA ServerBack ==
  ASSUME Basics, NothingBack,
         \/ AskOlder \/ SocketOpens \/ Join \/ SendHistory \/ Refuse \/ Peer \/ Break
         \/ \E fails \in BOOLEAN : ReadHistory(fails) \/ AudioUploaded(fails)
         \/ \E outcome \in Outcomes, status \in Confirmations : Take(outcome, status)
  PROVE NothingBack'
<1>1. CASE AskOlder
  <2>1. UNCHANGED <<shown, disk, queue, hidden, excuse>> /\ request = NoRequest /\ request'.kind = "older"
    BY <1>1 DEF AskOlder, phone, server
  <2>2. RequestStays
    BY <2>1, OtherRequest DEF NoRequest
  <2> QED BY <2>1, <2>2, ExcuseGrows, NothingMoves
<1>2. CASE SocketOpens \/ Join \/ SendHistory
  <2>1. UNCHANGED <<shown, disk, queue, hidden, excuse, request>>
    BY <1>2 DEF SocketOpens, Join, SendHistory, phone, server
  <2> QED BY <2>1, ExcuseGrows, SameRequest, NothingMoves
<1>3. CASE Refuse
  <2>1. UNCHANGED <<shown, disk, queue, hidden, excuse>>
    BY <1>3 DEF Refuse, phone, server
  <2>2. /\ request.kind = "edit" => request' = NoRequest
        /\ request.kind # "edit" => /\ request'.kind = request.kind /\ request'.id = request.id
                                    /\ request'.before = request.before
    BY <1>3, FinishType DEF Refuse, Basics
  <2>3. RequestStays
    BY <2>2 DEF Hiding, RequestStays, Deleting, NoRequest
  <2> QED BY <2>1, <2>3, ExcuseGrows, NothingMoves
<1>4. CASE Peer
  <2>1. UNCHANGED <<shown, disk, queue, hidden, request>> /\ (excuse' = excuse \/ \E new : Excuse(new))
    BY <1>4 DEF Peer, PeerSends, PeerSaved, PeerChanges, ChangeRow, PeerReceipt, phone
  <2> QED BY <2>1, ExcuseGrows, SameRequest, NothingMoves
<1>5. CASE Break
  <2>1. UNCHANGED <<shown, disk, queue, hidden, request>> /\ \E new : Excuse(new)
    BY <1>5 DEF Break, Cut, phone
  <2> QED BY <2>1, ExcuseGrows, SameRequest, NothingMoves
<1>6. ASSUME NEW fails \in BOOLEAN, ReadHistory(fails) PROVE NothingBack'
  <2>1. UNCHANGED <<shown, disk, queue, hidden, request>> /\ \E new : Excuse(new)
    BY <1>6 DEF ReadHistory, phone
  <2> QED BY <2>1, ExcuseGrows, SameRequest, NothingMoves
<1>7. ASSUME NEW fails \in BOOLEAN, AudioUploaded(fails) PROVE NothingBack'
  <2>1. /\ DOMAIN shown' = DOMAIN shown /\ disk' = disk /\ queue' = queue
        /\ request.kind = "audio" /\ request' = NoRequest
    BY <1>7, UploadedIs DEF Basics
  <2>2. hidden' = hidden /\ \E new : Excuse(new)
    BY <1>7 DEF AudioUploaded, server
  <2>3. RequestStays
    BY <2>1, OtherRequest DEF NoRequest
  <2> QED BY <2>1, <2>2, <2>3, ExcuseGrows, NothingMoves
<1>8. ASSUME NEW outcome, NEW status, Take(outcome, status) PROVE NothingBack'
  <2>1. UNCHANGED <<shown, disk, queue, hidden, request>> /\ \E new : Excuse(new)
    BY <1>8 DEF Take, NoExcuse, phone
  <2> QED BY <2>1, ExcuseGrows, SameRequest, NothingMoves
<1> QED BY <1>1, <1>2, <1>3, <1>4, <1>5, <1>6, <1>7, <1>8

LEMMA RestartBack ==
  ASSUME Basics, NothingBack, Flush \/ StartAgain
  PROVE NothingBack'
<1>1. CASE Flush
  <2>1. shown' = shown /\ DOMAIN queue' = {} /\ DOMAIN disk' = DOMAIN queue \union DOMAIN disk
    BY <1>1, FlushIs DEF Basics, TimelineTypeOK
  <2>2. hidden' = hidden /\ request' = request /\ excuse' = excuse
    BY <1>1 DEF Flush, server
  <2>3. Hiding' = Hiding
    BY <2>2 DEF Hiding
  <2>4. Deleting' = Deleting
    BY <2>2 DEF Deleting
  <2> QED BY <2>1, <2>2, <2>3, <2>4 DEF NothingBack
<1>2. CASE StartAgain
  <2>1. shown' = disk /\ disk' = disk /\ queue' = Empty /\ request' = NoRequest /\ hidden' = hidden /\ Excuse(Restarted)
    BY <1>2, StartAgainIs DEF Cut
  <2>2. Named(Restarted, "back") = DOMAIN disk \intersect hidden
    BY DEF Named, Restarted
  <2>3. excuse'.back = (excuse.back \union (DOMAIN disk \intersect hidden)) \intersect (DOMAIN shown' \union DOMAIN disk')
    BY <2>1, <2>2, ExcuseIs
  <2>4. ~Deleting' /\ DOMAIN queue' = {}
    BY <2>1, EmptyList DEF Deleting, NoRequest
  <2> QED BY <2>1, <2>3, <2>4 DEF NothingBack
<1> QED BY <1>1, <1>2

LEMMA BackStep ==
  ASSUME Basics, HistoriesOK, NothingBack, TimelineNext
  PROVE NothingBack'
  BY StepIsAction, WriteBack, AskBack, OlderBack, AnsweredBack, ListensBack, ServeBack, ServerBack, RestartBack
     DEF Actions
--------------------------------------------------------------------------------
(* Nothing of the latest history is missing.                               *)

(* The latest history only loses rows, but for what is saved.              *)
LEMMA LatestShrinks ==
  ASSUME Basics, TimelineNext
  PROVE Latest' \intersect DOMAIN row \subseteq Latest
<1> SUFFICES ASSUME NEW m \in Latest', m \in DOMAIN row PROVE m \in Latest
  OBVIOUS
<1>1. PICK after : after = {n \in DOMAIN row' : Before(m, n)'}
  OBVIOUS
<1>2. Cardinality(after) < HistoryLimit
  BY <1>1 DEF Latest
<1>3. TimelineTypeOK' /\ OrderOK'
  BY BasicsStep DEF Basics
<1>4. IsFiniteSet(Known')
  BY <1>3, FiniteRange DEF TimelineTypeOK, ServerOK, Known
<1>5. after \subseteq Known'
  BY <1>1, <1>3 DEF OrderOK
<1>6. IsFiniteSet(after) /\ Cardinality(after) \in Nat
  BY <1>4, <1>5, FS_Subset, FS_CardinalityType
<1>7. Newer(m) \subseteq after
  BY <1>1, RowsStay, OrderStays DEF Basics, Newer
<1>8. Cardinality(Newer(m)) <= Cardinality(after)
  BY <1>6, <1>7, FS_Subset
<1>9. Cardinality(Newer(m)) \in Nat /\ (m \in Latest <=> Cardinality(Newer(m)) < HistoryLimit)
  BY LatestIs DEF Basics
<1>10. HistoryLimit \in Nat
  BY TimelineAssumption DEF TimelineAssumption
<1>11. PICK a, b : a = Cardinality(Newer(m)) /\ b = Cardinality(after)
  OBVIOUS
<1>12. a \in Nat /\ b \in Nat /\ a <= b /\ b < HistoryLimit
  BY <1>2, <1>6, <1>8, <1>9, <1>11
<1>13. a < HistoryLimit
  BY <1>10, <1>12
<1> QED BY <1>9, <1>11, <1>13

(* Every message is on the screen, was taken off it by something named, or *)
(* is in a history or a frame that is still to come.                       *)
Here(m) == m \in DOMAIN shown \union excuse.lost \union Hiding
Brings(f, m) == (f.kind = "history" /\ m \in DOMAIN f.rows) \/ (f.kind = "message" /\ f.id = m)
OnItsWay(m) ==
  \/ ~inRoom \/ joining.step = "joined"
  \/ joining.step = "read" /\ m \in DOMAIN joining.rows
  \/ \E f \in held \union Range(toPhone) : Brings(f, m)
NothingMissing ==
  /\ \A m \in Unsent : Here(m)
  /\ \A m \in (Latest \union saving) \ hidden : Here(m) \/ OnItsWay(m)

LEMMA StillHere ==
  ASSUME NEW m, Here(m), ExcuseStays, DOMAIN shown \subseteq DOMAIN shown', Hiding \subseteq Hiding'
  PROVE Here(m)'
  BY DEF Here, ExcuseStays

LEMMA HereStays ==
  ASSUME Basics, HistoriesOK, TimelineNext, ~StartAgain, NEW m, Here(m), m \notin hidden'
  PROVE Here(m)'
<1>h. m \notin hidden
  BY RowsStay DEF Basics
<1>1. ASSUME NEW n \in Mine, Send(n) \/ SendAudio(n) PROVE Here(m)'
  <2>1. DOMAIN shown \subseteq DOMAIN shown' /\ excuse' = excuse
    <3>1. PICK g : shown' = Over(shown, g)
      BY <1>1 DEF Send, SendAudio
    <3>2. DOMAIN Over(shown, g) = DOMAIN shown \union DOMAIN g
      BY OverIs
    <3> QED BY <1>1, <3>1, <3>2 DEF Send, SendAudio
  <2>2. Hiding \subseteq Hiding'
    <3>1. Send(n) => request' = request
      BY DEF Send
    <3>2. SendAudio(n) => request = NoRequest
      BY DEF SendAudio
    <3> QED BY <1>1, <3>1, <3>2 DEF Hiding, NoRequest
  <2> QED BY <2>1, <2>2, StillHere, ExcuseGrows
<1>2. ASSUME NEW n \in Messages, NEW kind \in {"hide", "erase", "edit"}, Ask(n, kind) PROVE Here(m)'
  <2>1. /\ request = NoRequest /\ request' = [kind |-> kind, id |-> n, step |-> "asked", before |-> shown]
        /\ DOMAIN shown' = IF kind = "hide" THEN DOMAIN shown \ {n} ELSE DOMAIN shown
        /\ \E new : Excuse(new)
    BY <1>2, AskIs DEF Basics
  <2>2. Hiding = {} /\ Hiding' = IF kind = "hide" THEN {n} ELSE {}
    BY <2>1 DEF Hiding, NoRequest
  <2> QED BY <2>1, <2>2, ExcuseGrows DEF Here, ExcuseStays
<1>3. CASE OlderArrives
  <2>1. request.kind = "older" /\ DOMAIN shown \subseteq DOMAIN shown' /\ \E new : Excuse(new)
    BY <1>3, OlderIs DEF Basics, OlderArrives
  <2>2. Hiding = {}
    BY <2>1 DEF Hiding
  <2> QED BY <2>1, <2>2, StillHere, ExcuseGrows
<1>4. CASE DeleteAnswered
  <2>1. request.kind \in {"hide", "erase"} /\ request' = NoRequest
    BY <1>4 DEF DeleteAnswered
  <2>2. CASE request.step = "done" /\ request.kind = "hide"
    <3>1. RemoveMessage(request.id) /\ NoExcuse
      BY <1>4, <2>2 DEF DeleteAnswered, Answered
    <3>2. DOMAIN shown' = DOMAIN shown \ {request.id}
      BY <3>1, RemoveMessageIs DEF Basics, TimelineTypeOK, ListsOK
    <3>3. Hiding = {request.id} /\ request.id \in hidden
      BY <2>2 DEF Hiding, Basics, RequestOK
    <3>4. ExcuseStays
      BY <3>1, ExcuseGrows DEF NoExcuse
    <3> QED BY <1>h, <3>2, <3>3, <3>4 DEF Here, ExcuseStays
  <2>3. CASE request.step = "done" /\ request.kind = "erase"
    <3>1. Update(Changed(request.id, Blank(shown[request.id]))) /\ NoExcuse
      BY <1>4, <2>3 DEF DeleteAnswered, Answered
    <3>2. DOMAIN shown' = DOMAIN shown
      BY <3>1, DeletedIs DEF Basics, TimelineTypeOK
    <3>3. Hiding = {}
      BY <2>3 DEF Hiding
    <3> QED BY <3>1, <3>2, <3>3, StillHere, ExcuseGrows DEF NoExcuse
  <2>4. CASE request.step # "done"
    <3>1. PICK was : was = DOMAIN request.before
      OBVIOUS
    <3>2. PICK new : new = [lost |-> DOMAIN shown \ was, text |-> was, erased |-> was, status |-> was,
                            back |-> was \intersect hidden]
      OBVIOUS
    <3>3. shown' = request.before /\ Excuse(new)
      BY <1>4, <2>4, <3>1, <3>2 DEF DeleteAnswered, PutBack
    <3>4. Named(new, "lost") = DOMAIN shown \ was
      BY <3>2 DEF Named
    <3>5. excuse'.lost = (excuse.lost \union (DOMAIN shown \ was)) \ was
      BY <3>1, <3>3, <3>4, ExcuseIs
    <3>6. Hiding \subseteq was
      BY <3>1 DEF Hiding, Basics, RequestOK
    <3> QED BY <3>1, <3>3, <3>5, <3>6 DEF Here
  <2> QED BY <2>1, <2>2, <2>3, <2>4
<1>5. CASE Listens
  <2>1. request' = request
    BY <1>5, Listening, Handles DEF Waits, Basics, TimelineTypeOK
  <2>2. Hiding' = Hiding
    BY <2>1 DEF Hiding
  <2>3. CASE Waits
    BY <2>2, <2>3, StillHere, ExcuseGrows DEF Waits, phone
  <2>4. ASSUME NEW frame \in Frames, Runs(frame), Handle(frame) PROVE Here(m)'
    <3>1. frame \in held \union Range(toPhone)
      BY <2>4, TailIs DEF Runs, Basics, TimelineTypeOK, WireOK
    <3>2. \E new : Excuse(new)
      BY <2>4, Handles DEF OnHistory, OnMessage, OnEdited, OnDeleted, OnReceipt, OnAck
    <3>3. CASE frame.kind = "history" /\ OnHistory(frame)
      <4>1. m \in DOMAIN shown => m \in DOMAIN shown' \union excuse'.lost
        BY <1>h, <3>1, <3>3, HistoryLoses
      <4> QED BY <2>2, <3>2, <4>1, ExcuseGrows DEF Here, ExcuseStays
    <3>4. CASE frame.kind = "message" /\ OnMessage(frame)
      <4>1. AppendMessage(frame.id) /\ frame.id \in Messages
        BY <3>4, FrameKinds, Members DEF OnMessage
      <4>2. DOMAIN shown \subseteq DOMAIN shown'
        BY <4>1, AppendMessageIs DEF Basics, TimelineTypeOK, ListsOK
      <4> QED BY <2>2, <3>2, <4>2, StillHere, ExcuseGrows
    <3>5. CASE frame.kind = "edit" /\ OnEdited(frame)
      <4>1. DOMAIN shown' = DOMAIN shown
        BY <3>5, EditedIs DEF Basics, TimelineTypeOK
      <4> QED BY <2>2, <3>2, <4>1, StillHere, ExcuseGrows
    <3>6. CASE frame.kind = "erase" /\ OnDeleted(frame)
      <4>1. DOMAIN shown' = DOMAIN shown
        BY <3>6, DeletedIs DEF Basics, TimelineTypeOK, OnDeleted
      <4> QED BY <2>2, <3>2, <4>1, StillHere, ExcuseGrows
    <3>7. CASE frame.kind = "receipt" /\ OnReceipt(frame)
      <4>1. DOMAIN shown' = DOMAIN shown
        BY <3>7, FrameKinds, ReceiptIs DEF Basics, TimelineTypeOK
      <4> QED BY <2>2, <3>2, <4>1, StillHere, ExcuseGrows
    <3>8. CASE frame.kind = "ack" /\ OnAck(frame)
      <4>1. DOMAIN shown' = DOMAIN shown
        BY <3>8, AckedIs DEF Basics, TimelineTypeOK
      <4> QED BY <2>2, <3>2, <4>1, StillHere, ExcuseGrows
    <3> QED BY <2>4, <3>3, <3>4, <3>5, <3>6, <3>7, <3>8, Handles
  <2> QED BY <1>5, <2>3, <2>4, Listening DEF Basics, TimelineTypeOK
<1>6. ASSUME NEW answer \in {"done", "failed"}, Finish(answer), Asked PROVE Hiding' = Hiding
  <2>1. /\ request.kind = "edit" => request' = NoRequest
        /\ request.kind # "edit" => request'.kind = request.kind /\ request'.id = request.id
    BY <1>6, FinishType DEF Basics
  <2> QED BY <2>1 DEF Hiding, NoRequest
<1>7. ASSUME NEW answer \in {"done", "failed"}, Serve(answer) PROVE Here(m)'
  <2>1. Hiding' = Hiding
    BY <1>6, <1>7 DEF Serve
  <2>2. shown' = shown /\ (excuse' = excuse \/ \E new : Excuse(new))
    BY <1>7 DEF Serve, ChangeRow, phone
  <2> QED BY <2>1, <2>2, StillHere, ExcuseGrows
<1>8. CASE Refuse
  <2>1. Hiding' = Hiding
    BY <1>6, <1>8 DEF Refuse
  <2>2. shown' = shown /\ excuse' = excuse
    BY <1>8 DEF Refuse, phone
  <2> QED BY <2>1, <2>2, StillHere, ExcuseGrows
<1>9. CASE Peer \/ Break
  <2>1. shown' = shown /\ request' = request /\ (excuse' = excuse \/ \E new : Excuse(new))
    BY <1>9 DEF Peer, PeerSends, PeerSaved, PeerChanges, ChangeRow, PeerReceipt, Break, phone
  <2>2. Hiding' = Hiding
    BY <2>1 DEF Hiding
  <2> QED BY <2>1, <2>2, StillHere, ExcuseGrows
<1>10. CASE AskOlder
  <2>1. shown' = shown /\ request = NoRequest /\ excuse' = excuse
    BY <1>10 DEF AskOlder, phone
  <2>2. Hiding = {}
    BY <2>1 DEF Hiding, NoRequest
  <2> QED BY <2>1, <2>2, StillHere, ExcuseGrows
<1>11. ASSUME NEW fails \in BOOLEAN, AudioUploaded(fails) PROVE Here(m)'
  <2>1. DOMAIN shown' = DOMAIN shown /\ request.kind = "audio" /\ \E new : Excuse(new)
    BY <1>11, UploadedIs DEF Basics, AudioUploaded
  <2>2. Hiding = {}
    BY <2>1 DEF Hiding
  <2> QED BY <2>1, <2>2, StillHere, ExcuseGrows
<1>12. ASSUME shown' = shown, request' = request, excuse' = excuse \/ \E new : Excuse(new) PROVE Here(m)'
  <2>1. Hiding' = Hiding
    BY <1>12 DEF Hiding
  <2> QED BY <1>12, <2>1, StillHere, ExcuseGrows
<1>13. /\ Flush \/ SocketOpens \/ Join \/ SendHistory => shown' = shown /\ request' = request /\ excuse' = excuse
       /\ \A fails : ReadHistory(fails) => shown' = shown /\ request' = request /\ \E new : Excuse(new)
       /\ \A outcome, status : Take(outcome, status) => shown' = shown /\ request' = request /\ \E new : Excuse(new)
  BY DEF Flush, SocketOpens, Join, SendHistory, ReadHistory, Take, NoExcuse, phone
<1> QED BY StepIsAction, <1>1, <1>2, <1>3, <1>4, <1>5, <1>7, <1>8, <1>9, <1>10, <1>11, <1>12, <1>13 DEF Actions

LEMMA RestartSendsNothing ==
  ASSUME StartAgain
  PROVE Unsent' = {}
<1>1. toServer' = <<>> /\ request' = NoRequest
  BY StartAgainIs DEF Cut
<1> QED BY <1>1 DEF Unsent, OnWire, Recording, Range, NoRequest

LEMMA UnsentCauses ==
  ASSUME Basics, TimelineNext, NEW m \in Unsent', m \notin Unsent
  PROVE \E n \in Mine : Send(n) \/ SendAudio(n)
<1>1. m \in Known' /\ m \notin Known
  BY WireStep
<1>2. order' # order
  BY <1>1 DEF Known
<1>3. Unsent' \subseteq Mine
  BY TypeStep, RequestKinds DEF Unsent, OnWire, Recording, Basics, TimelineTypeOK, AskedOK
<1>4. \A n \in Theirs : ~PeerSends(n)
  <2> SUFFICES ASSUME NEW n \in Theirs, PeerSends(n) PROVE FALSE
    OBVIOUS
  <2>1. order' = Append(order, n) /\ n \in Messages \ Known
    BY Members DEF PeerSends, Known
  <2>2. Known' = Known \union {n}
    BY <2>1, OrderAppended DEF Basics, OrderOK, TimelineTypeOK, ServerOK
  <2> QED BY <1>1, <1>3, <2>2, TwoSenders
<1> QED BY <1>2, <1>4, Writers DEF Basics

(* A frame that brings a message stays under way until it is handled.      *)
LEMMA BringsStays ==
  ASSUME Basics, TimelineNext, inRoom', NEW f \in held \union Range(toPhone)
  PROVE f \in held' \union Range(toPhone') \/ (f \in Frames /\ Handle(f))
<1>w. toPhone \in Seq(Frames)
  BY DEF Basics, TimelineTypeOK, WireOK
<1>1. CASE Listens
  <2>1. CASE Waits
    <3>1. Range(toPhone) = {Head(toPhone)} \union Range(Tail(toPhone))
      BY <1>w, <2>1, TailIs DEF Waits
    <3> QED BY <2>1, <3>1 DEF Waits
  <2>2. ASSUME NEW frame \in Frames, Runs(frame), Handle(frame)
        PROVE f = frame \/ f \in held' \union Range(toPhone')
    <3>1. CASE toPhone # <<>> /\ frame = Head(toPhone) /\ toPhone' = Tail(toPhone) /\ held' = held
      <4>1. Range(toPhone) = {frame} \union Range(Tail(toPhone))
        BY <1>w, <3>1, TailIs
      <4> QED BY <3>1, <4>1
    <3>2. CASE frame \in held /\ held' = held \ {frame} /\ toPhone' = toPhone
      BY <3>2
    <3> QED BY <2>2, <3>1, <3>2 DEF Runs
  <2> QED BY <1>1, <2>1, <2>2, Listening DEF Basics, TimelineTypeOK
<1>2. CASE ~Listens
  <2>1. ~StartAgain /\ ~Cut
    BY DEF StartAgain, Cut
  <2>2. held' = held
    BY <1>2, <2>1, HeldFrames DEF Basics
  <2>3. ASSUME NEW g \in Frames, toPhone' = Append(toPhone, g) PROVE Range(toPhone) \subseteq Range(toPhone')
    <3>1. Range(Append(toPhone, g)) = Range(toPhone) \union {g}
      BY <1>w, AppendIs
    <3> QED BY <2>3, <3>1
  <2>4. ASSUME NEW outcome \in Outcomes, NEW status \in Confirmations, Take(outcome, status)
        PROVE Range(toPhone) \subseteq Range(toPhone')
    <3>0. PICK m \in Mine :
            LET receipt == [kind |-> "receipt", req |-> {m}, status |-> status]
                ack == [kind |-> "ack", id |-> m]
            IN /\ receipt \in Frames /\ ack \in Frames
               /\ toPhone' = IF outcome = "rejected" THEN Append(toPhone, ack) ELSE Append(Append(toPhone, receipt), ack)
      BY <2>4, TakeIs DEF Basics
    <3>1. PICK receipt \in Frames, ack \in Frames :
            toPhone' = Append(toPhone, ack) \/ toPhone' = Append(Append(toPhone, receipt), ack)
      BY <3>0
    <3>2. PICK mid : mid = Append(toPhone, receipt)
      OBVIOUS
    <3>3. mid \in Seq(Frames) /\ Range(mid) = Range(toPhone) \union {receipt}
      BY <1>w, <3>2, AppendIs
    <3>4. Range(Append(mid, ack)) = Range(mid) \union {ack}
      BY <3>3, AppendIs
    <3>5. CASE toPhone' = Append(mid, ack)
      <4>1. Range(toPhone') = Range(mid) \union {ack}
        BY <3>4, <3>5
      <4> QED BY <3>3, <4>1
    <3> QED BY <2>3, <3>1, <3>2, <3>5
  <2>5. ASSUME joining.step = "read", SendHistory PROVE Range(toPhone) \subseteq Range(toPhone')
    <3>1. PICK g : g = [kind |-> "history", rows |-> joining.rows, saved |-> joining.saved]
      OBVIOUS
    <3>2. g \in Frames /\ toPhone' = Append(toPhone, g)
      BY <2>5, <3>1, JoiningKinds DEF SendHistory, Frames, Histories, Basics, TimelineTypeOK, ServerOK
    <3> QED BY <2>3, <3>2
  <2>6. Range(toPhone) \subseteq Range(toPhone')
    BY <1>2, <2>1, <2>3, <2>4, <2>5, PhoneWire DEF Basics
  <2> QED BY <2>2, <2>6
<1> QED BY <1>1, <1>2

LEMMA HandledIsHere ==
  ASSUME Basics, NEW f \in Frames, Handle(f), NEW m, Brings(f, m)
  PROVE Here(m)'
<1>1. CASE f.kind = "history" /\ OnHistory(f)
  <2>1. DOMAIN shown' = DOMAIN f.rows \union Beside(shown, f.rows)
    BY <1>1, FrameKinds, HistoryIs, ReconcileIs DEF Basics, TimelineTypeOK, ListsOK
  <2> QED BY <1>1, <2>1 DEF Brings, Here
<1>2. CASE f.kind = "message" /\ OnMessage(f)
  <2>1. AppendMessage(f.id) /\ f.id \in Messages
    BY <1>2, FrameKinds, Members DEF OnMessage
  <2>2. DOMAIN shown' = DOMAIN shown \union {f.id}
    BY <2>1, AppendMessageIs DEF Basics, TimelineTypeOK, ListsOK
  <2> QED BY <1>2, <2>2 DEF Brings, Here
<1> QED BY <1>1, <1>2, Handles DEF Brings

LEMMA WayStays ==
  ASSUME Basics, HistoriesOK, TimelineNext, NEW m \in (Latest \union saving) \ hidden, OnItsWay(m)
  PROVE Here(m)' \/ OnItsWay(m)'
<1> SUFFICES ASSUME inRoom' PROVE Here(m)' \/ OnItsWay(m)'
  BY DEF OnItsWay
<1>1. CASE ~inRoom
  <2>1. Join \/ joining.step \in {"joined", "read"} \/ SocketOpens
    BY <1>1, RoomCauses DEF Basics, Cut
  <2>2. Join
    BY <1>1, <2>1 DEF Basics, Connected, SocketOpens, server
  <2> QED BY <2>2 DEF Join, OnItsWay
<1>2. ASSUME joining.step = "joined", inRoom PROVE Here(m)' \/ OnItsWay(m)'
  <2>1. ASSUME NEW fails \in BOOLEAN, ReadHistory(fails) PROVE Here(m)' \/ OnItsWay(m)'
    <3>1. PICK unread : unread = saving \union (IF fails THEN DOMAIN row ELSE {})
      OBVIOUS
    <3>2. PICK new : new = [lost |-> unread]
      OBVIOUS
    <3>3. Excuse(new) /\ joining'.step = "read"
      BY <2>1, <3>1, <3>2 DEF ReadHistory
    <3>4. Named(new, "lost") = unread
      BY <3>2 DEF Named
    <3>5. excuse'.lost = (excuse.lost \union unread) \ DOMAIN shown'
      BY <3>3, <3>4, ExcuseIs
    <3>6. m \in unread => Here(m)'
      BY <3>5 DEF Here
    <3>7. CASE ~fails /\ m \in Latest
      <4>1. joining'.rows = Restrict(row, Latest \ hidden)
        BY <2>1, <3>7, ReadIsOK DEF Basics
      <4>2. m \in DOMAIN joining'.rows
        BY <3>7, <4>1, RestrictIs
      <4> QED BY <3>3, <4>2 DEF OnItsWay
    <3> QED BY <3>1, <3>6, <3>7 DEF Latest
  <2>2. joining' = joining \/ Cut \/ \E fails \in BOOLEAN : ReadHistory(fails)
    BY <1>2, JoiningSteps DEF Basics
  <2> QED BY <1>2, <2>1, <2>2 DEF OnItsWay, Cut
<1>3. ASSUME joining.step = "read", m \in DOMAIN joining.rows PROVE Here(m)' \/ OnItsWay(m)'
  <2>1. CASE SendHistory
    <3>1. PICK g : g = [kind |-> "history", rows |-> joining.rows, saved |-> joining.saved]
      OBVIOUS
    <3>2. g \in Frames /\ toPhone' = Append(toPhone, g)
      BY <1>3, <2>1, <3>1, JoiningKinds DEF SendHistory, Frames, Histories, Basics, TimelineTypeOK, ServerOK
    <3>3. Range(Append(toPhone, g)) = Range(toPhone) \union {g}
      BY <3>2, AppendIs DEF Basics, TimelineTypeOK, WireOK
    <3>4. g \in Range(toPhone') /\ Brings(g, m)
      BY <1>3, <3>1, <3>2, <3>3 DEF Brings
    <3> QED BY <3>4 DEF OnItsWay
  <2>2. joining' = joining \/ Cut \/ SendHistory
    BY <1>3, JoiningSteps DEF Basics
  <2> QED BY <1>3, <2>1, <2>2 DEF OnItsWay, Cut
<1>4. ASSUME NEW f \in held \union Range(toPhone), Brings(f, m) PROVE Here(m)' \/ OnItsWay(m)'
  <2>1. f \in held' \union Range(toPhone') \/ (f \in Frames /\ Handle(f))
    BY <1>4, BringsStays
  <2>2. f \in held' \union Range(toPhone') => OnItsWay(m)'
    BY <1>4 DEF OnItsWay, Brings
  <2> QED BY <1>4, <2>1, <2>2, HandledIsHere
<1> QED BY <1>1, <1>2, <1>3, <1>4 DEF OnItsWay

LEMMA UnsentHere ==
  ASSUME Basics, HistoriesOK, NothingMissing, TimelineNext, NEW m \in Unsent'
  PROVE Here(m)'
<1>1. CASE m \in Unsent
  <2>1. ~StartAgain
    BY RestartSendsNothing
  <2>2. m \notin hidden'
    <3>1. TimelineTypeOK' /\ SentOnce'
      BY BasicsStep DEF Basics
    <3> QED BY <3>1 DEF TimelineTypeOK, ServerOK, SentOnce
  <2> QED BY <1>1, <2>1, <2>2, HereStays DEF NothingMissing
<1>2. CASE m \notin Unsent
  <2>1. m \in Known' \ Known
    BY <1>2, WireStep
  <2>2. PICK n \in Mine : Send(n) \/ SendAudio(n)
    BY <1>2, UnsentCauses
  <2>3. m = n
    <3>1. order' = Append(order, n) /\ n \in Messages \ Known
      BY <2>2, Members DEF Send, SendAudio, Known
    <3>2. Known' = Known \union {n}
      BY <3>1, OrderAppended DEF Basics, OrderOK, TimelineTypeOK, ServerOK
    <3> QED BY <2>1, <3>2
  <2>4. n \in DOMAIN shown'
    <3>1. PICK e : shown' = Over(shown, One(n, e))
      BY <2>2 DEF Send, SendAudio
    <3>2. PICK g : g = One(n, e)
      OBVIOUS
    <3>3. DOMAIN g = {n} /\ DOMAIN Over(shown, g) = DOMAIN shown \union DOMAIN g
      BY <3>2, OverIs, OneIs
    <3> QED BY <3>1, <3>2, <3>3
  <2> QED BY <2>3, <2>4 DEF Here
<1> QED BY <1>1, <1>2

LEMMA NewRows ==
  ASSUME Basics, TimelineNext, NEW m \in DOMAIN row', m \notin DOMAIN row
  PROVE \/ m \in saving
        \/ /\ m \in Unsent /\ row'[m].status \in Confirmations
           /\ \E outcome \in Outcomes, status \in Confirmations : Take(outcome, status)
<1>1. ASSUME NEW outcome \in Outcomes, NEW status \in Confirmations, Take(outcome, status)
      PROVE m \in Unsent /\ row'[m].status \in Confirmations
  <2>1. PICK n \in Mine : /\ toServer # <<>> /\ Head(toServer) = [kind |-> "message", id |-> n]
                          /\ outcome # "saved" => row' = row
                          /\ outcome = "saved" => DOMAIN row' = DOMAIN row \union {n}
                          /\ outcome = "saved" /\ n \notin DOMAIN row => row'[n] = Entry("first", FALSE, status)
    BY <1>1, TakeIs DEF Basics
  <2>2. n \in Unsent
    BY <2>1, TailIs DEF Basics, TimelineTypeOK, WireOK, Unsent, OnWire
  <2>3. m = n /\ row'[m] = Entry("first", FALSE, status)
    BY <2>1
  <2>4. Entry("first", FALSE, status).status = status
    BY EntryIs DEF Statuses, Confirmations
  <2> QED BY <2>2, <2>3, <2>4
<1>2. \A n \in Messages, kind \in {"erase", "edit"} : ChangeRow(n, kind) => DOMAIN row' = DOMAIN row
  BY ChangeRowIs DEF Basics, TimelineTypeOK, WireOK
<1>3. \A n \in Theirs : PeerSaved(n) => DOMAIN row' = DOMAIN row \union {n} /\ n \in saving
  BY PeerSavedIs DEF Basics
<1>4. \A S \in SUBSET Mine, status \in {"delivered", "read"} : PeerReceipt(S, status) => DOMAIN row' = DOMAIN row
  BY ReceiptRows DEF Basics
<1> QED BY <1>1, <1>2, <1>3, <1>4, RowCauses DEF Basics

LEMMA MissingStep ==
  ASSUME Basics, HistoriesOK, NothingMissing, TimelineNext
  PROVE NothingMissing'
<1>1. \A m \in Unsent' : Here(m)'
  BY UnsentHere
<1>2. ASSUME NEW m \in (Latest' \union saving') \ hidden' PROVE Here(m)' \/ OnItsWay(m)'
  <2>1. CASE StartAgain
    BY <2>1 DEF StartAgain, Cut, OnItsWay
  <2>2. m \notin hidden
    BY RowsStay DEF Basics
  <2>3. CASE m \in Latest \union saving /\ ~StartAgain
    BY <2>2, <2>3, HereStays, WayStays DEF NothingMissing
  <2>4. CASE m \in Latest' /\ m \notin Latest /\ m \notin saving /\ ~StartAgain
    <3>1. m \in DOMAIN row' /\ m \notin DOMAIN row
      BY <2>4, LatestShrinks DEF Latest
    <3>2. m \in Unsent
      BY <2>4, <3>1, NewRows
    <3> QED BY <2>4, <3>2, HereStays DEF NothingMissing
  <2>5. CASE m \in saving' /\ m \notin saving
    <3>1. PICK n \in Theirs : PeerSends(n)
      BY <2>5, SavingCauses DEF Basics
    <3>2. PICK f : f = [kind |-> "message", id |-> n]
      OBVIOUS
    <3>3. m = n /\ inRoom' = inRoom /\ toPhone' = (IF inRoom THEN Append(toPhone, f) ELSE toPhone)
      BY <2>5, <3>1, <3>2 DEF PeerSends, Reaches
    <3>4. CASE ~inRoom
      BY <3>3, <3>4 DEF OnItsWay
    <3>5. CASE inRoom
      <4>1. f \in Frames /\ Brings(f, m)
        BY <3>2, <3>3 DEF Frames, Brings
      <4>2. Range(Append(toPhone, f)) = Range(toPhone) \union {f}
        BY <4>1, AppendIs DEF Basics, TimelineTypeOK, WireOK
      <4>3. f \in Range(toPhone')
        BY <3>3, <3>5, <4>2
      <4> QED BY <4>1, <4>3 DEF OnItsWay
    <3> QED BY <3>4, <3>5
  <2> QED BY <2>1, <2>3, <2>4, <2>5
<1> QED BY <1>1, <1>2 DEF NothingMissing
--------------------------------------------------------------------------------
(* What the phone shows of a message is what the server has, or something  *)
(* makes up for the difference: a frame to come, an edit that waits, a     *)
(* request, or a cause named when it happened.                             *)

(* A notice of this kind about m is in toPhone after place i.              *)
After(i, kinds, m) == \E j \in DOMAIN toPhone : j > i /\ toPhone[j].kind \in kinds /\ toPhone[j].id = m
AppliesTo(f, m) == f.kind = "receipt" /\ (m \in f.req \/ f.status # "sent")
ToldAfter(i, m) == \E j \in DOMAIN toPhone : /\ j > i /\ AppliesTo(toPhone[j], m)
                                             /\ toPhone[j].status = row[m].status
TextNow(m) == IF m \in DOMAIN row THEN row[m].text ELSE "first"
ErasedNow(m) == IF m \in DOMAIN row THEN row[m].erased ELSE FALSE

(* What the phone will hear of a message after a frame makes up for it.    *)
NoticeFollows(i) ==
  LET f == toPhone[i]
  IN /\ f.kind = "message" => /\ TextNow(f.id) = "first" \/ After(i, {"edit", "erase"}, f.id)
                              /\ ErasedNow(f.id) = FALSE \/ After(i, {"erase"}, f.id)
     /\ f.kind = "edit" => TextNow(f.id) = "second" \/ After(i, {"erase"}, f.id)
     /\ f.kind = "erase" => ErasedNow(f.id) = TRUE
ReceiptFollows(i) ==
  toPhone[i].kind = "receipt" =>
     \A m \in toPhone[i].req \intersect DOMAIN row : toPhone[i].status = row[m].status \/ ToldAfter(i, m)
FramesFollow ==
  /\ \A i \in DOMAIN toPhone : NoticeFollows(i) /\ ReceiptFollows(i)
  /\ \A f \in held : NeedsKey(f)

(* An entry is as the row, or a cause, a frame or a request makes up for   *)
(* the difference.                                                         *)
Erasing(m) == request.kind = "erase" /\ request.id = m
HeldEdit(m) == \E f \in held : f.kind = "edit" /\ f.id = m
TextOK(m) == \/ shown[m].text = TextNow(m) \/ m \in excuse.text
             \/ After(0, {"edit", "erase"}, m) \/ HeldEdit(m) \/ Erasing(m)
ErasureOK(m) == \/ shown[m].erased = ErasedNow(m) \/ m \in excuse.erased
                \/ After(0, {"erase"}, m) \/ Erasing(m)
StatusOK(m) == \/ m \in excuse.status
               \/ m \notin DOMAIN row /\ Rank(shown[m].status) = 0
               \/ m \in DOMAIN row /\ (shown[m].status = row[m].status \/ ToldAfter(0, m))
EntryOK(m) == TextOK(m) /\ ErasureOK(m) /\ (m \in Mine => StatusOK(m))
EntriesFollow == \A m \in DOMAIN shown : EntryOK(m)

LEMMA Appended ==
  ASSUME TimelineTypeOK, NEW f \in Frames, toPhone' = Append(toPhone, f)
  PROVE /\ \A i \in DOMAIN toPhone : i \in DOMAIN toPhone' /\ toPhone'[i] = toPhone[i] /\ i < Len(toPhone) + 1
        /\ \A i \in DOMAIN toPhone' : i \in DOMAIN toPhone \/ (i = Len(toPhone) + 1 /\ toPhone'[i] = f)
        /\ Len(toPhone) + 1 \in DOMAIN toPhone' /\ toPhone'[Len(toPhone) + 1] = f /\ Len(toPhone) + 1 > 0
  BY AppendIs DEF TimelineTypeOK, WireOK

LEMMA Shifted ==
  ASSUME TimelineTypeOK, toPhone # <<>>, toPhone' = Tail(toPhone)
  PROVE /\ \A i \in DOMAIN toPhone' : i \in Nat \ {0} /\ i + 1 \in DOMAIN toPhone /\ toPhone'[i] = toPhone[i + 1]
        /\ \A j \in DOMAIN toPhone :
             j \in Nat \ {0} /\ (j = 1 \/ (j - 1 \in DOMAIN toPhone' /\ toPhone'[j - 1] = toPhone[j]))
        /\ 1 \in DOMAIN toPhone /\ toPhone[1] = Head(toPhone)
<1>1. PICK after : after = Tail(toPhone)
  OBVIOUS
<1>2. toPhone \in Seq(Frames)
  BY DEF TimelineTypeOK, WireOK
<1>3. /\ \A i \in DOMAIN after : i + 1 \in DOMAIN toPhone /\ after[i] = toPhone[i + 1]
      /\ \A j \in DOMAIN toPhone : j = 1 \/ (j - 1 \in DOMAIN after /\ after[j - 1] = toPhone[j])
      /\ DOMAIN toPhone \subseteq Nat \ {0} /\ DOMAIN after \subseteq Nat \ {0}
      /\ 1 \in DOMAIN toPhone /\ toPhone[1] = Head(toPhone)
  BY <1>1, <1>2, TailIs
<1> QED BY <1>1, <1>3

(* What is to come stays to come: the queue grows, or loses its head.      *)
WireGrows == \A i \in DOMAIN toPhone : i \in DOMAIN toPhone' /\ toPhone'[i] = toPhone[i]
SameStatus(m) == m \in DOMAIN row' /\ row'[m].status = row[m].status

LEMMA AfterStays ==
  ASSUME WireGrows
  PROVE /\ \A i, kinds, m : After(i, kinds, m) => After(i, kinds, m)'
        /\ \A i, m : ToldAfter(i, m) /\ SameStatus(m) => ToldAfter(i, m)'
  BY DEF WireGrows, After, ToldAfter, AppliesTo, SameStatus

LEMMA AfterShifts ==
  ASSUME TimelineTypeOK, toPhone # <<>>, toPhone' = Tail(toPhone)
  PROVE /\ \A i \in Nat : \A kinds, m : After(i + 1, kinds, m) => After(i, kinds, m)'
        /\ \A i \in Nat : \A m : ToldAfter(i + 1, m) /\ SameStatus(m) => ToldAfter(i, m)'
        /\ \A kinds, m : After(0, kinds, m) => \/ After(0, kinds, m)'
                                               \/ Head(toPhone).kind \in kinds /\ Head(toPhone).id = m
        /\ \A m : ToldAfter(0, m) /\ SameStatus(m)
                     => \/ ToldAfter(0, m)'
                        \/ AppliesTo(Head(toPhone), m) /\ Head(toPhone).status = row[m].status
<1>1. \A j \in DOMAIN toPhone : /\ j \in Nat \ {0}
                                /\ j = 1 \/ (j - 1 \in DOMAIN toPhone' /\ toPhone'[j - 1] = toPhone[j])
  BY Shifted
<1>2. toPhone[1] = Head(toPhone)
  BY Shifted
<1>3. ASSUME NEW i \in Nat, NEW kinds, NEW m, After(i + 1, kinds, m) PROVE After(i, kinds, m)'
  <2>1. PICK j \in DOMAIN toPhone : j > i + 1 /\ toPhone[j].kind \in kinds /\ toPhone[j].id = m
    BY <1>3 DEF After
  <2>2. j \in Nat /\ j # 1 /\ j - 1 > i
    BY <1>1, <2>1
  <2> QED BY <1>1, <2>1, <2>2 DEF After
<1>4. ASSUME NEW i \in Nat, NEW m, ToldAfter(i + 1, m), SameStatus(m) PROVE ToldAfter(i, m)'
  <2>1. PICK j \in DOMAIN toPhone : j > i + 1 /\ AppliesTo(toPhone[j], m) /\ toPhone[j].status = row[m].status
    BY <1>4 DEF ToldAfter
  <2>2. j \in Nat /\ j # 1 /\ j - 1 > i
    BY <1>1, <2>1
  <2>3. j - 1 \in DOMAIN toPhone' /\ toPhone'[j - 1] = toPhone[j] /\ row'[m].status = row[m].status
    BY <1>1, <1>4, <2>2 DEF SameStatus
  <2> QED BY <2>1, <2>2, <2>3 DEF ToldAfter, AppliesTo
<1>5. ASSUME NEW kinds, NEW m, After(0, kinds, m), ~After(0, kinds, m)'
      PROVE Head(toPhone).kind \in kinds /\ Head(toPhone).id = m
  <2>1. PICK j \in DOMAIN toPhone : j > 0 /\ toPhone[j].kind \in kinds /\ toPhone[j].id = m
    BY <1>5 DEF After
  <2>2. j # 1 => j - 1 > 0 /\ j - 1 \in DOMAIN toPhone' /\ toPhone'[j - 1] = toPhone[j]
    BY <1>1, <2>1
  <2>3. j = 1
    BY <1>5, <2>1, <2>2 DEF After
  <2> QED BY <1>2, <2>1, <2>3
<1>6. ASSUME NEW m, ToldAfter(0, m), SameStatus(m), ~ToldAfter(0, m)'
      PROVE AppliesTo(Head(toPhone), m) /\ Head(toPhone).status = row[m].status
  <2>1. PICK j \in DOMAIN toPhone : j > 0 /\ AppliesTo(toPhone[j], m) /\ toPhone[j].status = row[m].status
    BY <1>6 DEF ToldAfter
  <2>2. j # 1 => j - 1 > 0 /\ j - 1 \in DOMAIN toPhone' /\ toPhone'[j - 1] = toPhone[j]
    BY <1>1, <2>1
  <2>3. j = 1
    BY <1>6, <2>1, <2>2 DEF ToldAfter, SameStatus, AppliesTo
  <2> QED BY <1>2, <2>1, <2>3
<1> QED BY <1>3, <1>4, <1>5, <1>6

(* A cause holds for as long as the difference does.                       *)
LEMMA TextExcused ==
  ASSUME NEW new, Excuse(new), NEW m \in DOMAIN shown', m \in excuse.text \union Named(new, "text")
  PROVE TextOK(m)'
<1>1. m \in excuse'.text \/ ~Unlike(m, "text")
  BY ExcuseIs
<1>2. ~Unlike(m, "text") => m \in DOMAIN row' /\ shown'[m].text = row'[m].text
  BY DEF Unlike
<1> QED BY <1>1, <1>2 DEF TextOK, TextNow

LEMMA ErasureExcused ==
  ASSUME NEW new, Excuse(new), NEW m \in DOMAIN shown', m \in excuse.erased \union Named(new, "erased")
  PROVE ErasureOK(m)'
<1>1. m \in excuse'.erased \/ ~Unlike(m, "erased")
  BY ExcuseIs
<1>2. ~Unlike(m, "erased") => m \in DOMAIN row' /\ shown'[m].erased = row'[m].erased
  BY DEF Unlike
<1> QED BY <1>1, <1>2 DEF ErasureOK, ErasedNow

LEMMA StatusExcused ==
  ASSUME NEW new, Excuse(new), NEW m \in DOMAIN shown', m \in excuse.status \union Named(new, "status")
  PROVE StatusOK(m)'
<1>1. m \in excuse'.status \/ ~Unlike(m, "status")
  BY ExcuseIs
<1>2. ~Unlike(m, "status") => m \in DOMAIN row' /\ shown'[m].status = row'[m].status
  BY DEF Unlike
<1> QED BY <1>1, <1>2 DEF StatusOK

CausesStay == excuse' = excuse \/ \E new : Excuse(new)
--------------------------------------------------------------------------------
(* The frames to come tell of every difference they make.                  *)

LEMMA OldFollows ==
  ASSUME TimelineTypeOK, WireGrows, NEW i \in DOMAIN toPhone, NoticeFollows(i), ReceiptFollows(i),
         NEW id, id = toPhone[i].id,
         toPhone[i].kind \in {"message", "edit", "erase"} =>
            TextNow(id)' = TextNow(id) /\ ErasedNow(id)' = ErasedNow(id),
         toPhone[i].kind = "receipt" => \A m \in toPhone[i].req \intersect DOMAIN row' : m \in DOMAIN row /\ SameStatus(m)
  PROVE NoticeFollows(i)' /\ ReceiptFollows(i)'
<1>1. PICK f : f = toPhone[i]
  OBVIOUS
<1>2. toPhone'[i] = f
  BY <1>1 DEF WireGrows
<1>3. /\ \A kinds, m : After(i, kinds, m) => After(i, kinds, m)'
      /\ \A m : ToldAfter(i, m) /\ SameStatus(m) => ToldAfter(i, m)'
  BY AfterStays
<1>4. CASE f.kind \in {"message", "edit", "erase"}
  <2>1. id = f.id
    BY <1>1
  <2>2. TextNow(id)' = TextNow(id) /\ ErasedNow(id)' = ErasedNow(id)
    BY <1>1, <1>4
  <2>3. NoticeFollows(i)'
    BY <1>1, <1>2, <1>3, <2>1, <2>2 DEF NoticeFollows
  <2> QED BY <1>2, <1>4, <2>3 DEF ReceiptFollows
<1>5. CASE f.kind = "receipt"
  <2>1. NoticeFollows(i)'
    BY <1>2, <1>5 DEF NoticeFollows
  <2>2. ASSUME NEW m \in f.req \intersect DOMAIN row' PROVE f.status = row'[m].status \/ ToldAfter(i, m)'
    <3>1. m \in DOMAIN row /\ SameStatus(m)
      BY <1>1, <1>5, <2>2
    <3>2. f.status = row[m].status \/ ToldAfter(i, m)
      BY <1>1, <1>5, <2>2, <3>1 DEF ReceiptFollows
    <3> QED BY <1>3, <3>1, <3>2 DEF SameStatus
  <2> QED BY <1>2, <2>1, <2>2 DEF ReceiptFollows
<1>6. CASE f.kind \notin {"message", "edit", "erase", "receipt"}
  BY <1>2, <1>6 DEF NoticeFollows, ReceiptFollows
<1> QED BY <1>4, <1>5, <1>6

LEMMA TailFollows ==
  ASSUME TimelineTypeOK, FramesFollow, toPhone # <<>>, toPhone' = Tail(toPhone), row' = row, NEW i \in DOMAIN toPhone'
  PROVE NoticeFollows(i)' /\ ReceiptFollows(i)'
<1>1. i \in Nat /\ i + 1 \in DOMAIN toPhone /\ toPhone'[i] = toPhone[i + 1]
  BY Shifted
<1>2. PICK f, k : f = toPhone[k] /\ k = i + 1
  OBVIOUS
<1>3. NoticeFollows(k) /\ ReceiptFollows(k) /\ toPhone'[i] = f
  BY <1>1, <1>2 DEF FramesFollow
<1>4. \A m : TextNow(m)' = TextNow(m) /\ ErasedNow(m)' = ErasedNow(m)
  BY DEF TextNow, ErasedNow
<1>5. /\ \A kinds, m : After(k, kinds, m) => After(i, kinds, m)'
      /\ \A m : ToldAfter(k, m) /\ SameStatus(m) => ToldAfter(i, m)'
  BY <1>1, <1>2, AfterShifts
<1>6. NoticeFollows(i)'
  <2>1. PICK id : id = f.id
    OBVIOUS
  <2>2. TextNow(id)' = TextNow(id) /\ ErasedNow(id)' = ErasedNow(id)
    BY <1>4
  <2> QED BY <1>2, <1>3, <1>5, <2>1, <2>2 DEF NoticeFollows
<1>7. ReceiptFollows(i)'
  <2>1. \A m \in DOMAIN row : SameStatus(m)
    BY DEF SameStatus
  <2> QED BY <1>2, <1>3, <1>5, <2>1 DEF ReceiptFollows
<1> QED BY <1>6, <1>7

LEMMA WireAppends ==
  ASSUME TimelineTypeOK, NEW f \in Frames, toPhone' = Append(toPhone, f)
  PROVE /\ WireGrows
        /\ \A i \in DOMAIN toPhone' : i \in DOMAIN toPhone \/ toPhone'[i] = f
        /\ \A i \in DOMAIN toPhone : \A kinds, m : f.kind \in kinds /\ f.id = m => After(i, kinds, m)'
  BY Appended DEF WireGrows, After

LEMMA TakeWire ==
  ASSUME TimelineTypeOK, NEW outcome \in Outcomes, NEW status \in Confirmations, Take(outcome, status)
  PROVE /\ WireGrows
        /\ \A i \in DOMAIN toPhone' :
             \/ i \in DOMAIN toPhone
             \/ toPhone'[i] = [kind |-> "ack", id |-> Head(toServer).id]
             \/ toPhone'[i] = [kind |-> "receipt", req |-> {Head(toServer).id}, status |-> status]
        /\ outcome # "rejected" =>
             \E i \in DOMAIN toPhone' : /\ i > 0
                /\ toPhone'[i] = [kind |-> "receipt", req |-> {Head(toServer).id}, status |-> status]
<1>1. PICK m \in Mine :
        LET receipt == [kind |-> "receipt", req |-> {m}, status |-> status]
            ack == [kind |-> "ack", id |-> m]
        IN /\ Head(toServer) = [kind |-> "message", id |-> m]
           /\ receipt \in Frames /\ ack \in Frames
           /\ toPhone' = IF outcome = "rejected" THEN Append(toPhone, ack) ELSE Append(Append(toPhone, receipt), ack)
  BY TakeIs
<1>2. PICK receipt, ack : /\ receipt = [kind |-> "receipt", req |-> {m}, status |-> status]
                          /\ ack = [kind |-> "ack", id |-> m]
  OBVIOUS
<1>3. receipt \in Frames /\ ack \in Frames /\ Head(toServer).id = m /\ toPhone \in Seq(Frames)
  BY <1>1, <1>2 DEF TimelineTypeOK, WireOK
<1>4. CASE outcome = "rejected"
  <2>1. toPhone' = Append(toPhone, ack)
    BY <1>1, <1>2, <1>4
  <2> QED BY <1>2, <1>3, <1>4, <2>1, WireAppends
<1>5. CASE outcome # "rejected"
  <2>1. toPhone' = Append(Append(toPhone, receipt), ack)
    BY <1>1, <1>2, <1>5
  <2>2. PICK mid : mid = Append(toPhone, receipt)
    OBVIOUS
  <2>3. /\ mid \in Seq(Frames) /\ DOMAIN mid = DOMAIN toPhone \union {Len(toPhone) + 1}
        /\ mid[Len(toPhone) + 1] = receipt /\ \A i \in DOMAIN toPhone : mid[i] = toPhone[i]
        /\ Len(toPhone) \in Nat
    BY <1>3, <2>2, AppendIs
  <2>4. PICK n : n = Len(mid) + 1
    OBVIOUS
  <2>5. /\ DOMAIN Append(mid, ack) = DOMAIN mid \union {n} /\ Append(mid, ack)[n] = ack
        /\ \A i \in DOMAIN mid : Append(mid, ack)[i] = mid[i] /\ i \in Nat \ {0}
    BY <1>3, <2>3, <2>4, AppendIs
  <2>6. PICK after : after = toPhone'
    OBVIOUS
  <2>7. after = Append(mid, ack)
    BY <2>1, <2>2, <2>6
  <2>8. /\ \A i \in DOMAIN toPhone : i \in DOMAIN after /\ after[i] = toPhone[i]
        /\ \A i \in DOMAIN after : i \in DOMAIN toPhone \/ after[i] = ack \/ after[i] = receipt
        /\ Len(toPhone) + 1 \in DOMAIN after /\ after[Len(toPhone) + 1] = receipt /\ Len(toPhone) + 1 > 0
    BY <2>3, <2>5, <2>7
  <2> QED BY <1>2, <1>3, <2>6, <2>8 DEF WireGrows
<1> QED BY <1>4, <1>5

LEMMA FramesStep ==
  ASSUME Basics, FramesFollow, TimelineNext
  PROVE FramesFollow'
<1>t. TimelineTypeOK
  BY DEF Basics
<1>1. \A f \in held' : NeedsKey(f)
  BY HeldFrames DEF Basics, FramesFollow
<1>k. \A f \in held' : NeedsKey(f) => NeedsKey(f)'
  BY DEF NeedsKey
<1> SUFFICES ASSUME NEW i \in DOMAIN toPhone' PROVE NoticeFollows(i)' /\ ReceiptFollows(i)'
  BY <1>1, <1>k DEF FramesFollow
<1>f. /\ \A j \in DOMAIN toPhone : NoticeFollows(j) /\ ReceiptFollows(j)
      /\ toPhone \in Seq(Frames) /\ \A j \in DOMAIN toPhone : toPhone[j] \in Frames
  BY DEF FramesFollow, Basics, TimelineTypeOK, WireOK
<1>s. ASSUME row' = row, WireGrows, i \in DOMAIN toPhone PROVE NoticeFollows(i)' /\ ReceiptFollows(i)'
  <2>1. \A m : TextNow(m)' = TextNow(m) /\ ErasedNow(m)' = ErasedNow(m)
    BY <1>s DEF TextNow, ErasedNow
  <2>2. \A m \in DOMAIN row : SameStatus(m)
    BY <1>s DEF SameStatus
  <2>3. PICK id : id = toPhone[i].id
    OBVIOUS
  <2> QED BY <1>t, <1>f, <1>s, <2>1, <2>2, <2>3, OldFollows
<1>2. CASE row' = row /\ toPhone' = toPhone
  BY <1>2, <1>s DEF WireGrows
<1>3. CASE row' = row /\ toPhone # <<>> /\ toPhone' = Tail(toPhone)
  BY <1>t, <1>3, TailFollows
<1>4. CASE Cut
  BY <1>4 DEF Cut
<1>5. CASE row' = row /\ joining.step = "read" /\ SendHistory
  <2>1. PICK f : f = [kind |-> "history", rows |-> joining.rows, saved |-> joining.saved]
    OBVIOUS
  <2>2. f \in Frames /\ toPhone' = Append(toPhone, f) /\ f.kind = "history"
    BY <1>5, <2>1, JoiningKinds DEF SendHistory, Frames, Histories, Basics, TimelineTypeOK, ServerOK
  <2>3. WireGrows /\ (i \in DOMAIN toPhone \/ toPhone'[i] = f)
    BY <1>t, <2>2, WireAppends
  <2>4. CASE toPhone'[i] = f
    BY <2>2, <2>4 DEF NoticeFollows, ReceiptFollows
  <2> QED BY <1>5, <1>s, <2>3, <2>4
<1>6. ASSUME NEW outcome \in Outcomes, NEW status \in Confirmations, Take(outcome, status)
      PROVE NoticeFollows(i)' /\ ReceiptFollows(i)'
  <2>1. PICK m \in Mine :
          /\ Head(toServer) = [kind |-> "message", id |-> m] /\ toServer # <<>>
          /\ outcome # "saved" => row' = row
          /\ outcome = "saved" => /\ DOMAIN row' = DOMAIN row \union {m}
                                  /\ \A x \in DOMAIN row : row'[x] = row[x]
                                  /\ m \notin DOMAIN row => row'[m] = Entry("first", FALSE, status)
    BY <1>6, TakeIs DEF Basics
  <2>2. m \in Unsent /\ m \notin DOMAIN row
    <3>1. m \in Unsent
      BY <2>1, TailIs DEF Basics, TimelineTypeOK, WireOK, Unsent, OnWire
    <3> QED BY <3>1 DEF Basics, SentOnce
  <2>3. /\ Entry("first", FALSE, status).text = "first" /\ Entry("first", FALSE, status).erased = FALSE
        /\ Entry("first", FALSE, status).status = status
    BY EntryIs DEF Statuses, Confirmations
  <2>4. WireGrows
    BY <1>t, <1>6, TakeWire
  <2>5. CASE i \in DOMAIN toPhone
    <3>1. PICK id : id = toPhone[i].id
      OBVIOUS
    <3>2. TextNow(id)' = TextNow(id) /\ ErasedNow(id)' = ErasedNow(id)
      BY <2>1, <2>2, <2>3 DEF TextNow, ErasedNow
    <3>3. ASSUME toPhone[i].kind = "receipt", NEW x \in toPhone[i].req \intersect DOMAIN row'
          PROVE x \in DOMAIN row /\ SameStatus(x)
      <4>1. x \notin Unsent
        BY <2>5, <3>3 DEF Basics, SentOnce
      <4> QED BY <2>1, <2>2, <3>3, <4>1 DEF SameStatus
    <3> QED BY <1>t, <1>f, <2>4, <2>5, <3>1, <3>2, <3>3, OldFollows
  <2>6. CASE toPhone'[i] = [kind |-> "ack", id |-> Head(toServer).id]
    BY <2>6 DEF NoticeFollows, ReceiptFollows
  <2>7. CASE toPhone'[i] = [kind |-> "receipt", req |-> {Head(toServer).id}, status |-> status]
    <3>1. PICK g : g = toPhone'[i]
      OBVIOUS
    <3>2. g.kind = "receipt" /\ g.req = {m} /\ g.status = status
      BY <2>1, <2>7, <3>1
    <3>3. m \in DOMAIN row' => row'[m].status = status
      BY <2>1, <2>2, <2>3
    <3> QED BY <3>1, <3>2, <3>3 DEF NoticeFollows, ReceiptFollows
  <2> QED BY <1>t, <1>6, <2>5, <2>6, <2>7, TakeWire
<1>7. ASSUME NEW m \in Messages, NEW kind \in {"erase", "edit"}, ChangeRow(m, kind)
      PROVE NoticeFollows(i)' /\ ReceiptFollows(i)'
  <2>1. PICK f : f = [kind |-> kind, id |-> m]
    OBVIOUS
  <2>2. /\ m \in DOMAIN row /\ ~row[m].erased /\ (kind = "edit" => row[m].text = "first")
        /\ DOMAIN row' = DOMAIN row /\ row'[m] = (IF kind = "edit" THEN Reword(row[m]) ELSE Blank(row[m]))
        /\ \A x \in DOMAIN row \ {m} : row'[x] = row[x]
        /\ f \in Frames /\ toPhone' = IF inRoom THEN Append(toPhone, f) ELSE toPhone
    BY <1>7, <2>1, ChangeRowIs DEF Basics, TimelineTypeOK, WireOK
  <2>3. /\ Reword(row[m]).text = "second" /\ Reword(row[m]).erased = row[m].erased
        /\ Reword(row[m]).status = row[m].status
        /\ Blank(row[m]).text = "gone" /\ Blank(row[m]).erased = TRUE /\ Blank(row[m]).status = row[m].status
    BY <2>2, ListIs, EntryFields DEF Basics, TimelineTypeOK, ServerOK
  <2>4. inRoom
    BY <2>2 DEF Basics, Connected
  <2>5. toPhone' = Append(toPhone, f)
    BY <2>2, <2>4
  <2>6. /\ WireGrows /\ (i \in DOMAIN toPhone \/ toPhone'[i] = f)
        /\ i \in DOMAIN toPhone => \A kinds : kind \in kinds => After(i, kinds, m)'
    BY <1>t, <2>1, <2>2, <2>5, WireAppends
  <2>7. CASE toPhone'[i] = f
    <3>1. f.kind = kind /\ f.id = m
      BY <2>1
    <3>2. kind = "edit" => TextNow(m)' = "second"
      BY <2>2, <2>3 DEF TextNow
    <3>3. kind = "erase" => ErasedNow(m)' = TRUE
      BY <2>2, <2>3 DEF ErasedNow
    <3> QED BY <2>7, <3>1, <3>2, <3>3 DEF NoticeFollows, ReceiptFollows
  <2>8. CASE i \in DOMAIN toPhone
    <3>1. PICK g : g = toPhone[i]
      OBVIOUS
    <3>2. g.kind = "receipt" => \A x \in g.req \intersect DOMAIN row' : x \in DOMAIN row /\ SameStatus(x)
      BY <2>2, <2>3 DEF SameStatus
    <3>3. CASE g.kind \notin {"message", "edit", "erase"} \/ g.id # m
      <4>1. ASSUME NEW x, x # m PROVE TextNow(x)' = TextNow(x) /\ ErasedNow(x)' = ErasedNow(x)
        BY <2>2, <4>1 DEF TextNow, ErasedNow
      <4>2. PICK id : id = g.id
        OBVIOUS
      <4>3. g.kind \in {"message", "edit", "erase"} => TextNow(id)' = TextNow(id) /\ ErasedNow(id)' = ErasedNow(id)
        BY <3>3, <4>1, <4>2
      <4> QED BY <1>t, <1>f, <2>6, <2>8, <3>1, <3>2, <4>2, <4>3, OldFollows
    <3>4. CASE g.kind \in {"message", "edit", "erase"} /\ g.id = m
      <4>1. toPhone'[i] = g /\ NoticeFollows(i)
        BY <1>f, <2>6, <2>8, <3>1 DEF WireGrows
      <4>2. /\ \A kinds : kind \in kinds => After(i, kinds, m)'
            /\ \A kinds : After(i, kinds, m) => After(i, kinds, m)'
        BY <2>6, <2>8, AfterStays
      <4>3. ErasedNow(m) = row[m].erased /\ TextNow(m) = row[m].text
        BY <2>2 DEF TextNow, ErasedNow
      <4>4. /\ ErasedNow(m)' = row'[m].erased /\ TextNow(m)' = row'[m].text
        BY <2>2 DEF TextNow, ErasedNow
      <4>5. CASE kind = "edit"
        <5>1. TextNow(m)' = "second" /\ ErasedNow(m)' = ErasedNow(m) /\ TextNow(m) = "first"
          BY <2>2, <2>3, <4>3, <4>4, <4>5
        <5> QED BY <3>1, <3>4, <4>1, <4>2, <4>5, <5>1 DEF NoticeFollows, ReceiptFollows
      <4>6. CASE kind = "erase"
        <5>1. ErasedNow(m)' = TRUE
          BY <2>2, <2>3, <4>4, <4>6
        <5> QED BY <3>1, <3>4, <4>1, <4>2, <4>6, <5>1 DEF NoticeFollows, ReceiptFollows
      <4> QED BY <4>5, <4>6
    <3> QED BY <3>3, <3>4
  <2> QED BY <2>6, <2>7, <2>8
<1>8. ASSUME NEW m \in Theirs, PeerSends(m) PROVE NoticeFollows(i)' /\ ReceiptFollows(i)'
  <2>1. PICK f : f = [kind |-> "message", id |-> m]
    OBVIOUS
  <2>2. f \in Frames /\ row' = row /\ toPhone' = (IF inRoom THEN Append(toPhone, f) ELSE toPhone) /\ m \notin Known
    BY <1>8, <2>1, Members DEF PeerSends, Reaches, Frames, Known
  <2>3. m \notin DOMAIN row'
    BY <2>2 DEF Basics, OrderOK
  <2>4. CASE toPhone' = toPhone
    BY <1>s, <2>2, <2>4 DEF WireGrows
  <2>5. CASE toPhone' = Append(toPhone, f)
    <3>1. WireGrows /\ (i \in DOMAIN toPhone \/ toPhone'[i] = f)
      BY <1>t, <2>2, <2>5, WireAppends
    <3>2. CASE toPhone'[i] = f
      <4>1. TextNow(m)' = "first" /\ ErasedNow(m)' = FALSE
        BY <2>3 DEF TextNow, ErasedNow
      <4>2. f.kind = "message" /\ f.id = m
        BY <2>1
      <4> QED BY <3>2, <4>1, <4>2 DEF NoticeFollows, ReceiptFollows
    <3> QED BY <1>s, <2>2, <3>1, <3>2
  <2> QED BY <2>2, <2>4, <2>5
<1>9. ASSUME NEW m \in Theirs, PeerSaved(m) PROVE NoticeFollows(i)' /\ ReceiptFollows(i)'
  <2>1. toPhone' = toPhone /\ WireGrows
    BY <1>9 DEF PeerSaved, network, WireGrows
  <2>2. /\ DOMAIN row' = DOMAIN row \union {m} /\ \A x \in DOMAIN row : row'[x] = row[x]
        /\ m \notin DOMAIN row => row'[m] = Entry("first", FALSE, "delivered")
    BY <1>9, PeerSavedIs DEF Basics
  <2>3. Entry("first", FALSE, "delivered").text = "first" /\ Entry("first", FALSE, "delivered").erased = FALSE
    BY EntryIs DEF Statuses
  <2>4. PICK g, id : g = toPhone[i] /\ id = g.id
    OBVIOUS
  <2>5. TextNow(id)' = TextNow(id) /\ ErasedNow(id)' = ErasedNow(id)
    BY <2>2, <2>3 DEF TextNow, ErasedNow
  <2>6. ASSUME g.kind = "receipt", NEW x \in g.req \intersect DOMAIN row' PROVE x \in DOMAIN row /\ SameStatus(x)
    <3>1. x \in Mine
      BY <1>f, <2>1, <2>4, <2>6, FrameKinds
    <3>2. x \in DOMAIN row
      BY <2>2, <2>6, <3>1, TwoSenders
    <3> QED BY <2>2, <3>2 DEF SameStatus
  <2> QED BY <1>t, <1>f, <2>1, <2>4, <2>5, <2>6, OldFollows
<1>10. ASSUME NEW S \in SUBSET Mine, NEW status \in {"delivered", "read"}, PeerReceipt(S, status)
       PROVE NoticeFollows(i)' /\ ReceiptFollows(i)'
  <2>1. PICK f, marked : /\ f = [kind |-> "receipt", req |-> {}, status |-> status]
                         /\ marked = {m \in S \intersect DOMAIN row : Stored(m) < Rank(status)}
    OBVIOUS
  <2>2. /\ DOMAIN row' = DOMAIN row /\ f \in Frames
        /\ \A m \in DOMAIN row : /\ row'[m].text = row[m].text /\ row'[m].erased = row[m].erased
                                 /\ row'[m].status = IF m \in marked THEN status ELSE row[m].status
        /\ toPhone' = IF inRoom THEN Append(toPhone, f) ELSE toPhone
    <3>1. DOMAIN row' = DOMAIN row /\ \A m \in DOMAIN row : row'[m].text = row[m].text /\ row'[m].erased = row[m].erased
      BY <1>t, <1>10, ReceiptRows
    <3>2. f \in Frames /\ toPhone' = IF inRoom THEN Append(toPhone, f) ELSE toPhone
      BY <1>t, <1>10, <2>1, ReceiptRows
    <3>3. ASSUME NEW m \in DOMAIN row PROVE row'[m].status = IF m \in marked THEN status ELSE row[m].status
      <4>1. row' = [x \in DOMAIN row |-> IF x \in marked THEN [row[x] EXCEPT !.status = status] ELSE row[x]]
        BY <1>10, <2>1 DEF PeerReceipt
      <4>2. row[m] \in Entries /\ [row[m] EXCEPT !.status = status].status = status
        BY <1>t, ListIs, StatusSet DEF TimelineTypeOK, ServerOK, Statuses
      <4> QED BY <4>1, <4>2
    <3> QED BY <3>1, <3>2, <3>3
  <2>3. inRoom
    BY <2>2 DEF Basics, Connected
  <2>4. toPhone' = Append(toPhone, f)
    BY <2>2, <2>3
  <2>5. WireGrows /\ (i \in DOMAIN toPhone \/ toPhone'[i] = f)
    BY <1>t, <2>2, <2>4, WireAppends
  <2>6. CASE toPhone'[i] = f
    <3>1. f.kind = "receipt" /\ f.req = {}
      BY <2>1
    <3> QED BY <2>6, <3>1 DEF NoticeFollows, ReceiptFollows
  <2>7. CASE i \in DOMAIN toPhone
    <3>1. PICK g, id : g = toPhone[i] /\ id = g.id
      OBVIOUS
    <3>2. TextNow(id)' = TextNow(id) /\ ErasedNow(id)' = ErasedNow(id)
      BY <2>2 DEF TextNow, ErasedNow
    <3>3. toPhone'[i] = g
      BY <2>5, <2>7, <3>1 DEF WireGrows
    <3>4. CASE g.kind = "receipt"
      <4>1. ASSUME NEW m \in g.req \intersect DOMAIN row' PROVE g.status = row'[m].status \/ ToldAfter(i, m)'
        <5>1. m \in DOMAIN row
          BY <2>2, <4>1
        <5>2. CASE m \in marked
          <6>1. PICK k \in DOMAIN toPhone' : k > i /\ toPhone'[k] = f
            BY <1>t, <2>2, <2>4, <2>7, Appended
          <6>2. AppliesTo(f, m) /\ f.status = row'[m].status
            BY <2>1, <2>2, <5>1, <5>2 DEF AppliesTo
          <6> QED BY <6>1, <6>2 DEF ToldAfter, AppliesTo
        <5>3. CASE m \notin marked
          <6>1. SameStatus(m)
            BY <2>2, <5>1, <5>3 DEF SameStatus
          <6>2. g.status = row[m].status \/ ToldAfter(i, m)
            BY <1>f, <2>7, <3>1, <3>4, <4>1, <5>1 DEF ReceiptFollows
          <6> QED BY <2>5, <6>1, <6>2, AfterStays DEF SameStatus
        <5> QED BY <5>2, <5>3
      <4> QED BY <3>3, <3>4, <4>1 DEF NoticeFollows, ReceiptFollows
    <3>5. CASE g.kind # "receipt"
      BY <1>t, <1>f, <2>5, <2>7, <3>1, <3>2, <3>5, OldFollows
    <3> QED BY <3>4, <3>5
  <2> QED BY <2>5, <2>6, <2>7
<1> QED BY <1>2, <1>3, <1>4, <1>5, <1>6, <1>7, <1>8, <1>9, <1>10, Changes DEF Basics
--------------------------------------------------------------------------------
(* The entries stay as the rows, step by step.                             *)

LEMMA TextStays ==
  ASSUME CausesStay, NEW m \in DOMAIN shown', TextOK(m), shown'[m].text = shown[m].text, TextNow(m)' = TextNow(m),
         After(0, {"edit", "erase"}, m) => After(0, {"edit", "erase"}, m)',
         HeldEdit(m) => HeldEdit(m)', Erasing(m) => Erasing(m)'
  PROVE TextOK(m)'
<1>1. CASE m \in excuse.text
  BY <1>1, TextExcused DEF CausesStay, TextOK
<1>2. CASE m \notin excuse.text
  BY <1>2 DEF TextOK
<1> QED BY <1>1, <1>2

LEMMA ErasureStays ==
  ASSUME CausesStay, NEW m \in DOMAIN shown', ErasureOK(m), shown'[m].erased = shown[m].erased,
         ErasedNow(m)' = ErasedNow(m), After(0, {"erase"}, m) => After(0, {"erase"}, m)', Erasing(m) => Erasing(m)'
  PROVE ErasureOK(m)'
<1>1. CASE m \in excuse.erased
  BY <1>1, ErasureExcused DEF CausesStay, ErasureOK
<1>2. CASE m \notin excuse.erased
  BY <1>2 DEF ErasureOK
<1> QED BY <1>1, <1>2

(* The status stored for m, or that none is, does not change.              *)
StatusKept(m) == IF m \in DOMAIN row THEN SameStatus(m) ELSE m \notin DOMAIN row'

LEMMA StatusStays ==
  ASSUME CausesStay, NEW m \in DOMAIN shown', StatusOK(m), shown'[m].status = shown[m].status, StatusKept(m),
         ToldAfter(0, m) /\ SameStatus(m) => ToldAfter(0, m)'
  PROVE StatusOK(m)'
<1>1. CASE m \in excuse.status
  BY <1>1, StatusExcused DEF CausesStay, StatusOK
<1>2. CASE m \notin excuse.status /\ m \notin DOMAIN row
  BY <1>2 DEF StatusOK, StatusKept
<1>3. CASE m \notin excuse.status /\ m \in DOMAIN row
  BY <1>3 DEF StatusOK, StatusKept, SameStatus
<1> QED BY <1>1, <1>2, <1>3

SameRow(m) == TextNow(m)' = TextNow(m) /\ ErasedNow(m)' = ErasedNow(m) /\ StatusKept(m)
SameEntry(m) == /\ m \in DOMAIN shown /\ shown'[m].text = shown[m].text
                /\ shown'[m].erased = shown[m].erased /\ shown'[m].status = shown[m].status
(* Nothing that is to come is taken away.                                  *)
NothingConsumed == /\ CausesStay /\ WireGrows /\ held \subseteq held'
                   /\ \A m : Erasing(m) => Erasing(m)'

LEMMA RowStays ==
  ASSUME row' = row
  PROVE \A m : SameRow(m)
  BY DEF SameRow, StatusKept, SameStatus, TextNow, ErasedNow

LEMMA Kept ==
  ASSUME NothingConsumed, NEW m
  PROVE /\ \A kinds : After(0, kinds, m) => After(0, kinds, m)'
        /\ HeldEdit(m) => HeldEdit(m)'
        /\ Erasing(m) => Erasing(m)'
        /\ ToldAfter(0, m) /\ SameStatus(m) => ToldAfter(0, m)'
        /\ CausesStay
  BY AfterStays DEF NothingConsumed, HeldEdit

LEMMA Undisturbed ==
  ASSUME EntriesFollow, NothingConsumed, NEW m \in DOMAIN shown', SameEntry(m), SameRow(m)
  PROVE EntryOK(m)'
<1>1. EntryOK(m)
  BY DEF EntriesFollow, SameEntry
<1>2. TextOK(m)'
  BY <1>1, Kept, TextStays DEF EntryOK, SameEntry, SameRow
<1>3. ErasureOK(m)'
  BY <1>1, Kept, ErasureStays DEF EntryOK, SameEntry, SameRow
<1>4. m \in Mine => StatusOK(m)'
  BY <1>1, Kept, StatusStays DEF EntryOK, SameEntry, SameRow
<1> QED BY <1>2, <1>3, <1>4 DEF EntryOK

LEMMA NothingShown ==
  ASSUME EntriesFollow, NothingConsumed, shown' = shown, row' = row
  PROVE EntriesFollow'
  BY Undisturbed, RowStays DEF EntriesFollow, SameEntry

LEMMA WriteEntries ==
  ASSUME Basics, EntriesFollow, NEW m \in Mine, Send(m) \/ SendAudio(m)
  PROVE EntriesFollow'
<1>1. PICK status \in Statuses : /\ status \in {"sending", "failed"}
                                 /\ shown' = Over(shown, One(m, Entry("first", FALSE, status)))
  BY DEF Send, SendAudio, FirstStatus, Statuses
<1>2. /\ row' = row /\ toPhone' = toPhone /\ held' = held /\ excuse' = excuse
      /\ request' = request \/ request = NoRequest
  BY DEF Send, SendAudio, network
<1>3. m \notin DOMAIN row
  BY Members DEF Send, SendAudio, Basics, OrderOK, Known
<1>4. PICK e : e = Entry("first", FALSE, status)
  OBVIOUS
<1>5. e \in Entries /\ e.text = "first" /\ e.erased = FALSE /\ e.status = status
  BY <1>4, EntryIs
<1>6. /\ DOMAIN shown' = DOMAIN shown \union {m} /\ \A x \in DOMAIN shown : shown'[x] = shown[x]
      /\ m \notin DOMAIN shown => shown'[m] = e
  <2>1. PICK list : list = Over(shown, One(m, e))
    OBVIOUS
  <2>2. shown \in Lists /\ m \in Messages
    BY Members DEF Basics, TimelineTypeOK, ListsOK
  <2>3. /\ DOMAIN list = DOMAIN shown \union {m} /\ \A x \in DOMAIN shown : list[x] = shown[x]
        /\ m \notin DOMAIN shown => list[m] = e
    BY <1>5, <2>1, <2>2, AddIs
  <2> QED BY <1>1, <1>4, <2>1, <2>3
<1>7. NothingConsumed
  BY <1>2 DEF NothingConsumed, CausesStay, WireGrows, Erasing, NoRequest
<1>8. \A x \in DOMAIN shown : EntryOK(x)'
  BY <1>2, <1>6, <1>7, RowStays, Undisturbed DEF SameEntry
<1>9. m \notin DOMAIN shown => EntryOK(m)'
  <2>1. Rank(status) = 0
    BY <1>1 DEF Rank
  <2>2. TextNow(m)' = "first" /\ ErasedNow(m)' = FALSE /\ m \notin DOMAIN row'
    BY <1>2, <1>3 DEF TextNow, ErasedNow
  <2>3. ASSUME m \notin DOMAIN shown PROVE TextOK(m)' /\ ErasureOK(m)' /\ StatusOK(m)'
    <3>1. shown'[m].text = "first" /\ shown'[m].erased = FALSE /\ shown'[m].status = status
      BY <1>5, <1>6, <2>3
    <3> QED BY <2>1, <2>2, <3>1 DEF TextOK, ErasureOK, StatusOK
  <2> QED BY <2>3 DEF EntryOK
<1> QED BY <1>6, <1>8, <1>9 DEF EntriesFollow

LEMMA UploadedEntries ==
  ASSUME Basics, EntriesFollow, NEW fails \in BOOLEAN, AudioUploaded(fails)
  PROVE EntriesFollow'
<1>1. PICK status : status = (IF open /\ ~fails THEN "sent" ELSE "failed")
  OBVIOUS
<1>2. /\ DOMAIN shown' = DOMAIN shown /\ request.kind = "audio" /\ request' = NoRequest
      /\ \A x \in DOMAIN shown :
           /\ shown'[x].text = shown[x].text /\ shown'[x].erased = shown[x].erased
           /\ shown'[x].status = IF x = request.id THEN status ELSE shown[x].status
      /\ Excuse([status |-> IF status = "sent" THEN {request.id} ELSE {}])
  BY <1>1, UploadedIs DEF Basics
<1>3. row' = row /\ toPhone' = toPhone /\ held' = held
  BY DEF AudioUploaded, server
<1>4. NothingConsumed
  BY <1>2, <1>3 DEF NothingConsumed, CausesStay, WireGrows, Erasing
<1>5. \A x \in DOMAIN shown' : x # request.id => EntryOK(x)'
  BY <1>2, <1>3, <1>4, RowStays, Undisturbed DEF SameEntry
<1>6. ASSUME NEW m \in DOMAIN shown', m = request.id PROVE EntryOK(m)'
  <2>1. EntryOK(m) /\ SameRow(m)
    BY <1>2, <1>3, RowStays DEF EntriesFollow
  <2>2. TextOK(m)'
    BY <1>2, <1>4, <2>1, Kept, TextStays DEF EntryOK, SameRow
  <2>3. ErasureOK(m)'
    BY <1>2, <1>4, <2>1, Kept, ErasureStays DEF EntryOK, SameRow
  <2>4. StatusOK(m)'
    <3>1. shown'[m].status = status
      BY <1>2, <1>6
    <3>2. CASE status = "sent"
      <4>1. PICK new : new = [status |-> {m}]
        OBVIOUS
      <4>2. Excuse(new) /\ m \in Named(new, "status")
        BY <1>2, <1>6, <3>2, <4>1 DEF Named
      <4> QED BY <4>2, StatusExcused
    <3>3. CASE status # "sent"
      <4>1. m \in Unsent
        BY <1>2, <1>6 DEF Unsent, Recording
      <4>2. m \notin DOMAIN row' /\ Rank(status) = 0
        BY <1>1, <1>3, <3>3, <4>1 DEF Basics, SentOnce, Rank
      <4> QED BY <3>1, <4>2 DEF StatusOK
    <3> QED BY <3>2, <3>3
  <2> QED BY <2>2, <2>3, <2>4 DEF EntryOK
<1> QED BY <1>5, <1>6 DEF EntriesFollow

LEMMA AskEntries ==
  ASSUME Basics, EntriesFollow, NEW m \in Messages, NEW kind \in {"hide", "erase", "edit"}, Ask(m, kind)
  PROVE EntriesFollow'
<1>1. PICK new : new = [text |-> IF kind = "edit" THEN {m} ELSE {}]
  OBVIOUS
<1>2. /\ shown' \in Lists /\ m \in DOMAIN shown /\ request = NoRequest
      /\ request'.kind = kind /\ request'.id = m
      /\ DOMAIN shown' = IF kind = "hide" THEN DOMAIN shown \ {m} ELSE DOMAIN shown
      /\ \A x \in DOMAIN shown \ {m} : shown'[x] = shown[x]
      /\ kind = "erase" => shown'[m] = Blank(shown[m])
      /\ kind = "edit" => shown'[m] = Reword(shown[m])
      /\ Excuse(new)
  <2>1. /\ shown' \in Lists /\ m \in DOMAIN shown /\ request = NoRequest
        /\ DOMAIN shown' = IF kind = "hide" THEN DOMAIN shown \ {m} ELSE DOMAIN shown
        /\ \A x \in DOMAIN shown \ {m} : shown'[x] = shown[x]
        /\ kind = "erase" => shown'[m] = Blank(shown[m])
        /\ kind = "edit" => shown'[m] = Reword(shown[m])
    BY AskIs DEF Basics
  <2>2. request' = [kind |-> kind, id |-> m, step |-> "asked", before |-> shown]
    BY DEF Ask
  <2>3. Excuse(new)
    BY <1>1 DEF Ask
  <2> QED BY <2>1, <2>2, <2>3
<1>3. row' = row /\ toPhone' = toPhone /\ held' = held
  BY DEF Ask, server, network
<1>4. NothingConsumed
  BY <1>2, <1>3 DEF NothingConsumed, CausesStay, WireGrows, Erasing, NoRequest
<1>5. \A x \in DOMAIN shown' : x # m => EntryOK(x)'
  BY <1>2, <1>3, <1>4, RowStays, Undisturbed DEF SameEntry
<1>6. ASSUME m \in DOMAIN shown' PROVE EntryOK(m)'
  <2>1. EntryOK(m) /\ SameRow(m) /\ shown[m] \in Entries
    BY <1>2, <1>3, RowStays, ListIs DEF EntriesFollow, Basics, TimelineTypeOK, ListsOK
  <2>0. /\ Blank(shown[m]).status = shown[m].status /\ Reword(shown[m]).status = shown[m].status
        /\ Reword(shown[m]).erased = shown[m].erased
    BY <2>1, EntryFields
  <2>2. kind \in {"erase", "edit"} /\ shown'[m].status = shown[m].status
    BY <1>2, <1>6, <2>0
  <2>3. m \in Mine => StatusOK(m)'
    BY <1>4, <1>6, <2>1, <2>2, Kept, StatusStays DEF EntryOK, SameRow
  <2>4. CASE kind = "erase"
    <3>1. Erasing(m)'
      BY <1>2, <2>4 DEF Erasing
    <3> QED BY <2>3, <3>1 DEF EntryOK, TextOK, ErasureOK
  <2>5. CASE kind = "edit"
    <3>1. m \in Named(new, "text")
      BY <1>1, <2>5 DEF Named
    <3>2. TextOK(m)'
      BY <1>2, <1>6, <3>1, TextExcused
    <3>3. shown'[m].erased = shown[m].erased
      BY <1>2, <2>0, <2>5
    <3>4. ErasureOK(m)'
      BY <1>4, <1>6, <2>1, <3>3, Kept, ErasureStays DEF EntryOK, SameRow
    <3> QED BY <2>3, <3>2, <3>4 DEF EntryOK
  <2> QED BY <2>2, <2>4, <2>5
<1> QED BY <1>5, <1>6 DEF EntriesFollow

LEMMA OlderEntries ==
  ASSUME Basics, EntriesFollow, OlderArrives
  PROVE EntriesFollow'
<1>1. PICK late, new : /\ late = DOMAIN request.rows \ DOMAIN shown
                       /\ new = [text |-> late, erased |-> late, status |-> late, back |-> late \intersect hidden]
  OBVIOUS
<1>2. /\ request.kind = "older" /\ DOMAIN shown' = DOMAIN shown \union DOMAIN request.rows
      /\ \A x \in DOMAIN shown : shown'[x] = shown[x]
      /\ Excuse(new)
  BY <1>1, OlderIs DEF Basics
<1>3. row' = row /\ toPhone' = toPhone /\ held' = held
  BY DEF OlderArrives, server, network
<1>4. NothingConsumed
  BY <1>2, <1>3 DEF NothingConsumed, CausesStay, WireGrows, Erasing
<1>5. \A x \in DOMAIN shown : EntryOK(x)'
  BY <1>2, <1>3, <1>4, RowStays, Undisturbed DEF SameEntry
<1>6. ASSUME NEW x \in DOMAIN shown', x \notin DOMAIN shown PROVE EntryOK(x)'
  <2>1. x \in Named(new, "text") /\ x \in Named(new, "erased") /\ x \in Named(new, "status")
    BY <1>1, <1>2, <1>6 DEF Named
  <2> QED BY <1>2, <1>6, <2>1, TextExcused, ErasureExcused, StatusExcused DEF EntryOK
<1> QED BY <1>5, <1>6 DEF EntriesFollow

LEMMA AnsweredEntries ==
  ASSUME Basics, EntriesFollow, DeleteAnswered
  PROVE EntriesFollow'
<1>1. /\ row' = row /\ toPhone' = toPhone /\ held' = held /\ request' = NoRequest
      /\ request.kind \in {"hide", "erase"} /\ shown \in Lists /\ ListsOK /\ request \in Requests
  BY DEF DeleteAnswered, server, network, Basics, TimelineTypeOK, ListsOK, AskedOK
<1>2. PICK id : id = request.id
  OBVIOUS
<1>3. CASE request.step = "done" /\ request.kind = "hide"
  <2>1. RemoveMessage(id) /\ NoExcuse
    BY <1>2, <1>3 DEF DeleteAnswered, Answered
  <2>2. DOMAIN shown' = DOMAIN shown \ {id} /\ \A x \in DOMAIN shown \ {id} : shown'[x] = shown[x]
    BY <1>1, <2>1, RemoveMessageIs DEF ListsOK
  <2>3. NothingConsumed
    BY <1>1, <1>3, <2>1 DEF NothingConsumed, CausesStay, NoExcuse, WireGrows, Erasing
  <2>4. \A x \in DOMAIN shown' : SameEntry(x)
    BY <2>2 DEF SameEntry
  <2> QED BY <1>1, <2>3, <2>4, RowStays, Undisturbed DEF EntriesFollow
<1>4. CASE request.step = "done" /\ request.kind = "erase"
  <2>1. Update(Changed(id, Blank(shown[id]))) /\ NoExcuse
    BY <1>2, <1>4 DEF DeleteAnswered, Answered
  <2>2. /\ DOMAIN shown' = DOMAIN shown /\ \A x \in DOMAIN shown \ {id} : shown'[x] = shown[x]
        /\ id \in DOMAIN shown => shown'[id] = Blank(shown[id])
    BY <1>1, <2>1, DeletedIs
  <2>3. CausesStay /\ WireGrows /\ held \subseteq held' /\ \A x : Erasing(x) => x = id
    BY <1>1, <1>2, <2>1 DEF CausesStay, NoExcuse, WireGrows, Erasing
  <2>4. ASSUME NEW x \in DOMAIN shown', x # id PROVE EntryOK(x)'
    <3>1. EntryOK(x) /\ SameEntry(x) /\ SameRow(x) /\ ~Erasing(x)
      BY <1>1, <2>2, <2>3, <2>4, RowStays DEF EntriesFollow, SameEntry
    <3>2. TextOK(x)'
      BY <2>3, <3>1, AfterStays, TextStays DEF EntryOK, SameEntry, SameRow, HeldEdit
    <3>3. ErasureOK(x)'
      BY <2>3, <3>1, AfterStays, ErasureStays DEF EntryOK, SameEntry, SameRow
    <3>4. x \in Mine => StatusOK(x)'
      BY <2>3, <3>1, AfterStays, StatusStays DEF EntryOK, SameEntry, SameRow
    <3> QED BY <3>2, <3>3, <3>4 DEF EntryOK
  <2>5. ASSUME id \in DOMAIN shown' PROVE EntryOK(id)'
    <3>1. id \in DOMAIN row /\ row[id].erased
      BY <1>2, <1>4 DEF Basics, RequestOK
    <3>2. row[id].text = "gone" /\ row[id].erased = TRUE
      BY <3>1, ListIs, EntryFields DEF Basics, RowOK, TimelineTypeOK, ServerOK
    <3>3. shown[id] \in Entries /\ EntryOK(id) /\ SameRow(id)
      BY <1>1, <2>2, <2>5, ListIs, RowStays DEF EntriesFollow
    <3>4. PICK e : e = Blank(shown[id])
      OBVIOUS
    <3>5. shown'[id] = e /\ e.text = "gone" /\ e.erased = TRUE /\ e.status = shown[id].status
      BY <2>2, <2>5, <3>3, <3>4, EntryFields
    <3>6. TextNow(id)' = "gone" /\ ErasedNow(id)' = TRUE
      BY <1>1, <3>1, <3>2 DEF TextNow, ErasedNow
    <3>7. TextOK(id)' /\ ErasureOK(id)'
      BY <3>5, <3>6 DEF TextOK, ErasureOK
    <3>8. id \in Mine => StatusOK(id)'
      BY <2>3, <2>5, <3>3, <3>5, AfterStays, StatusStays DEF EntryOK, SameRow
    <3> QED BY <3>7, <3>8 DEF EntryOK
  <2> QED BY <2>4, <2>5 DEF EntriesFollow
<1>5. CASE request.step # "done"
  <2>1. PICK new : new = [lost |-> DOMAIN shown \ DOMAIN request.before,
                          text |-> DOMAIN request.before, erased |-> DOMAIN request.before,
                          status |-> DOMAIN request.before, back |-> DOMAIN request.before \intersect hidden]
    OBVIOUS
  <2>2. shown' = request.before /\ Excuse(new)
    BY <1>5, <2>1 DEF DeleteAnswered, PutBack
  <2>3. \A x \in DOMAIN shown' : x \in Named(new, "text") /\ x \in Named(new, "erased") /\ x \in Named(new, "status")
    BY <2>1, <2>2 DEF Named
  <2> QED BY <2>2, <2>3, TextExcused, ErasureExcused, StatusExcused DEF EntryOK, EntriesFollow
<1> QED BY <1>1, <1>3, <1>4, <1>5

LEMMA TakeEntries ==
  ASSUME Basics, EntriesFollow, NEW outcome \in Outcomes, NEW status \in Confirmations, Take(outcome, status)
  PROVE EntriesFollow'
<1>1. PICK m \in Mine :
        /\ Head(toServer) = [kind |-> "message", id |-> m] /\ toServer # <<>>
        /\ outcome # "saved" => row' = row
        /\ outcome = "saved" => /\ DOMAIN row' = DOMAIN row \union {m}
                                /\ \A x \in DOMAIN row : row'[x] = row[x]
                                /\ m \notin DOMAIN row => row'[m] = Entry("first", FALSE, status)
  BY TakeIs DEF Basics
<1>2. m \notin DOMAIN row
  <2>1. m \in Unsent
    BY <1>1, TailIs DEF Basics, TimelineTypeOK, WireOK, Unsent, OnWire
  <2> QED BY <2>1 DEF Basics, SentOnce
<1>3. shown' = shown /\ held' = held /\ request' = request /\ NoExcuse
  BY DEF Take, phone
<1>4. /\ WireGrows
      /\ outcome # "rejected" =>
           \E i \in DOMAIN toPhone' : i > 0 /\ toPhone'[i] = [kind |-> "receipt", req |-> {m}, status |-> status]
  <2>1. Head(toServer).id = m
    BY <1>1
  <2>2. /\ WireGrows
        /\ outcome # "rejected" =>
             \E i \in DOMAIN toPhone' :
               i > 0 /\ toPhone'[i] = [kind |-> "receipt", req |-> {Head(toServer).id}, status |-> status]
    BY TakeWire DEF Basics
  <2> QED BY <2>1, <2>2
<1>5. NothingConsumed
  BY <1>3, <1>4 DEF NothingConsumed, CausesStay, NoExcuse, Erasing
<1>6. CASE outcome # "saved"
  BY <1>1, <1>3, <1>5, <1>6, NothingShown
<1>7. CASE outcome = "saved"
  <2>1. PICK e : e = Entry("first", FALSE, status)
    OBVIOUS
  <2>2. e.text = "first" /\ e.erased = FALSE /\ e.status = status
    BY <2>1, EntryIs DEF Statuses, Confirmations
  <2>3. DOMAIN row' = DOMAIN row \union {m} /\ row'[m] = e /\ \A x \in DOMAIN row : row'[x] = row[x]
    BY <1>1, <1>2, <1>7, <2>1
  <2>4. \A x : x # m => SameRow(x)
    BY <2>3 DEF SameRow, StatusKept, SameStatus, TextNow, ErasedNow
  <2>5. ASSUME m \in DOMAIN shown PROVE EntryOK(m)'
    <3>1. TextNow(m)' = TextNow(m) /\ ErasedNow(m)' = ErasedNow(m) /\ EntryOK(m)
      BY <1>2, <2>2, <2>3, <2>5 DEF TextNow, ErasedNow, EntriesFollow
    <3>2. TextOK(m)'
      BY <1>3, <1>5, <2>5, <3>1, Kept, TextStays DEF EntryOK
    <3>3. ErasureOK(m)'
      BY <1>3, <1>5, <2>5, <3>1, Kept, ErasureStays DEF EntryOK
    <3>4. StatusOK(m)'
      <4>1. PICK f : f = [kind |-> "receipt", req |-> {m}, status |-> status]
        OBVIOUS
      <4>2. AppliesTo(f, m) /\ f.status = row'[m].status
        BY <2>2, <2>3, <4>1 DEF AppliesTo
      <4>3. \E i \in DOMAIN toPhone' : i > 0 /\ toPhone'[i] = f
        BY <1>4, <1>7, <4>1
      <4>4. ToldAfter(0, m)'
        BY <4>2, <4>3 DEF ToldAfter, AppliesTo
      <4> QED BY <2>3, <4>4 DEF StatusOK
    <3> QED BY <3>2, <3>3, <3>4 DEF EntryOK
  <2> QED BY <1>3, <1>5, <2>4, <2>5, Undisturbed DEF EntriesFollow, SameEntry
<1> QED BY <1>6, <1>7

LEMMA ChangeEntries ==
  ASSUME Basics, EntriesFollow, NEW m \in Messages, NEW kind \in {"erase", "edit"}, ChangeRow(m, kind),
         held' = held, \A x : Erasing(x) => Erasing(x)'
  PROVE EntriesFollow'
<1>1. PICK f, unheard, new : /\ f = [kind |-> kind, id |-> m] /\ unheard = (IF inRoom THEN {} ELSE {m})
                             /\ new = [text |-> unheard, erased |-> unheard]
  OBVIOUS
<1>2. /\ m \in DOMAIN row /\ row[m] \in Entries
      /\ DOMAIN row' = DOMAIN row /\ row'[m] = (IF kind = "edit" THEN Reword(row[m]) ELSE Blank(row[m]))
      /\ \A x \in DOMAIN row \ {m} : row'[x] = row[x]
      /\ f \in Frames /\ toPhone' = (IF inRoom THEN Append(toPhone, f) ELSE toPhone) /\ shown' = shown
  BY <1>1, ChangeRowIs, ListIs DEF Basics, TimelineTypeOK, WireOK, ServerOK, phone
<1>3. Excuse(new)
  BY <1>1 DEF ChangeRow
<1>4. /\ row'[m].status = row[m].status
      /\ kind = "edit" => row'[m].text = "second" /\ row'[m].erased = row[m].erased
  <2>1. /\ Reword(row[m]).text = "second" /\ Reword(row[m]).erased = row[m].erased
        /\ Reword(row[m]).status = row[m].status /\ Blank(row[m]).status = row[m].status
    BY <1>2, EntryFields
  <2> QED BY <1>2, <2>1
<1>5. WireGrows /\ (inRoom => \A kinds : kind \in kinds => After(0, kinds, m)')
  <2>1. CASE inRoom
    <3>1. toPhone' = Append(toPhone, f) /\ TimelineTypeOK
      BY <1>2, <2>1 DEF Basics
    <3>2. WireGrows
      BY <1>2, <3>1, WireAppends
    <3>3. \E j \in DOMAIN toPhone' : j > 0 /\ toPhone'[j] = f
      BY <1>2, <3>1, Appended
    <3>4. f.kind = kind /\ f.id = m
      BY <1>1
    <3> QED BY <3>2, <3>3, <3>4 DEF After
  <2>2. CASE ~inRoom
    BY <1>2, <2>2 DEF WireGrows
  <2> QED BY <2>1, <2>2
<1>6. NothingConsumed
  BY <1>3, <1>5 DEF NothingConsumed, CausesStay
<1>7. \A x : x # m => SameRow(x)
  BY <1>2 DEF SameRow, StatusKept, SameStatus, TextNow, ErasedNow
<1>8. ASSUME m \in DOMAIN shown PROVE EntryOK(m)'
  <2>1. EntryOK(m) /\ StatusKept(m)
    BY <1>2, <1>4, <1>8 DEF EntriesFollow, StatusKept, SameStatus
  <2>2. m \in Mine => StatusOK(m)'
    BY <1>2, <1>6, <1>8, <2>1, Kept, StatusStays DEF EntryOK
  <2>3. ~inRoom => m \in Named(new, "text") /\ m \in Named(new, "erased")
    BY <1>1 DEF Named
  <2>4. TextOK(m)'
    <3>1. CASE inRoom
      BY <1>5, <3>1 DEF TextOK
    <3>2. CASE ~inRoom
      BY <1>2, <1>3, <1>8, <2>3, <3>2, TextExcused
    <3> QED BY <3>1, <3>2
  <2>5. ErasureOK(m)'
    <3>1. CASE ~inRoom
      BY <1>2, <1>3, <1>8, <2>3, <3>1, ErasureExcused
    <3>2. CASE inRoom /\ kind = "erase"
      BY <1>5, <3>2 DEF ErasureOK
    <3>3. CASE kind = "edit"
      <4>1. ErasedNow(m)' = ErasedNow(m)
        BY <1>2, <1>4, <3>3 DEF ErasedNow
      <4> QED BY <1>2, <1>6, <1>8, <2>1, <4>1, Kept, ErasureStays DEF EntryOK
    <3> QED BY <3>1, <3>2, <3>3
  <2> QED BY <2>2, <2>4, <2>5 DEF EntryOK
<1> QED BY <1>2, <1>6, <1>7, <1>8, Undisturbed DEF EntriesFollow, SameEntry

LEMMA ServeEntries ==
  ASSUME Basics, EntriesFollow, NEW answer \in {"done", "failed"}, Serve(answer)
  PROVE EntriesFollow'
<1>1. /\ held' = held /\ Asked /\ Finish(answer) /\ request.kind \in {"hide", "erase", "edit"}
      /\ request.id \in Messages
  BY FinishType DEF Serve, Basics
<1>2. \A x : Erasing(x) => Erasing(x)'
  <2>1. request.kind # "edit" => request'.kind = request.kind /\ request'.id = request.id
    BY <1>1, FinishType DEF Basics
  <2> QED BY <2>1 DEF Erasing
<1>3. CASE request.kind = "hide"
  <2>1. row' = row /\ toPhone' = toPhone /\ shown' = shown /\ excuse' = excuse
    BY <1>3 DEF Serve, phone
  <2> QED BY <1>1, <1>2, <2>1, NothingShown DEF NothingConsumed, CausesStay, WireGrows
<1>4. CASE request.kind \in {"erase", "edit"}
  <2>1. ChangeRow(request.id, request.kind)
    BY <1>4 DEF Serve
  <2> QED BY <1>1, <1>2, <1>4, <2>1, ChangeEntries
<1> QED BY <1>1, <1>3, <1>4

LEMMA PeerEntries ==
  ASSUME Basics, EntriesFollow, Peer
  PROVE EntriesFollow'
<1>1. ASSUME NEW m \in Theirs, PeerSends(m) PROVE EntriesFollow'
  <2>1. row' = row /\ shown' = shown /\ held' = held /\ excuse' = excuse /\ request' = request
    BY <1>1 DEF PeerSends, phone
  <2>2. PICK f : f = [kind |-> "message", id |-> m]
    OBVIOUS
  <2>3. f \in Frames /\ toPhone' = IF inRoom THEN Append(toPhone, f) ELSE toPhone
    BY <1>1, <2>2 DEF PeerSends, Reaches, Frames
  <2>4. WireGrows
    <3>1. CASE inRoom
      BY <2>3, <3>1, WireAppends DEF Basics
    <3>2. CASE ~inRoom
      BY <2>3, <3>2 DEF WireGrows
    <3> QED BY <3>1, <3>2
  <2> QED BY <2>1, <2>4, NothingShown DEF NothingConsumed, CausesStay, Erasing
<1>2. ASSUME NEW m \in Theirs, PeerSaved(m) PROVE EntriesFollow'
  <2>1. toPhone' = toPhone /\ shown' = shown /\ held' = held /\ excuse' = excuse /\ request' = request
    BY <1>2 DEF PeerSaved, phone, network
  <2>2. NothingConsumed
    BY <2>1 DEF NothingConsumed, CausesStay, WireGrows, Erasing
  <2>3. PICK e : e = Entry("first", FALSE, "delivered")
    OBVIOUS
  <2>4. e.text = "first" /\ e.erased = FALSE
    BY <2>3, EntryIs DEF Statuses
  <2>5. /\ DOMAIN row' = DOMAIN row \union {m} /\ \A x \in DOMAIN row : row'[x] = row[x]
        /\ m \notin DOMAIN row => row'[m] = e
    BY <1>2, <2>3, PeerSavedIs DEF Basics
  <2>6. \A x : x # m => SameRow(x)
    BY <2>5 DEF SameRow, StatusKept, SameStatus, TextNow, ErasedNow
  <2>7. ASSUME m \in DOMAIN shown PROVE EntryOK(m)'
    <3>1. TextNow(m)' = TextNow(m) /\ ErasedNow(m)' = ErasedNow(m) /\ EntryOK(m)
      BY <2>4, <2>5, <2>7 DEF TextNow, ErasedNow, EntriesFollow
    <3>2. TextOK(m)'
      BY <2>1, <2>2, <2>7, <3>1, Kept, TextStays DEF EntryOK
    <3>3. ErasureOK(m)'
      BY <2>1, <2>2, <2>7, <3>1, Kept, ErasureStays DEF EntryOK
    <3>4. m \notin Mine
      BY TwoSenders
    <3> QED BY <3>2, <3>3, <3>4 DEF EntryOK
  <2> QED BY <2>1, <2>2, <2>6, <2>7, Undisturbed DEF EntriesFollow, SameEntry
<1>3. ASSUME NEW m \in Theirs, NEW kind \in {"erase", "edit"}, PeerChanges(m, kind) PROVE EntriesFollow'
  <2>1. ChangeRow(m, kind) /\ held' = held /\ request' = request /\ m \in Messages
    BY <1>3, Members DEF PeerChanges
  <2> QED BY <2>1, ChangeEntries DEF Erasing
<1>4. ASSUME NEW S, NEW status \in {"delivered", "read"}, PeerReceipt(S, status) PROVE EntriesFollow'
  <2>1. PICK f, marked : /\ f = [kind |-> "receipt", req |-> {}, status |-> status]
                         /\ marked = {m \in S \intersect DOMAIN row : Stored(m) < Rank(status)}
    OBVIOUS
  <2>2. PICK new : new = [status |-> IF inRoom THEN {} ELSE marked]
    OBVIOUS
  <2>3. /\ f \in Frames /\ toPhone' = (IF inRoom THEN Append(toPhone, f) ELSE toPhone)
        /\ DOMAIN row' = DOMAIN row
        /\ \A x \in DOMAIN row : row'[x].text = row[x].text /\ row'[x].erased = row[x].erased
    BY <1>4, <2>1, ReceiptRows DEF Basics
  <2>4. \A x \in DOMAIN row : row'[x].status = IF x \in marked THEN status ELSE row[x].status
    <3>1. row' = [x \in DOMAIN row |-> IF x \in marked THEN [row[x] EXCEPT !.status = status] ELSE row[x]]
      BY <1>4, <2>1 DEF PeerReceipt
    <3>2. \A x \in DOMAIN row : row[x] \in Entries /\ [row[x] EXCEPT !.status = status].status = status
      BY ListIs, StatusSet DEF Basics, TimelineTypeOK, ServerOK, Statuses
    <3> QED BY <3>1, <3>2
  <2>5. /\ Excuse(new) /\ shown' = shown /\ held' = held /\ request' = request /\ marked \subseteq DOMAIN row
    BY <1>4, <2>1, <2>2 DEF PeerReceipt, phone
  <2>6. WireGrows /\ (inRoom => \E j \in DOMAIN toPhone' : j > 0 /\ toPhone'[j] = f)
    <3>1. CASE inRoom
      <4>1. toPhone' = Append(toPhone, f) /\ TimelineTypeOK
        BY <2>3, <3>1 DEF Basics
      <4> QED BY <2>3, <4>1, WireAppends, Appended
    <3>2. CASE ~inRoom
      BY <2>3, <3>2 DEF WireGrows
    <3> QED BY <3>1, <3>2
  <2>7. NothingConsumed
    BY <2>5, <2>6 DEF NothingConsumed, CausesStay, Erasing
  <2>8. ASSUME NEW m \in DOMAIN shown PROVE EntryOK(m)'
    <3>1. TextNow(m)' = TextNow(m) /\ ErasedNow(m)' = ErasedNow(m) /\ EntryOK(m)
      BY <2>3, <2>8 DEF TextNow, ErasedNow, EntriesFollow
    <3>2. TextOK(m)'
      BY <2>5, <2>7, <3>1, Kept, TextStays DEF EntryOK
    <3>3. ErasureOK(m)'
      BY <2>5, <2>7, <3>1, Kept, ErasureStays DEF EntryOK
    <3>4. CASE m \notin marked
      <4>1. StatusKept(m)
        BY <2>3, <2>4, <3>4 DEF StatusKept, SameStatus
      <4> QED BY <2>5, <2>7, <3>1, <3>2, <3>3, <4>1, Kept, StatusStays DEF EntryOK
    <3>5. CASE m \in marked
      <4>1. m \in DOMAIN row' /\ row'[m].status = status
        BY <2>3, <2>4, <2>5, <3>5
      <4>2. CASE inRoom
        <5>1. AppliesTo(f, m) /\ f.status = status
          BY <2>1 DEF AppliesTo
        <5>2. ToldAfter(0, m)'
          BY <2>6, <4>1, <4>2, <5>1 DEF ToldAfter, AppliesTo
        <5> QED BY <3>2, <3>3, <4>1, <5>2 DEF EntryOK, StatusOK
      <4>3. CASE ~inRoom
        <5>1. m \in Named(new, "status")
          BY <2>2, <3>5, <4>3 DEF Named
        <5>2. StatusOK(m)'
          BY <2>5, <5>1, StatusExcused
        <5> QED BY <3>2, <3>3, <5>2 DEF EntryOK
      <4> QED BY <4>2, <4>3
    <3> QED BY <3>4, <3>5
  <2> QED BY <2>5, <2>8 DEF EntriesFollow
<1> QED BY <1>1, <1>2, <1>3, <1>4 DEF Peer

LEMMA QuietEntries ==
  ASSUME Basics, EntriesFollow,
         \/ AskOlder \/ Flush \/ SocketOpens \/ Join \/ SendHistory \/ Refuse
         \/ \E fails \in BOOLEAN : ReadHistory(fails)
  PROVE EntriesFollow'
<1>1. ASSUME WireGrows, row' = row, shown' = shown, held' = held, CausesStay, \A m : Erasing(m) => Erasing(m)'
      PROVE EntriesFollow'
  BY <1>1, NothingShown DEF NothingConsumed
<1>2. CASE AskOlder \/ Flush \/ SocketOpens \/ Join
  <2>1. /\ row' = row /\ shown' = shown /\ held' = held /\ excuse' = excuse /\ toPhone' = toPhone
        /\ request' = request \/ request = NoRequest
    BY <1>2 DEF AskOlder, Flush, SocketOpens, Join, server, network, phone
  <2> QED BY <1>1, <2>1 DEF WireGrows, CausesStay, Erasing, NoRequest
<1>3. CASE SendHistory
  <2>1. PICK f : f = [kind |-> "history", rows |-> joining.rows, saved |-> joining.saved]
    OBVIOUS
  <2>2. f \in Frames /\ toPhone' = Append(toPhone, f)
    BY <1>3, <2>1, JoiningKinds DEF SendHistory, Frames, Histories, Basics, TimelineTypeOK, ServerOK
  <2>3. WireGrows
    BY <2>2, WireAppends DEF Basics
  <2>4. row' = row /\ shown' = shown /\ held' = held /\ excuse' = excuse /\ request' = request
    BY <1>3 DEF SendHistory, phone
  <2> QED BY <1>1, <2>3, <2>4 DEF CausesStay, Erasing
<1>4. CASE Refuse
  <2>1. row' = row /\ shown' = shown /\ held' = held /\ excuse' = excuse /\ toPhone' = toPhone
    BY <1>4 DEF Refuse, server, network, phone
  <2>2. request.kind # "edit" => request'.kind = request.kind /\ request'.id = request.id
    BY <1>4, FinishType DEF Refuse, Basics
  <2> QED BY <1>1, <2>1, <2>2 DEF WireGrows, CausesStay, Erasing
<1>5. ASSUME NEW fails \in BOOLEAN, ReadHistory(fails) PROVE EntriesFollow'
  <2>1. row' = row /\ shown' = shown /\ held' = held /\ toPhone' = toPhone /\ request' = request /\ CausesStay
    BY <1>5 DEF ReadHistory, network, phone, CausesStay
  <2> QED BY <1>1, <2>1 DEF WireGrows, Erasing
<1> QED BY <1>2, <1>3, <1>4, <1>5

LEMMA BreakEntries ==
  ASSUME Basics, EntriesFollow, Break
  PROVE EntriesFollow'
<1>1. PICK new : new = [text |-> Unheard({"edit", "erase"}), erased |-> Unheard({"erase"}), status |-> UnheardReceipts]
  OBVIOUS
<1>2. Excuse(new) /\ row' = row /\ shown' = shown /\ held' = held /\ request' = request
  BY <1>1 DEF Break, Cut, phone
<1> SUFFICES ASSUME NEW m \in DOMAIN shown PROVE EntryOK(m)'
  BY <1>2 DEF EntriesFollow
<1>3. EntryOK(m) /\ SameRow(m) /\ m \in Messages /\ CausesStay
  BY <1>2, RowStays, ListIs DEF EntriesFollow, Basics, TimelineTypeOK, ListsOK, CausesStay
<1>4. (HeldEdit(m) => HeldEdit(m)') /\ (Erasing(m) => Erasing(m)')
  BY <1>2 DEF HeldEdit, Erasing
<1>5. TextOK(m)'
  <2>1. CASE After(0, {"edit", "erase"}, m)
    <3>1. m \in Named(new, "text")
      BY <1>1, <1>3, <2>1 DEF Named, Unheard, After
    <3> QED BY <1>2, <3>1, TextExcused
  <2>2. CASE ~After(0, {"edit", "erase"}, m)
    BY <1>2, <1>3, <1>4, <2>2, TextStays DEF EntryOK, SameRow
  <2> QED BY <2>1, <2>2
<1>6. ErasureOK(m)'
  <2>1. CASE After(0, {"erase"}, m)
    <3>1. m \in Named(new, "erased")
      BY <1>1, <1>3, <2>1 DEF Named, Unheard, After
    <3> QED BY <1>2, <3>1, ErasureExcused
  <2>2. CASE ~After(0, {"erase"}, m)
    BY <1>2, <1>3, <1>4, <2>2, ErasureStays DEF EntryOK, SameRow
  <2> QED BY <2>1, <2>2
<1>7. m \in Mine => StatusOK(m)'
  <2>1. CASE m \in Mine /\ ToldAfter(0, m)
    <3>1. m \in Named(new, "status")
      BY <1>1, <2>1 DEF Named, UnheardReceipts, ToldAfter, AppliesTo
    <3> QED BY <1>2, <3>1, StatusExcused
  <2>2. CASE ~ToldAfter(0, m)
    BY <1>2, <1>3, <2>2, StatusStays DEF EntryOK, SameRow
  <2> QED BY <2>1, <2>2
<1> QED BY <1>5, <1>6, <1>7 DEF EntryOK

LEMMA RestartEntries ==
  ASSUME Basics, EntriesFollow, StartAgain
  PROVE EntriesFollow'
<1>1. PICK new : new = Restarted
  OBVIOUS
<1>2. Excuse(new) /\ row' = row /\ shown' = disk
  BY <1>1, StartAgainIs DEF Cut
<1> SUFFICES ASSUME NEW m \in DOMAIN disk PROVE EntryOK(m)'
  BY <1>2 DEF EntriesFollow
<1>3. SameRow(m) /\ m \in Messages /\ CausesStay
  BY <1>2, RowStays, ListIs DEF Basics, TimelineTypeOK, ListsOK, CausesStay
<1>4. CASE m \in Behind
  <2>1. m \in Named(new, "text") /\ m \in Named(new, "erased") /\ m \in Named(new, "status")
    BY <1>1, <1>4 DEF Named, Restarted
  <2> QED BY <1>2, <2>1, TextExcused, ErasureExcused, StatusExcused DEF EntryOK
<1>5. CASE m \notin Behind
  <2>1. m \in DOMAIN shown /\ shown'[m] = shown[m] /\ EntryOK(m)
    BY <1>2, <1>5 DEF Behind, EntriesFollow
  <2>2. TextOK(m)'
    <3>1. CASE After(0, {"edit", "erase"}, m) \/ HeldEdit(m) \/ Erasing(m)
      <4>1. m \in Unheard({"edit", "erase"}) \union WaitingEdits \union AskedErasure
        BY <1>3, <3>1 DEF Unheard, After, WaitingEdits, HeldEdit, AskedErasure, Erasing
      <4>2. m \in Named(new, "text")
        BY <1>1, <4>1 DEF Named, Restarted
      <4> QED BY <1>2, <4>2, TextExcused
    <3>2. CASE ~(After(0, {"edit", "erase"}, m) \/ HeldEdit(m) \/ Erasing(m))
      BY <1>2, <1>3, <2>1, <3>2, TextStays DEF EntryOK, SameRow
    <3> QED BY <3>1, <3>2
  <2>3. ErasureOK(m)'
    <3>1. CASE After(0, {"erase"}, m) \/ Erasing(m)
      <4>1. m \in Unheard({"erase"}) \union AskedErasure
        BY <1>3, <3>1 DEF Unheard, After, AskedErasure, Erasing
      <4>2. m \in Named(new, "erased")
        BY <1>1, <4>1 DEF Named, Restarted
      <4> QED BY <1>2, <4>2, ErasureExcused
    <3>2. CASE ~(After(0, {"erase"}, m) \/ Erasing(m))
      BY <1>2, <1>3, <2>1, <3>2, ErasureStays DEF EntryOK, SameRow
    <3> QED BY <3>1, <3>2
  <2>4. m \in Mine => StatusOK(m)'
    <3>1. CASE m \in Mine /\ ToldAfter(0, m)
      <4>1. m \in UnheardReceipts
        BY <3>1 DEF UnheardReceipts, ToldAfter, AppliesTo
      <4>2. m \in Named(new, "status")
        BY <1>1, <4>1 DEF Named, Restarted
      <4> QED BY <1>2, <4>2, StatusExcused
    <3>2. CASE ~ToldAfter(0, m)
      BY <1>2, <1>3, <2>1, <3>2, StatusStays DEF EntryOK, SameRow
    <3> QED BY <3>1, <3>2
  <2> QED BY <2>2, <2>3, <2>4 DEF EntryOK
<1> QED BY <1>4, <1>5
--------------------------------------------------------------------------------
(* ... and when a listener runs.                                           *)

LEMMA WaitsEntries ==
  ASSUME Basics, EntriesFollow, Waits
  PROVE EntriesFollow'
<1>1. PICK f : f = Head(toPhone)
  OBVIOUS
<1>2. /\ row' = row /\ shown' = shown /\ excuse' = excuse /\ request' = request
      /\ toPhone # <<>> /\ toPhone' = Tail(toPhone) /\ held' = held \union {f} /\ NeedsKey(f)
  BY <1>1 DEF Waits, server, phone
<1> SUFFICES ASSUME NEW m \in DOMAIN shown PROVE EntryOK(m)'
  BY <1>2 DEF EntriesFollow
<1>3. EntryOK(m) /\ SameRow(m) /\ CausesStay /\ (Erasing(m) => Erasing(m)') /\ (HeldEdit(m) => HeldEdit(m)')
  BY <1>2, RowStays DEF EntriesFollow, CausesStay, Erasing, HeldEdit
<1>4. /\ \A kinds : After(0, kinds, m) => After(0, kinds, m)' \/ (f.kind \in kinds /\ f.id = m)
      /\ ToldAfter(0, m) /\ SameStatus(m) => ToldAfter(0, m)' \/ AppliesTo(f, m)
  BY <1>1, <1>2, AfterShifts DEF Basics
<1>5. f.kind \in {"history", "message", "edit"}
  BY <1>2 DEF NeedsKey
<1>6. TextOK(m)'
  <2>1. CASE f.kind = "edit" /\ f.id = m
    BY <1>2, <2>1 DEF TextOK, HeldEdit
  <2>2. CASE ~(f.kind = "edit" /\ f.id = m)
    BY <1>2, <1>3, <1>4, <1>5, <2>2, TextStays DEF EntryOK, SameRow
  <2> QED BY <2>1, <2>2
<1>7. ErasureOK(m)'
  BY <1>2, <1>3, <1>4, <1>5, ErasureStays DEF EntryOK, SameRow
<1>8. m \in Mine => StatusOK(m)'
  BY <1>2, <1>3, <1>4, <1>5, StatusStays DEF EntryOK, SameRow, AppliesTo
<1> QED BY <1>6, <1>7, <1>8 DEF EntryOK

(* What is left to come once a listener has run.                           *)
LEMMA RunsLeave ==
  ASSUME TimelineTypeOK, NEW frame \in Frames, Runs(frame), NEW m
  PROVE /\ \A kinds : After(0, kinds, m) => After(0, kinds, m)' \/ (frame.kind \in kinds /\ frame.id = m)
        /\ HeldEdit(m) => HeldEdit(m)' \/ (frame.kind = "edit" /\ frame.id = m)
        /\ ToldAfter(0, m) /\ SameStatus(m)
             => ToldAfter(0, m)' \/ (AppliesTo(frame, m) /\ frame.status = row[m].status)
<1>1. CASE toPhone # <<>> /\ frame = Head(toPhone) /\ toPhone' = Tail(toPhone) /\ held' = held
  BY <1>1, AfterShifts DEF HeldEdit
<1>2. CASE held' = held \ {frame} /\ toPhone' = toPhone
  <2>1. WireGrows
    BY <1>2 DEF WireGrows
  <2> QED BY <1>2, <2>1, AfterStays DEF HeldEdit
<1> QED BY <1>1, <1>2 DEF Runs

(* What is known of a frame whose listener runs when it arrives.           *)
LEMMA RunsNow ==
  ASSUME TimelineTypeOK, FramesFollow, NEW frame \in Frames, Runs(frame), row' = row,
         held' = held \/ ~NeedsKey(frame), NEW id, id = frame.id
  PROVE /\ frame.kind = "message" => /\ TextNow(id) = "first" \/ After(0, {"edit", "erase"}, id)'
                                     /\ ErasedNow(id) = FALSE \/ After(0, {"erase"}, id)'
        /\ frame.kind = "edit" => TextNow(id) = "second" \/ After(0, {"erase"}, id)'
        /\ frame.kind = "erase" => ErasedNow(id) = TRUE
        /\ frame.kind = "receipt" =>
             \A m \in frame.req \intersect DOMAIN row : frame.status = row[m].status \/ ToldAfter(0, m)'
<1>1. toPhone # <<>> /\ frame = Head(toPhone) /\ toPhone' = Tail(toPhone)
  BY DEF Runs, FramesFollow
<1>2. 1 \in DOMAIN toPhone /\ toPhone[1] = frame
  BY <1>1, Shifted
<1>3. NoticeFollows(1) /\ ReceiptFollows(1)
  BY <1>2 DEF FramesFollow
<1>4. /\ \A kinds, m : After(1, kinds, m) => After(0, kinds, m)'
      /\ \A m \in DOMAIN row : ToldAfter(1, m) => ToldAfter(0, m)'
  <2>1. 0 \in Nat /\ 0 + 1 = 1
    OBVIOUS
  <2>2. \A m \in DOMAIN row : SameStatus(m)
    BY DEF SameStatus
  <2>3. /\ \A kinds, m : After(0 + 1, kinds, m) => After(0, kinds, m)'
        /\ \A m : ToldAfter(0 + 1, m) /\ SameStatus(m) => ToldAfter(0, m)'
    BY <1>1, <2>1, AfterShifts
  <2> QED BY <2>1, <2>2, <2>3
<1>5. /\ frame.kind = "message" => /\ TextNow(id) = "first" \/ After(1, {"edit", "erase"}, id)
                                   /\ ErasedNow(id) = FALSE \/ After(1, {"erase"}, id)
      /\ frame.kind = "edit" => TextNow(id) = "second" \/ After(1, {"erase"}, id)
      /\ frame.kind = "erase" => ErasedNow(id) = TRUE
  BY <1>2, <1>3 DEF NoticeFollows
<1>6. frame.kind = "receipt" =>
        \A m \in frame.req \intersect DOMAIN row : frame.status = row[m].status \/ ToldAfter(1, m)
  BY <1>2, <1>3 DEF ReceiptFollows
<1> QED BY <1>4, <1>5, <1>6

LEMMA Untouched ==
  ASSUME Basics, EntriesFollow, NEW frame \in Frames, Runs(frame), row' = row, request' = request, CausesStay,
         NEW m \in DOMAIN shown', m \in DOMAIN shown
  PROVE /\ shown'[m].text = shown[m].text /\ ~(frame.kind \in {"edit", "erase"} /\ frame.id = m) => TextOK(m)'
        /\ shown'[m].erased = shown[m].erased /\ ~(frame.kind = "erase" /\ frame.id = m) => ErasureOK(m)'
        /\ m \in Mine /\ shown'[m].status = shown[m].status /\ ~AppliesTo(frame, m) => StatusOK(m)'
<1>1. EntryOK(m) /\ SameRow(m) /\ (Erasing(m) => Erasing(m)')
  BY RowStays DEF EntriesFollow, Erasing
<1>2. /\ \A kinds : After(0, kinds, m) => After(0, kinds, m)' \/ (frame.kind \in kinds /\ frame.id = m)
      /\ HeldEdit(m) => HeldEdit(m)' \/ (frame.kind = "edit" /\ frame.id = m)
      /\ ToldAfter(0, m) /\ SameStatus(m) => ToldAfter(0, m)' \/ AppliesTo(frame, m)
  BY RunsLeave DEF Basics
<1>3. ASSUME shown'[m].text = shown[m].text, ~(frame.kind \in {"edit", "erase"} /\ frame.id = m) PROVE TextOK(m)'
  BY <1>1, <1>2, <1>3, TextStays DEF EntryOK, SameRow
<1>4. ASSUME shown'[m].erased = shown[m].erased, ~(frame.kind = "erase" /\ frame.id = m) PROVE ErasureOK(m)'
  BY <1>1, <1>2, <1>4, ErasureStays DEF EntryOK, SameRow
<1>5. ASSUME m \in Mine, shown'[m].status = shown[m].status, ~AppliesTo(frame, m) PROVE StatusOK(m)'
  BY <1>1, <1>2, <1>5, StatusStays DEF EntryOK, SameRow
<1> QED BY <1>3, <1>4, <1>5

LEMMA HistoryEntries ==
  ASSUME Basics, HistoriesOK, EntriesFollow, NEW frame \in Frames, frame \in held \union Range(toPhone),
         Runs(frame), frame.kind = "history", OnHistory(frame)
  PROVE EntriesFollow'
<1>1. PICK rows, lost, new :
        /\ rows = frame.rows
        /\ new = [lost |-> lost, text |-> DOMAIN rows \ DOMAIN shown,
                  erased |-> {m \in DOMAIN rows : ~rows[m].erased},
                  status |-> DOMAIN rows, back |-> DOMAIN rows \intersect hidden]
        /\ Excuse(new)
  BY DEF OnHistory
<1>2. rows \in Lists /\ Reconcile(rows) /\ row' = row /\ request' = request /\ CausesStay
  BY <1>1, FrameKinds DEF OnHistory, server, CausesStay
<1>3. /\ DOMAIN shown' = DOMAIN rows \union Beside(shown, rows)
      /\ \A m \in DOMAIN rows : shown'[m] = Mapped(m, rows[m])
      /\ \A m \in Beside(shown, rows) : shown'[m] = shown[m]
      /\ Beside(shown, rows) \subseteq DOMAIN shown
  BY <1>2, ReconcileIs DEF Basics, TimelineTypeOK, ListsOK, Beside
<1>4. ASSUME NEW m \in DOMAIN shown', m \notin DOMAIN rows PROVE EntryOK(m)'
  <2>1. m \in DOMAIN shown /\ shown'[m] = shown[m]
    BY <1>3, <1>4
  <2>2. ~AppliesTo(frame, m)
    BY DEF AppliesTo
  <2> QED BY <1>2, <2>1, <2>2, Untouched DEF EntryOK
<1>5. ASSUME NEW m \in DOMAIN rows PROVE EntryOK(m)'
  <2>1. PICK e : e = Mapped(m, rows[m])
    OBVIOUS
  <2>2. rows[m] \in Entries
    BY <1>2, ListIs
  <2>3. /\ m \in DOMAIN shown' /\ shown'[m] = e /\ e.erased = rows[m].erased
        /\ e.text = IF m \in DOMAIN shown THEN shown[m].text ELSE rows[m].text
    BY <1>3, <2>1, <2>2, MappedIs DEF Basics, TimelineTypeOK, ListsOK
  <2>4. m \in Named(new, "status") /\ (m \notin DOMAIN shown => m \in Named(new, "text"))
        /\ (~rows[m].erased => m \in Named(new, "erased"))
    BY <1>1 DEF Named
  <2>5. StatusOK(m)'
    BY <1>1, <2>3, <2>4, StatusExcused
  <2>6. TextOK(m)'
    <3>1. CASE m \notin DOMAIN shown
      BY <1>1, <2>3, <2>4, <3>1, TextExcused
    <3>2. CASE m \in DOMAIN shown
      <4>1. shown'[m].text = shown[m].text
        BY <2>3, <3>2
      <4> QED BY <1>2, <2>3, <3>2, <4>1, Untouched
    <3> QED BY <3>1, <3>2
  <2>7. ErasureOK(m)'
    <3>1. CASE ~rows[m].erased
      BY <1>1, <2>3, <2>4, <3>1, ErasureExcused
    <3>2. CASE rows[m].erased
      <4>1. m \in DOMAIN row /\ row[m].erased
        BY <1>1, <3>2 DEF HistoriesOK, HistoryOK
      <4>2. rows[m].erased = TRUE /\ row[m].erased = TRUE
        BY <2>2, <3>2, <4>1, ListIs, EntryFields DEF Basics, TimelineTypeOK, ServerOK
      <4>3. shown'[m].erased = TRUE /\ ErasedNow(m)' = TRUE
        BY <1>2, <2>3, <4>1, <4>2 DEF ErasedNow
      <4> QED BY <4>3 DEF ErasureOK
    <3> QED BY <3>1, <3>2
  <2> QED BY <2>5, <2>6, <2>7 DEF EntryOK
<1> QED BY <1>4, <1>5 DEF EntriesFollow

LEMMA MessageEntries ==
  ASSUME Basics, FramesFollow, EntriesFollow, NEW frame \in Frames, Runs(frame), frame.kind = "message",
         OnMessage(frame)
  PROVE EntriesFollow'
<1>1. PICK id, new : /\ id = frame.id
                     /\ new = [text |-> Late(id), erased |-> Late(id), back |-> {id} \intersect hidden]
  OBVIOUS
<1>2. /\ Excuse(new) /\ AppendMessage(id) /\ row' = row /\ request' = request /\ CausesStay
      /\ id \in Theirs /\ id \in Messages
  BY <1>1, FrameKinds, Members DEF OnMessage, server, CausesStay
<1>3. /\ DOMAIN shown' = DOMAIN shown \union {id} /\ \A x \in DOMAIN shown : shown'[x] = shown[x]
  BY <1>2, AppendMessageIs DEF Basics, TimelineTypeOK, ListsOK
<1>4. ASSUME NEW m \in DOMAIN shown PROVE EntryOK(m)'
  <2>1. ~AppliesTo(frame, m) /\ m \in DOMAIN shown' /\ shown'[m] = shown[m]
    BY <1>3 DEF AppliesTo
  <2> QED BY <1>2, <2>1, Untouched DEF EntryOK
<1>5. ASSUME id \notin DOMAIN shown PROVE EntryOK(id)'
  <2>1. PICK e : e = Entry("first", FALSE, "delivered")
    OBVIOUS
  <2>2. e \in Entries /\ e.text = "first" /\ e.erased = FALSE
    BY <2>1, EntryIs DEF Statuses
  <2>3. shown'[id] = e /\ id \in DOMAIN shown'
    <3>1. shown' = Over(shown, One(id, e))
      BY <1>2, <2>1 DEF AppendMessage
    <3>2. PICK list : list = Over(shown, One(id, e))
      OBVIOUS
    <3>3. shown \in Lists
      BY DEF Basics, TimelineTypeOK, ListsOK
    <3>4. DOMAIN list = DOMAIN shown \union {id} /\ list[id] = e
      BY <1>2, <1>5, <2>2, <3>2, <3>3, AddIs
    <3> QED BY <3>1, <3>2, <3>4
  <2>4. id \notin Mine
    BY <1>2, TwoSenders
  <2>5. CASE held' # held
    <3>1. id \in Named(new, "text") /\ id \in Named(new, "erased")
      BY <1>1, <2>5 DEF Named, Late
    <3> QED BY <1>2, <2>3, <2>4, <3>1, TextExcused, ErasureExcused DEF EntryOK
  <2>6. CASE held' = held
    <3>1. /\ TextNow(id) = "first" \/ After(0, {"edit", "erase"}, id)'
          /\ ErasedNow(id) = FALSE \/ After(0, {"erase"}, id)'
      BY <1>1, <1>2, <2>6, RunsNow DEF Basics
    <3>2. SameRow(id)
      BY <1>2, RowStays
    <3> QED BY <2>2, <2>3, <2>4, <3>1, <3>2 DEF EntryOK, TextOK, ErasureOK, SameRow
  <2> QED BY <2>5, <2>6
<1> QED BY <1>3, <1>4, <1>5 DEF EntriesFollow

LEMMA EditEntries ==
  ASSUME Basics, FramesFollow, EntriesFollow, NEW frame \in Frames, Runs(frame), frame.kind = "edit",
         OnEdited(frame)
  PROVE EntriesFollow'
<1>1. PICK id, new : id = frame.id /\ new = [text |-> Late(id) \union ({id} \ DOMAIN shown)]
  OBVIOUS
<1>2. Excuse(new) /\ row' = row /\ request' = request /\ CausesStay
  BY <1>1 DEF OnEdited, server, CausesStay
<1>3. /\ DOMAIN shown' = DOMAIN shown /\ \A x \in DOMAIN shown \ {id} : shown'[x] = shown[x]
      /\ id \in DOMAIN shown => shown'[id] = Reword(shown[id])
  BY <1>1, EditedIs DEF Basics, TimelineTypeOK
<1>4. ASSUME NEW m \in DOMAIN shown, m # id PROVE EntryOK(m)'
  <2>1. ~AppliesTo(frame, m) /\ m \in DOMAIN shown' /\ shown'[m] = shown[m] /\ frame.id # m
    BY <1>1, <1>3, <1>4 DEF AppliesTo
  <2> QED BY <1>2, <2>1, Untouched DEF EntryOK
<1>5. ASSUME id \in DOMAIN shown PROVE EntryOK(id)'
  <2>1. shown[id] \in Entries
    BY <1>5, ListIs DEF Basics, TimelineTypeOK, ListsOK
  <2>2. PICK e : e = Reword(shown[id])
    OBVIOUS
  <2>3. /\ shown'[id] = e /\ id \in DOMAIN shown'
        /\ e.text = "second" /\ e.erased = shown[id].erased /\ e.status = shown[id].status
    BY <1>3, <1>5, <2>1, <2>2, EntryFields
  <2>4. ~AppliesTo(frame, id) /\ frame.kind # "erase"
    BY DEF AppliesTo
  <2>5. ErasureOK(id)' /\ (id \in Mine => StatusOK(id)')
    BY <1>2, <1>5, <2>3, <2>4, Untouched
  <2>6. CASE held' # held
    <3>1. id \in Named(new, "text")
      BY <1>1, <2>6 DEF Named, Late
    <3> QED BY <1>2, <2>3, <2>5, <3>1, TextExcused DEF EntryOK
  <2>7. CASE held' = held
    <3>1. TextNow(id) = "second" \/ After(0, {"erase"}, id)'
      BY <1>1, <1>2, <2>7, RunsNow DEF Basics
    <3>2. After(0, {"erase"}, id)' => After(0, {"edit", "erase"}, id)'
      BY DEF After
    <3>3. SameRow(id)
      BY <1>2, RowStays
    <3> QED BY <2>3, <2>5, <3>1, <3>2, <3>3 DEF EntryOK, TextOK, SameRow
  <2> QED BY <2>6, <2>7
<1> QED BY <1>3, <1>4, <1>5 DEF EntriesFollow

LEMMA EraseEntries ==
  ASSUME Basics, FramesFollow, EntriesFollow, NEW frame \in Frames, Runs(frame), frame.kind = "erase",
         OnDeleted(frame)
  PROVE EntriesFollow'
<1>1. PICK id : id = frame.id
  OBVIOUS
<1>2. Update(Changed(id, Blank(shown[id]))) /\ row' = row /\ request' = request /\ CausesStay
  BY <1>1 DEF OnDeleted, server, CausesStay
<1>3. /\ DOMAIN shown' = DOMAIN shown /\ \A x \in DOMAIN shown \ {id} : shown'[x] = shown[x]
      /\ id \in DOMAIN shown => shown'[id] = Blank(shown[id])
  BY <1>2, DeletedIs DEF Basics, TimelineTypeOK
<1>4. ASSUME NEW m \in DOMAIN shown, m # id PROVE EntryOK(m)'
  <2>1. ~AppliesTo(frame, m) /\ m \in DOMAIN shown' /\ shown'[m] = shown[m] /\ frame.id # m
    BY <1>1, <1>3, <1>4 DEF AppliesTo
  <2> QED BY <1>2, <2>1, Untouched DEF EntryOK
<1>5. ASSUME id \in DOMAIN shown PROVE EntryOK(id)'
  <2>1. shown[id] \in Entries
    BY <1>5, ListIs DEF Basics, TimelineTypeOK, ListsOK
  <2>2. PICK e : e = Blank(shown[id])
    OBVIOUS
  <2>3. /\ shown'[id] = e /\ id \in DOMAIN shown'
        /\ e.text = "gone" /\ e.erased = TRUE /\ e.status = shown[id].status
    BY <1>3, <1>5, <2>1, <2>2, EntryFields
  <2>4. ~AppliesTo(frame, id)
    BY DEF AppliesTo
  <2>5. id \in Mine => StatusOK(id)'
    BY <1>2, <1>5, <2>3, <2>4, Untouched
  <2>6. ErasedNow(id) = TRUE
    <3>1. ~NeedsKey(frame)
      BY DEF NeedsKey
    <3> QED BY <1>1, <1>2, <3>1, RunsNow DEF Basics
  <2>7. TextNow(id)' = "gone" /\ ErasedNow(id)' = TRUE
    <3>1. id \in DOMAIN row /\ row[id].erased = TRUE
      BY <2>6 DEF ErasedNow
    <3> QED BY <1>2, <3>1 DEF TextNow, ErasedNow, Basics, RowOK
  <2> QED BY <2>3, <2>5, <2>7 DEF EntryOK, TextOK, ErasureOK
<1> QED BY <1>3, <1>4, <1>5 DEF EntriesFollow

LEMMA ReceiptEntries ==
  ASSUME Basics, FramesFollow, EntriesFollow, NEW frame \in Frames, Runs(frame), frame.kind = "receipt",
         OnReceipt(frame)
  PROVE EntriesFollow'
<1>1. PICK new : new = [status |-> DOMAIN Receipted(frame) \ (frame.req \intersect DOMAIN row)]
  OBVIOUS
<1>2. /\ Excuse(new) /\ row' = row /\ request' = request /\ CausesStay
      /\ frame \in Receipts
  BY <1>1, FrameKinds DEF OnReceipt, server, CausesStay
<1>3. /\ DOMAIN shown' = DOMAIN shown
      /\ \A x \in DOMAIN shown :
           /\ shown'[x].text = shown[x].text /\ shown'[x].erased = shown[x].erased
           /\ shown'[x].status = IF TakenFor(frame, x) THEN frame.status ELSE shown[x].status
  BY <1>2, ReceiptIs DEF Basics, TimelineTypeOK
<1> SUFFICES ASSUME NEW m \in DOMAIN shown PROVE EntryOK(m)'
  BY <1>3 DEF EntriesFollow
<1>4. TextOK(m)' /\ ErasureOK(m)'
  BY <1>2, <1>3, Untouched
<1>5. ASSUME m \in Mine PROVE StatusOK(m)'
  <2>1. CASE ~AppliesTo(frame, m)
    <3>1. shown'[m].status = shown[m].status
      BY <1>3, <2>1 DEF AppliesTo, TakenFor
    <3> QED BY <1>2, <1>3, <1>5, <2>1, <3>1, Untouched
  <2>2. CASE AppliesTo(frame, m)
    <3>1. shown'[m].status = frame.status
      BY <1>3, <1>5, <2>2 DEF AppliesTo, TakenFor
    <3>2. CASE m \in frame.req \intersect DOMAIN row
      <4>1. PICK id : id = frame.id
        OBVIOUS
      <4>2. ~NeedsKey(frame)
        BY DEF NeedsKey
      <4>3. frame.status = row[m].status \/ ToldAfter(0, m)'
        BY <1>2, <3>2, <4>1, <4>2, RunsNow DEF Basics
      <4>4. m \in DOMAIN row' /\ row'[m].status = row[m].status
        BY <1>2, <3>2
      <4> QED BY <3>1, <4>3, <4>4 DEF StatusOK
    <3>3. CASE m \notin frame.req \intersect DOMAIN row /\ shown[m].status # frame.status
      <4>1. m \in Named(new, "status")
        BY <1>1, <1>5, <2>2, <3>3 DEF Named, Receipted, AppliesTo
      <4> QED BY <1>2, <1>3, <4>1, StatusExcused
    <3>4. CASE shown[m].status = frame.status
      <4>1. StatusOK(m) /\ SameRow(m)
        BY <1>2, <1>5, RowStays DEF EntriesFollow, EntryOK
      <4>2. CASE ToldAfter(0, m) /\ m \in DOMAIN row /\ ~ToldAfter(0, m)'
        <5>1. frame.status = row[m].status
          BY <4>1, <4>2, RunsLeave DEF Basics, SameRow, StatusKept
        <5> QED BY <1>2, <3>1, <4>2, <5>1 DEF StatusOK
      <4>3. CASE ~(ToldAfter(0, m) /\ m \in DOMAIN row /\ ~ToldAfter(0, m)')
        <5>1. ToldAfter(0, m) /\ SameStatus(m) => ToldAfter(0, m)'
          BY <1>2, <4>3 DEF SameStatus
        <5> QED BY <1>2, <1>3, <3>1, <3>4, <4>1, <5>1, StatusStays DEF SameRow
      <4> QED BY <4>2, <4>3
    <3> QED BY <3>2, <3>3, <3>4
  <2> QED BY <2>1, <2>2
<1> QED BY <1>4, <1>5 DEF EntryOK

LEMMA AckEntries ==
  ASSUME Basics, EntriesFollow, NEW frame \in Frames, Runs(frame), frame.kind = "ack", OnAck(frame)
  PROVE EntriesFollow'
<1>1. PICK id, new : id = frame.id /\ new = [status |-> {id}]
  OBVIOUS
<1>2. Excuse(new) /\ row' = row /\ request' = request /\ CausesStay
  BY <1>1 DEF OnAck, server, CausesStay
<1>3. /\ DOMAIN shown' = DOMAIN shown
      /\ \A x \in DOMAIN shown : shown'[x].text = shown[x].text /\ shown'[x].erased = shown[x].erased
      /\ \A x \in DOMAIN shown \ {id} : shown'[x] = shown[x]
  BY <1>1, AckedIs DEF Basics, TimelineTypeOK
<1> SUFFICES ASSUME NEW m \in DOMAIN shown PROVE EntryOK(m)'
  BY <1>3 DEF EntriesFollow
<1>4. TextOK(m)' /\ ErasureOK(m)'
  BY <1>2, <1>3, Untouched
<1>5. CASE m # id
  <2>1. ~AppliesTo(frame, m) /\ shown'[m] = shown[m] /\ m \in DOMAIN shown'
    BY <1>3, <1>5 DEF AppliesTo
  <2> QED BY <1>2, <1>4, <2>1, Untouched DEF EntryOK
<1>6. CASE m = id
  <2>1. m \in Named(new, "status")
    BY <1>1, <1>6 DEF Named
  <2> QED BY <1>2, <1>3, <1>4, <2>1, StatusExcused DEF EntryOK
<1> QED BY <1>5, <1>6

LEMMA ListensEntries ==
  ASSUME Basics, HistoriesOK, FramesFollow, EntriesFollow, Listens
  PROVE EntriesFollow'
<1>1. CASE Waits
  BY <1>1, WaitsEntries
<1>2. ASSUME NEW frame \in Frames, Runs(frame), Handle(frame) PROVE EntriesFollow'
  <2>1. frame \in held \union Range(toPhone)
    BY <1>2, TailIs DEF Runs, Basics, TimelineTypeOK, WireOK
  <2> QED BY <1>2, <2>1, Handles, HistoryEntries, MessageEntries, EditEntries, EraseEntries, ReceiptEntries, AckEntries
<1> QED BY <1>1, <1>2, Listening DEF Basics, TimelineTypeOK

LEMMA EntriesStep ==
  ASSUME Basics, HistoriesOK, FramesFollow, EntriesFollow, TimelineNext
  PROVE EntriesFollow'
  BY StepIsAction, WriteEntries, UploadedEntries, AskEntries, OlderEntries, AnsweredEntries, TakeEntries,
     ServeEntries, PeerEntries, QuietEntries, BreakEntries, RestartEntries, ListensEntries DEF Actions
--------------------------------------------------------------------------------
(* The inductive invariants, and what follows from them.                   *)

TimelineInv == Basics /\ HistoriesOK /\ NothingBack

LEMMA TimelineBegins == TimelineInit => TimelineInv
<1> SUFFICES ASSUME TimelineInit PROVE TimelineInv
  OBVIOUS
<1>1. row = Empty /\ shown = Empty /\ disk = Empty /\ queue = Empty /\ Empty \in Lists /\ DOMAIN Empty = {}
  BY EmptyList DEF TimelineInit
<1>2. /\ order = <<>> /\ hidden = {} /\ saving = {} /\ inRoom = FALSE /\ joining = [step |-> "no"]
      /\ open = FALSE /\ toServer = <<>> /\ toPhone = <<>> /\ held = {} /\ request = NoRequest
      /\ keyed \in BOOLEAN
  BY TimelineAssumption DEF TimelineInit, TimelineAssumption
<1>3. excuse \in Excuses /\ timelineLeft \in [TimelineEvents -> Nat]
  BY TimelineAssumption DEF TimelineInit, TimelineAssumption, Excuses
<1>4. TimelineTypeOK
  <2>s. order \in Seq(Messages) /\ toServer \in Seq(Outgoing) /\ toPhone \in Seq(Frames)
    BY <1>2
  <2>b. inRoom \in BOOLEAN /\ open \in BOOLEAN
    BY <1>2
  <2>j. joining \in Joinings
    BY <1>2 DEF Joinings
  <2>1. ServerOK
    BY <1>1, <1>2, <2>s, <2>b, <2>j DEF ServerOK
  <2>2. WireOK
    BY <1>2, <2>s, <2>b DEF WireOK
  <2>3. ListsOK /\ AskedOK
    BY <1>1, <1>2, <1>3 DEF ListsOK, AskedOK, Requests
  <2> QED BY <2>1, <2>2, <2>3 DEF TimelineTypeOK
<1>5. Known = {} /\ OrderOK
  BY <1>1, <1>2 DEF Known, OrderOK, Range, IsInjective
<1>6. RowOK /\ Connected
  BY <1>1, <1>2 DEF RowOK, Connected
<1>7. OnWire = {} /\ Recording = {} /\ Hiding = {} /\ ~Deleting /\ RequestOK
  BY <1>2 DEF OnWire, Recording, Range, Hiding, Deleting, RequestOK, NoRequest
<1>8. SentOnce
  BY <1>2, <1>7 DEF SentOnce, Unsent
<1>9. HistoriesOK
  BY <1>2 DEF HistoriesOK, Range
<1>10. NothingBack
  BY <1>1, <1>2, <1>7 DEF NothingBack
<1> QED BY <1>4, <1>5, <1>6, <1>7, <1>8, <1>9, <1>10 DEF TimelineInv, Basics

LEMMA TimelineStays ==
  ASSUME TimelineInv, UNCHANGED timelineVars
  PROVE TimelineInv'
<1>1. /\ UNCHANGED <<order, row, hidden, saving, inRoom, joining>> /\ UNCHANGED <<open, toServer, toPhone>>
      /\ UNCHANGED <<shown, disk, queue>> /\ UNCHANGED <<keyed, held, request, excuse, timelineLeft>>
  BY DEF timelineVars, server, network, phone
<1>2. TimelineTypeOK'
  BY <1>1 DEF TimelineInv, Basics, TimelineTypeOK, ServerOK, WireOK, ListsOK, AskedOK
<1>3. OrderOK' /\ RowOK' /\ Connected' /\ RequestOK'
  BY <1>1 DEF TimelineInv, Basics, OrderOK, Known, RowOK, Connected, RequestOK
<1>4. SentOnce'
  BY <1>1 DEF TimelineInv, Basics, SentOnce, Unsent, OnWire, Recording, Known
<1>5. HistoriesOK'
  BY <1>1 DEF TimelineInv, HistoriesOK, HistoryOK, Before
<1>6. NothingBack'
  BY <1>1 DEF TimelineInv, NothingBack, Hiding, Deleting
<1> QED BY <1>2, <1>3, <1>4, <1>5, <1>6 DEF TimelineInv, Basics

LEMMA TimelineInvHolds == TimelineSpec => []TimelineInv
<1>1. TimelineInit => TimelineInv
  BY TimelineBegins
<1>2. TimelineInv /\ [TimelineNext]_timelineVars => TimelineInv'
  BY TimelineStays, BasicsStep, HistoriesStep, BackStep DEF TimelineInv
<1> QED BY <1>1, <1>2, PTL DEF TimelineSpec

CurrentInv == TimelineInv /\ NothingMissing /\ FramesFollow /\ EntriesFollow

LEMMA CurrentBegins == TimelineInit => CurrentInv
<1> SUFFICES ASSUME TimelineInit PROVE CurrentInv
  OBVIOUS
<1>1. /\ DOMAIN row = {} /\ DOMAIN shown = {} /\ saving = {} /\ toServer = <<>> /\ toPhone = <<>> /\ held = {}
      /\ request = NoRequest
  BY EmptyList DEF TimelineInit
<1>2. Unsent = {} /\ Latest = {}
  BY <1>1 DEF Unsent, OnWire, Recording, Range, NoRequest, Latest
<1> QED BY <1>1, <1>2, TimelineBegins DEF CurrentInv, NothingMissing, FramesFollow, EntriesFollow

LEMMA CurrentStays ==
  ASSUME CurrentInv, UNCHANGED timelineVars
  PROVE CurrentInv'
<1>1. /\ UNCHANGED <<order, row, hidden, saving, inRoom, joining>> /\ UNCHANGED <<open, toServer, toPhone>>
      /\ UNCHANGED <<shown, disk, queue>> /\ UNCHANGED <<keyed, held, request, excuse, timelineLeft>>
  BY DEF timelineVars, server, network, phone
<1>2. TimelineInv' /\ WireGrows /\ CausesStay
  BY <1>1, TimelineStays DEF CurrentInv, WireGrows, CausesStay
<1>3. NothingMissing'
  BY <1>1 DEF CurrentInv, NothingMissing, Unsent, OnWire, Recording, Here, Hiding, OnItsWay, Brings, Latest, Before
<1>4. FramesFollow'
  <2>1. \A i \in DOMAIN toPhone : NoticeFollows(i)' /\ ReceiptFollows(i)'
    BY <1>1 DEF CurrentInv, FramesFollow, NoticeFollows, ReceiptFollows, After, ToldAfter, AppliesTo,
                TextNow, ErasedNow
  <2> QED BY <1>1, <2>1 DEF CurrentInv, FramesFollow, NeedsKey
<1>5. EntriesFollow'
  BY <1>1, <1>2, NothingShown DEF CurrentInv, NothingConsumed, Erasing
<1> QED BY <1>2, <1>3, <1>4, <1>5 DEF CurrentInv

LEMMA CurrentInvHolds == TimelineSpec => []CurrentInv
<1>1. TimelineInit => CurrentInv
  BY CurrentBegins
<1>2. CurrentInv /\ [TimelineNext]_timelineVars => CurrentInv'
  <2>1. CurrentInv /\ TimelineNext => CurrentInv'
    BY BasicsStep, HistoriesStep, BackStep, MissingStep, FramesStep, EntriesStep DEF CurrentInv, TimelineInv
  <2> QED BY <2>1, CurrentStays
<1> QED BY <1>1, <1>2, PTL DEF TimelineSpec

(* A history that is not empty takes nothing off the screen that the server*)
(* had when it was read and that the user did not delete                   *)
(* (mergeHistoryWindow).                                                   *)
THEOREM HistoryIsMerged == TimelineSpec => HistoryKeepsStored
<1>1. ASSUME TimelineInv, [TimelineNext]_timelineVars
      PROVE [timelineLeft' = timelineLeft => \A frame \in Handled :
               frame.kind = "history" /\ DOMAIN frame.rows # {}
                 => frame.saved \intersect DOMAIN shown \subseteq DOMAIN shown' \union hidden]_timelineVars
  BY <1>1, HistoryKeepsStep DEF TimelineInv
<1> QED BY <1>1, TimelineInvHolds, PTL DEF TimelineSpec, HistoryKeepsStored

(* What left the screen does not come back from the disk, and what the user*)
(* deleted for himself is in neither place, but for the named answers.     *)
THEOREM DeletedStayAway == TimelineSpec => []DiscardedStaysAway
<1>1. TimelineInv => DiscardedStaysAway
  <2> SUFFICES ASSUME TimelineInv, Settled, queue = Empty
               PROVE /\ DOMAIN disk \subseteq DOMAIN shown \union excuse.lost \union hidden
                     /\ (DOMAIN disk \union DOMAIN shown) \intersect hidden \subseteq excuse.back
    BY DEF DiscardedStaysAway
  <2>1. Hiding = {}
    BY DEF Settled, Hiding, NoRequest
  <2> QED BY <2>1 DEF TimelineInv, NothingBack
<1> QED BY <1>1, TimelineInvHolds, PTL

(* Once all is quiet the phone shows what the server has: all of the latest*)
(* history, with its texts, erasures and statuses, but for the races whose *)
(* cause was named when they happened.                                     *)
THEOREM QuietIsCurrent == TimelineSpec => []ShownIsCurrent
<1>1. CurrentInv => ShownIsCurrent
  <2> SUFFICES ASSUME CurrentInv, Settled PROVE ShownIsCurrent
    BY DEF ShownIsCurrent, Complete, TextIsCurrent, ErasureIsShown, StatusIsCurrent
  <2>1. /\ inRoom /\ joining.step = "no" /\ DOMAIN toPhone = {} /\ Range(toPhone) = {}
        /\ held = {} /\ request.kind = "none"
    BY DEF Settled, NoRequest, Range
  <2>2. Complete
    <3>1. \A m : ~OnItsWay(m) /\ Hiding = {}
      BY <2>1 DEF OnItsWay, Hiding
    <3> QED BY <3>1 DEF CurrentInv, NothingMissing, Complete, Here
  <2>3. ASSUME NEW m \in DOMAIN shown
        PROVE /\ m \in DOMAIN row => shown[m].text = row[m].text \/ m \in excuse.text
              /\ m \in DOMAIN row => shown[m].erased = row[m].erased \/ m \in excuse.erased
              /\ m \in Mine => \/ m \in excuse.status
                               \/ IF m \in DOMAIN row THEN shown[m].status = row[m].status
                                                      ELSE Rank(shown[m].status) = 0
    <3>1. EntryOK(m)
      BY DEF CurrentInv, EntriesFollow
    <3>2. ~HeldEdit(m) /\ ~Erasing(m) /\ ~ToldAfter(0, m) /\ \A kinds : ~After(0, kinds, m)
      BY <2>1 DEF HeldEdit, Erasing, ToldAfter, After
    <3> QED BY <3>1, <3>2 DEF EntryOK, TextOK, ErasureOK, StatusOK, TextNow, ErasedNow
  <2> QED BY <2>2, <2>3 DEF ShownIsCurrent, TextIsCurrent, ErasureIsShown, StatusIsCurrent
<1> QED BY <1>1, CurrentInvHolds, PTL
================================================================================
