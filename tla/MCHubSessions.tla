---------------------------- MODULE MCHubSessions ----------------------------
(***************************************************************************)
(* Small instances of HubSessions: two or three sockets of one user,       *)
(* with the identities that make reconnects, evictions and handshakes      *)
(* without a device id meet.                                               *)
(***************************************************************************)
EXTENDS HubSessions, TLC

CONSTANTS c1, c2, c3, u1, d1, d2

OneUser == [c \in Conns |-> u1]

OneReconnects == c1 :> d1 @@ c2 :> d1 @@ c3 :> d2
OneWithoutId == c1 :> NoDevice @@ c2 :> d1
=============================================================================
