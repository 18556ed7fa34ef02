-------------------------------- MODULE MCPeople --------------------------------
(***************************************************************************)
(* What the server keeps of people, under requests that run side by side,  *)
(* in parts that do not touch each other: a behaviour is about one of      *)
(* them, and the others stay as they began.                                *)
(*                                                                         *)
(*   fanout   a group and a topic of it, the founder and one other, each   *)
(*            connected to a node of his own                               *)
(*   account  one account with three devices, of which one may be active   *)
(*   friends  the two users of a pair, and the caches of two nodes         *)
(*   game     five days about the turn of a week, and one more by a change *)
(*            of the time zone                                             *)
(***************************************************************************)
EXTENDS MembershipFanout, AccountSessions, DailyGame, Friendship, TLC

CONSTANTS ann, bob, group, topic, n1, n2

VARIABLES part

TwoNodes == [u \in Users |-> IF u = ann THEN n1 ELSE n2]
Parents == group :> NoRoom @@ topic :> group

GameCase(moves, faults, fast) == [move |-> moves, fault |-> faults, fast |-> fast]
GameCases == {GameCase(2, 0, 0), GameCase(0, 1, 0), GameCase(0, 0, 1)}

PeopleInit == /\ part \in {"fanout", "account", "friends", "game"}
              /\ Init /\ GameInit /\ AccountInit /\ FriendsInit
              /\ part # "game" => left = GameCase(0, 0, 1)

Turn(p) == part = p /\ UNCHANGED part
FanoutStep == Turn("fanout") /\ Next /\ UNCHANGED <<accountVars, pairVars, game>>
AccountStep == Turn("account") /\ AccountNext /\ UNCHANGED <<vars, pairVars, game>>
FriendsStep == Turn("friends") /\ FriendsNext /\ UNCHANGED <<vars, accountVars, game>>
GameStep == Turn("game") /\ GameNext /\ UNCHANGED <<vars, accountVars, pairVars>>

PeopleNext == FanoutStep \/ AccountStep \/ FriendsStep \/ GameStep

PeopleSpec == PeopleInit /\ [][PeopleNext]_<<part, vars, game, accountVars, pairVars>>

(* The handlers are alike.                                                 *)
Symmetric == Permutations(Tasks)
================================================================================
