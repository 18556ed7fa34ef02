------------------------------- MODULE DailyGame -------------------------------
(***************************************************************************)
(* The daily puzzle of one user and the streak of days on which it was     *)
(* solved (backend/internal/game/service.go, streak.go), under requests    *)
(* that run side by side, days that pass and a time zone that changes.     *)
(*                                                                         *)
(* A date is a number, 0 before the first; weeks start at the multiples of *)
(* seven.  Wrong answers and their count are left out.  A change of the    *)
(* settings is one step.                                                   *)
(***************************************************************************)
EXTENDS Integers, FiniteSets

CONSTANTS Calls,    \* request handlers
          FirstDay, \* the date on which the user begins
          LastDay,  \* bound: the last day
          Budgets   \* bound: how often each kind of event may happen

Events == {"move", "fault", "fast"}

ASSUME GameAssumption ==
  /\ FirstDay \in Nat \ {0} /\ LastDay \in Nat /\ FirstDay <= LastDay
  /\ Budgets \subseteq [Events -> Nat]

VARIABLES
  day,        \* the date in the western of the user's two time zones
  ahead,      \* Settings.Timezone: the date of the eastern one is used
  locked,     \* date of Settings.TimezoneChangedAt, 0 for never, -1 without a row
  attempt,    \* game_attempts: status by date
  streak,     \* game_streaks: the user's row
  task,       \* what each handler is doing
  counted,    \* days the row has counted
  lost,       \* solved days not counted: failed, overwritten or in the past
  turnedBack, \* the row went back to a week before its own
  left        \* what is left of the bounds

game == <<day, ahead, locked, attempt, streak, task, counted, lost, turnedBack, left>>
rest == <<counted, lost, turnedBack, left>>

Dates == FirstDay .. LastDay + 1
Today == IF ahead THEN day + 1 ELSE day
Week(d) == d \div 7
NoStreak == [current |-> 0, best |-> 0, last |-> 0, freezes |-> 0, week |-> -1]
Free == [step |-> "idle"]
Go(t, x) == task' = [task EXCEPT ![t] = x]

GameInit == /\ day = FirstDay /\ ahead = FALSE /\ locked = -1
            /\ attempt = [d \in Dates |-> "none"] /\ streak = NoStreak
            /\ task = [t \in Calls |-> Free]
            /\ counted = {} /\ lost = {} /\ turnedBack = FALSE
            /\ left \in Budgets

Spend(e) == left[e] > 0 /\ left' = [left EXCEPT ![e] = @ - 1]
--------------------------------------------------------------------------------
(* The arithmetic of streaks.                                              *)

(* Mutant: the freeze is never refilled. *)
NeverRefilled(s, d) == s
Refilled(s, d) == IF s.week = Week(d) THEN s ELSE [s EXCEPT !.week = Week(d), !.freezes = 1]

CountDay(s, d, n) == [s EXCEPT !.current = n, !.last = d, !.best = IF n > @ THEN n ELSE @]

(* Mutant: a missed day is covered with or without a freeze. *)
Continues(s, d) == s.last # 0 /\ d - s.last \in {1, 2}
(* The streak goes on: yesterday was solved, or a freeze covers it.        *)
Carries(s, d) == s.last # 0 /\ (d - s.last = 1 \/ (d - s.last = 2 /\ s.freezes > 0))

ApplySolve(s, d) ==
  LET r == Refilled(s, d)
  IN IF s.last # 0 /\ d <= s.last THEN r
     ELSE IF Carries(r, d)
          THEN CountDay(IF d - s.last = 2 THEN [r EXCEPT !.freezes = @ - 1] ELSE r, d, s.current + 1)
          ELSE CountDay(r, d, 1)

(* Mutant: the refill of a new week is not looked at. *)
EffectiveAsStored(s, d) ==
  IF s.last # 0 /\ (d <= s.last \/ Carries(s, d)) THEN s ELSE [s EXCEPT !.current = 0]
EffectiveStreak(s, d) ==
  LET r == Refilled(s, d)
  IN IF s.last # 0 /\ (d <= s.last \/ Carries(r, d)) THEN r ELSE [r EXCEPT !.current = 0]
--------------------------------------------------------------------------------
(* The requests.                                                           *)

Start == /\ attempt[Today] = "none"
         /\ attempt' = [attempt EXCEPT ![Today] = "playing"]
         /\ UNCHANGED <<day, ahead, locked, streak, task, rest>>

(* A right answer; the handler keeps the date for as long as it runs.      *)
Submit(t) == /\ task[t] = Free /\ attempt[Today] = "playing"
             /\ Go(t, [step |-> "complete", date |-> Today])
             /\ UNCHANGED <<day, ahead, locked, attempt, streak, rest>>

(* The conditional UPDATE: of several requests one wins; an answer that    *)
(* came too fast does not count.                                           *)
CompleteAttempt(t) ==
  /\ task[t].step = "complete"
  /\ \/ /\ attempt[task[t].date] = "playing"
        /\ attempt' = [attempt EXCEPT ![task[t].date] = "solved"]
        /\ Go(t, [step |-> "read", date |-> task[t].date]) /\ UNCHANGED left
     \/ /\ attempt[task[t].date] = "playing"
        /\ attempt' = [attempt EXCEPT ![task[t].date] = "suspicious"]
        /\ Go(t, Free) /\ Spend("fast")
     \/ /\ attempt[task[t].date] # "playing"
        /\ Go(t, Free) /\ UNCHANGED <<attempt, left>>
  /\ UNCHANGED <<day, ahead, locked, streak, counted, lost, turnedBack>>

GetStreak(t) ==
  /\ task[t].step = "read"
  /\ Go(t, [step |-> "save", date |-> task[t].date, read |-> streak, days |-> counted])
  /\ UNCHANGED <<day, ahead, locked, attempt, streak, rest>>

(* The row is written as a whole over what it has become meanwhile.        *)
SaveStreak(t) ==
  /\ task[t].step = "save"
  /\ LET w == task[t]
         past == w.date <= w.read.last
     IN /\ streak' = ApplySolve(w.read, w.date)
        /\ counted' = IF past THEN w.days ELSE w.days \union {w.date}
        /\ lost' = lost \union (counted \ w.days) \union (IF past THEN {w.date} ELSE {})
        /\ turnedBack' = (turnedBack \/ Week(w.date) < w.read.week)
  /\ Go(t, Free)
  /\ UNCHANGED <<day, ahead, locked, attempt, left>>

(* A statement fails, or the process stops: the attempt stays as it is.    *)
Fails(t) ==
  /\ task[t] # Free /\ Spend("fault")
  /\ lost' = lost \union (IF task[t].step \in {"read", "save"} THEN {task[t].date} ELSE {})
  /\ Go(t, Free)
  /\ UNCHANGED <<day, ahead, locked, attempt, streak, counted, turnedBack>>

(* The zone may change once a day; the first one saved does not count.     *)
UpdateTimezone ==
  /\ locked < day /\ Spend("move")
  /\ ahead' = ~ahead /\ locked' = IF locked = -1 THEN 0 ELSE day
  /\ UNCHANGED <<day, attempt, streak, task, counted, lost, turnedBack>>

DayPasses == /\ day < LastDay /\ day' = day + 1
             /\ UNCHANGED <<ahead, locked, attempt, streak, task, rest>>

GameNext == \/ Start \/ UpdateTimezone \/ DayPasses
            \/ \E t \in Calls : \/ Submit(t) \/ CompleteAttempt(t) \/ GetStreak(t)
                                \/ SaveStreak(t) \/ Fails(t)

GameSpec == GameInit /\ [][GameNext]_game
--------------------------------------------------------------------------------
(* What a streak is, told from the set of days: a day joins the one before *)
(* it, or the one before that if it is the first of its week to do so.     *)

MissedOne(S, d) == d \in S /\ d - 1 \notin S /\ d - 2 \in S
Bridged(S, d) == MissedOne(S, d) /\ \A e \in S : MissedOne(S, e) /\ Week(e) = Week(d) => d <= e
Joined(S, d) == d - 1 \in S \/ Bridged(S, d)
RunTo(S, d) == {e \in S : e <= d /\ \A x \in S : e < x /\ x <= d => Joined(S, x)}

(* streak.go:38, "terlewat tepat satu hari dan ada pembeku: pembeku        *)
(* terpakai, streak bertambah", once a week: the row tells the run of days *)
(* up to the last and the longest one, unless a change of the time zone    *)
(* led back into a week that was over, which fills the freeze up again.    *)
RowIsTheRun ==
  IF counted = {} THEN streak.current = 0 /\ streak.last = 0
  ELSE /\ streak.last \in counted /\ \A d \in counted : d <= streak.last
       /\ \/ turnedBack
          \/ /\ streak.current = Cardinality(RunTo(counted, streak.last))
             /\ \E d \in counted : streak.best = Cardinality(RunTo(counted, d))
             /\ \A d \in counted : streak.best >= Cardinality(RunTo(counted, d))

(* A day that was solved is counted, unless its update failed (no retry    *)
(* makes up for it), was overwritten, or came after that of a later day.   *)
EveryDayCounts ==
  \A d \in Dates : attempt[d] = "solved" =>
    \/ d \in counted \union lost
    \/ \E t \in Calls : task[t].step \in {"read", "save"} /\ task[t].date = d

(* The streak that is shown is the one that solving today continues, and   *)
(* one that is shown as broken is.                                         *)
ShownIsKept ==
  LET shown == EffectiveStreak(streak, Today).current
      then == ApplySolve(streak, Today).current
  IN IF shown = 0 THEN then = 1 ELSE then \in {shown, shown + 1}

(* The streak is what was played, and what is shown of it is true.         *)
StreakAsPlayed == RowIsTheRun /\ EveryDayCounts /\ ShownIsKept
================================================================================
