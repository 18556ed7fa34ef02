----------------------------- MODULE People_proofs ----------------------------
(*****************************************************************************)
(* People, for any number of requests side by side: the streak of the daily  *)
(* game, the relation of two users with its caches, and the devices, sessions *)
(* and key of one account.                                                   *)
(*****************************************************************************)
EXTENDS DailyGame, Friendship, AccountSessions, FiniteSetTheorems, TLAPS

(* The streak of the daily game is the run of days it has counted.         *)
Date == Nat \ {0}
StreakRows == [current : Nat, best : Nat, last : Nat, freezes : {0, 1}, week : Int]

(* What every row keeps, whatever the time zones did.                      *)
Bounded(s, S) ==
  /\ s \in StreakRows /\ S \subseteq Date /\ IsFiniteSet(S)
  /\ S = {} => s = NoStreak
  /\ S # {} => s.last \in S /\ s.current > 0 /\ \A d \in S : d <= s.last

(* The freeze of the last day's week has been used.                        *)
Spent(S, d) == \E e \in S : MissedOne(S, e) /\ Week(e) = Week(d)

(* A row that was never turned back tells the run of its days.             *)
Exact(s, S) ==
  S # {} => /\ s.current = Cardinality(RunTo(S, s.last))
            /\ \E d \in S : s.best = Cardinality(RunTo(S, d))
            /\ \A d \in S : s.best >= Cardinality(RunTo(S, d))
            /\ s.week = Week(s.last)
            /\ s.freezes = 0 <=> Spent(S, s.last)

Tells(s, S, turned) == Bounded(s, S) /\ (turned \/ Exact(s, S))

GameWorks == {Free} \union [step : {"complete", "read"}, date : Dates]
                \union [step : {"save"}, date : Dates, read : StreakRows, days : SUBSET Date]

GameTypeOK == /\ day \in FirstDay .. LastDay /\ turnedBack \in BOOLEAN
          /\ attempt \in [Dates -> {"none", "playing", "solved", "suspicious"}]
          /\ task \in [Calls -> GameWorks]

(* The rows that were read tell the runs of the days they had counted.     *)
RowsTell == /\ Tells(streak, counted, turnedBack)
            /\ \A t \in Calls : task[t].step = "save" => Tells(task[t].read, task[t].days, turnedBack)

(* The inductive invariant.                                                *)
GameInv == GameTypeOK /\ RowsTell /\ EveryDayCounts
-------------------------------------------------------------------------------
(* Weeks follow one another as their days do.                              *)
LEMMA WeeksInOrder ==
  ASSUME NEW a \in Nat, NEW b \in Nat, a <= b
  PROVE  Week(a) \in Nat /\ Week(b) \in Nat /\ Week(a) <= Week(b)
BY DEF Week

(* A row of the table has the four fields ApplySolve works on.             *)
LEMMA RefilledRow ==
  ASSUME NEW s \in StreakRows, NEW d \in Date
  PROVE  /\ Refilled(s, d) \in StreakRows
         /\ Refilled(s, d).current = s.current /\ Refilled(s, d).best = s.best
         /\ Refilled(s, d).last = s.last /\ Refilled(s, d).week = Week(d)
         /\ Refilled(s, d).freezes = IF s.week = Week(d) THEN s.freezes ELSE 1
<1>1. Week(d) \in Int
  BY WeeksInOrder DEF Date
<1> QED BY <1>1 DEF Refilled, StreakRows

(* Counting a day sets three fields and leaves the freeze.                 *)
LEMMA CountedRow ==
  ASSUME NEW s \in StreakRows, NEW d \in Date, NEW n \in Nat
  PROVE  LET t == CountDay(s, d, n)
         IN /\ t \in StreakRows
            /\ t.last = d /\ t.current = n /\ t.week = s.week /\ t.freezes = s.freezes
            /\ t.best = IF n > s.best THEN n ELSE s.best
BY DEF CountDay, StreakRows, Date

(* So does the freeze that is used up, the other way round.                *)
LEMMA FreezeUsed ==
  ASSUME NEW s \in StreakRows, s.freezes > 0
  PROVE  LET t == [s EXCEPT !.freezes = @ - 1]
         IN /\ t \in StreakRows
            /\ t.freezes = 0 /\ t.best = s.best /\ t.week = s.week
BY DEF StreakRows

(* What a day does to the row, field by field.                             *)
LEMMA Solved ==
  ASSUME NEW s \in StreakRows, NEW d \in Date, ~(s.last # 0 /\ d <= s.last)
  PROVE  LET t == ApplySolve(s, d)
             n == IF Carries(Refilled(s, d), d) THEN s.current + 1 ELSE 1
         IN /\ t \in StreakRows
            /\ t.last = d /\ t.week = Week(d) /\ t.current = n
            /\ t.best = IF n > s.best THEN n ELSE s.best
            /\ t.freezes = IF Carries(Refilled(s, d), d) /\ d - s.last = 2 THEN 0 ELSE Refilled(s, d).freezes
<1>1. PICK r \in StreakRows : /\ r = Refilled(s, d)
                        /\ r.current = s.current /\ r.best = s.best /\ r.last = s.last /\ r.week = Week(d)
  BY RefilledRow
<1>2. PICK n \in Nat : n = s.current + 1
  BY DEF StreakRows
<1>3. CASE Carries(r, d) /\ d - s.last = 2
  <2>1. PICK u \in StreakRows : u = [r EXCEPT !.freezes = @ - 1] /\ u.freezes = 0 /\ u.best = s.best /\ u.week = Week(d)
    <3>1. r.freezes > 0
      BY <1>1, <1>3 DEF Carries, StreakRows, Date
    <3> QED BY <1>1, <3>1, FreezeUsed
  <2>2. ApplySolve(s, d) = CountDay(u, d, n)
    BY <1>1, <1>2, <1>3, <2>1 DEF ApplySolve
  <2>3. /\ CountDay(u, d, n) \in StreakRows
        /\ CountDay(u, d, n).last = d /\ CountDay(u, d, n).current = n
        /\ CountDay(u, d, n).week = u.week /\ CountDay(u, d, n).freezes = u.freezes
        /\ CountDay(u, d, n).best = IF n > u.best THEN n ELSE u.best
    BY CountedRow
  <2> QED BY <1>1, <1>2, <1>3, <2>1, <2>2, <2>3
<1>4. CASE Carries(r, d) /\ d - s.last # 2
  <2>1. ApplySolve(s, d) = CountDay(r, d, n)
    BY <1>1, <1>2, <1>4 DEF ApplySolve
  <2> QED BY <1>1, <1>2, <1>4, <2>1, CountedRow
<1>5. CASE ~Carries(r, d)
  <2>1. ApplySolve(s, d) = CountDay(r, d, 1)
    BY <1>1, <1>5 DEF ApplySolve
  <2> QED BY <1>1, <1>5, <2>1, CountedRow
<1> QED BY <1>3, <1>4, <1>5

(* A date that is not after the last day counted changes only the freeze.  *)
LEMMA SolvedInThePast ==
  ASSUME NEW s \in StreakRows, NEW d \in Date, s.last # 0, d <= s.last
  PROVE  ApplySolve(s, d) = Refilled(s, d)
BY DEF ApplySolve
-------------------------------------------------------------------------------
(* A streak that is shown as alive goes on by solving on that date, and    *)
(* one shown as broken starts at one (EffectiveStreak and ApplySolve).     *)
THEOREM ShownContinues ==
  ASSUME NEW s \in StreakRows, NEW d \in Date, s.last # 0 => s.current > 0
  PROVE  LET shown == EffectiveStreak(s, d).current
             then == ApplySolve(s, d).current
         IN IF shown = 0 THEN then = 1 ELSE then \in {shown, shown + 1}
<1> DEFINE r == Refilled(s, d)
<1>1. r \in StreakRows /\ r.current = s.current /\ r.last = s.last
  BY RefilledRow
<1>2. CASE s.last # 0 /\ d <= s.last
  <2>1. EffectiveStreak(s, d) = r /\ ApplySolve(s, d) = r
    BY <1>2, SolvedInThePast DEF EffectiveStreak
  <2> QED BY <1>1, <1>2, <2>1 DEF StreakRows
<1>3. CASE ~(s.last # 0 /\ d <= s.last)
  <2>1. ApplySolve(s, d).current = IF Carries(r, d) THEN s.current + 1 ELSE 1
    BY <1>3, Solved
  <2>2. EffectiveStreak(s, d).current = IF Carries(r, d) THEN s.current ELSE 0
    <3>1. Carries(r, d) => s.last # 0
      BY <1>1 DEF Carries
    <3>2. EffectiveStreak(s, d) = IF Carries(r, d) THEN r ELSE [r EXCEPT !.current = 0]
      BY <1>3, <3>1 DEF EffectiveStreak
    <3> HIDE DEF r
    <3> QED BY <1>1, <3>2 DEF StreakRows
  <2>3. Carries(r, d) => s.current > 0
    BY <1>1 DEF Carries
  <2> HIDE DEF r
  <2> QED BY <2>1, <2>2, <2>3 DEF StreakRows
<1> QED BY <1>2, <1>3
-------------------------------------------------------------------------------
(* A later day changes nothing about the runs of the days before it, and   *)
(* its own run is the last one with it, or itself alone.                   *)
LEMMA RunsKept ==
  ASSUME NEW S \in SUBSET Date, NEW d \in Date, \A e \in S : e < d
  PROVE  LET T == S \union {d}
         IN /\ \A x \in S : MissedOne(T, x) <=> MissedOne(S, x)
            /\ \A x \in S : Joined(T, x) <=> Joined(S, x)
            /\ \A x \in S : RunTo(T, x) = RunTo(S, x)
            /\ \A m \in S : (\A e \in S : e <= m)
                 => RunTo(T, d) = IF Joined(T, d) THEN RunTo(S, m) \union {d} ELSE {d}
            /\ S = {} => RunTo(T, d) = {d}
<1> DEFINE T == S \union {d}
<1>1. ASSUME NEW x \in S PROVE MissedOne(T, x) <=> MissedOne(S, x)
  BY DEF MissedOne, Date
<1>2. ASSUME NEW x \in S PROVE Bridged(T, x) <=> Bridged(S, x)
  BY <1>1 DEF Bridged, Date
<1>3. ASSUME NEW x \in S PROVE Joined(T, x) <=> Joined(S, x)
  BY <1>2 DEF Joined, Date
<1>4. ASSUME NEW x \in S PROVE RunTo(T, x) = RunTo(S, x)
  BY <1>3 DEF RunTo, Date
<1>5. ASSUME NEW m \in S, \A e \in S : e <= m
      PROVE  RunTo(T, d) = IF Joined(T, d) THEN RunTo(S, m) \union {d} ELSE {d}
  <2>1. ASSUME NEW e \in S PROVE e \in RunTo(T, d) <=> Joined(T, d) /\ e \in RunTo(S, m)
    <3>1. e \in RunTo(T, d) <=> \A x \in T : e < x => Joined(T, x)
      BY DEF RunTo, Date
    <3>2. (\A x \in T : e < x => Joined(T, x)) <=> Joined(T, d) /\ \A x \in S : e < x => Joined(S, x)
      BY <1>3
    <3>3. e \in RunTo(S, m) <=> \A x \in S : e < x => Joined(S, x)
      BY <1>5 DEF RunTo, Date
    <3> QED BY <3>1, <3>2, <3>3
  <2>2. d \in RunTo(T, d) /\ RunTo(T, d) \subseteq T /\ RunTo(S, m) \subseteq S
    BY DEF RunTo, Date
  <2> QED BY <2>1, <2>2
<1>6. S = {} => RunTo(T, d) = {d}
  BY DEF RunTo, Date
<1> QED BY <1>1, <1>3, <1>4, <1>5, <1>6

(* The length of the run of a new day, and the days before it.             *)
LEMMA RunLength ==
  ASSUME NEW S \in SUBSET Date, IsFiniteSet(S), NEW d \in Date, NEW m \in S,
         \A e \in S : e < d /\ e <= m
  PROVE  LET T == S \union {d}
         IN /\ Cardinality(RunTo(S, m)) \in Nat
            /\ Cardinality(RunTo(T, d)) = IF Joined(T, d) THEN Cardinality(RunTo(S, m)) + 1 ELSE 1
<1> DEFINE T == S \union {d}
<1>1. RunTo(S, m) \subseteq S /\ d \notin RunTo(S, m)
  BY DEF RunTo, Date
<1>2. IsFiniteSet(RunTo(S, m)) /\ Cardinality(RunTo(S, m)) \in Nat
  BY <1>1, FS_Subset, FS_CardinalityType
<1>3. Cardinality(RunTo(S, m) \union {d}) = Cardinality(RunTo(S, m)) + 1
  BY <1>1, <1>2, FS_AddElement
<1>4. Cardinality({d}) = 1
  BY FS_Singleton
<1>5. RunTo(T, d) = IF Joined(T, d) THEN RunTo(S, m) \union {d} ELSE {d}
  BY RunsKept
<1> QED BY <1>2, <1>3, <1>4, <1>5

(* The freeze tells whether a day of the new day's week was bridged, and   *)
(* so the row tells whether the new day joins the run.                     *)
LEMMA FreezeTells ==
  ASSUME NEW S \in SUBSET Date, NEW s \in StreakRows, NEW d \in Date,
         s.last \in S, \A e \in S : e < d /\ e <= s.last,
         s.week = Week(s.last), s.freezes = 0 <=> Spent(S, s.last)
  PROVE  LET T == S \union {d}
             r == Refilled(s, d)
         IN /\ r.freezes = 0 <=> \E e \in S : MissedOne(S, e) /\ Week(e) = Week(d)
            /\ MissedOne(T, d) <=> d - s.last = 2
            /\ Joined(T, d) <=> Carries(r, d)
            /\ Spent(T, d) <=> d - s.last = 2 \/ r.freezes = 0
<1> DEFINE T == S \union {d}
<1>1. PICK r \in StreakRows : /\ r = Refilled(s, d) /\ r.last = s.last
                        /\ r.freezes = IF s.week = Week(d) THEN s.freezes ELSE 1
  BY RefilledRow
<1>0. s.last \in Nat \ {0} /\ d \in Nat /\ s.last < d
  BY DEF Date
<1>2. r.freezes = 0 <=> \E e \in S : MissedOne(S, e) /\ Week(e) = Week(d)
  <2>1. CASE s.week = Week(d)
    BY <1>1, <2>1 DEF Spent
  <2>2. CASE s.week # Week(d)
    <3>1. ASSUME NEW e \in S PROVE Week(e) # Week(d)
      <4>1. e \in Nat /\ s.last \in Nat /\ d \in Nat /\ e <= s.last /\ s.last <= d
        BY <1>0 DEF Date
      <4>2. Week(e) \in Nat /\ Week(s.last) \in Nat /\ Week(d) \in Nat
            /\ Week(e) <= Week(s.last) /\ Week(s.last) <= Week(d)
        BY <4>1, WeeksInOrder
      <4> QED BY <2>2, <4>2
    <3> QED BY <1>1, <2>2, <3>1
  <2> QED BY <2>1, <2>2
<1>3. d - 1 \in S <=> d - s.last = 1
  <2>1. d - 1 \in S => d - 1 <= s.last
    OBVIOUS
  <2> QED BY <1>0, <2>1
<1>4. MissedOne(T, d) <=> d - s.last = 2
  <2>1. d - 2 \in S => d - 2 <= s.last
    OBVIOUS
  <2>2. d - 1 \in T <=> d - 1 \in S
    BY <1>0
  <2>3. d - 2 \in T <=> d - 2 \in S
    BY <1>0
  <2> QED BY <1>0, <1>3, <2>1, <2>2, <2>3 DEF MissedOne
<1>5. ASSUME NEW e \in S PROVE MissedOne(T, e) <=> MissedOne(S, e)
  BY RunsKept
<1>6. Bridged(T, d) <=> d - s.last = 2 /\ r.freezes # 0
  BY <1>2, <1>4, <1>5 DEF Bridged, Date
<1>7. Joined(T, d) <=> Carries(r, d)
  <2>1. d - 1 \in T <=> d - 1 \in S
    BY DEF Date
  <2>2. r.freezes # 0 <=> r.freezes > 0
    BY DEF StreakRows
  <2>3. s.last # 0
    BY DEF Date
  <2> QED BY <1>1, <1>3, <1>6, <2>1, <2>2, <2>3 DEF Joined, Carries
<1>8. Spent(T, d) <=> d - s.last = 2 \/ r.freezes = 0
  BY <1>2, <1>4, <1>5 DEF Spent
<1> QED BY <1>1, <1>2, <1>4, <1>7, <1>8
(* Solving a day after the last one counted makes the row tell the longer  *)
(* or the new run.                                                         *)
LEMMA LaterDay ==
  ASSUME NEW S, NEW s, NEW d \in Date, Bounded(s, S), Exact(s, S), ~(s.last # 0 /\ d <= s.last)
  PROVE  Exact(ApplySolve(s, d), S \union {d})
<1> DEFINE T == S \union {d}
<1>0. s \in StreakRows /\ S \in SUBSET Date /\ IsFiniteSet(S)
  BY DEF Bounded
<1>1. PICK r \in StreakRows : /\ r = Refilled(s, d) /\ r.last = s.last
                        /\ r.freezes = IF s.week = Week(d) THEN s.freezes ELSE 1
  BY <1>0, RefilledRow
<1>2. PICK n \in Nat : n = IF Carries(r, d) THEN s.current + 1 ELSE 1
  BY <1>0 DEF StreakRows
<1> DEFINE t == ApplySolve(s, d)
<1>3. /\ t \in StreakRows
      /\ t.last = d /\ t.week = Week(d) /\ t.current = n
      /\ t.best = IF n > s.best THEN n ELSE s.best
      /\ t.freezes = IF Carries(r, d) /\ d - s.last = 2 THEN 0 ELSE r.freezes
  BY <1>0, <1>1, <1>2, Solved
<1> HIDE DEF t
<1>4. CASE S = {}
  <2>1. s = NoStreak
    BY <1>4 DEF Bounded
  <2>2. s.last = 0 /\ s.best = 0 /\ s.week = -1
    BY <2>1 DEF NoStreak
  <2>3. Week(d) \in Nat
    BY WeeksInOrder DEF Date
  <2>4. ~Carries(r, d) /\ r.freezes = 1
    BY <1>1, <2>2, <2>3 DEF Carries
  <2>5. t.current = 1 /\ t.best = 1 /\ t.freezes = 1
    BY <1>2, <1>3, <2>2, <2>4
  <2>6. Cardinality(RunTo(T, d)) = 1
    <3>1. RunTo(T, d) = {d}
      BY <1>0, <1>4, RunsKept
    <3> QED BY <3>1, FS_Singleton
  <2>7. ~Spent(T, d)
    BY <1>4 DEF Spent, MissedOne, Date
  <2> QED BY <1>3, <1>4, <2>5, <2>6, <2>7 DEF Exact, t
<1>5. CASE S # {}
  <2>1. s.last \in S /\ \A e \in S : e <= s.last
    BY <1>5 DEF Bounded
  <2>2. \A e \in S : e < d
    <3>1. s.last \in Nat /\ s.last # 0 /\ d \in Nat
      BY <1>0, <2>1 DEF Date
    <3>2. s.last < d
      BY <3>1
    <3>3. \A e \in S : e \in Nat
      BY <1>0 DEF Date
    <3> QED BY <2>1, <3>1, <3>2, <3>3
  <2>3. /\ s.current = Cardinality(RunTo(S, s.last))
        /\ \E e \in S : s.best = Cardinality(RunTo(S, e))
        /\ \A e \in S : s.best >= Cardinality(RunTo(S, e))
        /\ s.week = Week(s.last)
        /\ s.freezes = 0 <=> Spent(S, s.last)
    BY <1>5 DEF Exact
  <2>4. /\ Joined(T, d) <=> Carries(r, d)
        /\ Spent(T, d) <=> d - s.last = 2 \/ r.freezes = 0
    BY <1>0, <1>1, <2>1, <2>2, <2>3, FreezeTells
  <2>5. t.current = Cardinality(RunTo(T, d))
    BY <1>0, <1>2, <1>3, <2>1, <2>2, <2>3, <2>4, RunLength
  <2>6. \A e \in S : RunTo(T, e) = RunTo(S, e)
    BY <1>0, <2>2, RunsKept
  <2>7. /\ \E e \in T : t.best = Cardinality(RunTo(T, e))
        /\ \A e \in T : t.best >= Cardinality(RunTo(T, e))
    <3>1. CASE t.current > s.best
      <4>1. t.best = t.current
        BY <1>3, <3>1
      <4>2. \A e \in S : t.best >= Cardinality(RunTo(T, e))
        <5>1. TAKE e \in S
        <5>2. s.best >= Cardinality(RunTo(S, e)) /\ e \in Date
          BY <1>0, <2>3
        <5>3. Cardinality(RunTo(S, e)) \in Nat
          <6>1. RunTo(S, e) \subseteq S
            BY DEF RunTo
          <6> QED BY <1>0, <6>1, FS_Subset, FS_CardinalityType
        <5> QED BY <1>0, <1>3, <2>6, <3>1, <4>1, <5>2, <5>3 DEF StreakRows
      <4>3. t.best = Cardinality(RunTo(T, d)) /\ t.best \in Nat /\ d \in T
        BY <1>3, <2>5, <4>1
      <4>4. t.best >= t.best
        BY <4>3
      <4> QED BY <4>2, <4>3, <4>4
    <3>2. CASE ~(t.current > s.best)
      <4>1. t.best = s.best /\ t.best >= t.current
        <5>1. s.best \in Nat
          BY <1>0 DEF StreakRows
        <5> QED BY <1>3, <3>2, <5>1
      <4> QED BY <2>3, <2>5, <2>6, <4>1
    <3> QED BY <3>1, <3>2
  <2>8. t.freezes = 0 <=> Spent(T, d)
    <3>1. d - s.last = 2 /\ ~Carries(r, d) => r.freezes = 0
      <4>1. s.last # 0
        BY <1>0, <2>1 DEF Date
      <4>2. r.freezes \in {0, 1}
        BY DEF StreakRows
      <4> QED BY <1>1, <4>1, <4>2 DEF Carries
    <3>2. t.freezes = 0 <=> (Carries(r, d) /\ d - s.last = 2) \/ r.freezes = 0
      BY <1>3
    <3> QED BY <2>4, <3>1, <3>2
  <2> QED BY <1>3, <2>5, <2>7, <2>8 DEF Exact, t
<1> QED BY <1>4, <1>5

(* Whatever day is solved, the row stays in bounds.                        *)
LEMMA BoundsKept ==
  ASSUME NEW S, NEW s, NEW d \in Date, Bounded(s, S)
  PROVE  Bounded(ApplySolve(s, d), IF d <= s.last THEN S ELSE S \union {d})
<1>0. s \in StreakRows /\ S \in SUBSET Date /\ IsFiniteSet(S)
  BY DEF Bounded
<1>1. CASE d <= s.last
  <2>1. s.last # 0
    BY <1>0, <1>1 DEF Date, StreakRows
  <2>2. S # {}
    BY <2>1 DEF Bounded, NoStreak
  <2>3. ApplySolve(s, d) = Refilled(s, d)
    BY <1>0, <1>1, <2>1, SolvedInThePast
  <2>4. Refilled(s, d) \in StreakRows /\ Refilled(s, d).last = s.last /\ Refilled(s, d).current = s.current
    BY <1>0, RefilledRow
  <2> QED BY <1>1, <2>2, <2>3, <2>4 DEF Bounded
<1>2. CASE ~(d <= s.last)
  <2>1. PICK t \in StreakRows : /\ t = ApplySolve(s, d) /\ t.last = d
                          /\ t.current = IF Carries(Refilled(s, d), d) THEN s.current + 1 ELSE 1
    BY <1>0, <1>2, Solved
  <2>2. t.current > 0
    BY <1>0, <2>1 DEF StreakRows
  <2>3. \A e \in S : e <= d
    BY <1>0, <1>2 DEF Bounded, Date, StreakRows
  <2>4. IsFiniteSet(S \union {d})
    BY <1>0, FS_AddElement
  <2> QED BY <1>0, <1>2, <2>1, <2>2, <2>3, <2>4 DEF Bounded, Date
<1> QED BY <1>1, <1>2

(* SaveStreak's row tells the run of its days, unless it turned back.      *)
LEMMA SavedTells ==
  ASSUME NEW S, NEW s, NEW d \in Date, NEW turned \in BOOLEAN, Tells(s, S, turned)
  PROVE  Tells(ApplySolve(s, d), IF d <= s.last THEN S ELSE S \union {d}, turned \/ Week(d) < s.week)
<1>0. Bounded(s, S) /\ s \in StreakRows /\ S \in SUBSET Date
  BY DEF Tells, Bounded
<1>1. CASE turned \/ Week(d) < s.week
  BY <1>0, <1>1, BoundsKept DEF Tells
<1>2. CASE ~(turned \/ Week(d) < s.week) /\ d <= s.last
  <2>1. Exact(s, S)
    BY <1>2 DEF Tells
  <2>2. s.last # 0
    BY <1>0, <1>2 DEF Date, StreakRows
  <2>3. S # {}
    BY <2>2, <1>0 DEF Bounded, NoStreak
  <2>4. s.week = Week(s.last)
    BY <2>1, <2>3 DEF Exact
  <2>5. Week(d) = s.week
    <3>1. d \in Nat /\ s.last \in Nat
      BY <1>0 DEF Date, StreakRows
    <3> QED BY <1>2, <2>4, <3>1, WeeksInOrder
  <2>6. ApplySolve(s, d) = s
    BY <1>0, <1>2, <2>2, <2>5, SolvedInThePast DEF Refilled
  <2> QED BY <1>0, <1>2, <2>1, <2>6 DEF Tells
<1>3. CASE ~(turned \/ Week(d) < s.week) /\ ~(d <= s.last)
  BY <1>0, <1>3, LaterDay, BoundsKept DEF Tells
<1> QED BY <1>1, <1>2, <1>3
-------------------------------------------------------------------------------
(* The first state satisfies the invariant.                                *)
LEMMA GameInvInit == ASSUME GameInit PROVE GameInv
<1>1. NoStreak \in StreakRows /\ IsFiniteSet({})
  BY FS_EmptySet DEF NoStreak, StreakRows
<1>2. GameTypeOK
  <2>1. FirstDay \in FirstDay .. LastDay
    BY GameAssumption
  <2>2. Free \in GameWorks
    BY DEF GameWorks
  <2> QED BY <2>1, <2>2 DEF GameInit, GameTypeOK
<1>3. Tells(streak, counted, turnedBack)
  BY <1>1 DEF GameInit, Tells, Bounded, Exact
<1>4. RowsTell
  BY <1>3 DEF GameInit, RowsTell, Free
<1>5. EveryDayCounts
  BY DEF GameInit, EveryDayCounts
<1> QED BY <1>2, <1>4, <1>5 DEF GameInv

(* Dates are dates of the calendar, today's among them.                    *)
LEMMA TodayIsADate ==
  ASSUME GameTypeOK
  PROVE  Dates \subseteq Date /\ Today \in Dates
BY GameAssumption DEF GameTypeOK, Dates, Date, Today

(* Every step keeps the variables in their domains.                        *)
LEMMA TypeNext == ASSUME GameInv, [GameNext]_game PROVE GameTypeOK'
<1> USE DEF GameInv
<1>0. Today \in Dates /\ Dates \subseteq Date
  BY TodayIsADate
<1>1. CASE Start
  BY <1>0, <1>1 DEF Start, GameTypeOK, rest
<1>2. CASE UpdateTimezone
  BY <1>2 DEF UpdateTimezone, GameTypeOK
<1>3. CASE DayPasses
  BY <1>3, GameAssumption DEF DayPasses, GameTypeOK, rest
<1>4. ASSUME NEW t \in Calls, Submit(t) PROVE GameTypeOK'
  <2>1. [step |-> "complete", date |-> Today] \in GameWorks
    BY <1>0 DEF GameWorks
  <2> QED BY <1>4, <2>1 DEF Submit, Go, GameTypeOK, rest
<1>5. ASSUME NEW t \in Calls, CompleteAttempt(t) PROVE GameTypeOK'
  <2>1. task[t].date \in Dates
    BY <1>5 DEF CompleteAttempt, GameTypeOK, GameWorks, Free
  <2>2. [step |-> "read", date |-> task[t].date] \in GameWorks /\ Free \in GameWorks
    BY <2>1 DEF GameWorks
  <2>3. /\ UNCHANGED <<day, turnedBack>>
        /\ \E w \in GameWorks : task' = [task EXCEPT ![t] = w]
        /\ attempt' = attempt \/ \E a \in {"solved", "suspicious"} : attempt' = [attempt EXCEPT ![task[t].date] = a]
    BY <1>5, <2>2 DEF CompleteAttempt, Go
  <2> QED BY <2>1, <2>3 DEF GameTypeOK
<1>6. ASSUME NEW t \in Calls, GetStreak(t) PROVE GameTypeOK'
  <2>1. PICK w : /\ w = [step |-> "save", date |-> task[t].date, read |-> streak, days |-> counted]
                 /\ task' = [task EXCEPT ![t] = w]
    BY <1>6 DEF GetStreak, Go
  <2>2. task[t].date \in Dates
    BY <1>6 DEF GetStreak, GameTypeOK, GameWorks, Free
  <2>3. streak \in StreakRows /\ counted \in SUBSET Date
    BY DEF RowsTell, Tells, Bounded
  <2>4. w \in GameWorks
    BY <2>1, <2>2, <2>3 DEF GameWorks
  <2> QED BY <1>6, <2>1, <2>4 DEF GetStreak, GameTypeOK, rest
<1>7. ASSUME NEW t \in Calls, SaveStreak(t) PROVE GameTypeOK'
  <2>1. Free \in GameWorks
    BY DEF GameWorks
  <2> QED BY <1>7, <2>1 DEF SaveStreak, Go, GameTypeOK
<1>8. ASSUME NEW t \in Calls, Fails(t) PROVE GameTypeOK'
  <2>1. Free \in GameWorks
    BY DEF GameWorks
  <2> QED BY <1>8, <2>1 DEF Fails, Go, GameTypeOK
<1>9. CASE UNCHANGED game
  BY <1>9 DEF game, GameTypeOK
<1> QED BY <1>1, <1>2, <1>3, <1>4, <1>5, <1>6, <1>7, <1>8, <1>9 DEF GameNext

(* Every step keeps the rows telling their runs: only SaveStreak writes    *)
(* one, and only GetStreak takes a copy.                                   *)
LEMMA RowsNext == ASSUME GameInv, GameTypeOK', [GameNext]_game PROVE RowsTell'
<1> USE DEF GameInv
<1>1. ASSUME UNCHANGED <<streak, counted, turnedBack>>,
             \A t \in Calls : task'[t] = task[t] \/ task'[t].step # "save"
      PROVE  RowsTell'
  BY <1>1 DEF RowsTell
<1>2. CASE Start \/ UpdateTimezone \/ DayPasses \/ UNCHANGED game
  BY <1>1, <1>2 DEF Start, UpdateTimezone, DayPasses, rest, game
<1>3. ASSUME NEW t \in Calls, Submit(t) \/ CompleteAttempt(t) \/ Fails(t) PROVE RowsTell'
  <2>1. UNCHANGED <<streak, counted, turnedBack>>
    BY <1>3 DEF Submit, CompleteAttempt, Fails, rest
  <2>2. \E w : task' = [task EXCEPT ![t] = w] /\ w.step # "save"
    BY <1>3 DEF Submit, CompleteAttempt, Fails, Go, Free
  <2> QED BY <1>1, <2>1, <2>2 DEF GameTypeOK
<1>4. ASSUME NEW t \in Calls, GetStreak(t) PROVE RowsTell'
  <2>1. UNCHANGED <<streak, counted, turnedBack>>
    BY <1>4 DEF GetStreak, rest
  <2>2. PICK w : /\ w = [step |-> "save", date |-> task[t].date, read |-> streak, days |-> counted]
                 /\ task' = [task EXCEPT ![t] = w]
    BY <1>4 DEF GetStreak, Go
  <2>3. ASSUME NEW u \in Calls, task'[u].step = "save"
        PROVE  Tells(task'[u].read, task'[u].days, turnedBack)
    <3>1. CASE u = t
      BY <2>2, <3>1 DEF GameTypeOK, RowsTell
    <3>2. CASE u # t
      BY <2>2, <2>3, <3>2 DEF GameTypeOK, RowsTell
    <3> QED BY <3>1, <3>2
  <2> QED BY <2>1, <2>3 DEF RowsTell
<1>5. ASSUME NEW t \in Calls, SaveStreak(t) PROVE RowsTell'
  <2>1. task[t].step = "save" /\ Tells(task[t].read, task[t].days, turnedBack) /\ turnedBack \in BOOLEAN
    BY <1>5 DEF SaveStreak, RowsTell, GameTypeOK
  <2>2. task[t].date \in Date
    BY <2>1, TodayIsADate DEF GameTypeOK, GameWorks, Free
  <2>3. PICK d, s, S : d \in Date /\ d = task[t].date /\ s = task[t].read /\ S = task[t].days
    BY <2>2
  <2>4. /\ streak' = ApplySolve(s, d)
        /\ counted' = IF d <= s.last THEN S ELSE S \union {d}
        /\ turnedBack' = (turnedBack \/ Week(d) < s.week)
        /\ task' = [task EXCEPT ![t] = Free]
    BY <1>5, <2>3 DEF SaveStreak, Go
  <2>5. Tells(ApplySolve(s, d), IF d <= s.last THEN S ELSE S \union {d}, turnedBack \/ Week(d) < s.week)
    BY <2>1, <2>3, SavedTells
  <2>6. Tells(streak', counted', turnedBack')
    BY <2>4, <2>5
  <2>7. ASSUME NEW u \in Calls, task'[u].step = "save"
        PROVE  Tells(task'[u].read, task'[u].days, turnedBack')
    <3>1. task'[u] = task[u]
      BY <2>4, <2>7 DEF GameTypeOK, Free
    <3>2. Tells(task[u].read, task[u].days, turnedBack)
      BY <2>7, <3>1 DEF RowsTell
    <3> QED BY <2>4, <3>1, <3>2 DEF Tells
  <2> QED BY <2>6, <2>7 DEF RowsTell
<1> QED BY <1>2, <1>3, <1>4, <1>5 DEF GameNext
(* Every step keeps the solved days accounted for: one is in the hands of  *)
(* the request that solved it until that saves it, fails, or finds it in   *)
(* the past; and a day the row forgets was overwritten.                    *)
LEMMA CountsNext == ASSUME GameInv, [GameNext]_game PROVE EveryDayCounts'
<1> USE DEF GameInv
<1> DEFINE InHand(u, d) == task[u].step \in {"read", "save"} /\ task[u].date = d
           Kept(d) == d \in counted \union lost \/ \E u \in Calls : InHand(u, d)
<1>1. ASSUME \A d \in Dates : attempt'[d] = "solved" => attempt[d] = "solved",
             \A d \in Dates : Kept(d) => Kept(d)'
      PROVE  EveryDayCounts'
  BY <1>1 DEF EveryDayCounts
<1>2. CASE UpdateTimezone \/ DayPasses \/ UNCHANGED game
  BY <1>1, <1>2 DEF UpdateTimezone, DayPasses, rest, game
<1>3. CASE Start
  <2>1. \A d \in Dates : attempt'[d] = "solved" => attempt[d] = "solved"
    BY <1>3, TodayIsADate DEF Start, GameTypeOK
  <2> QED BY <1>1, <1>3, <2>1 DEF Start, rest
<1>4. ASSUME NEW t \in Calls, Submit(t) PROVE EveryDayCounts'
  <2>1. \A u \in Calls, d \in Dates : InHand(u, d) => u # t
    BY <1>4 DEF Submit, Free
  <2>2. \A u \in Calls : u # t => task'[u] = task[u]
    BY <1>4 DEF Submit, Go, GameTypeOK
  <2> QED BY <1>1, <1>4, <2>1, <2>2 DEF Submit, rest
<1>5. ASSUME NEW t \in Calls, CompleteAttempt(t) PROVE EveryDayCounts'
  <2>1. UNCHANGED <<counted, lost>>
    BY <1>5 DEF CompleteAttempt
  <2>2. \A u \in Calls : u # t => task'[u] = task[u]
    BY <1>5 DEF CompleteAttempt, Go, GameTypeOK
  <2>3. \A d \in Dates : Kept(d) => Kept(d)'
    <3>1. \A u \in Calls, d \in Dates : InHand(u, d) => u # t
      BY <1>5 DEF CompleteAttempt
    <3> QED BY <2>1, <2>2, <3>1
  <2>4. ASSUME NEW d \in Dates, attempt'[d] = "solved", attempt[d] # "solved" PROVE Kept(d)'
    <3>1. /\ attempt' = [attempt EXCEPT ![task[t].date] = "solved"]
          /\ task' = [task EXCEPT ![t] = [step |-> "read", date |-> task[t].date]]
      <4>1. attempt' # attempt /\ attempt' # [attempt EXCEPT ![task[t].date] = "suspicious"]
        BY <2>4 DEF GameTypeOK
      <4> QED BY <1>5, <4>1 DEF CompleteAttempt, Go
    <3>2. d = task[t].date
      BY <2>4, <3>1 DEF GameTypeOK
    <3>3. InHand(t, d)'
      BY <3>1, <3>2 DEF GameTypeOK
    <3> QED BY <3>3
  <2> QED BY <2>3, <2>4 DEF EveryDayCounts
<1>6. ASSUME NEW t \in Calls, GetStreak(t) PROVE EveryDayCounts'
  <2>1. \A u \in Calls : u # t => task'[u] = task[u]
    BY <1>6 DEF GetStreak, Go, GameTypeOK
  <2>2. task'[t].step = "save" /\ task'[t].date = task[t].date
    BY <1>6 DEF GetStreak, Go, GameTypeOK
  <2>3. \A u \in Calls, d \in Dates : InHand(u, d) => InHand(u, d)'
    BY <2>1, <2>2
  <2> QED BY <1>1, <1>6, <2>3 DEF GetStreak, rest
<1>7. ASSUME NEW t \in Calls, SaveStreak(t) PROVE EveryDayCounts'
  <2>1. \A u \in Calls : u # t => task'[u] = task[u]
    BY <1>7 DEF SaveStreak, Go, GameTypeOK
  <2>2. \A d \in counted \union lost : d \in counted' \union lost'
    BY <1>7 DEF SaveStreak
  <2>3. task[t].date \in counted' \union lost'
    BY <1>7 DEF SaveStreak
  <2>4. \A d \in Dates : Kept(d) => Kept(d)'
    BY <2>1, <2>2, <2>3
  <2> QED BY <1>1, <1>7, <2>4 DEF SaveStreak
<1>8. ASSUME NEW t \in Calls, Fails(t) PROVE EveryDayCounts'
  <2>1. \A u \in Calls : u # t => task'[u] = task[u]
    BY <1>8 DEF Fails, Go, GameTypeOK
  <2>2. \A d \in Dates : InHand(t, d) => d \in lost'
    BY <1>8 DEF Fails
  <2>3. \A d \in Dates : Kept(d) => Kept(d)'
    BY <1>8, <2>1, <2>2 DEF Fails
  <2> QED BY <1>1, <1>8, <2>3 DEF Fails
<1> QED BY <1>2, <1>3, <1>4, <1>5, <1>6, <1>7, <1>8 DEF GameNext

(* The invariant says what the streak promises.                            *)
LEMMA InvIsPlayed == ASSUME GameInv PROVE StreakAsPlayed
<1>1. Bounded(streak, counted) /\ (turnedBack \/ Exact(streak, counted))
  BY DEF GameInv, RowsTell, Tells
<1>2. RowIsTheRun
  <2>1. CASE counted = {}
    BY <1>1, <2>1 DEF Bounded, NoStreak, RowIsTheRun
  <2>2. CASE counted # {}
    BY <1>1, <2>2 DEF Bounded, Exact, RowIsTheRun
  <2> QED BY <2>1, <2>2
<1>3. ShownIsKept
  <2>1. Today \in Date
    BY TodayIsADate DEF GameInv
  <2>2. streak \in StreakRows
    BY <1>1 DEF Bounded
  <2>3. streak.last # 0 => streak.current > 0
    <3>1. CASE counted = {}
      BY <1>1, <3>1 DEF Bounded, NoStreak
    <3>2. CASE counted # {}
      BY <1>1, <3>2 DEF Bounded
    <3> QED BY <3>1, <3>2
  <2> QED BY <2>1, <2>2, <2>3, ShownContinues DEF ShownIsKept
<1> QED BY <1>2, <1>3 DEF GameInv, StreakAsPlayed

(* The streak is what was played, and what is shown of it is true, for any *)
(* calendar and any number of requests side by side.                       *)
THEOREM StreakTold == GameSpec => []StreakAsPlayed
<1>1. GameInit => GameInv
  BY GameInvInit
<1>2. GameInv /\ [GameNext]_game => GameInv'
  BY TypeNext, RowsNext, CountsNext DEF GameInv
<1>3. GameInv => StreakAsPlayed
  BY InvIsPlayed
<1> QED BY <1>1, <1>2, <1>3, PTL DEF GameSpec

-------------------------------------------------------------------------------
(* The relation of two users and the nodes' caches of it.                  *)
Statuses == {"pending", "accepted", "declined", "blocked"}
PairRows == {NoRow} \union [id : Nat \ {0}, status : Statuses, by : Pair]

Inserts == [step : {"insert"}, node : PairNodes, user : Pair, id : Nat, status : Statuses]
Updates == [step : {"update", "reset"}, node : PairNodes, user : Pair, id : Nat \ {0},
            status : {"pending", "accepted", "declined"}]
Deletes == [step : {"delete"}, node : PairNodes, user : Pair, id : Nat, status : {"none", "blocked"}]
Announcements == [step : {"invalidate"}, node : PairNodes]
Fills == [step : {"fill"}, node : PairNodes, answer : {"friends", "not"}, late : BOOLEAN]
PairWorks == {NoWork} \union Inserts \union Updates \union Deletes \union Announcements \union Fills

Answer == IF Friends THEN "friends" ELSE "not"

PairTypeOK == /\ pairRow \in PairRows /\ inserted \in Nat
          /\ friendCache \in [PairNodes -> {"unknown", "friends", "not"}]
          /\ pairWork \in [PairTasks -> PairWorks]

(* What a handler that read the row still knows of it: ids are not used    *)
(* again, and a row that is not a block does not become one.               *)
Knows(t) ==
  /\ pairWork[t].step \in {"insert", "update", "reset", "delete"} => pairWork[t].id <= inserted
  /\ pairWork[t].step \in {"update", "reset"} => (pairWork[t].id = pairRow.id => pairRow.status # "blocked")
  /\ pairWork[t].step = "delete" /\ pairWork[t].status = "none" /\ pairWork[t].id = pairRow.id
       => pairRow.status # "blocked" \/ pairWork[t].user = pairRow.by
  /\ pairWork[t].step = "delete" /\ pairWork[t].status = "blocked" => pairWork[t].id # 0

(* What it read for the cache is what the database says, or late is set.   *)
Fresh(t) == pairWork[t].step = "fill" => pairWork[t].late \/ pairWork[t].answer = Answer

(* The inductive invariant.                                                *)
PairInv == /\ PairTypeOK /\ FriendCacheIsCurrent
           /\ pairRow.id <= inserted
           /\ \A t \in PairTasks : Knows(t) /\ Fresh(t)
-------------------------------------------------------------------------------
LEMMA WorkKinds ==
  ASSUME NEW x \in PairWorks
  PROVE /\ x.step = "insert" => x \in Inserts
        /\ x.step \in {"update", "reset"} => x \in Updates
        /\ x.step = "delete" => x \in Deletes
        /\ x.step = "invalidate" => x \in Announcements
        /\ x.step = "fill" => x \in Fills
  BY DEF PairWorks, Inserts, Updates, Deletes, Announcements, Fills, NoWork

LEMMA LateFill == ASSUME NEW x \in Fills PROVE [x EXCEPT !.late = TRUE] \in Fills
  BY DEF Fills

LEMMA RowKinds ==
  ASSUME NEW r \in PairRows
  PROVE /\ r.id \in Nat
        /\ r # NoRow => r \in [id : Nat \ {0}, status : Statuses, by : Pair]
        /\ r.status # "none" => r # NoRow
        /\ r.status = "blocked" => r # NoRow
        /\ NoRow.id = 0 /\ NoRow.status = "none"
  BY DEF PairRows, NoRow

(* One handler goes on and the row is left alone.                          *)
LEMMA QuietStep ==
  ASSUME PairInv, NEW t \in PairTasks, NEW x \in PairWorks, pairWork' = [pairWork EXCEPT ![t] = x],
         UNCHANGED <<pairRow, inserted>>, friendCache' \in [PairNodes -> {"unknown", "friends", "not"}],
         Knows(t)', Fresh(t)', FriendCacheIsCurrent'
  PROVE PairInv'
<1>1. pairWork' \in [PairTasks -> PairWorks] /\ \A o \in PairTasks \ {t} : pairWork'[o] = pairWork[o]
  BY DEF PairInv, PairTypeOK
<1>2. ASSUME NEW o \in PairTasks \ {t} PROVE Knows(o)' /\ Fresh(o)'
  <2>1. pairWork'[o] = pairWork[o] /\ Knows(o) /\ Fresh(o)
    BY <1>1 DEF PairInv
  <2>2. Answer' = Answer
    BY DEF Answer, Friends
  <2> QED BY <2>1, <2>2 DEF Knows, Fresh
<1>3. \A o \in PairTasks : Knows(o)' /\ Fresh(o)'
  BY <1>2
<1> QED BY <1>1, <1>3 DEF PairInv, PairTypeOK

(* A write that is about to be announced.                                  *)
LEMMA WriteStep ==
  ASSUME PairInv, NEW t \in PairTasks, NEW r \in PairRows, NEW then \in PairWorks, Write(t, r, then),
         UNCHANGED friendCache, pairWork[t].node \in PairNodes, then.node = pairWork[t].node,
         then.step = "invalidate" \/ (then.step = "insert" /\ then.id # 0),
         inserted' \in Nat, inserted <= inserted', r.id <= inserted',
         then.step = "insert" => then.id <= inserted,
         r.status = "blocked" => r = pairRow \/ r.id > inserted,
         r.id = pairRow.id \/ r = NoRow \/ r.id > inserted,
         pairRow.status = "blocked" => r = pairRow \/ r.id # pairRow.id
  PROVE PairInv'
<1>1. pairRow' = r
  BY DEF Write
<1>2. pairWork'[t] = then /\ pairWork' \in [PairTasks -> PairWorks]
      /\ \A o \in PairTasks \ {t} : pairWork'[o] = IF pairWork[o].step = "fill" /\ r.status # pairRow.status
                                          THEN [pairWork[o] EXCEPT !.late = TRUE] ELSE pairWork[o]
  <2>1. \A o \in PairTasks : pairWork[o].step = "fill" => [pairWork[o] EXCEPT !.late = TRUE] \in PairWorks
    <3>1. ASSUME NEW o \in PairTasks, pairWork[o].step = "fill" PROVE [pairWork[o] EXCEPT !.late = TRUE] \in Fills
      BY <3>1, WorkKinds, LateFill DEF PairInv, PairTypeOK
    <3> QED BY <3>1 DEF PairWorks
  <2> QED BY <2>1 DEF Write, PairInv, PairTypeOK
<1>3. ASSUME NEW o \in PairTasks \ {t}
      PROVE IF pairWork[o].step = "fill" /\ r.status # pairRow.status
            THEN pairWork'[o].step = "fill" /\ pairWork'[o].late /\ pairWork'[o].node = pairWork[o].node
            ELSE pairWork'[o] = pairWork[o]
  <2>1. CASE pairWork[o].step = "fill" /\ r.status # pairRow.status
    <3>1. pairWork[o] \in Fills /\ pairWork'[o] = [pairWork[o] EXCEPT !.late = TRUE]
      BY <1>2, <2>1, WorkKinds DEF PairInv, PairTypeOK
    <3> QED BY <2>1, <3>1 DEF Fills
  <2>2. CASE ~(pairWork[o].step = "fill" /\ r.status # pairRow.status)
    BY <1>2, <2>2
  <2> QED BY <2>1, <2>2
<1>4. ASSUME NEW o \in PairTasks PROVE Knows(o)'
  <2>1. CASE o = t
    <3>1. then.step = "insert" => then.id \in Nat /\ then.id <= inserted'
      BY WorkKinds DEF Inserts, PairInv, PairTypeOK
    <3>2. pairWork'[t].step \notin {"update", "reset", "delete"}
      BY <1>2
    <3> QED BY <1>2, <2>1, <3>1, <3>2 DEF Knows
  <2>2. CASE o # t /\ pairWork[o].step \in {"insert", "update", "reset", "delete"}
    <3>1. pairWork'[o] = pairWork[o] /\ Knows(o)
      BY <1>3, <2>2 DEF PairInv
    <3>2. pairWork[o].id \in Nat /\ pairWork[o].id <= inserted /\ inserted \in Nat
      BY <2>2, <3>1, WorkKinds DEF PairInv, PairTypeOK, Knows, Inserts, Updates, Deletes
    <3>3. r.id \in Nat /\ pairRow.id \in Nat
      BY RowKinds DEF PairInv, PairTypeOK
    <3>4. pairWork[o].id <= inserted'
      BY <3>2
    <3>5. r.status = "blocked" /\ pairWork[o].id = r.id => r = pairRow
      BY <3>2, <3>3
    <3> QED BY <1>1, <3>1, <3>4, <3>5 DEF Knows
  <2>3. CASE o # t /\ pairWork[o].step \notin {"insert", "update", "reset", "delete"}
    BY <1>3, <2>3 DEF Knows
  <2> QED BY <2>1, <2>2, <2>3
<1>5. r.status = pairRow.status => Answer' = Answer
  BY <1>1 DEF Answer, Friends
<1>6. ASSUME NEW o \in PairTasks PROVE Fresh(o)'
  <2>1. CASE o = t
    BY <1>2, <2>1 DEF Fresh
  <2>2. CASE o # t
    BY <1>3, <1>5, <2>2 DEF Fresh, PairInv
  <2> QED BY <2>1, <2>2
<1>7. FriendCacheIsCurrent'
  <2> SUFFICES ASSUME NEW n \in PairNodes
               PROVE \/ friendCache[n] = "unknown" \/ n \in pairDoubtful'
                     \/ \E o \in PairTasks : Announcing(o)' /\ pairWork'[o].node = n
                     \/ friendCache[n] = Answer'
    BY DEF FriendCacheIsCurrent, Answer
  <2>1. Announcing(t)' /\ pairWork'[t].node = pairWork[t].node
    BY <1>2 DEF Announcing
  <2>2. CASE n = pairWork[t].node
    BY <2>1, <2>2
  <2>3. CASE n # pairWork[t].node /\ r.status # pairRow.status
    BY <2>3 DEF Write
  <2>4. CASE n # pairWork[t].node /\ r.status = pairRow.status
    <3>1. pairDoubtful' = pairDoubtful /\ Answer' = Answer
      BY <1>5, <2>4 DEF Write
    <3>2. \A o \in PairTasks \ {t} : Announcing(o) => Announcing(o)' /\ pairWork'[o].node = pairWork[o].node
      BY <1>3, <2>4 DEF Announcing
    <3> QED BY <2>4, <3>1, <3>2 DEF PairInv, FriendCacheIsCurrent, Answer
  <2> QED BY <2>2, <2>3, <2>4
<1> QED BY <1>1, <1>2, <1>4, <1>6, <1>7 DEF PairInv, PairTypeOK
-------------------------------------------------------------------------------
(* A handler has read the row and knows what it will write.                *)
LEMMA DecideStep ==
  ASSUME PairInv, NEW t \in PairTasks, NEW u \in Pair, NEW n \in PairNodes,
         NEW step \in {"insert", "update", "reset", "delete"}, NEW s,
         Decide(t, u, n, step, s),
         step = "insert" => pairRow = NoRow /\ s \in {"pending", "blocked"},
         step \in {"update", "reset"} => /\ s \in {"pending", "accepted", "declined"}
                                         /\ pairRow.status \in {"pending", "declined"},
         step = "delete" => \/ s = "none" /\ (pairRow.status # "blocked" \/ pairRow.by = u)
                            \/ s = "blocked" /\ pairRow # NoRow
  PROVE PairInv'
<1> DEFINE x == [step |-> step, node |-> n, user |-> u, id |-> pairRow.id, status |-> s]
<1>1. pairRow.id \in Nat /\ (pairRow # NoRow => pairRow.id # 0) /\ pairRow.id <= inserted
  BY RowKinds DEF PairInv, PairTypeOK
<1>2. x \in PairWorks
  <2>1. CASE step = "insert"
    BY <1>1, <2>1 DEF PairWorks, Inserts, Statuses
  <2>2. CASE step \in {"update", "reset"}
    <3>1. pairRow # NoRow
      BY <2>2, RowKinds DEF PairInv, PairTypeOK
    <3> QED BY <1>1, <2>2, <3>1 DEF PairWorks, Updates
  <2>3. CASE step = "delete"
    BY <1>1, <2>3 DEF PairWorks, Deletes
  <2> QED BY <2>1, <2>2, <2>3
<1>3. /\ pairWork' = [pairWork EXCEPT ![t] = x]
      /\ pairWork[t] = NoWork
      /\ UNCHANGED <<pairRow, inserted, friendCache, pairDoubtful>>
  BY DEF Decide, Proceed
<1>4. pairWork'[t] = x /\ \A o \in PairTasks \ {t} : pairWork'[o] = pairWork[o]
  BY <1>3 DEF PairInv, PairTypeOK
<1>5. Knows(t)' /\ Fresh(t)'
  BY <1>1, <1>3, <1>4 DEF Knows, Fresh
<1>6. FriendCacheIsCurrent'
  <2>1. ~Announcing(t)
    BY <1>3 DEF Announcing, NoWork
  <2>2. \A o \in PairTasks : Announcing(o) => Announcing(o)' /\ pairWork'[o].node = pairWork[o].node
    BY <1>4, <2>1 DEF Announcing
  <2> QED BY <1>3, <2>2 DEF PairInv, FriendCacheIsCurrent, Friends
<1> HIDE DEF x
<1> QED BY <1>2, <1>3, <1>5, <1>6, QuietStep DEF PairInv, PairTypeOK

LEMMA RequestStep ==
  ASSUME PairInv, NEW t \in PairTasks, NEW u \in Pair, NEW n \in PairNodes,
         \/ RequestConnection(t, u, n) \/ RespondConnection(t, u, n)
         \/ Unfriend(t, u, n) \/ BlockUser(t, u, n) \/ UnblockUser(t, u, n)
  PROVE PairInv'
<1>1. CASE RequestConnection(t, u, n)
  BY <1>1, DecideStep DEF RequestConnection
<1>2. CASE RespondConnection(t, u, n)
  BY <1>2, DecideStep DEF RespondConnection
<1>3. CASE Unfriend(t, u, n)
  BY <1>3, DecideStep DEF Unfriend, MayUnfriend
<1>4. CASE BlockUser(t, u, n)
  BY <1>4, DecideStep DEF BlockUser
<1>5. CASE UnblockUser(t, u, n)
  BY <1>5, DecideStep DEF UnblockUser, OwnBlock
<1> QED BY <1>1, <1>2, <1>3, <1>4, <1>5

LEMMA InsertStep == ASSUME PairInv, NEW t \in PairTasks, Insert(t) PROVE PairInv'
<1> DEFINE x == pairWork[t]
<1>1. x \in Inserts /\ x.id <= inserted /\ inserted \in Nat
  BY WorkKinds DEF Insert, PairInv, PairTypeOK, Knows
<1>2. CASE pairRow = NoRow
  <2> DEFINE r == [id |-> inserted + 1, status |-> x.status, by |-> x.user]
  <2>1. r \in PairRows /\ r.id > inserted
    BY <1>1 DEF PairRows, Inserts
  <2>2. Write(t, r, Invalidating(t)) /\ inserted' = inserted + 1 /\ UNCHANGED friendCache
    BY <1>2 DEF Insert
  <2>3. Invalidating(t) \in PairWorks /\ Invalidating(t).node = x.node /\ Invalidating(t).step = "invalidate"
    BY <1>1 DEF Invalidating, PairWorks, Announcements, Inserts
  <2>4. pairRow.status # "blocked" /\ x.node \in PairNodes
    BY <1>1, <1>2, RowKinds DEF Inserts, NoRow
  <2>5. inserted' \in Nat /\ inserted <= inserted' /\ r.id <= inserted'
    BY <1>1, <2>2
  <2> HIDE DEF r
  <2> QED BY <2>1, <2>2, <2>3, <2>4, <2>5, WriteStep
<1>3. CASE pairRow # NoRow
  <2>1. pairWork' = [pairWork EXCEPT ![t] = NoWork] /\ UNCHANGED <<pairRow, inserted, friendCache>>
        /\ pairDoubtful' = pairDoubtful \union (IF x.id = 0 THEN {} ELSE {x.node})
    BY <1>3 DEF Insert, Proceed
  <2>2. pairWork'[t] = NoWork /\ \A o \in PairTasks \ {t} : pairWork'[o] = pairWork[o]
    BY <2>1 DEF PairInv, PairTypeOK
  <2>3. Knows(t)' /\ Fresh(t)'
    BY <2>2 DEF Knows, Fresh, NoWork
  <2>4. FriendCacheIsCurrent'
    <3>1. \A o \in PairTasks \ {t} : Announcing(o) => Announcing(o)' /\ pairWork'[o].node = pairWork[o].node
      BY <2>2 DEF Announcing
    <3>2. Announcing(t) => x.node \in pairDoubtful'
      BY <2>1 DEF Announcing, Insert
    <3> QED BY <2>1, <3>1, <3>2 DEF PairInv, FriendCacheIsCurrent, Friends
  <2> QED BY <2>1, <2>3, <2>4, QuietStep DEF PairInv, PairTypeOK, PairWorks
<1> QED BY <1>2, <1>3

LEMMA UpdateStep == ASSUME PairInv, NEW t \in PairTasks, Update(t) PROVE PairInv'
<1> DEFINE x == pairWork[t]
<1>1. x \in Updates /\ x.step \in {"update", "reset"}
  BY WorkKinds DEF Update, PairInv, PairTypeOK
<1>2. Invalidating(t) \in PairWorks /\ Invalidating(t).node = x.node /\ Invalidating(t).step = "invalidate"
  BY <1>1 DEF Invalidating, PairWorks, Announcements, Updates
<1>3. CASE pairRow.id = x.id
  <2> DEFINE r == [pairRow EXCEPT !.status = x.status, !.by = IF x.step = "reset" THEN x.user ELSE @]
  <2>1. pairRow \in [id : Nat \ {0}, status : Statuses, by : Pair] /\ pairRow.status # "blocked"
    BY <1>1, <1>3, RowKinds DEF PairInv, PairTypeOK, Updates, Knows
  <2>2. r \in PairRows /\ r.id = pairRow.id /\ r.status # "blocked"
    BY <1>1, <2>1 DEF PairRows, Updates, Statuses
  <2>3. Write(t, r, Invalidating(t)) /\ UNCHANGED <<inserted, friendCache>>
    BY <1>3 DEF Update
  <2>4. x.node \in PairNodes /\ inserted \in Nat /\ pairRow.id <= inserted
    BY <1>1 DEF Updates, PairInv, PairTypeOK
  <2> HIDE DEF r
  <2> QED BY <1>2, <2>1, <2>2, <2>3, <2>4, WriteStep
<1>4. CASE pairRow.id # x.id
  <2> DEFINE y == IF x.step = "reset" THEN Invalidating(t) ELSE NoWork
  <2>1. /\ pairWork' = [pairWork EXCEPT ![t] = y]
        /\ UNCHANGED <<pairRow, inserted, friendCache, pairDoubtful>>
        /\ y \in PairWorks
    BY <1>2, <1>4 DEF Update, Proceed, PairWorks
  <2>2. y.step \in {"idle", "invalidate"}
    BY <1>2 DEF NoWork
  <2> HIDE DEF y
  <2>3. pairWork'[t] = y /\ \A o \in PairTasks \ {t} : pairWork'[o] = pairWork[o]
    BY <2>1 DEF PairInv, PairTypeOK
  <2>4. Knows(t)' /\ Fresh(t)'
    BY <2>2, <2>3 DEF Knows, Fresh
  <2>5. FriendCacheIsCurrent'
    <3>1. ~Announcing(t)
      BY <1>1 DEF Announcing
    <3>2. \A o \in PairTasks : Announcing(o) => Announcing(o)' /\ pairWork'[o].node = pairWork[o].node
      BY <2>3, <3>1 DEF Announcing
    <3> QED BY <2>1, <3>2 DEF PairInv, FriendCacheIsCurrent, Friends
  <2> QED BY <2>1, <2>4, <2>5, QuietStep DEF PairInv, PairTypeOK
<1> QED BY <1>3, <1>4

LEMMA DeleteStep == ASSUME PairInv, NEW t \in PairTasks, Delete(t) PROVE PairInv'
<1> DEFINE x == pairWork[t]
           y == IF x.status = "blocked" THEN [x EXCEPT !.step = "insert"] ELSE Invalidating(t)
<1>1. x \in Deletes /\ x.id <= inserted /\ (x.status = "blocked" => x.id # 0) /\ inserted \in Nat
  BY WorkKinds DEF Delete, PairInv, PairTypeOK, Knows
<1>2. y \in PairWorks /\ y.node = x.node
      /\ (y.step = "invalidate" \/ (y.step = "insert" /\ y.id # 0 /\ y.id <= inserted))
  <2>1. CASE x.status = "blocked"
    <3>1. [x EXCEPT !.step = "insert"] \in Inserts
      BY <1>1, <2>1 DEF Deletes, Inserts, Statuses
    <3> QED BY <1>1, <2>1, <3>1 DEF PairWorks, Deletes
  <2>2. CASE x.status # "blocked"
    BY <1>1, <2>2 DEF Invalidating, PairWorks, Announcements, Deletes
  <2> QED BY <2>1, <2>2
<1>3. Write(t, NoRow, y) /\ UNCHANGED <<inserted, friendCache>>
  BY DEF Delete
<1> HIDE DEF y
<1>4. NoRow \in PairRows /\ NoRow.id = 0 /\ NoRow.status = "none" /\ x.node \in PairNodes
  BY <1>1 DEF PairRows, NoRow, Deletes
<1>5. pairRow.status = "blocked" => pairRow.id # 0
  BY RowKinds DEF PairInv, PairTypeOK
<1> QED BY <1>1, <1>2, <1>3, <1>4, <1>5, WriteStep

LEMMA CacheStep ==
  ASSUME PairInv, NEW t \in PairTasks, Invalidate(t) \/ Fill(t) \/ \E n \in PairNodes : IsFriend(t, n)
  PROVE PairInv'
<1>1. CASE Invalidate(t)
  <2>1. /\ pairWork' = [pairWork EXCEPT ![t] = NoWork]
        /\ friendCache' = [friendCache EXCEPT ![pairWork[t].node] = "unknown"]
        /\ UNCHANGED <<pairRow, inserted>> /\ pairDoubtful' = pairDoubtful \ {pairWork[t].node}
    BY <1>1 DEF Invalidate, Forgotten, Proceed
  <2>2. pairWork'[t] = NoWork /\ (\A o \in PairTasks \ {t} : pairWork'[o] = pairWork[o])
        /\ friendCache' \in [PairNodes -> {"unknown", "friends", "not"}]
        /\ \A n \in PairNodes : friendCache'[n] = IF n = pairWork[t].node THEN "unknown" ELSE friendCache[n]
    BY <2>1 DEF PairInv, PairTypeOK
  <2>3. Knows(t)' /\ Fresh(t)'
    BY <2>2 DEF Knows, Fresh, NoWork
  <2>4. FriendCacheIsCurrent'
    <3>1. \A o \in PairTasks \ {t} : Announcing(o) => Announcing(o)' /\ pairWork'[o].node = pairWork[o].node
      BY <2>2 DEF Announcing
    <3> QED BY <2>1, <2>2, <3>1 DEF PairInv, FriendCacheIsCurrent, Friends
  <2> QED BY <2>1, <2>2, <2>3, <2>4, QuietStep DEF PairWorks
<1>2. CASE Fill(t)
  <2> DEFINE x == pairWork[t]
  <2>1. x \in Fills /\ (x.late \/ x.answer = Answer)
    BY <1>2, WorkKinds DEF Fill, PairInv, PairTypeOK, Fresh
  <2>2. /\ pairWork' = [pairWork EXCEPT ![t] = NoWork]
        /\ friendCache' = [friendCache EXCEPT ![x.node] = x.answer]
        /\ UNCHANGED <<pairRow, inserted>>
        /\ pairDoubtful' = IF x.late THEN pairDoubtful \union {x.node} ELSE pairDoubtful \ {x.node}
    BY <1>2 DEF Fill, Proceed
  <2>3. pairWork'[t] = NoWork /\ (\A o \in PairTasks \ {t} : pairWork'[o] = pairWork[o])
        /\ friendCache' \in [PairNodes -> {"unknown", "friends", "not"}]
        /\ \A n \in PairNodes : friendCache'[n] = IF n = x.node THEN x.answer ELSE friendCache[n]
    BY <2>1, <2>2 DEF PairInv, PairTypeOK, Fills
  <2>4. Knows(t)' /\ Fresh(t)'
    BY <2>3 DEF Knows, Fresh, NoWork
  <2>5. FriendCacheIsCurrent'
    <3>1. ~Announcing(t)
      BY <2>1 DEF Announcing, Fills
    <3>2. \A o \in PairTasks : Announcing(o) => Announcing(o)' /\ pairWork'[o].node = pairWork[o].node
      BY <2>3, <3>1 DEF Announcing
    <3> QED BY <2>1, <2>2, <2>3, <3>2 DEF PairInv, FriendCacheIsCurrent, Friends, Answer
  <2> QED BY <2>2, <2>3, <2>4, <2>5, QuietStep DEF PairWorks
<1>3. ASSUME NEW n \in PairNodes, IsFriend(t, n) PROVE PairInv'
  <2> DEFINE x == [step |-> "fill", node |-> n, answer |-> Answer, late |-> FALSE]
  <2>1. x \in PairWorks
    BY DEF PairWorks, Fills, Answer
  <2>2. /\ pairWork' = [pairWork EXCEPT ![t] = x]
        /\ pairWork[t] = NoWork
        /\ UNCHANGED <<pairRow, inserted, friendCache, pairDoubtful>>
    BY <1>3 DEF IsFriend, Proceed, Answer
  <2>3. pairWork'[t] = x /\ \A o \in PairTasks \ {t} : pairWork'[o] = pairWork[o]
    BY <2>2 DEF PairInv, PairTypeOK
  <2>4. Answer' = Answer
    BY <2>2 DEF Answer, Friends
  <2>5. Knows(t)' /\ Fresh(t)'
    BY <2>3, <2>4 DEF Knows, Fresh
  <2>6. FriendCacheIsCurrent'
    <3>1. ~Announcing(t)
      BY <2>2 DEF Announcing, NoWork
    <3>2. \A o \in PairTasks : Announcing(o) => Announcing(o)' /\ pairWork'[o].node = pairWork[o].node
      BY <2>3, <3>1 DEF Announcing
    <3> QED BY <2>2, <3>2 DEF PairInv, FriendCacheIsCurrent, Friends
  <2> HIDE DEF x
  <2> QED BY <2>1, <2>2, <2>5, <2>6, QuietStep DEF PairInv, PairTypeOK
<1> QED BY <1>1, <1>2, <1>3

LEMMA ExpireStep == ASSUME PairInv, NEW n \in PairNodes, Expire(n) PROVE PairInv'
<1>1. UNCHANGED <<pairRow, inserted, pairWork>> /\ friendCache' \in [PairNodes -> {"unknown", "friends", "not"}]
      /\ (\A m \in PairNodes : friendCache'[m] = IF m = n THEN "unknown" ELSE friendCache[m])
      /\ pairDoubtful' = pairDoubtful \ {n}
  BY DEF Expire, PairInv, PairTypeOK
<1>2. FriendCacheIsCurrent'
  BY <1>1 DEF PairInv, FriendCacheIsCurrent, Friends, Announcing
<1>3. \A t \in PairTasks : Knows(t)' /\ Fresh(t)'
  BY <1>1 DEF PairInv, Knows, Fresh, Answer, Friends
<1> QED BY <1>1, <1>2, <1>3 DEF PairInv, PairTypeOK
-------------------------------------------------------------------------------
LEMMA PairInit == FriendsInit => PairInv
<1> SUFFICES ASSUME FriendsInit PROVE PairInv
  OBVIOUS
<1>1. PairTypeOK /\ pairRow.id = 0 /\ inserted = 0
  BY DEF FriendsInit, PairTypeOK, PairRows, NoRow, PairWorks
<1>2. FriendCacheIsCurrent
  BY DEF FriendsInit, FriendCacheIsCurrent
<1>3. \A t \in PairTasks : Knows(t) /\ Fresh(t)
  BY DEF FriendsInit, Knows, Fresh, NoWork
<1> QED BY <1>1, <1>2, <1>3 DEF PairInv

LEMMA PairNext == PairInv /\ [FriendsNext]_pairVars => PairInv'
<1>1. ASSUME PairInv, UNCHANGED pairVars PROVE PairInv'
  BY <1>1 DEF PairInv, PairTypeOK, pairVars, FriendCacheIsCurrent, Knows, Fresh, Answer, Friends, Announcing
<1> QED BY <1>1, RequestStep, InsertStep, UpdateStep, DeleteStep, CacheStep, ExpireStep DEF FriendsNext

(* The inductive invariant holds of every state of the pair.               *)
THEOREM PairInvariant == FriendsSpec => []PairInv
  BY PairInit, PairNext, PTL DEF FriendsSpec

(* A node answers from its cache what the database would answer, but where *)
(* a change does not reach it.                                             *)
THEOREM CacheStaysCurrent == FriendsSpec => []FriendCacheIsCurrent
  BY PairInvariant, PTL DEF PairInv

LEMMA BlockStep ==
  ASSUME PairInv, [FriendsNext]_pairVars, pairRow.status = "blocked", pairRow' # pairRow
  PROVE \E t \in Writers : \/ pairWork[t].user = pairRow.by \/ pairWork[t].id # pairRow.id
                           \/ pairWork[t].status = "blocked"
<1>1. pairRow # NoRow
  BY RowKinds DEF PairInv, PairTypeOK
<1>2. PICK t \in PairTasks : Update(t) \/ Delete(t)
  <2>1. \A t \in PairTasks : ~Insert(t)
    BY <1>1 DEF Insert, Proceed
  <2>2. \A t \in PairTasks, n \in PairNodes, u \in Pair :
           /\ ~RequestConnection(t, u, n) /\ ~RespondConnection(t, u, n)
           /\ ~Unfriend(t, u, n) /\ ~BlockUser(t, u, n) /\ ~UnblockUser(t, u, n)
    BY DEF RequestConnection, RespondConnection, Unfriend, BlockUser, UnblockUser, Decide
  <2>3. \A n \in PairNodes : ~Expire(n) /\ \A t \in PairTasks : ~IsFriend(t, n)
    BY DEF IsFriend, Expire
  <2>4. \A t \in PairTasks : ~Invalidate(t) /\ ~Fill(t)
    BY DEF Invalidate, Fill
  <2>5. FriendsNext
    BY DEF pairVars
  <2> QED BY <2>1, <2>2, <2>3, <2>4, <2>5 DEF FriendsNext
<1>3. CASE Update(t)
  <2>1. pairRow.id = pairWork[t].id
    BY <1>3 DEF Update
  <2> QED BY <1>3, <2>1 DEF Update, PairInv, Knows
<1>4. CASE Delete(t)
  <2>1. pairWork[t] \in Deletes
    BY <1>4, WorkKinds DEF Delete, PairInv, PairTypeOK
  <2>2. pairWork'[t].step \in {"insert", "invalidate"} /\ pairWork[t].step = "delete"
    <3>1. pairWork'[t] = IF pairWork[t].status = "blocked" THEN [pairWork[t] EXCEPT !.step = "insert"]
                     ELSE Invalidating(t)
      BY <1>4 DEF Delete, Write
    <3> QED BY <1>4, <2>1, <3>1 DEF Deletes, Invalidating, Delete
  <2>3. t \in Writers
    BY <2>2 DEF Writers
  <2>4. pairWork[t].status = "blocked" \/ pairWork[t].id # pairRow.id \/ pairWork[t].user = pairRow.by
    BY <2>1, <2>2 DEF PairInv, Knows, Deletes
  <2> QED BY <2>3, <2>4
<1> QED BY <1>2, <1>3, <1>4

(* A block ends by its owner's hand, but for a removal decided before it   *)
(* and for the other's own block.                                          *)
THEOREM BlocksStick == FriendsSpec => BlockSticks
<1>1. PairInv /\ [FriendsNext]_pairVars =>
        [pairRow.status = "blocked" /\ pairRow' # pairRow
           => \E t \in Writers : \/ pairWork[t].user = pairRow.by
                                 \/ pairWork[t].id # pairRow.id
                                 \/ pairWork[t].status = "blocked"]_pairVars
  BY BlockStep
<1> QED BY <1>1, PairInvariant, PTL DEF FriendsSpec, BlockSticks

-------------------------------------------------------------------------------
(* The devices, sessions and key of one account.                           *)
Keys == Devices \union {NoDevice}
EntrySteps == {"kick", "issue", "upsert", "devices", "retire"}
Entries == [step : EntrySteps, dev : Devices, old : Nat, seen : SUBSET Devices]
Visits == [step : {"clear", "claim", "unknown"}, dev : Devices]
Removals == [step : {"remove", "sync"}, by : Devices, target : Devices]
Publications == [step : {"publish"}, dev : Devices, seen : Keys \X Keys]
Resets == [step : {"reset"}, by : Nat]
Doings == {NoRequest} \union Entries \union Visits \union Removals \union Publications \union Resets

AccountTypeOK ==
  /\ row \in [Devices -> {"none", "active", "inactive"}] /\ session \in Seq(Devices)
  /\ active \in Keys /\ key \in Keys /\ uncounted \in Nat
  /\ doing \in [Handlers -> Doings]

(* The devices a login has counted, and its own, are within the quota.     *)
Foreseen ==
  \A t \in Handlers :
    /\ doing[t].step = "kick" => /\ doing[t].dev \notin doing[t].seen
                                 /\ Cardinality(doing[t].seen) <= MaxActiveDevices + uncounted
    /\ doing[t].step \in {"issue", "upsert"} =>
         Cardinality(doing[t].seen \union {doing[t].dev}) <= MaxActiveDevices + uncounted
    /\ doing[t].step = "devices" => doing[t].seen = {}

(* Whoever is about to publish a key found none, or nobody active.         *)
KeysFree ==
  /\ active = NoDevice => released
  /\ \A t \in Handlers : doing[t].step = "publish" => NoDevice \in {doing[t].seen[1], doing[t].seen[2]}

(* Who was turned out is not about to be registered.                       *)
GoneStaysOut ==
  /\ gone \subseteq Devices
  /\ \A d \in gone : row[d] = "inactive"
  /\ \A t \in Handlers : doing[t].step \in {"kick", "issue", "upsert", "unknown"} => doing[t].dev \notin gone

(* A device whose sessions were revoked is not about to get a token; if it *)
(* has one, that was left to a device turned out, and not renewed while it *)
(* is.                                                                     *)
ShutOut ==
  /\ shut \subseteq Devices
  /\ \A k \in Issued \ revoked : session[k] \in shut => k \in kept /\ row[session[k]] = "inactive"
  /\ \A t \in Handlers : doing[t].step \in {"kick", "issue", "upsert"} => doing[t].dev \notin shut
  /\ \A t \in Handlers : doing[t].step = "unknown" /\ doing[t].dev \in shut
       => \A k \in Issued : session[k] = doing[t].dev => k \in revoked
  /\ \A t \in Handlers : doing[t].step = "devices" /\ doing[t].dev \in shut
       => /\ row[doing[t].dev] = "inactive"
          /\ \A u \in Handlers : doing[u].step = "unknown" => doing[u].dev # doing[t].dev

(* The inductive invariant.                                                *)
AccountInv == AccountTypeOK /\ Foreseen /\ DevicesWithinQuota /\ KeysFree /\ GoneStaysOut /\ ShutOut
-------------------------------------------------------------------------------
LEMMA DoingKinds ==
  ASSUME NEW x \in Doings
  PROVE /\ x.step \in EntrySteps => x \in Entries
        /\ x.step \in {"clear", "claim", "unknown"} => x \in Visits
        /\ x.step \in {"remove", "sync"} => x \in Removals
        /\ x.step = "publish" => x \in Publications
        /\ x.step = "reset" => x \in Resets
        /\ NoRequest \in Doings /\ NoRequest.step = "idle"
  BY DEF Doings, NoRequest, EntrySteps, Entries, Visits, Removals, Publications, Resets

LEMMA NewEntry ==
  ASSUME NEW d \in Devices, NEW step \in EntrySteps, NEW n \in Nat, NEW S \in SUBSET Devices
  PROVE [step |-> step, dev |-> d, old |-> n, seen |-> S] \in Doings
  BY DEF Doings, Entries

LEMMA EntryGoesOn ==
  ASSUME NEW x \in Entries, NEW step \in EntrySteps, NEW S \in SUBSET Devices
  PROVE /\ [x EXCEPT !.step = step] = [step |-> step, dev |-> x.dev, old |-> x.old, seen |-> x.seen]
        /\ [x EXCEPT !.step = step, !.seen = S] = [step |-> step, dev |-> x.dev, old |-> x.old, seen |-> S]
        /\ [step |-> step, dev |-> x.dev, old |-> x.old, seen |-> x.seen] \in Doings
        /\ [step |-> step, dev |-> x.dev, old |-> x.old, seen |-> S] \in Doings
        /\ x.dev \in Devices /\ x.old \in Nat /\ x.seen \in SUBSET Devices
<1>1. x = [step |-> x.step, dev |-> x.dev, old |-> x.old, seen |-> x.seen]
  BY DEF Entries
<1>2. x.dev \in Devices /\ x.old \in Nat /\ x.seen \in SUBSET Devices
  BY DEF Entries
<1>3. [x EXCEPT !.step = step] = [step |-> step, dev |-> x.dev, old |-> x.old, seen |-> x.seen]
  BY <1>1
<1>4. [x EXCEPT !.step = step, !.seen = S] = [step |-> step, dev |-> x.dev, old |-> x.old, seen |-> S]
  <2>1. PICK y : y = [x EXCEPT !.step = step]
    OBVIOUS
  <2>2. [x EXCEPT !.step = step, !.seen = S] = [y EXCEPT !.seen = S]
    BY <2>1, Zenon
  <2>3. y = [step |-> step, dev |-> x.dev, old |-> x.old, seen |-> x.seen]
    BY <1>3, <2>1, Zenon
  <2>4. [y EXCEPT !.seen = S] = [step |-> step, dev |-> x.dev, old |-> x.old, seen |-> S]
    BY <2>3
  <2> QED BY <2>2, <2>4, Zenon
<1> QED BY <1>2, <1>3, <1>4, NewEntry

(* A step of t changes its own request alone.                              *)
Turns(t, x) == /\ doing' \in [Handlers -> Doings] /\ doing'[t] = x
               /\ \A u \in Handlers : u # t => doing'[u] = doing[u]

LEMMA PerformIs ==
  ASSUME AccountTypeOK, NEW t \in Handlers, NEW x \in Doings, Perform(t, x)
  PROVE Turns(t, x)
  BY DEF AccountTypeOK, Perform, Turns

(* What each action makes of its request.                                  *)
Opens(t, x) == doing[t] = NoRequest /\ x \in Doings /\ Turns(t, x)
Takes(t, step, x) == doing[t].step = step /\ x \in Doings /\ Turns(t, x)

LEMMA EntryIs ==
  ASSUME AccountTypeOK, NEW t \in Handlers, doing[t].step \in EntrySteps
  PROVE /\ doing[t] \in Entries /\ doing[t].dev \in Devices /\ doing[t].old \in Nat
        /\ doing[t].seen \in SUBSET Devices
<1>1. doing[t] \in Entries
  BY DoingKinds DEF AccountTypeOK
<1> QED BY <1>1, EntryGoesOn DEF EntrySteps

LEMMA TokenIs ==
  ASSUME AccountTypeOK
  PROVE /\ Issued = 1..Len(session) /\ Issued \subseteq Nat \ {0} /\ Len(session) \in Nat
        /\ \A k \in Issued : session[k] \in Devices
        /\ ActiveDevices \subseteq Devices
  BY DEF AccountTypeOK, Issued, ActiveDevices

LEMMA LoginIs ==
  ASSUME AccountTypeOK, NEW t \in Handlers, NEW d \in Devices, Login(t, d)
  PROVE \E x \in Doings : /\ Opens(t, x) /\ x.step \in {"issue", "kick"} /\ x.dev = d /\ x.old = 0
                          /\ x.seen = ActiveDevices
                          /\ x.step = "issue" <=> d \in ActiveDevices \/ RoomForOne
<1> DEFINE x == [step |-> IF d \in ActiveDevices \/ RoomForOne THEN "issue" ELSE "kick",
                 dev |-> d, old |-> 0, seen |-> ActiveDevices]
<1>1. x \in Doings
  BY NewEntry, TokenIs DEF EntrySteps
<1>2. doing[t] = NoRequest /\ Perform(t, x)
  BY DEF Login, Begin
<1>3. Opens(t, x)
  BY <1>1, <1>2, PerformIs DEF Opens
<1> QED BY <1>1, <1>3

LEMMA RefreshIs ==
  ASSUME AccountTypeOK, NEW t \in Handlers, NEW k \in Issued, Refresh(t, k)
  PROVE \E x \in Doings : Opens(t, x) /\ x.step = "devices" /\ x.dev = session[k] /\ x.seen = {}
<1> DEFINE x == [step |-> "devices", dev |-> session[k], old |-> k, seen |-> {}]
<1>1. x \in Doings
  BY NewEntry, TokenIs DEF EntrySteps
<1>2. doing[t] = NoRequest /\ Perform(t, x)
  BY DEF Refresh, Begin
<1>3. Opens(t, x)
  BY <1>1, <1>2, PerformIs DEF Opens
<1> QED BY <1>1, <1>3

LEMMA KickIs ==
  ASSUME AccountTypeOK, NEW t \in Handlers, NEW d \in Devices, KickForLogin(t, d)
  PROVE \E x \in Doings : /\ Takes(t, "kick", x) /\ x.step = "issue" /\ x.dev = doing[t].dev
                          /\ x.seen = IF d \in doing[t].seen THEN doing[t].seen \ {d} ELSE {}
<1> DEFINE S == IF d \in doing[t].seen THEN doing[t].seen \ {d} ELSE {}
           x == [step |-> "issue", dev |-> doing[t].dev, old |-> doing[t].old, seen |-> S]
<1>1. doing[t].step = "kick" /\ Perform(t, [doing[t] EXCEPT !.step = "issue", !.seen = S])
  BY DEF KickForLogin, Continue
<1>2. S \in SUBSET Devices /\ doing[t] \in Entries
  BY <1>1, EntryIs DEF EntrySteps
<1> HIDE DEF S
<1>3. x \in Doings /\ Perform(t, x)
  BY <1>1, <1>2, EntryGoesOn DEF EntrySteps
<1>4. Takes(t, "kick", x)
  BY <1>1, <1>3, PerformIs DEF Takes
<1> QED BY <1>3, <1>4 DEF S

LEMMA IssueIs ==
  ASSUME AccountTypeOK, NEW t \in Handlers, IssueToken(t)
  PROVE \E x \in Doings : /\ Takes(t, "issue", x) /\ x.step \in {"upsert", "retire"} /\ x.dev = doing[t].dev
                          /\ x.seen = doing[t].seen
<1> PICK s : s = IF doing[t].old = 0 THEN "upsert" ELSE "retire"
  OBVIOUS
<1> DEFINE x == [step |-> s, dev |-> doing[t].dev, old |-> doing[t].old, seen |-> doing[t].seen]
<1>1. doing[t].step = "issue" /\ Perform(t, [doing[t] EXCEPT !.step = s])
  BY DEF IssueToken, Continue
<1>2. s \in EntrySteps /\ doing[t] \in Entries
  BY <1>1, EntryIs DEF EntrySteps
<1>3. x \in Doings /\ Perform(t, x)
  BY <1>1, <1>2, EntryGoesOn
<1>4. Takes(t, "issue", x)
  BY <1>1, <1>3, PerformIs DEF Takes
<1> QED BY <1>3, <1>4

LEMMA CheckIs ==
  ASSUME AccountTypeOK, NEW t \in Handlers, CheckDevice(t)
  PROVE \E x \in Doings : /\ Takes(t, "devices", x)
                          /\ IF StillActive(doing[t].dev)
                             THEN x.step = "issue" /\ x.dev = doing[t].dev /\ x.seen = doing[t].seen
                             ELSE x = NoRequest
<1>1. doing[t].step = "devices" /\ doing[t] \in Entries
  BY EntryIs DEF CheckDevice, EntrySteps
<1>2. CASE StillActive(doing[t].dev)
  <2> DEFINE x == [step |-> "issue", dev |-> doing[t].dev, old |-> doing[t].old, seen |-> doing[t].seen]
  <2>1. Perform(t, [doing[t] EXCEPT !.step = "issue"])
    BY <1>2 DEF CheckDevice, Continue
  <2>2. x \in Doings /\ Perform(t, x)
    BY <1>1, <2>1, EntryGoesOn DEF EntrySteps
  <2>3. Takes(t, "devices", x)
    BY <1>1, <2>2, PerformIs DEF Takes
  <2> QED BY <1>2, <2>2, <2>3
<1>3. CASE ~StillActive(doing[t].dev)
  <2>1. Perform(t, NoRequest) /\ NoRequest \in Doings
    BY <1>3 DEF CheckDevice, Continue, Doings
  <2>2. Takes(t, "devices", NoRequest)
    BY <1>1, <2>1, PerformIs DEF Takes
  <2> QED BY <1>3, <2>1, <2>2
<1> QED BY <1>2, <1>3

LEMMA HandshakeIs ==
  ASSUME AccountTypeOK, NEW t \in Handlers, NEW k \in Issued, Handshake(t, k)
  PROVE \E x \in Doings : /\ Opens(t, x) /\ x.step \in {"claim", "unknown"} /\ x.dev = session[k]
                          /\ row[x.dev] # "inactive" /\ (x.step = "unknown" => row[x.dev] = "none")
<1> DEFINE x == [step |-> IF row[session[k]] = "active" THEN "claim" ELSE "unknown", dev |-> session[k]]
<1>1. x \in Doings
  BY TokenIs DEF Doings, Visits
<1>2. doing[t] = NoRequest /\ Perform(t, x) /\ row[session[k]] # "inactive"
  BY DEF Handshake, Admitted, Begin
<1>3. Opens(t, x)
  BY <1>1, <1>2, PerformIs DEF Opens
<1>4. row[session[k]] \in {"none", "active", "inactive"}
  BY TokenIs DEF AccountTypeOK
<1> QED BY <1>1, <1>2, <1>3, <1>4

LEMMA UnknownIs ==
  ASSUME AccountTypeOK, NEW t \in Handlers, RegisterUnknown(t)
  PROVE \E x \in Doings : /\ Takes(t, "unknown", x) /\ x.step = "claim" /\ doing[t].dev \in Devices
<1>1. doing[t].step = "unknown" /\ doing[t] \in Visits
  BY DoingKinds DEF RegisterUnknown, AccountTypeOK
<1>2. [doing[t] EXCEPT !.step = "claim"] = [step |-> "claim", dev |-> doing[t].dev] /\ doing[t].dev \in Devices
  BY <1>1 DEF Visits
<1> DEFINE x == [step |-> "claim", dev |-> doing[t].dev]
<1>3. x \in Doings /\ Perform(t, x)
  BY <1>2 DEF Doings, Visits, RegisterUnknown, Continue
<1>4. Takes(t, "unknown", x)
  BY <1>1, <1>3, PerformIs DEF Takes
<1> QED BY <1>2, <1>3, <1>4

LEMMA RemovalIs ==
  ASSUME AccountTypeOK, NEW t \in Handlers
  PROVE /\ \A k \in Issued, d \in Devices : RemoveDevice(t, k, d) =>
             \E x \in Doings : Opens(t, x) /\ x.step = "remove"
        /\ DeactivateRemoved(t) =>
             /\ \E x \in Doings : Takes(t, "remove", x) /\ x.step = "sync"
             /\ doing[t].target \in Devices
        /\ SyncActiveDevice(t) => /\ Takes(t, "sync", NoRequest)
                                  /\ doing[t].target \in Devices /\ doing[t].by \in Devices
<1>1. ASSUME NEW k \in Issued, NEW d \in Devices, RemoveDevice(t, k, d)
      PROVE \E x \in Doings : Opens(t, x) /\ x.step = "remove"
  <2> DEFINE x == [step |-> "remove", by |-> session[k], target |-> d]
  <2>1. x \in Doings
    BY TokenIs DEF Doings, Removals
  <2>2. doing[t] = NoRequest /\ Perform(t, x)
    BY <1>1 DEF RemoveDevice, Begin
  <2>3. Opens(t, x)
    BY <2>1, <2>2, PerformIs DEF Opens
  <2> QED BY <2>1, <2>3
<1>2. ASSUME DeactivateRemoved(t)
      PROVE /\ \E x \in Doings : Takes(t, "remove", x) /\ x.step = "sync"
            /\ doing[t].target \in Devices
  <2>1. doing[t].step = "remove" /\ doing[t] \in Removals
    BY <1>2, DoingKinds DEF DeactivateRemoved, AccountTypeOK
  <2> DEFINE x == [step |-> "sync", by |-> doing[t].by, target |-> doing[t].target]
  <2>2. [doing[t] EXCEPT !.step = "sync"] = x
    BY <2>1 DEF Removals
  <2>3. x \in Doings /\ doing[t].target \in Devices
    BY <2>1 DEF Doings, Removals
  <2>4. Takes(t, "remove", x)
    BY <1>2, <2>1, <2>2, <2>3, PerformIs DEF Takes, DeactivateRemoved, Continue
  <2> QED BY <2>3, <2>4
<1>3. ASSUME SyncActiveDevice(t)
      PROVE /\ Takes(t, "sync", NoRequest) /\ doing[t].target \in Devices /\ doing[t].by \in Devices
  <2>1. doing[t].step = "sync" /\ doing[t] \in Removals
    BY <1>3, DoingKinds DEF SyncActiveDevice, AccountTypeOK
  <2>2. Perform(t, NoRequest) /\ NoRequest \in Doings
    BY <1>3 DEF SyncActiveDevice, Continue, Doings
  <2> QED BY <2>1, <2>2, PerformIs DEF Takes, Removals
<1> QED BY <1>1, <1>2, <1>3

LEMMA KeyRequestIs ==
  ASSUME AccountTypeOK, NEW t \in Handlers
  PROVE /\ \A k \in Issued : UpdatePublicKey(t, k) =>
             \E x \in Doings : Opens(t, x) /\ x.step = "publish" /\ x.seen = <<key, active>>
        /\ \A k \in Issued : ResetPublicKey(t, k) => \E x \in Doings : Opens(t, x) /\ x.step = "reset"
        /\ PublishKey(t) => Takes(t, "publish", NoRequest) /\ doing[t].dev \in Devices
        /\ RevokeAfterReset(t) => Takes(t, "reset", NoRequest)
<1>1. ASSUME NEW k \in Issued, UpdatePublicKey(t, k)
      PROVE \E x \in Doings : Opens(t, x) /\ x.step = "publish" /\ x.seen = <<key, active>>
  <2> DEFINE x == [step |-> "publish", dev |-> session[k], seen |-> <<key, active>>]
  <2>1. x \in Doings
    BY TokenIs DEF Doings, Publications, AccountTypeOK
  <2>2. doing[t] = NoRequest /\ Perform(t, x)
    BY <1>1 DEF UpdatePublicKey, Begin
  <2>3. Opens(t, x)
    BY <2>1, <2>2, PerformIs DEF Opens
  <2> QED BY <2>1, <2>3
<1>2. ASSUME NEW k \in Issued, ResetPublicKey(t, k)
      PROVE \E x \in Doings : Opens(t, x) /\ x.step = "reset"
  <2> DEFINE x == [step |-> "reset", by |-> k]
  <2>1. x \in Doings
    BY TokenIs DEF Doings, Resets
  <2>2. doing[t] = NoRequest /\ Perform(t, x)
    BY <1>2 DEF ResetPublicKey, Begin
  <2>3. Opens(t, x)
    BY <2>1, <2>2, PerformIs DEF Opens
  <2> QED BY <2>1, <2>3
<1>3. ASSUME PublishKey(t) PROVE Takes(t, "publish", NoRequest) /\ doing[t].dev \in Devices
  <2>1. doing[t].step = "publish" /\ doing[t] \in Publications
    BY <1>3, DoingKinds DEF PublishKey, AccountTypeOK
  <2>2. Perform(t, NoRequest) /\ NoRequest \in Doings
    BY <1>3 DEF PublishKey, Continue, Doings
  <2> QED BY <2>1, <2>2, PerformIs DEF Takes, Publications
<1>4. ASSUME RevokeAfterReset(t) PROVE Takes(t, "reset", NoRequest)
  <2>1. Perform(t, NoRequest) /\ NoRequest \in Doings /\ doing[t].step = "reset"
    BY <1>4 DEF RevokeAfterReset, Continue, Doings
  <2> QED BY <2>1, PerformIs DEF Takes
<1> QED BY <1>1, <1>2, <1>3, <1>4

LEMMA OthersAre ==
  ASSUME AccountTypeOK, NEW t \in Handlers
  PROVE /\ RegisterDevice(t) => Takes(t, "upsert", NoRequest)
        /\ RetireOld(t) => Takes(t, "retire", NoRequest)
        /\ ClearActiveDevice(t) => Takes(t, "clear", NoRequest) /\ doing[t].dev \in Devices
        /\ Claim(t) => Takes(t, "claim", NoRequest) /\ doing[t].dev \in Devices
        /\ \A k \in Issued : /\ Logout(t, k) => \E x \in Doings : Opens(t, x) /\ x.step = "clear"
                             /\ RevokeAllOtherSessions(t, k) => Opens(t, NoRequest)
                             /\ ChangePassword(t, k) => Opens(t, NoRequest)
                             /\ \A j \in Issued : RevokeSession(t, k, j) => Opens(t, NoRequest)
<1>1. NoRequest \in Doings
  BY DEF Doings
<1>2. RegisterDevice(t) => Takes(t, "upsert", NoRequest)
  BY <1>1, PerformIs DEF RegisterDevice, Continue, Takes
<1>3. RetireOld(t) => Takes(t, "retire", NoRequest)
  BY <1>1, PerformIs DEF RetireOld, Continue, Takes
<1>4. ASSUME doing[t].step \in {"clear", "claim"} PROVE doing[t].dev \in Devices
  <2>1. doing[t] \in Visits
    BY <1>4, DoingKinds DEF AccountTypeOK
  <2> QED BY <2>1 DEF Visits
<1>5. ClearActiveDevice(t) => Takes(t, "clear", NoRequest) /\ doing[t].dev \in Devices
  BY <1>1, <1>4, PerformIs DEF ClearActiveDevice, Continue, Takes
<1>6. Claim(t) => Takes(t, "claim", NoRequest) /\ doing[t].dev \in Devices
  BY <1>1, <1>4, PerformIs DEF Claim, Continue, Takes
<1>7. ASSUME NEW k \in Issued, Logout(t, k) PROVE \E x \in Doings : Opens(t, x) /\ x.step = "clear"
  <2> DEFINE x == [step |-> "clear", dev |-> session[k]]
  <2>1. x \in Doings
    BY TokenIs DEF Doings, Visits
  <2>2. doing[t] = NoRequest /\ Perform(t, x)
    BY <1>7 DEF Logout, Begin
  <2>3. Opens(t, x)
    BY <2>1, <2>2, PerformIs DEF Opens
  <2> QED BY <2>1, <2>3
<1>8. ASSUME NEW k \in Issued
      PROVE /\ RevokeAllOtherSessions(t, k) => Opens(t, NoRequest)
            /\ ChangePassword(t, k) => Opens(t, NoRequest)
            /\ \A j \in Issued : RevokeSession(t, k, j) => Opens(t, NoRequest)
  BY <1>1, PerformIs DEF RevokeAllOtherSessions, ChangePassword, RevokeSession, Begin, Opens
<1> QED BY <1>2, <1>3, <1>5, <1>6, <1>7, <1>8
-------------------------------------------------------------------------------
LEMMA Quota ==
  /\ MaxActiveDevices \in Nat /\ MaxActiveDevices > 0 /\ NoDevice \notin Devices
  /\ \A S \in SUBSET Devices : IsFiniteSet(S) /\ Cardinality(S) \in Nat
  /\ \A S \in SUBSET Devices : \A d \in Devices : Cardinality(S \union {d}) <= Cardinality(S) + 1
  /\ \A d \in Devices : Cardinality({} \union {d}) <= 1
<1>1. \A S \in SUBSET Devices : IsFiniteSet(S) /\ Cardinality(S) \in Nat
  BY AccountAssumption, FS_Subset, FS_CardinalityType DEF AccountAssumption
<1>2. ASSUME NEW S \in SUBSET Devices, NEW d \in Devices
      PROVE Cardinality(S \union {d}) <= Cardinality(S) + 1
  <2>1. Cardinality(S \union {d}) = IF d \in S THEN Cardinality(S) ELSE Cardinality(S) + 1
    BY <1>1, FS_AddElement
  <2> QED BY <1>1, <2>1
<1>3. ASSUME NEW d \in Devices PROVE Cardinality({} \union {d}) <= 1
  BY <1>2, FS_EmptySet
<1> QED BY <1>1, <1>2, <1>3, AccountAssumption DEF AccountAssumption

(* A registration: counted, or beyond the count.                           *)
LEMMA RegisterIs ==
  ASSUME AccountTypeOK, DevicesWithinQuota, NEW d \in Devices, NEW S \in SUBSET Devices,
         Cardinality(S \union {d}) <= MaxActiveDevices + uncounted, Register(d, S)
  PROVE /\ row' \in [Devices -> {"none", "active", "inactive"}]
        /\ row'[d] = "active" /\ \A c \in Devices : c # d => row'[c] = row[c]
        /\ uncounted' \in Nat /\ uncounted' >= uncounted
        /\ DevicesWithinQuota'
<1> PICK A : A = ActiveDevices
  OBVIOUS
<1>1. /\ row' = [row EXCEPT ![d] = "active"]
      /\ uncounted' = IF d \notin A /\ ~A \subseteq S THEN uncounted + 1 ELSE uncounted
  BY DEF Register, ActiveDevices
<1>2. /\ row' \in [Devices -> {"none", "active", "inactive"}]
      /\ row'[d] = "active" /\ \A c \in Devices : c # d => row'[c] = row[c]
  BY <1>1 DEF AccountTypeOK
<1>3. uncounted \in Nat /\ uncounted' \in Nat /\ uncounted' >= uncounted
  BY <1>1 DEF AccountTypeOK
<1>4. ActiveDevices' = A \union {d} /\ A \in SUBSET Devices
  BY <1>2 DEF ActiveDevices
<1>5. Cardinality(A) <= MaxActiveDevices + uncounted /\ Cardinality(A) \in Nat
  BY <1>4, Quota DEF DevicesWithinQuota
<1>6. Cardinality(A \union {d}) <= MaxActiveDevices + uncounted'
  <2>1. CASE d \in A
    <3>1. A \union {d} = A
      BY <2>1
    <3> QED BY <1>1, <1>5, <2>1, <3>1
  <2>2. CASE d \notin A /\ A \subseteq S
    <3>1. A \union {d} \subseteq S \union {d} /\ S \union {d} \in SUBSET Devices
      BY <2>2
    <3>2. Cardinality(A \union {d}) <= Cardinality(S \union {d})
      BY <3>1, Quota, FS_Subset
    <3>3. Cardinality(A \union {d}) \in Nat /\ Cardinality(S \union {d}) \in Nat
      BY <3>1, Quota
    <3> QED BY <1>1, <1>3, <2>2, <3>2, <3>3, Quota
  <2>3. CASE d \notin A /\ ~A \subseteq S
    <3>1. uncounted' = uncounted + 1 /\ Cardinality(A \union {d}) <= Cardinality(A) + 1
      BY <1>1, <1>4, <2>3, Quota
    <3>2. Cardinality(A \union {d}) \in Nat
      BY <1>4, Quota
    <3> QED BY <1>3, <1>5, <3>1, <3>2, Quota
  <2> QED BY <2>1, <2>2, <2>3
<1> QED BY <1>2, <1>3, <1>4, <1>6 DEF DevicesWithinQuota

LEMMA TurnOutIs ==
  ASSUME AccountTypeOK, DevicesWithinQuota, NEW d \in Devices, TurnOut(d), uncounted' = uncounted
  PROVE /\ row' \in [Devices -> {"none", "active", "inactive"}]
        /\ \A c \in Devices : row'[c] = IF c = d /\ row[c] # "none" THEN "inactive" ELSE row[c]
        /\ gone' = IF row[d] = "none" THEN gone ELSE gone \union ({d} \ Entering)
        /\ DevicesWithinQuota'
<1>1. /\ row' \in [Devices -> {"none", "active", "inactive"}]
      /\ \A c \in Devices : row'[c] = IF c = d /\ row[c] # "none" THEN "inactive" ELSE row[c]
      /\ gone' = IF row[d] = "none" THEN gone ELSE gone \union ({d} \ Entering)
  BY DEF TurnOut, AccountTypeOK
<1>2. ActiveDevices' \subseteq ActiveDevices /\ ActiveDevices \in SUBSET Devices
  BY <1>1 DEF ActiveDevices
<1> PICK A, B : A = ActiveDevices /\ B = ActiveDevices'
  OBVIOUS
<1>3. Cardinality(B) <= Cardinality(A) /\ Cardinality(A) \in Nat /\ Cardinality(B) \in Nat
  BY <1>2, Quota, FS_Subset
<1>4. Cardinality(B) <= MaxActiveDevices + uncounted
  BY <1>3, Quota DEF DevicesWithinQuota, AccountTypeOK
<1> QED BY <1>1, <1>4 DEF DevicesWithinQuota

(* The devices counted by a request, of those that go on and those that    *)
(* begin.                                                                  *)
Counted(x, n) ==
  /\ x.step = "kick" => x.dev \notin x.seen /\ Cardinality(x.seen) <= MaxActiveDevices + n
  /\ x.step \in {"issue", "upsert"} => Cardinality(x.seen \union {x.dev}) <= MaxActiveDevices + n
  /\ x.step = "devices" => x.seen = {}

LEMMA ForeseenStep ==
  ASSUME AccountTypeOK, Foreseen, NEW t \in Handlers, NEW x \in Doings, Turns(t, x),
         uncounted' \in Nat, uncounted' >= uncounted, Counted(x, uncounted)
  PROVE Foreseen'
<1>1. ASSUME NEW y \in Doings, Counted(y, uncounted) PROVE Counted(y, uncounted')
  <2>1. ASSUME y.step \in EntrySteps
        PROVE Cardinality(y.seen) \in Nat /\ Cardinality(y.seen \union {y.dev}) \in Nat
    <3>1. y.seen \in SUBSET Devices /\ y.dev \in Devices
      BY <2>1, DoingKinds DEF Entries
    <3> QED BY <3>1, Quota
  <2> QED BY <1>1, <2>1, Quota DEF Counted, EntrySteps, AccountTypeOK
<1>2. \A u \in Handlers : Counted(doing[u], uncounted) /\ doing[u] \in Doings
  BY DEF Foreseen, Counted, AccountTypeOK
<1>3. \A u \in Handlers : Counted(doing'[u], uncounted')
  BY <1>1, <1>2 DEF Turns
<1> QED BY <1>3 DEF Foreseen, Counted

(* Types, and the devices counted, step by step.                           *)
LEMMA QuietQuota ==
  ASSUME AccountTypeOK, Foreseen, DevicesWithinQuota, UNCHANGED <<row, session, uncounted>>,
         active' \in Keys, key' \in Keys,
         NEW t \in Handlers, NEW x \in Doings, Turns(t, x), Counted(x, uncounted)
  PROVE AccountTypeOK' /\ Foreseen' /\ DevicesWithinQuota'
<1>1. AccountTypeOK'
  BY DEF AccountTypeOK, Turns
<1>2. uncounted' \in Nat /\ uncounted' >= uncounted
  BY DEF AccountTypeOK
<1>3. Foreseen'
  BY <1>2, ForeseenStep
<1> QED BY <1>1, <1>3 DEF DevicesWithinQuota, ActiveDevices

LEMMA QuotaStep ==
  ASSUME AccountTypeOK, Foreseen, DevicesWithinQuota, AccountNext
  PROVE AccountTypeOK' /\ Foreseen' /\ DevicesWithinQuota'
<1> DEFINE P == AccountTypeOK' /\ Foreseen' /\ DevicesWithinQuota'
<1>0. /\ uncounted \in Nat /\ active \in Keys /\ key \in Keys /\ NoDevice \in Keys
      /\ Devices \subseteq Keys
      /\ \A x, n : x.step \notin {"kick", "issue", "upsert", "devices"} => Counted(x, n)
      /\ NoRequest.step = "idle" /\ NoRequest \in Doings
  BY DEF AccountTypeOK, Keys, Counted, NoRequest, Doings
<1>1. ASSUME NEW t \in Handlers, NEW d \in Devices, Login(t, d) PROVE P
  <2>1. PICK x \in Doings : /\ Opens(t, x) /\ x.step \in {"issue", "kick"} /\ x.dev = d
                            /\ x.seen = ActiveDevices
                            /\ x.step = "issue" <=> d \in ActiveDevices \/ RoomForOne
    BY <1>1, LoginIs
  <2> PICK A : A = ActiveDevices
    OBVIOUS
  <2>2. A \in SUBSET Devices /\ Cardinality(A) \in Nat /\ Cardinality(A \union {d}) \in Nat
    BY TokenIs, Quota
  <2>3. Cardinality(A) <= MaxActiveDevices + uncounted
    BY DEF DevicesWithinQuota
  <2>4. Counted(x, uncounted)
    <3>1. CASE d \in A
      <4>1. A \union {d} = A
        BY <3>1
      <4> QED BY <2>1, <2>3, <3>1, <4>1 DEF Counted
    <3>2. CASE d \notin A /\ RoomForOne
      <4>1. Cardinality(A) < MaxActiveDevices /\ Cardinality(A \union {d}) <= Cardinality(A) + 1
        BY <2>2, <3>2, Quota DEF RoomForOne
      <4>2. Cardinality(A \union {d}) <= MaxActiveDevices + uncounted
        BY <1>0, <2>2, <4>1, Quota
      <4> QED BY <2>1, <3>2, <4>2 DEF Counted
    <3>3. CASE d \notin A /\ ~RoomForOne
      BY <2>1, <2>3, <3>3 DEF Counted
    <3> QED BY <3>1, <3>2, <3>3
  <2> QED BY <1>0, <1>1, <2>1, <2>4, QuietQuota DEF Login, Opens, rows, keys
<1>2. ASSUME NEW t \in Handlers, NEW d \in Devices, KickForLogin(t, d) PROVE P
  <2>1. PICK x \in Doings : /\ Takes(t, "kick", x) /\ x.step = "issue" /\ x.dev = doing[t].dev
                            /\ x.seen = IF d \in doing[t].seen THEN doing[t].seen \ {d} ELSE {}
    BY <1>2, KickIs
  <2> PICK S, c : S = doing[t].seen /\ c = doing[t].dev
    OBVIOUS
  <2>2. /\ S \in SUBSET Devices /\ c \in Devices /\ IsFiniteSet(S) /\ Cardinality(S) \in Nat
        /\ c \notin S /\ Cardinality(S) <= MaxActiveDevices + uncounted
    BY <2>1, EntryIs, Quota DEF Takes, EntrySteps, Foreseen
  <2>3. Counted(x, uncounted)
    <3>1. CASE d \in S
      <4>1. Cardinality(S \ {d}) = Cardinality(S) - 1
        <5>1. Cardinality(S \ {d}) = IF d \in S THEN Cardinality(S) - 1 ELSE Cardinality(S)
          BY <2>2, FS_RemoveElement
        <5> QED BY <3>1, <5>1
      <4>2. S \ {d} \in SUBSET Devices
        BY <2>2
      <4>3. /\ Cardinality((S \ {d}) \union {c}) <= Cardinality(S \ {d}) + 1
            /\ Cardinality((S \ {d}) \union {c}) \in Nat
        BY <2>2, <4>2, Quota
      <4>4. Cardinality((S \ {d}) \union {c}) <= MaxActiveDevices + uncounted
        BY <1>0, <2>2, <4>1, <4>3, Quota
      <4> QED BY <2>1, <3>1, <4>4 DEF Counted
    <3>2. CASE d \notin S
      <4>1. Cardinality({} \union {c}) <= 1 /\ Cardinality({} \union {c}) \in Nat
        BY <2>2, Quota
      <4>2. Cardinality({} \union {c}) <= MaxActiveDevices + uncounted
        BY <1>0, <4>1, Quota
      <4> QED BY <2>1, <3>2, <4>2 DEF Counted
    <3> QED BY <3>1, <3>2
  <2>4. UNCHANGED <<session, active, key, uncounted>> /\ TurnOut(d)
    BY <1>2 DEF KickForLogin, keys
  <2>5. row' \in [Devices -> {"none", "active", "inactive"}] /\ DevicesWithinQuota'
    BY <2>4, TurnOutIs
  <2>6. Foreseen'
    BY <1>0, <2>1, <2>3, <2>4, ForeseenStep DEF Takes
  <2> QED BY <2>1, <2>4, <2>5, <2>6 DEF AccountTypeOK, Takes, Turns
<1>3. ASSUME NEW t \in Handlers, IssueToken(t) PROVE P
  <2>1. PICK x \in Doings : /\ Takes(t, "issue", x) /\ x.step \in {"upsert", "retire"}
                            /\ x.dev = doing[t].dev /\ x.seen = doing[t].seen
    BY <1>3, IssueIs
  <2>2. Counted(x, uncounted)
    BY <2>1 DEF Takes, Foreseen, Counted
  <2>3. /\ session' = Append(session, doing[t].dev) /\ doing[t].dev \in Devices
        /\ UNCHANGED <<row, active, key, uncounted>>
    BY <1>3, <2>1, EntryIs DEF IssueToken, keys, history, Takes, EntrySteps
  <2>4. Foreseen'
    BY <1>0, <2>1, <2>2, <2>3, ForeseenStep DEF Takes
  <2>5. AccountTypeOK'
    BY <2>1, <2>3 DEF AccountTypeOK, Takes, Turns
  <2> QED BY <2>3, <2>4, <2>5 DEF DevicesWithinQuota, ActiveDevices
<1>4. ASSUME NEW t \in Handlers, NEW x \in Doings, Turns(t, x), x.step \in {"idle", "claim"},
             NEW d \in Devices, NEW S \in SUBSET Devices, Register(d, S),
             Cardinality(S \union {d}) <= MaxActiveDevices + uncounted,
             UNCHANGED <<session, key>>, active' \in Keys
      PROVE P
  <2>1. /\ row' \in [Devices -> {"none", "active", "inactive"}] /\ DevicesWithinQuota'
        /\ uncounted' \in Nat /\ uncounted' >= uncounted
    BY <1>4, RegisterIs
  <2>2. Foreseen'
    BY <1>0, <1>4, <2>1, ForeseenStep
  <2> QED BY <1>4, <2>1, <2>2 DEF AccountTypeOK, Turns
<1>5. ASSUME NEW t \in Handlers, RegisterDevice(t) PROVE P
  <2>1. /\ Takes(t, "upsert", NoRequest) /\ doing[t].dev \in Devices /\ doing[t].seen \in SUBSET Devices
        /\ UNCHANGED <<session, active, key>>
        /\ Cardinality(doing[t].seen \union {doing[t].dev}) <= MaxActiveDevices + uncounted
    BY <1>5, OthersAre, EntryIs DEF RegisterDevice, keys, Takes, EntrySteps, Foreseen
  <2>2. CASE Register(doing[t].dev, doing[t].seen)
    BY <1>0, <1>4, <2>1, <2>2 DEF Takes
  <2>3. CASE UNCHANGED <<row, uncounted>>
    BY <1>0, <2>1, <2>3, QuietQuota DEF Takes
  <2> QED BY <1>5, <2>2, <2>3 DEF RegisterDevice
<1>6. \A d \in Devices : Cardinality({} \union {d}) <= MaxActiveDevices + uncounted
  <2> TAKE d \in Devices
  <2>1. {} \union {d} \in SUBSET Devices
    OBVIOUS
  <2>2. Cardinality({} \union {d}) \in Nat /\ Cardinality({} \union {d}) <= 1
    BY <2>1, Quota
  <2> QED BY <1>0, <2>2, Quota
<1>7. ASSUME NEW t \in Handlers, RegisterUnknown(t) PROVE P
  <2>1. PICK x \in Doings : Takes(t, "unknown", x) /\ x.step = "claim" /\ doing[t].dev \in Devices
    BY <1>7, UnknownIs
  <2>2. Register(doing[t].dev, {}) /\ UNCHANGED <<session, active, key>>
    BY <1>7 DEF RegisterUnknown, keys
  <2>3. {} \in SUBSET Devices
    OBVIOUS
  <2> QED BY <1>0, <1>4, <1>6, <2>1, <2>2, <2>3 DEF Takes
<1>8. ASSUME NEW t \in Handlers, SyncActiveDevice(t) PROVE P
  <2>1. Takes(t, "sync", NoRequest) /\ doing[t].target \in Devices /\ doing[t].by \in Devices
    BY <1>8, RemovalIs
  <2>2. /\ active' \in Keys /\ UNCHANGED <<session, key>>
        /\ Register(doing[t].by, {}) \/ UNCHANGED <<row, uncounted>>
    BY <1>0, <1>8, <2>1 DEF SyncActiveDevice, SetActive
  <2>3. {} \in SUBSET Devices
    OBVIOUS
  <2>4. CASE Register(doing[t].by, {})
    BY <1>0, <1>4, <1>6, <2>1, <2>2, <2>3, <2>4 DEF Takes
  <2>5. CASE UNCHANGED <<row, uncounted>>
    BY <1>0, <2>1, <2>2, <2>5, QuietQuota DEF Takes
  <2> QED BY <2>2, <2>4, <2>5
<1>9. ASSUME NEW t \in Handlers, DeactivateRemoved(t) PROVE P
  <2>1. PICK x \in Doings : Takes(t, "remove", x) /\ x.step = "sync" /\ doing[t].target \in Devices
    BY <1>9, RemovalIs
  <2>2. TurnOut(doing[t].target) /\ UNCHANGED <<session, active, key, uncounted>>
    BY <1>9 DEF DeactivateRemoved, keys
  <2>3. row' \in [Devices -> {"none", "active", "inactive"}] /\ DevicesWithinQuota'
    BY <2>1, <2>2, TurnOutIs
  <2>4. Foreseen'
    BY <1>0, <2>1, <2>2, ForeseenStep DEF Takes
  <2> QED BY <2>1, <2>2, <2>3, <2>4 DEF AccountTypeOK, Takes, Turns
<1>10. ASSUME NEW t \in Handlers, CheckDevice(t) PROVE P
  <2>1. PICK x \in Doings : /\ Takes(t, "devices", x)
                            /\ x = NoRequest \/ (x.step = "issue" /\ x.dev = doing[t].dev /\ x.seen = doing[t].seen)
    BY <1>10, CheckIs
  <2>2. doing[t].dev \in Devices /\ doing[t].seen = {}
    BY <2>1, EntryIs DEF Takes, EntrySteps, Foreseen
  <2>3. Counted(x, uncounted)
    BY <1>0, <1>6, <2>1, <2>2 DEF Counted
  <2>4. UNCHANGED <<row, session, uncounted, active, key>>
    BY <1>10 DEF CheckDevice, rows, keys, history
  <2> QED BY <1>0, <2>1, <2>3, <2>4, QuietQuota DEF Takes
<1>11. ASSUME NEW t \in Handlers, NEW k \in Issued, Refresh(t, k) PROVE P
  <2>1. PICK x \in Doings : Opens(t, x) /\ x.step = "devices" /\ x.seen = {}
    BY <1>11, RefreshIs
  <2>2. Counted(x, uncounted)
    BY <2>1 DEF Counted
  <2>3. UNCHANGED <<row, session, uncounted, active, key>>
    BY <1>11 DEF Refresh, rows, keys, history
  <2> QED BY <1>0, <2>1, <2>2, <2>3, QuietQuota DEF Opens
<1>12. ASSUME NEW t \in Handlers, NEW x \in Doings, Turns(t, x),
              x.step \notin {"kick", "issue", "upsert", "devices"},
              UNCHANGED <<row, session, uncounted>>, active' \in Keys, key' \in Keys
       PROVE P
  BY <1>0, <1>12, QuietQuota
<1>13. ASSUME NEW t \in Handlers, RetireOld(t) \/ ClearActiveDevice(t) \/ Claim(t) \/ PublishKey(t)
                                  \/ RevokeAfterReset(t)
       PROVE P
  <2>1. /\ Turns(t, NoRequest) /\ active' \in Keys /\ key' \in Keys /\ UNCHANGED <<row, session, uncounted>>
    <3>1. CASE RetireOld(t)
      BY <1>0, <3>1, OthersAre DEF RetireOld, keys, history, Takes
    <3>2. CASE ClearActiveDevice(t)
      BY <1>0, <3>2, OthersAre DEF ClearActiveDevice, Cleared, rows, history, Takes
    <3>3. CASE Claim(t)
      BY <1>0, <3>3, OthersAre DEF Claim, SetActive, rows, history, Takes
    <3>4. CASE PublishKey(t)
      BY <1>0, <3>4, KeyRequestIs DEF PublishKey, SetActive, rows, history, Takes
    <3>5. CASE RevokeAfterReset(t)
      BY <1>0, <3>5, KeyRequestIs DEF RevokeAfterReset, keys, Takes
    <3> QED BY <1>13, <3>1, <3>2, <3>3, <3>4, <3>5
  <2> QED BY <1>0, <1>12, <2>1
<1>14. ASSUME NEW t \in Handlers, NEW k \in Issued,
              \/ Logout(t, k) \/ RevokeAllOtherSessions(t, k) \/ ChangePassword(t, k)
              \/ Handshake(t, k) \/ UpdatePublicKey(t, k) \/ ResetPublicKey(t, k)
              \/ (\E j \in Issued : RevokeSession(t, k, j)) \/ (\E d \in Devices : RemoveDevice(t, k, d))
       PROVE P
  <2>1. PICK x \in Doings : Turns(t, x) /\ x.step \notin {"kick", "issue", "upsert", "devices"}
    BY <1>0, <1>14, OthersAre, HandshakeIs, KeyRequestIs, RemovalIs DEF Opens
  <2>2. active' \in Keys /\ key' \in Keys /\ UNCHANGED <<row, session, uncounted>>
    BY <1>0, <1>14, TokenIs DEF Logout, RevokeAllOtherSessions, ChangePassword, Handshake, UpdatePublicKey,
       ResetPublicKey, RevokeSession, RemoveDevice, SetActive, rows, keys, history
  <2> QED BY <1>12, <2>1, <2>2
<1> HIDE DEF P
<1>15. P
  BY <1>1, <1>2, <1>3, <1>5, <1>7, <1>8, <1>9, <1>10, <1>11, <1>13, <1>14 DEF AccountNext
<1> QED BY <1>15 DEF P
-------------------------------------------------------------------------------
(* The key.                                                                *)
LEMMA KeysQuiet ==
  ASSUME KeysFree, NEW t \in Handlers, NEW x \in Doings, Turns(t, x),
         x.step = "publish" => NoDevice \in {x.seen[1], x.seen[2]}, active' = NoDevice => released'
  PROVE KeysFree'
  BY DEF KeysFree, Turns

LEMMA KeysStep ==
  ASSUME AccountTypeOK, KeysFree, AccountNext
  PROVE KeysFree'
<1>0. NoRequest.step = "idle" /\ NoRequest \in Doings /\ active \in Keys
  BY DEF NoRequest, Doings, AccountTypeOK
<1>1. ASSUME NEW t \in Handlers, NEW x \in Doings, Turns(t, x), x.step # "publish", UNCHANGED <<active, released>>
      PROVE KeysFree'
  BY <1>1, KeysQuiet DEF KeysFree
<1>2. ASSUME NEW t \in Handlers, NEW x \in Doings, Turns(t, x), x.step # "publish",
             NEW d \in Devices, SetActive(d)
      PROVE KeysFree'
  <2>1. active' # NoDevice
    BY <1>2, Quota DEF SetActive
  <2> QED BY <1>2, <2>1, KeysQuiet
<1>3. ASSUME NEW t \in Handlers, NEW d \in Devices,
             Login(t, d) \/ KickForLogin(t, d) PROVE KeysFree'
  <2>1. PICK x \in Doings : Turns(t, x) /\ x.step # "publish"
    BY <1>3, LoginIs, KickIs DEF Opens, Takes
  <2>2. UNCHANGED <<active, released>>
    BY <1>3 DEF Login, KickForLogin, keys
  <2> QED BY <1>1, <2>1, <2>2
<1>4. ASSUME NEW t \in Handlers,
             \/ IssueToken(t) \/ RegisterDevice(t) \/ CheckDevice(t) \/ RetireOld(t)
             \/ DeactivateRemoved(t) \/ RegisterUnknown(t) \/ RevokeAfterReset(t)
      PROVE KeysFree'
  <2>1. PICK x \in Doings : Turns(t, x) /\ x.step # "publish"
    <3>1. CASE IssueToken(t)
      BY <3>1, IssueIs DEF Takes
    <3>2. CASE CheckDevice(t)
      BY <1>0, <3>2, CheckIs DEF Takes
    <3>3. CASE DeactivateRemoved(t)
      BY <3>3, RemovalIs DEF Takes
    <3>4. CASE RegisterUnknown(t)
      BY <3>4, UnknownIs DEF Takes
    <3>5. CASE RegisterDevice(t) \/ RetireOld(t) \/ RevokeAfterReset(t)
      BY <1>0, <3>5, OthersAre, KeyRequestIs DEF Takes
    <3> QED BY <1>4, <3>1, <3>2, <3>3, <3>4, <3>5
  <2>2. UNCHANGED <<active, released>>
    BY <1>4 DEF IssueToken, RegisterDevice, CheckDevice, RetireOld, DeactivateRemoved, RegisterUnknown,
       RevokeAfterReset, keys
  <2> QED BY <1>1, <2>1, <2>2
<1>5. ASSUME NEW t \in Handlers, ClearActiveDevice(t) PROVE KeysFree'
  <2>1. Turns(t, NoRequest)
    BY <1>5, OthersAre DEF Takes
  <2>2. active' = NoDevice => released'
    BY <1>5 DEF ClearActiveDevice, Cleared, KeysFree
  <2> QED BY <1>0, <2>1, <2>2, KeysQuiet
<1>6. ASSUME NEW t \in Handlers, Claim(t) \/ PublishKey(t) \/ SyncActiveDevice(t) PROVE KeysFree'
  <2>1. Turns(t, NoRequest)
    BY <1>6, OthersAre, KeyRequestIs, RemovalIs DEF Takes
  <2>2. (\E d \in Devices : SetActive(d)) \/ UNCHANGED <<active, released>>
    BY <1>6, OthersAre, KeyRequestIs, RemovalIs DEF Claim, PublishKey, SyncActiveDevice
  <2> QED BY <1>0, <1>1, <1>2, <2>1, <2>2
<1>7. ASSUME NEW t \in Handlers, NEW k \in Issued,
              \/ Refresh(t, k) \/ Logout(t, k) \/ RevokeAllOtherSessions(t, k) \/ ChangePassword(t, k)
              \/ Handshake(t, k)
              \/ (\E j \in Issued : RevokeSession(t, k, j)) \/ (\E d \in Devices : RemoveDevice(t, k, d))
       PROVE KeysFree'
  <2>1. PICK x \in Doings : Turns(t, x) /\ x.step # "publish"
    BY <1>0, <1>7, RefreshIs, OthersAre, HandshakeIs, RemovalIs DEF Opens
  <2>2. UNCHANGED <<active, released>>
    BY <1>7 DEF Refresh, Logout, RevokeAllOtherSessions, ChangePassword, Handshake, RevokeSession,
       RemoveDevice, keys
  <2> QED BY <1>1, <2>1, <2>2
<1>8. ASSUME NEW t \in Handlers, NEW k \in Issued, UpdatePublicKey(t, k) PROVE KeysFree'
  <2>1. PICK x \in Doings : Turns(t, x) /\ x.step = "publish" /\ x.seen = <<key, active>>
    BY <1>8, KeyRequestIs DEF Opens
  <2>2. (key = NoDevice \/ active = NoDevice) /\ UNCHANGED <<active, released>>
    BY <1>8 DEF UpdatePublicKey, Claimed, keys
  <2> QED BY <2>1, <2>2, KeysQuiet DEF KeysFree
<1>9. ASSUME NEW t \in Handlers, NEW k \in Issued, ResetPublicKey(t, k) PROVE KeysFree'
  <2>1. PICK x \in Doings : Turns(t, x) /\ x.step # "publish"
    BY <1>9, KeyRequestIs DEF Opens
  <2>2. SetActive(session[k]) /\ session[k] \in Devices
    BY <1>9, TokenIs DEF ResetPublicKey
  <2> QED BY <1>2, <2>1, <2>2
<1> QED BY <1>3, <1>4, <1>5, <1>6, <1>7, <1>8, <1>9 DEF AccountNext

(* Only a reset, or a publication, writes the key.                         *)
LEMMA KeyWrites ==
  ASSUME AccountTypeOK, KeysFree, AccountNext, key # NoDevice, key' # key
  PROVE \E t \in Handlers :
           \/ doing[t] = NoRequest /\ doing'[t].step = "reset"
           \/ /\ doing[t].step = "publish" /\ doing'[t] = NoRequest
              /\ released \/ doing[t].seen # <<key, active>>
<1>1. ASSUME NEW t \in Handlers, PublishKey(t)
      PROVE /\ doing[t].step = "publish" /\ doing'[t] = NoRequest
            /\ released \/ doing[t].seen # <<key, active>>
  <2>1. doing[t].step = "publish" /\ doing'[t] = NoRequest
    BY <1>1, KeyRequestIs DEF Takes, Turns
  <2>2. NoDevice \in {doing[t].seen[1], doing[t].seen[2]}
    BY <2>1 DEF KeysFree
  <2>3. ASSUME doing[t].seen = <<key, active>> PROVE released
    BY <2>2, <2>3 DEF KeysFree
  <2> QED BY <2>1, <2>3
<1>2. ASSUME NEW t \in Handlers, NEW k \in Issued, ResetPublicKey(t, k)
      PROVE doing[t] = NoRequest /\ doing'[t].step = "reset"
  BY <1>2, KeyRequestIs DEF Opens, Turns
<1>3. \E t \in Handlers : PublishKey(t) \/ \E k \in Issued : ResetPublicKey(t, k)
  BY DEF AccountNext, Login, KickForLogin, IssueToken, RegisterDevice, CheckDevice, RetireOld,
     ClearActiveDevice, DeactivateRemoved, SyncActiveDevice, RegisterUnknown, Claim, RevokeAfterReset,
     Refresh, Logout, RevokeAllOtherSessions, ChangePassword, Handshake, UpdatePublicKey, RevokeSession,
     RemoveDevice, keys
<1> QED BY <1>1, <1>2, <1>3
-------------------------------------------------------------------------------
(* Who is turned out.                                                      *)
ShutOutBy(x, r, s, v) ==
  /\ x.step \in {"kick", "issue", "upsert"} => x.dev \notin s
  /\ x.step = "unknown" /\ x.dev \in s
       => r[x.dev] # "inactive" /\ \A k \in Issued : session[k] = x.dev => k \in v
  /\ x.step = "devices" /\ x.dev \in s
       => r[x.dev] = "inactive" /\ \E k \in Issued \ v : session[k] = x.dev

LEMMA EnteringIs ==
  ASSUME NEW t \in Handlers, doing[t].step \in {"kick", "issue", "devices", "upsert", "unknown"}
  PROVE doing[t].dev \in Entering
  BY DEF Entering, Under

(* Nobody is turned out or shut out.                                       *)
LEMMA QuietOut ==
  ASSUME AccountTypeOK, GoneStaysOut, ShutOut, UNCHANGED <<row, session>>,
         gone' \subseteq gone, shut' \subseteq shut, revoked \subseteq revoked', kept \subseteq kept',
         NEW t \in Handlers, NEW x \in Doings, Turns(t, x), ShutOutBy(x, row, shut', revoked'),
         x.step \in {"kick", "issue", "upsert", "unknown"} => x.dev \notin gone'
  PROVE GoneStaysOut' /\ ShutOut'
<1>1. GoneStaysOut'
  BY DEF GoneStaysOut, Turns
<1>2. Issued' = Issued
  BY DEF Issued
<1>3. \A k \in Issued' \ revoked' : session'[k] \in shut' => k \in kept' /\ row'[session'[k]] = "inactive"
  BY <1>2 DEF ShutOut
<1>4. \A u \in Handlers : doing'[u].step \in {"kick", "issue", "upsert"} => doing'[u].dev \notin shut'
  BY DEF ShutOut, ShutOutBy, Turns
<1>5. \A u \in Handlers : doing'[u].step = "unknown" /\ doing'[u].dev \in shut'
        => \A k \in Issued' : session'[k] = doing'[u].dev => k \in revoked'
  BY <1>2 DEF ShutOut, ShutOutBy, Turns
<1>6. ASSUME NEW u \in Handlers, doing'[u].step = "devices", doing'[u].dev \in shut'
      PROVE /\ row'[doing'[u].dev] = "inactive"
            /\ \A v \in Handlers : doing'[v].step = "unknown" => doing'[v].dev # doing'[u].dev
  <2>1. CASE u = t
    <3>1. x.step = "devices" /\ x.dev \in shut'
      BY <1>6, <2>1 DEF Turns
    <3>2. PICK k \in Issued \ revoked' : session[k] = x.dev
      BY <3>1 DEF ShutOutBy
    <3>3. ASSUME NEW v \in Handlers, doing'[v].step = "unknown" PROVE doing'[v].dev # x.dev
      <4>1. v # t /\ doing'[v] = doing[v]
        BY <3>1, <3>3 DEF Turns
      <4> QED BY <3>1, <3>2, <3>3, <4>1 DEF ShutOut
    <3> QED BY <2>1, <3>1, <3>3 DEF ShutOutBy, Turns
  <2>2. CASE u # t
    <3>1. doing'[u] = doing[u] /\ doing[u].step = "devices" /\ doing[u].dev \in shut
      BY <1>6, <2>2 DEF Turns
    <3>2. row[doing[u].dev] = "inactive"
      BY <3>1 DEF ShutOut
    <3>3. ASSUME NEW v \in Handlers, doing'[v].step = "unknown" PROVE doing'[v].dev # doing[u].dev
      <4>1. CASE v = t
        <5>1. doing'[v] = x /\ x.step = "unknown"
          BY <3>3, <4>1 DEF Turns
        <5>2. x.dev \in shut' => row[x.dev] # "inactive"
          BY <5>1 DEF ShutOutBy
        <5> QED BY <1>6, <3>1, <3>2, <5>1, <5>2
      <4>2. CASE v # t
        BY <3>1, <3>3, <4>2 DEF Turns, ShutOut
      <4> QED BY <4>1, <4>2
    <3> QED BY <3>1, <3>2, <3>3
  <2> QED BY <2>1, <2>2
<1>8. shut' \subseteq Devices
  BY DEF ShutOut
<1>7. ShutOut'
  BY <1>3, <1>4, <1>5, <1>6, <1>8 DEF ShutOut
<1> QED BY <1>1, <1>7

(* Sessions are revoked.                                                   *)
LEMMA RevokeOut ==
  ASSUME AccountTypeOK, GoneStaysOut, ShutOut, UNCHANGED <<row, session, gone, kept>>,
         NEW T \in SUBSET Issued, NEW D \in SUBSET Devices, Revoke(T, D),
         \A k \in Issued : session[k] \in D => k \in T,
         NEW t \in Handlers, NEW x \in Doings, Turns(t, x),
         x.step \notin {"kick", "issue", "upsert", "unknown", "devices"}
  PROVE GoneStaysOut' /\ ShutOut'
<1>1. GoneStaysOut'
  BY DEF GoneStaysOut, Turns
<1>2. Issued' = Issued /\ revoked' = revoked \union T /\ shut' = shut \union (D \ Entering)
  BY DEF Issued, Revoke
<1>3. \A k \in Issued' \ revoked' : session'[k] \in shut' => k \in kept' /\ row'[session'[k]] = "inactive"
  BY <1>2 DEF ShutOut
<1>4. \A u \in Handlers : doing'[u].step \in {"kick", "issue", "upsert", "unknown", "devices"}
        => u # t /\ doing'[u] = doing[u] /\ (doing[u].dev \in shut' => doing[u].dev \in shut)
  BY <1>2, EnteringIs DEF Turns
<1>5. \A u \in Handlers : doing'[u].step \in {"kick", "issue", "upsert"} => doing'[u].dev \notin shut'
  BY <1>4 DEF ShutOut
<1>6. \A u \in Handlers : doing'[u].step = "unknown" /\ doing'[u].dev \in shut'
        => \A k \in Issued' : session'[k] = doing'[u].dev => k \in revoked'
  BY <1>2, <1>4 DEF ShutOut
<1>7. \A u \in Handlers : doing'[u].step = "devices" /\ doing'[u].dev \in shut'
        => /\ row'[doing'[u].dev] = "inactive"
           /\ \A v \in Handlers : doing'[v].step = "unknown" => doing'[v].dev # doing'[u].dev
  BY <1>4 DEF ShutOut
<1>8. shut' \subseteq Devices
  BY <1>2 DEF ShutOut
<1> QED BY <1>1, <1>3, <1>5, <1>6, <1>7, <1>8 DEF ShutOut

(* A device is turned out.                                                 *)
LEMMA TurnOutOut ==
  ASSUME AccountTypeOK, GoneStaysOut, ShutOut, UNCHANGED <<session, revoked>>,
         NEW d \in Devices, \A c \in Devices : row'[c] = IF c = d /\ row[c] # "none" THEN "inactive" ELSE row[c],
         gone' = IF row[d] = "none" THEN gone ELSE gone \union ({d} \ Entering),
         kept \subseteq kept',
         \/ shut' = shut
         \/ row[d] # "none" /\ shut' = shut \union ({d} \ Entering) /\ TokensOf({d}) \ revoked \subseteq kept',
         NEW t \in Handlers, NEW x \in Doings, Turns(t, x),
         x.step \in {"kick", "issue", "upsert", "unknown", "devices"} =>
            x.step = "issue" /\ x.dev = doing[t].dev /\ doing[t].step = "kick"
  PROVE GoneStaysOut' /\ ShutOut'
<1>1. \A u \in Handlers : doing'[u].step \in {"kick", "issue", "upsert", "unknown", "devices"}
        => /\ doing[u].step \in {"kick", "issue", "upsert", "unknown", "devices"}
           /\ doing'[u].dev = doing[u].dev /\ doing[u].dev \in Entering
           /\ doing'[u].step = doing[u].step \/ (doing[u].step = "kick" /\ doing'[u].step = "issue")
  BY EnteringIs DEF Turns
<1>2. Issued' = Issued
  BY DEF Issued
<1>3. GoneStaysOut'
  <2>1. \A c \in gone' : row'[c] = "inactive"
    BY DEF GoneStaysOut
  <2>2. \A u \in Handlers : doing'[u].step \in {"kick", "issue", "upsert", "unknown"} => doing'[u].dev \notin gone'
    BY <1>1 DEF GoneStaysOut
  <2> QED BY <2>1, <2>2 DEF GoneStaysOut
<1>4. \A k \in Issued' \ revoked' : session'[k] \in shut' => k \in kept' /\ row'[session'[k]] = "inactive"
  BY <1>2, TokenIs DEF ShutOut, TokensOf
<1>5. \A u \in Handlers : doing'[u].step \in {"kick", "issue", "upsert"} => doing'[u].dev \notin shut'
  BY <1>1 DEF ShutOut
<1>6. \A u \in Handlers : doing'[u].step = "unknown" /\ doing'[u].dev \in shut'
        => \A k \in Issued' : session'[k] = doing'[u].dev => k \in revoked'
  BY <1>1, <1>2 DEF ShutOut
<1>7. \A u \in Handlers : doing'[u].step = "devices" /\ doing'[u].dev \in shut'
        => /\ row'[doing'[u].dev] = "inactive"
           /\ \A v \in Handlers : doing'[v].step = "unknown" => doing'[v].dev # doing'[u].dev
  BY <1>1 DEF ShutOut
<1>8. shut' \subseteq Devices
  BY DEF ShutOut
<1> QED BY <1>3, <1>4, <1>5, <1>6, <1>7, <1>8 DEF ShutOut

(* A device is registered.                                                 *)
LEMMA RegisterOut ==
  ASSUME AccountTypeOK, GoneStaysOut, ShutOut, UNCHANGED <<session, revoked, shut, gone, kept>>,
         NEW d \in Devices, row'[d] = "active", \A c \in Devices : c # d => row'[c] = row[c],
         d \notin gone,
         d \in shut => \A k \in Issued : session[k] = d => k \in revoked,
         d \in shut => row[d] # "inactive" \/ \E u \in Handlers : doing[u].step = "unknown" /\ doing[u].dev = d,
         NEW t \in Handlers, NEW x \in Doings, Turns(t, x), x.step \in {"idle", "claim"}
  PROVE GoneStaysOut' /\ ShutOut'
<1>1. \A u \in Handlers : doing'[u].step \in {"kick", "issue", "upsert", "unknown", "devices"}
        => doing'[u] = doing[u]
  BY DEF Turns
<1>2. Issued' = Issued
  BY DEF Issued
<1>3. GoneStaysOut'
  BY <1>1 DEF GoneStaysOut
<1>4. \A k \in Issued' \ revoked' : session'[k] \in shut' => k \in kept' /\ row'[session'[k]] = "inactive"
  BY <1>2, TokenIs DEF ShutOut
<1>5. \A u \in Handlers : doing'[u].step \in {"kick", "issue", "upsert"} => doing'[u].dev \notin shut'
  BY <1>1 DEF ShutOut
<1>6. \A u \in Handlers : doing'[u].step = "unknown" /\ doing'[u].dev \in shut'
        => \A k \in Issued' : session'[k] = doing'[u].dev => k \in revoked'
  BY <1>1, <1>2 DEF ShutOut
<1>7. \A u \in Handlers : doing'[u].step = "devices" /\ doing'[u].dev \in shut'
        => /\ row'[doing'[u].dev] = "inactive"
           /\ \A v \in Handlers : doing'[v].step = "unknown" => doing'[v].dev # doing'[u].dev
  BY <1>1 DEF ShutOut
<1>8. shut' \subseteq Devices
  BY DEF ShutOut
<1> QED BY <1>3, <1>4, <1>5, <1>6, <1>7, <1>8 DEF ShutOut

LEMMA OutStep ==
  ASSUME AccountTypeOK, GoneStaysOut, ShutOut, AccountNext
  PROVE GoneStaysOut' /\ ShutOut'
<1> DEFINE P == GoneStaysOut' /\ ShutOut'
<1>0. /\ NoRequest.step = "idle" /\ NoRequest \in Doings
      /\ \A x, r, s, v : x.step \notin {"kick", "issue", "upsert", "unknown", "devices"} => ShutOutBy(x, r, s, v)
  BY DEF NoRequest, Doings, ShutOutBy
<1>1. ASSUME NEW t \in Handlers, NEW d \in Devices, Login(t, d) PROVE P
  <2>1. PICK x \in Doings : Opens(t, x) /\ x.step \in {"issue", "kick"} /\ x.dev = d
    BY <1>1, LoginIs
  <2>2. /\ shut' = shut \ {d} /\ gone' = gone \ {d} /\ UNCHANGED <<row, session, revoked, kept>>
    BY <1>1 DEF Login, rows
  <2>3. ShutOutBy(x, row, shut', revoked')
    BY <2>1, <2>2 DEF ShutOutBy
  <2> QED BY <2>1, <2>2, <2>3, QuietOut DEF Opens
<1>2. ASSUME NEW t \in Handlers, NEW d \in Devices, KickForLogin(t, d) PROVE P
  <2>1. PICK x \in Doings : Takes(t, "kick", x) /\ x.step = "issue" /\ x.dev = doing[t].dev
    BY <1>2, KickIs
  <2>2. /\ \A c \in Devices : row'[c] = IF c = d /\ row[c] # "none" THEN "inactive" ELSE row[c]
        /\ gone' = IF row[d] = "none" THEN gone ELSE gone \union ({d} \ Entering)
    BY <1>2 DEF KickForLogin, TurnOut, AccountTypeOK
  <2>3. /\ UNCHANGED <<session, revoked>> /\ kept' = kept \union (TokensOf({d}) \ revoked)
        /\ shut' = IF row[d] = "none" THEN shut ELSE shut \union ({d} \ Entering)
    BY <1>2 DEF KickForLogin
  <2> QED BY <2>1, <2>2, <2>3, TurnOutOut DEF Takes
<1>3. ASSUME NEW t \in Handlers, IssueToken(t) PROVE P
  <2>1. PICK x \in Doings : Takes(t, "issue", x) /\ x.step \in {"upsert", "retire"} /\ x.dev = doing[t].dev
    BY <1>3, IssueIs
  <2> PICK c : c = doing[t].dev
    OBVIOUS
  <2>2. c \in Devices /\ c \notin shut /\ c \notin gone
    BY <2>1, EntryIs DEF Takes, EntrySteps, ShutOut, GoneStaysOut
  <2>3. session' = Append(session, c) /\ UNCHANGED <<row, revoked, shut, gone, kept>>
    BY <1>3 DEF IssueToken, history
  <2>4. \A k \in Issued' : session'[k] = c \/ (k \in Issued /\ session'[k] = session[k])
    BY <2>3 DEF Issued, AccountTypeOK
  <2>5. GoneStaysOut'
    BY <2>1, <2>2, <2>3 DEF GoneStaysOut, Takes, Turns
  <2>6. \A k \in Issued' \ revoked' : session'[k] \in shut' => k \in kept' /\ row'[session'[k]] = "inactive"
    BY <2>2, <2>3, <2>4 DEF ShutOut
  <2>7. \A u \in Handlers : \/ doing'[u] = doing[u]
                            \/ doing'[u].step \in {"upsert", "retire"} /\ doing'[u].dev = c
    BY <2>1 DEF Takes, Turns
  <2>8. \A u \in Handlers : doing'[u].step \in {"kick", "issue", "upsert"} => doing'[u].dev \notin shut'
    BY <2>2, <2>3, <2>7 DEF ShutOut
  <2>9. \A u \in Handlers : doing'[u].step = "unknown" /\ doing'[u].dev \in shut'
          => \A k \in Issued' : session'[k] = doing'[u].dev => k \in revoked'
    BY <2>2, <2>3, <2>4, <2>7 DEF ShutOut
  <2>10. \A u \in Handlers : doing'[u].step = "devices" /\ doing'[u].dev \in shut'
           => /\ row'[doing'[u].dev] = "inactive"
              /\ \A v \in Handlers : doing'[v].step = "unknown" => doing'[v].dev # doing'[u].dev
    BY <2>3, <2>7 DEF ShutOut
  <2>11. shut' \subseteq Devices
    BY <2>3 DEF ShutOut
  <2> QED BY <2>5, <2>6, <2>8, <2>9, <2>10, <2>11 DEF ShutOut
<1>4. ASSUME NEW t \in Handlers, NEW x \in Doings, Turns(t, x), UNCHANGED <<row, session, gone, shut, kept>>,
             revoked \subseteq revoked', x.step \notin {"kick", "issue", "upsert", "unknown", "devices"}
      PROVE P
  BY <1>0, <1>4, QuietOut
<1>5. ASSUME NEW t \in Handlers, RegisterDevice(t) PROVE P
  <2>1. Takes(t, "upsert", NoRequest) /\ doing[t].dev \in Devices
    BY <1>5, OthersAre, EntryIs DEF Takes, EntrySteps
  <2>2. doing[t].dev \notin gone /\ doing[t].dev \notin shut
    BY <2>1 DEF Takes, ShutOut, GoneStaysOut
  <2>3. UNCHANGED <<session, revoked, shut, gone, kept>>
    BY <1>5 DEF RegisterDevice
  <2>4. CASE Register(doing[t].dev, doing[t].seen)
    <3>1. row'[doing[t].dev] = "active" /\ \A c \in Devices : c # doing[t].dev => row'[c] = row[c]
      BY <2>1, <2>4 DEF Register, AccountTypeOK
    <3> QED BY <1>0, <2>1, <2>2, <2>3, <3>1, RegisterOut DEF Takes
  <2>5. CASE UNCHANGED <<row, uncounted>>
    BY <1>0, <1>4, <2>1, <2>3, <2>5 DEF Takes
  <2> QED BY <1>5, <2>4, <2>5 DEF RegisterDevice
<1>6. ASSUME NEW t \in Handlers, RegisterUnknown(t) PROVE P
  <2>1. PICK x \in Doings : Takes(t, "unknown", x) /\ x.step = "claim" /\ doing[t].dev \in Devices
    BY <1>6, UnknownIs
  <2>2. /\ doing[t].dev \notin gone
        /\ doing[t].dev \in shut => \A k \in Issued : session[k] = doing[t].dev => k \in revoked
    BY <2>1 DEF Takes, ShutOut, GoneStaysOut
  <2>3. row'[doing[t].dev] = "active" /\ \A c \in Devices : c # doing[t].dev => row'[c] = row[c]
    BY <1>6, <2>1 DEF RegisterUnknown, Register, AccountTypeOK
  <2>4. UNCHANGED <<session, revoked, shut, gone, kept>>
    BY <1>6 DEF RegisterUnknown
  <2> QED BY <2>1, <2>2, <2>3, <2>4, RegisterOut DEF Takes
<1>7. ASSUME NEW t \in Handlers, SyncActiveDevice(t) PROVE P
  <2>1. Takes(t, "sync", NoRequest) /\ doing[t].by \in Devices
    BY <1>7, RemovalIs
  <2> PICK d : d = doing[t].by
    OBVIOUS
  <2>2. UNCHANGED <<session, revoked, shut, gone, kept>>
    BY <1>7 DEF SyncActiveDevice
  <2>3. CASE row[d] = "none"
    <3>1. row'[d] = "active" /\ \A c \in Devices : c # d => row'[c] = row[c]
      BY <1>7, <2>1, <2>3 DEF SyncActiveDevice, Register, AccountTypeOK
    <3>2. d \notin gone
      BY <2>3 DEF GoneStaysOut
    <3>3. d \in shut => \A k \in Issued : session[k] = d => k \in revoked
      BY <2>3 DEF ShutOut
    <3> QED BY <1>0, <2>1, <2>2, <2>3, <3>1, <3>2, <3>3, RegisterOut DEF Takes
  <2>4. CASE row[d] # "none"
    <3>1. row' = row
      BY <1>7, <2>4 DEF SyncActiveDevice
    <3> QED BY <1>0, <1>4, <2>1, <2>2, <3>1 DEF Takes
  <2> QED BY <2>3, <2>4
<1>8. ASSUME NEW t \in Handlers, DeactivateRemoved(t) PROVE P
  <2>1. PICK x \in Doings : Takes(t, "remove", x) /\ x.step = "sync" /\ doing[t].target \in Devices
    BY <1>8, RemovalIs
  <2> PICK d : d = doing[t].target
    OBVIOUS
  <2>2. /\ \A c \in Devices : row'[c] = IF c = d /\ row[c] # "none" THEN "inactive" ELSE row[c]
        /\ gone' = IF row[d] = "none" THEN gone ELSE gone \union ({d} \ Entering)
    BY <1>8 DEF DeactivateRemoved, TurnOut, AccountTypeOK
  <2>3. UNCHANGED <<session, revoked, shut, kept>>
    BY <1>8 DEF DeactivateRemoved
  <2> QED BY <2>1, <2>2, <2>3, TurnOutOut DEF Takes
<1>9. ASSUME NEW t \in Handlers, CheckDevice(t) PROVE P
  <2>1. PICK x \in Doings : /\ Takes(t, "devices", x)
                            /\ IF StillActive(doing[t].dev) THEN x.step = "issue" /\ x.dev = doing[t].dev
                               ELSE x = NoRequest
    BY <1>9, CheckIs
  <2>2. UNCHANGED <<row, session, revoked, gone, shut, kept>>
    BY <1>9 DEF CheckDevice, rows, history
  <2>3. CASE StillActive(doing[t].dev)
    <3>1. x.dev \notin shut /\ x.dev \notin gone /\ x.step = "issue"
      BY <2>1, <2>3 DEF Takes, StillActive, ShutOut, GoneStaysOut
    <3>2. ShutOutBy(x, row, shut', revoked')
      BY <2>2, <3>1 DEF ShutOutBy
    <3> QED BY <2>1, <2>2, <3>1, <3>2, QuietOut DEF Takes
  <2>4. CASE ~StillActive(doing[t].dev)
    BY <1>0, <1>4, <2>1, <2>2, <2>4 DEF Takes
  <2> QED BY <2>3, <2>4
<1>10. ASSUME NEW t \in Handlers, NEW k \in Issued, Refresh(t, k) PROVE P
  <2>1. PICK x \in Doings : Opens(t, x) /\ x.step = "devices" /\ x.dev = session[k]
    BY <1>10, RefreshIs
  <2>2. UNCHANGED <<row, session, revoked, gone, shut, kept>> /\ k \in Issued \ revoked
    BY <1>10 DEF Refresh, Authorized, rows, history
  <2>3. ShutOutBy(x, row, shut', revoked')
    BY <2>1, <2>2 DEF ShutOutBy, ShutOut
  <2> QED BY <2>1, <2>2, <2>3, QuietOut DEF Opens
<1>11. ASSUME NEW t \in Handlers, NEW k \in Issued, Handshake(t, k) PROVE P
  <2>1. PICK x \in Doings : /\ Opens(t, x) /\ x.step \in {"claim", "unknown"} /\ x.dev = session[k]
                            /\ row[x.dev] # "inactive"
    BY <1>11, HandshakeIs
  <2>2. UNCHANGED <<row, session, revoked, gone, shut, kept>>
    BY <1>11 DEF Handshake, rows, history
  <2>3. x.dev \notin gone
    BY <1>11, <2>1 DEF GoneStaysOut
  <2>4. ShutOutBy(x, row, shut', revoked')
    BY <2>1, <2>2 DEF ShutOutBy, ShutOut
  <2> QED BY <2>1, <2>2, <2>3, <2>4, QuietOut DEF Opens
<1>12. ASSUME NEW t \in Handlers, RevokeAfterReset(t) PROVE P
  <2> PICK b : b = doing[t].by
    OBVIOUS
  <2>1. /\ Turns(t, NoRequest) /\ Revoke(Issued \ {b}, Devices \ {session[b]})
        /\ UNCHANGED <<row, session, gone, kept>>
    BY <1>12, KeyRequestIs DEF RevokeAfterReset, Takes
  <2>2. /\ Issued \ {b} \in SUBSET Issued /\ Devices \ {session[b]} \in SUBSET Devices
        /\ \A j \in Issued : session[j] \in Devices \ {session[b]} => j \in Issued \ {b}
    OBVIOUS
  <2> QED BY <1>0, <2>1, <2>2, RevokeOut
<1>13. ASSUME NEW t \in Handlers, NEW k \in Issued, RevokeAllOtherSessions(t, k) PROVE P
  <2>1. /\ Turns(t, NoRequest) /\ Revoke(Issued \ {k}, Devices \ {session[k]})
        /\ UNCHANGED <<row, session, gone, kept>>
    BY <1>13, OthersAre DEF RevokeAllOtherSessions, Opens
  <2>2. /\ Issued \ {k} \in SUBSET Issued /\ Devices \ {session[k]} \in SUBSET Devices
        /\ \A j \in Issued : session[j] \in Devices \ {session[k]} => j \in Issued \ {k}
    OBVIOUS
  <2> QED BY <1>0, <2>1, <2>2, RevokeOut
<1>14. ASSUME NEW t \in Handlers, NEW k \in Issued, ChangePassword(t, k) PROVE P
  <2>1. Turns(t, NoRequest) /\ Revoke(Issued, Devices) /\ UNCHANGED <<row, session, gone, kept>>
    BY <1>14, OthersAre DEF ChangePassword, Opens
  <2>2. Issued \in SUBSET Issued /\ Devices \in SUBSET Devices
    OBVIOUS
  <2> QED BY <1>0, <2>1, <2>2, RevokeOut
<1>15. ASSUME NEW t \in Handlers, NEW k \in Issued, NEW d \in Devices, RemoveDevice(t, k, d) PROVE P
  <2>1. PICK x \in Doings : Opens(t, x) /\ x.step = "remove"
    BY <1>15, RemovalIs
  <2>2. Revoke(TokensOf({d}), {d}) /\ UNCHANGED <<row, session, gone, kept>>
    BY <1>15 DEF RemoveDevice, ItsSessions
  <2>3. /\ TokensOf({d}) \in SUBSET Issued /\ {d} \in SUBSET Devices
        /\ \A j \in Issued : session[j] \in {d} => j \in TokensOf({d})
    BY DEF TokensOf
  <2> QED BY <2>1, <2>2, <2>3, RevokeOut DEF Opens
<1>16. ASSUME NEW t \in Handlers, RetireOld(t) \/ ClearActiveDevice(t) \/ Claim(t) \/ PublishKey(t) PROVE P
  <2>1. Turns(t, NoRequest)
    BY <1>16, OthersAre, KeyRequestIs DEF Takes
  <2>2. UNCHANGED <<row, session, gone, shut, kept>> /\ revoked \subseteq revoked'
    BY <1>16 DEF RetireOld, ClearActiveDevice, Claim, PublishKey, rows, history
  <2> QED BY <1>0, <1>4, <2>1, <2>2
<1>17. ASSUME NEW t \in Handlers, NEW k \in Issued,
              \/ Logout(t, k) \/ UpdatePublicKey(t, k) \/ ResetPublicKey(t, k)
              \/ \E j \in Issued : RevokeSession(t, k, j)
       PROVE P
  <2>1. PICK x \in Doings : Turns(t, x) /\ x.step \notin {"kick", "issue", "upsert", "unknown", "devices"}
    BY <1>0, <1>17, OthersAre, KeyRequestIs DEF Opens
  <2>2. UNCHANGED <<row, session, gone, shut, kept>> /\ revoked \subseteq revoked'
    BY <1>17 DEF Logout, UpdatePublicKey, ResetPublicKey, RevokeSession, rows, history
  <2> QED BY <1>4, <2>1, <2>2
<1> HIDE DEF P
<1>18. P
  BY <1>1, <1>2, <1>3, <1>5, <1>6, <1>7, <1>8, <1>9, <1>10, <1>11, <1>12, <1>13, <1>14, <1>15, <1>16, <1>17
  DEF AccountNext
<1> QED BY <1>18 DEF P
-------------------------------------------------------------------------------
(* The inductive invariant holds of every state of the account, for any    *)
(* number of devices, requests side by side and any quota.                 *)
THEOREM AccountStaysSound == AccountSpec => []AccountInv
<1>1. AccountInit => AccountInv
  <2> SUFFICES ASSUME AccountInit PROVE AccountInv
    OBVIOUS
  <2>1. \A t \in Handlers : doing[t].step = "idle"
    BY DEF AccountInit, NoRequest
  <2>2. AccountTypeOK
    BY DEF AccountInit, AccountTypeOK, Keys, Doings
  <2>3. ActiveDevices = {} /\ Issued = {}
    BY DEF AccountInit, ActiveDevices, Issued
  <2>4. DevicesWithinQuota
    BY <2>3, Quota, FS_EmptySet DEF AccountInit, DevicesWithinQuota
  <2>5. Foreseen /\ KeysFree /\ GoneStaysOut /\ ShutOut
    BY <2>1, <2>3 DEF AccountInit, Foreseen, KeysFree, GoneStaysOut, ShutOut
  <2> QED BY <2>2, <2>4, <2>5 DEF AccountInv
<1>2. AccountInv /\ [AccountNext]_accountVars => AccountInv'
  <2>1. ASSUME AccountInv, AccountNext PROVE AccountInv'
    BY <2>1, QuotaStep, KeysStep, OutStep DEF AccountInv
  <2>2. ASSUME AccountInv, UNCHANGED accountVars PROVE AccountInv'
    BY <2>2 DEF AccountInv, accountVars, rows, keys, history, AccountTypeOK, Foreseen, DevicesWithinQuota,
       ActiveDevices, KeysFree, GoneStaysOut, ShutOut, Issued
  <2> QED BY <2>1, <2>2
<1> QED BY <1>1, <1>2, PTL DEF AccountSpec

(* Whatever logins, renewals, removals and handshakes run side by side, the *)
(* quota is kept but for registrations that no count foresaw.              *)
THEOREM QuotaIsKept == AccountSpec => []DevicesWithinQuota
<1>1. AccountInv => DevicesWithinQuota
  BY DEF AccountInv
<1> QED BY <1>1, AccountStaysSound, PTL

(* A device that was turned out, or whose sessions were revoked, is not let *)
(* back in by a renewal, a handshake or a removal, however they overlap.   *)
THEOREM EjectedStayOut == AccountSpec => []EjectedStaysOut
<1>1. AccountInv => EjectedStaysOut
  BY DEF AccountInv, GoneStaysOut, ShutOut, EjectedStaysOut, TokensOf, ActiveDevices
<1> QED BY <1>1, AccountStaysSound, PTL

(* A published key stands until a reset, or until the active device logs   *)
(* out, but for two updates that both found the account unclaimed.         *)
THEOREM KeysStand == AccountSpec => KeyStands
<1>1. AccountInv /\ [AccountNext]_accountVars
      => [key # NoDevice /\ key' # key
          => \E t \in Handlers :
               \/ doing[t] = NoRequest /\ doing'[t].step = "reset"
               \/ /\ doing[t].step = "publish" /\ doing'[t] = NoRequest
                  /\ released \/ doing[t].seen # <<key, active>>]_accountVars
  BY KeyWrites DEF AccountInv, accountVars
<1> QED BY <1>1, AccountStaysSound, PTL DEF AccountSpec, KeyStands
===============================================================================
