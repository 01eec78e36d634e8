---------------------- MODULE AutomationSchedulerProofs ----------------------
(***************************************************************************)
(* Proofs about AutomationScheduler, for any automations, schedules and    *)
(* limits: no occurrence is decided twice, none that matters is forgotten, *)
(* and none is run too late.  The scheduler is the instance of SafetyParts,*)
(* so that SafetyPartsProofs can use what is proved here.                  *)
(***************************************************************************)
EXTENDS SafetyParts, FiniteSetTheorems, WellFoundedInduction, TLAPS

(* The occurrences of an automation that the tick has still to decide, and *)
(* those that were decided.                                                *)
Left(a) == {d.at : d \in {e \in todo : e.of = a}}
Done(a) == {t \in Scheduler!Time : decisions[a][t] = 1}

(* What the code does not claim to look at any more. *)
LongAgo(t) == now + 1 - t >= Lookback

(* Whoever waits was seen by a tick that is under way. *)
TickIsRunning == (todo # {} => ticking) /\ (ticking => up)

(* Nothing on record is from the future. *)
ClockIsAhead ==
    /\ lastTick <= now /\ heartbeat <= now
    /\ \A a \in Automations : mark[a] <= now /\ owed[a] <= now
    /\ \A d \in todo : d.at <= now

(* What was decided is below the watermark, and what is left is above it.  *)
MarkDivides ==
    /\ \A a \in Automations, t \in Scheduler!Time : decisions[a][t] > 0 => t <= mark[a]
    /\ \A d \in todo : /\ mark[d.of] < d.at /\ enabled[d.of]
                       /\ d.at \in Scheduler!Occurrences(d.of)
    /\ \A d, e \in todo : d.of = e.of /\ d.at = e.at => d = e

(* What is left to run is not late, and does not become so during a tick. *)
RunsAreRecent ==
    \A d \in todo : d.run /\ d.of \notin RunLatest => now - d.at < GapMin

(* What was passed over is excused for good. *)
Excused(a, t) ==
    \/ t \in Done(a) \/ LongAgo(t)
    \/ Cardinality({u \in Scheduler!Occurrences(a) : u > t /\ u \in Done(a)}) >= Cap

TakenAsDone ==
    \A a \in Automations : enabled[a] =>
        \A t \in Scheduler!Occurrences(a) :
            owed[a] < t /\ (t <= lastTick \/ t <= heartbeat) => Excused(a, t)

(* What is below the watermark and not decided made room for others, some  *)
(* of which may come only now.                                             *)
Later(a, t) == {u \in Scheduler!Occurrences(a) : t < u /\ u <= now
                /\ (u \in Done(a) \/ mark[a] < u)}

BelowMark ==
    \A a \in Automations : enabled[a] =>
        \A t \in Scheduler!Occurrences(a) :
            owed[a] < t /\ t <= mark[a]
              => t \in Done(a) \/ LongAgo(t) \/ Cardinality(Later(a, t)) >= Cap

(* A tick that has not failed for an automation has the newest occurrences *)
(* above the watermark to decide, as many as the cap allows.               *)
WindowKept ==
    \A a \in Automations : enabled[a] /\ ticking /\ (healthy \/ Left(a) # {}) =>
        \A t \in Scheduler!Occurrences(a) :
            mark[a] < t /\ t <= now =>
                \/ t \in Left(a) \/ t <= lastTick \/ t <= owed[a] \/ LongAgo(t)
                \/ Cardinality(Left(a)) >= Cap /\ \A u \in Left(a) : t < u

SchedulerInv ==
    /\ Scheduler!TypeOK /\ TickIsRunning /\ ClockIsAhead /\ MarkDivides /\ RunsAreRecent
    /\ Scheduler!DecidedOnce /\ Scheduler!NoStaleRun /\ TakenAsDone /\ BelowMark /\ WindowKept

-----------------------------------------------------------------------------
(* Lemmas about numbers and sets of times                                  *)

(* The instance counts as the library does. *)
LEMMA SameCardinality == \A S : Scheduler!Cardinality(S) = Cardinality(S)
BY DEF Scheduler!Cardinality, Cardinality

LEMMA MaxOfTwo ==
  ASSUME NEW x \in Int, NEW y \in Int
  PROVE  /\ Scheduler!Max({x, y}) \in Int /\ Scheduler!Max({x, y}) \in {x, y}
         /\ x <= Scheduler!Max({x, y}) /\ y <= Scheduler!Max({x, y})
<1>1. \E m \in {x, y} : \A n \in {x, y} : m >= n
  <2>1. CASE x <= y
    BY <2>1
  <2>2. CASE ~(x <= y)
    BY <2>2
  <2> QED BY <2>1, <2>2
<1>2. Scheduler!Max({x, y}) \in {x, y} /\ \A n \in {x, y} : Scheduler!Max({x, y}) >= n
  BY <1>1 DEF Scheduler!Max
<1> QED BY <1>2

LEMMA ModBound ==
  ASSUME NEW n \in Nat, NEW m \in Nat \ {0}
  PROVE  n % m \in Nat /\ n % m < m /\ n % m <= n
OBVIOUS

LEMMA NumbersHaveMin ==
  ASSUME NEW I \in SUBSET Nat, I # {}
  PROVE  \E i \in I : \A j \in I : i <= j
<1>1. PICK i \in I : \A j \in I : <<j, i>> \notin OpToRel(<, Nat)
  BY NatLessThanWellFounded, WFMin
<1>2. \A j \in I : ~(j < i)
  BY <1>1 DEF OpToRel
<1> QED BY <1>2

LEMMA TimesAreFinite ==
  ASSUME Scheduler!ParametersFit, NEW S \in SUBSET Scheduler!Time
  PROVE  IsFiniteSet(S) /\ Cardinality(S) \in Nat
<1>1. IsFiniteSet(Scheduler!Time)
  BY FS_Interval DEF Scheduler!ParametersFit, Scheduler!Time
<1> QED BY <1>1, FS_Subset, FS_CardinalityType

LEMMA MoreTimes ==
  ASSUME Scheduler!ParametersFit, NEW T \in SUBSET Scheduler!Time, NEW S \in SUBSET T,
         Cardinality(S) >= Cap
  PROVE  Cardinality(T) >= Cap
<1>1. Cardinality(S) <= Cardinality(T) /\ Cardinality(S) \in Nat /\ Cardinality(T) \in Nat
  BY TimesAreFinite, FS_Subset
<1> QED BY <1>1 DEF Scheduler!ParametersFit

(* Of a set of times, those with fewer than Cap after them are the last    *)
(* Cap, or all.                                                            *)
LEMMA LastOnes ==
  ASSUME Scheduler!ParametersFit, NEW S \in SUBSET Scheduler!Time, NEW t \in S,
         Cardinality({u \in S : u > t}) >= Cap
  PROVE  LET R == {r \in S : Cardinality({u \in S : u > r}) < Cap}
         IN  Cardinality(R) >= Cap /\ \A r \in R : t < r
<1> DEFINE After(r) == {u \in S : u > r}
           R == {r \in S : Cardinality(After(r)) < Cap}
<1>0. S \subseteq Nat /\ Cap \in Nat /\ MaxTime \in Nat
  BY DEF Scheduler!ParametersFit, Scheduler!Time
<1>1. ASSUME NEW r \in R PROVE t < r
  <2> SUFFICES ASSUME ~(t < r) PROVE FALSE
    OBVIOUS
  <2>1. After(t) \subseteq After(r) /\ After(r) \in SUBSET Scheduler!Time
    <3>1. r \in Nat /\ t \in Nat /\ r <= t
      BY <1>0
    <3>2. ASSUME NEW u \in S, u > t PROVE u > r
      <4>1. u \in Nat
        BY <1>0
      <4> QED BY <3>1, <3>2, <4>1
    <3> QED BY <3>2
  <2>2. Cardinality(After(r)) >= Cap
    BY <2>1, MoreTimes
  <2>3. Cardinality(After(r)) \in Nat
    BY <2>1, TimesAreFinite
  <2> QED BY <1>0, <2>2, <2>3
<1>2. Cardinality(R) >= Cap
  <2> DEFINE D == {MaxTime - s : s \in S \ R}
  <2>1. t \in S \ R
    <3>1. Cardinality(After(t)) \in Nat
      BY TimesAreFinite
    <3> QED BY <1>0, <3>1
  <2>2. D \subseteq Nat /\ D # {}
    <3>1. \A s \in S : s \in 0 .. MaxTime
      BY DEF Scheduler!Time
    <3> HIDE DEF R
    <3> QED BY <1>0, <2>1, <3>1
  <2>3. PICK d \in D : \A e \in D : d <= e
    <3> HIDE DEF D
    <3> QED BY <2>2, NumbersHaveMin
  <2>4. PICK s \in S \ R : d = MaxTime - s
    BY <2>3
  <2>5. ASSUME NEW u \in After(s) PROVE u \in R
    <3> SUFFICES ASSUME u \notin R PROVE FALSE
      OBVIOUS
    <3>1. MaxTime - s <= MaxTime - u
      BY <2>3, <2>4
    <3> QED BY <1>0, <3>1
  <2>6. Cardinality(After(s)) >= Cap
    <3>1. Cardinality(After(s)) \in Nat
      BY TimesAreFinite
    <3> QED BY <1>0, <2>4, <3>1
  <2>7. R \in SUBSET Scheduler!Time /\ After(s) \in SUBSET R
    BY <2>5
  <2> QED BY <2>6, <2>7, MoreTimes
<1> QED BY <1>1, <1>2

-----------------------------------------------------------------------------
(* What a tick begins with                                                 *)

LEMMA OccurrencesAreTimes ==
  \A a \in Automations : Scheduler!Occurrences(a) \subseteq Scheduler!Time
BY DEF Scheduler!Occurrences

LEMMA RecentEffect ==
  ASSUME Scheduler!ParametersFit, NEW a \in Automations, NEW from \in Int,
         NEW at \in Scheduler!Time
  PROVE  LET R == Scheduler!Recent(a, from, at)
         IN  /\ R \subseteq Scheduler!Occurrences(a) /\ \A t \in R : from < t /\ t <= at
             /\ \A t \in Scheduler!Occurrences(a) : t <= at =>
                  \/ t \in R \/ t <= from \/ at + 1 - t >= Lookback
                  \/ Cardinality(R) >= Cap /\ \A u \in R : t < u
<1> DEFINE start == Scheduler!Max({from, at + 1 - Lookback})
           window == {t \in Scheduler!Occurrences(a) : start < t /\ t < at + 1}
           R == {t \in window : Cardinality({u \in window : u > t}) < Cap}
<1>0. Scheduler!Occurrences(a) \subseteq Nat /\ at \in Nat /\ Lookback \in Nat /\ Cap \in Nat
  BY OccurrencesAreTimes DEF Scheduler!ParametersFit, Scheduler!Time
<1>1. R = Scheduler!Recent(a, from, at)
  BY SameCardinality DEF Scheduler!Recent
<1>2. /\ start \in Int /\ start \in {from, at + 1 - Lookback}
      /\ from <= start /\ at + 1 - Lookback <= start
  <2>1. at + 1 - Lookback \in Int
    BY <1>0
  <2> QED BY <2>1, MaxOfTwo
<1> HIDE DEF start
<1>3. window \in SUBSET Scheduler!Time
  BY OccurrencesAreTimes
<1>4. R \subseteq Scheduler!Occurrences(a) /\ \A t \in R : from < t /\ t <= at
  BY <1>0, <1>2
<1>5. ASSUME NEW t \in Scheduler!Occurrences(a), t <= at, t \notin R, ~(t <= from),
             ~(at + 1 - t >= Lookback)
      PROVE  Cardinality(R) >= Cap /\ \A u \in R : t < u
  <2>1. t \in window
    BY <1>0, <1>2, <1>5
  <2>2. Cardinality({u \in window : u > t}) \in Nat
    <3>1. {u \in window : u > t} \in SUBSET Scheduler!Time
      BY <1>3
    <3> QED BY <3>1, TimesAreFinite
  <2>3. Cardinality({u \in window : u > t}) >= Cap
    BY <1>0, <1>5, <2>1, <2>2
  <2> HIDE DEF window
  <2> QED BY <1>3, <2>1, <2>3, LastOnes
<1> HIDE DEF R
<1> QED BY <1>1, <1>4, <1>5

LEMMA EmitsEffect ==
  ASSUME Scheduler!ParametersFit, Scheduler!TypeOK, ClockIsAhead, NEW a \in Automations,
         NEW last \in Scheduler!Time \cup {Scheduler!None}, last <= now
  PROVE  LET E == Scheduler!Emits(a, last, now)
             W == {d.at : d \in E}
         IN  /\ E \subseteq [of : Automations, at : Scheduler!Time, run : BOOLEAN]
             /\ \A d \in E : /\ d.of = a /\ d.at \in Scheduler!Occurrences(a) /\ enabled[a]
                             /\ mark[a] < d.at /\ d.at <= now
                             /\ d.run /\ a \notin RunLatest => now - d.at < GapMin
             /\ \A d, e \in E : d.at = e.at => d = e
             /\ enabled[a] => \A t \in Scheduler!Occurrences(a) : mark[a] < t /\ t <= now =>
                  \/ t \in W \/ t <= Scheduler!Since(last, now) \/ LongAgo(t)
                  \/ Cardinality(W) >= Cap /\ \A u \in W : t < u
<1> DEFINE R == Scheduler!Recent(a, Scheduler!From(a, last, now), now)
           window == IF enabled[a] THEN R ELSE {}
           gap == last # Scheduler!None /\ now - last >= GapMin
           Runs(t) == /\ \A u \in window : u <= t
                      /\ ~gap \/ a \in RunLatest \/ now - t < Minute
           E == {[of |-> a, at |-> t, run |-> Runs(t)] : t \in window}
<1>0. /\ now \in Scheduler!Time /\ now \in Nat /\ mark[a] \in Nat /\ enabled[a] \in BOOLEAN
      /\ Minute \in Nat \ {0} /\ GapMin \in Nat /\ Minute <= GapMin /\ last \in Int
  BY DEF Scheduler!TypeOK, Scheduler!ParametersFit, Scheduler!Time,
       Scheduler!None
<1>1. E = Scheduler!Emits(a, last, now)
  BY DEF Scheduler!Emits
<1>2. /\ Scheduler!Since(last, now) \in Int
      /\ last = Scheduler!None => now - Scheduler!Since(last, now) <= Minute
      /\ last # Scheduler!None => Scheduler!Since(last, now) = last
  <2>1. now % Minute \in Nat /\ now % Minute < Minute
    BY <1>0, ModBound
  <2> QED BY <1>0, <2>1 DEF Scheduler!Since
<1>3. /\ Scheduler!From(a, last, now) \in Int
      /\ Scheduler!From(a, last, now) \in {Scheduler!Since(last, now), mark[a]}
      /\ Scheduler!Since(last, now) <= Scheduler!From(a, last, now)
      /\ mark[a] <= Scheduler!From(a, last, now)
  <2>1. mark[a] \in Int
    BY <1>0
  <2> QED BY <1>2, <2>1, MaxOfTwo DEF Scheduler!From
<1>4. /\ R \subseteq Scheduler!Occurrences(a) /\ \A t \in R : Scheduler!From(a, last, now) < t
           /\ t <= now
      /\ \A t \in Scheduler!Occurrences(a) : t <= now =>
           \/ t \in R \/ t <= Scheduler!From(a, last, now) \/ now + 1 - t >= Lookback
           \/ Cardinality(R) >= Cap /\ \A u \in R : t < u
  BY <1>0, <1>3, RecentEffect
<1>5. window \subseteq Scheduler!Occurrences(a)
        /\ Scheduler!Occurrences(a) \subseteq Scheduler!Time /\ Scheduler!Time \subseteq Nat
  BY <1>4, OccurrencesAreTimes DEF Scheduler!Time
<1> HIDE DEF R
<1>6. \A t \in window : /\ t \in Scheduler!Occurrences(a) /\ t \in Scheduler!Time /\ enabled[a]
                        /\ mark[a] < t /\ t <= now /\ Scheduler!Since(last, now) < t
  <2> SUFFICES ASSUME NEW t \in window
               PROVE mark[a] < t /\ t <= now /\ Scheduler!Since(last, now) < t
    BY <1>5
  <2>1. Scheduler!From(a, last, now) < t /\ t <= now /\ t \in Nat
    BY <1>4, <1>5
  <2> QED BY <1>0, <1>2, <1>3, <2>1
<1>7. \A t \in window : Runs(t) /\ a \notin RunLatest => now - t < GapMin
  <2> SUFFICES ASSUME NEW t \in window, ~gap \/ now - t < Minute
               PROVE now - t < GapMin
    OBVIOUS
  <2>1. t \in Nat /\ Scheduler!Since(last, now) < t
    BY <1>5, <1>6
  <2>2. CASE now - t < Minute
    BY <1>0, <2>1, <2>2
  <2>3. CASE last = Scheduler!None
    BY <1>0, <1>2, <2>1, <2>3
  <2>4. CASE last # Scheduler!None /\ ~(now - last >= GapMin)
    BY <1>0, <1>2, <2>1, <2>4
  <2> QED BY <2>2, <2>3, <2>4
<1>8. \A t \in window : Runs(t) \in BOOLEAN
  OBVIOUS
<1> HIDE DEF Runs
<1>9. \A d \in E : \E t \in window : d = [of |-> a, at |-> t, run |-> Runs(t)]
  OBVIOUS
<1>10. {d.at : d \in E} = window
  <2>1. ASSUME NEW t \in window PROVE t \in {d.at : d \in E}
    <3>1. [of |-> a, at |-> t, run |-> Runs(t)] \in E
      OBVIOUS
    <3> QED BY <3>1
  <2> QED BY <1>9, <2>1
<1>11. enabled[a] => \A t \in Scheduler!Occurrences(a) : mark[a] < t /\ t <= now =>
         \/ t \in window \/ t <= Scheduler!Since(last, now) \/ LongAgo(t)
         \/ Cardinality(window) >= Cap /\ \A u \in window : t < u
  <2> SUFFICES ASSUME enabled[a], NEW t \in Scheduler!Occurrences(a), mark[a] < t, t <= now,
                      ~(t <= Scheduler!Since(last, now))
               PROVE  \/ t \in R \/ now + 1 - t >= Lookback
                      \/ Cardinality(R) >= Cap /\ \A u \in R : t < u
    BY DEF LongAgo
  <2>1. ~(t <= Scheduler!From(a, last, now))
    <3>1. t \in Nat
      BY <1>5
    <3> QED BY <1>0, <1>2, <1>3, <3>1
  <2> QED BY <1>4, <2>1
<1>12. E \subseteq [of : Automations, at : Scheduler!Time, run : BOOLEAN]
  BY <1>6, <1>8, <1>9
<1>13. \A d \in E : /\ d.of = a /\ d.at \in Scheduler!Occurrences(a) /\ enabled[a]
                    /\ mark[a] < d.at /\ d.at <= now
                    /\ d.run /\ a \notin RunLatest => now - d.at < GapMin
  BY <1>6, <1>7, <1>9
<1>14. \A d, e \in E : d.at = e.at => d = e
  BY <1>9
<1> HIDE DEF E, window
<1> QED BY <1>1, <1>10, <1>11, <1>12, <1>13, <1>14

LEMMA NextTickIsATime ==
  ASSUME Scheduler!ParametersFit, now \in Scheduler!Time, NEW wanted \in SUBSET Automations
  PROVE  Scheduler!NextTick(wanted) \in 0 .. MaxTime + Minute
<1> DEFINE next == now - (now % Minute) + Minute
           times == {next} \cup {o \in UNION {Scheduler!Occurrences(a) : a \in wanted} : o > now}
<1>0. /\ now \in Nat /\ MaxTime \in Nat /\ now <= MaxTime /\ Minute \in Nat \ {0}
      /\ Scheduler!Time \subseteq Nat /\ \A t \in Scheduler!Time : t <= MaxTime
  BY DEF Scheduler!ParametersFit, Scheduler!Time
<1>1. next \in Nat /\ next <= MaxTime + Minute
  <2>1. now % Minute \in Nat /\ now % Minute <= now
    BY <1>0, ModBound
  <2> QED BY <1>0, <2>1
<1> HIDE DEF next
<1>2. ASSUME NEW o \in times PROVE o \in Nat /\ o <= MaxTime + Minute
  <2>1. o = next \/ o \in Scheduler!Time
    BY OccurrencesAreTimes
  <2>2. CASE o = next
    BY <1>1, <2>2
  <2>3. CASE o \in Scheduler!Time
    BY <1>0, <2>3
  <2> QED BY <2>1, <2>2, <2>3
<1>3. times # {}
  OBVIOUS
<1>4. Scheduler!NextTick(wanted) = Scheduler!Min(times)
  BY DEF Scheduler!NextTick, next
<1> HIDE DEF times
<1>5. \E x \in times : \A y \in times : x <= y
  BY <1>2, <1>3, NumbersHaveMin
<1>6. Scheduler!Min(times) \in times
  BY <1>5 DEF Scheduler!Min
<1> QED BY <1>0, <1>2, <1>4, <1>6

LEMMA OwedEffect ==
  ASSUME Scheduler!ParametersFit, Scheduler!TypeOK, ClockIsAhead, NEW a \in Automations,
         NEW last \in Scheduler!Time \cup {Scheduler!None}, last <= now
  PROVE  /\ Scheduler!Owed(a, last) \in Scheduler!Time /\ owed[a] <= Scheduler!Owed(a, last)
         /\ Scheduler!Owed(a, last) <= now
         /\ Scheduler!Since(last, now) = last
              \/ Scheduler!Since(last, now) <= Scheduler!Owed(a, last)
<1>0. /\ now \in Nat /\ now <= MaxTime /\ owed[a] \in Nat /\ owed[a] <= now
      /\ Minute \in Nat \ {0} /\ MaxTime \in Nat /\ owed[a] \in Scheduler!Time
  BY DEF Scheduler!TypeOK, ClockIsAhead, Scheduler!ParametersFit,
       Scheduler!Time
<1>1. CASE last # Scheduler!None
  BY <1>0, <1>1 DEF Scheduler!Owed, Scheduler!Since
<1>2. CASE last = Scheduler!None
  <2>1. now % Minute \in Nat
    BY <1>0, ModBound
  <2>2. Scheduler!Since(last, now) \in Int /\ Scheduler!Since(last, now) <= now
    BY <1>0, <1>2, <2>1 DEF Scheduler!Since
  <2>3. Scheduler!Owed(a, last) = Scheduler!Max({owed[a], Scheduler!Since(last, now)})
    BY <1>2 DEF Scheduler!Owed
  <2>4. owed[a] \in Int
    BY <1>0
  <2>5. /\ Scheduler!Owed(a, last) \in {owed[a], Scheduler!Since(last, now)}
        /\ owed[a] <= Scheduler!Owed(a, last)
        /\ Scheduler!Since(last, now) <= Scheduler!Owed(a, last)
    BY <2>2, <2>3, <2>4, MaxOfTwo
  <2>6. Scheduler!Owed(a, last) \in Int /\ Scheduler!Owed(a, last) <= now
    BY <1>0, <2>2, <2>5
  <2>7. Scheduler!Owed(a, last) \in Scheduler!Time
    BY <1>0, <2>5, <2>6 DEF Scheduler!Time
  <2> QED BY <2>5, <2>6, <2>7
<1> QED BY <1>1, <1>2

(* The sets of times the invariant counts are finite, and times numbers.   *)
LEMMA TimesAreNumbers ==
  ASSUME Scheduler!ParametersFit, Scheduler!TypeOK
  PROVE  /\ now \in Nat /\ now <= MaxTime /\ MaxTime \in Nat /\ Scheduler!Time \subseteq Nat
         /\ Cap \in Nat \ {0} /\ Lookback \in Nat /\ GapMin \in Nat /\ MaxFailures \in Nat
         /\ lastTick \in Int /\ heartbeat \in Int /\ upsets \in Nat
         /\ \A a \in Automations : /\ mark[a] \in Nat /\ owed[a] \in Nat
                                  /\ Scheduler!Occurrences(a) \subseteq Scheduler!Time
         /\ \A d \in todo : d.at \in Nat /\ d.at \in Scheduler!Time /\ d.of \in Automations
BY OccurrencesAreTimes DEF Scheduler!ParametersFit, Scheduler!TypeOK,
     Scheduler!Time, Scheduler!None

-----------------------------------------------------------------------------
(* The steps                                                               *)

LEMMA SchedulerStarts ==
  ASSUME Scheduler!ParametersFit, Scheduler!Init PROVE SchedulerInv
<1>0. /\ 0 \in Scheduler!Time /\ MaxTime \in Nat /\ Minute \in Nat /\ MaxFailures \in Nat
      /\ Scheduler!Time \subseteq Nat
  BY DEF Scheduler!ParametersFit, Scheduler!Time
<1>1. Scheduler!TypeOK
  <2>1. decisions \in [Automations -> [Scheduler!Time -> Nat]]
    BY DEF Scheduler!Init
  <2>2. mark \in [Automations -> Scheduler!Time] /\ owed \in [Automations -> Scheduler!Time]
    BY <1>0 DEF Scheduler!Init
  <2>3. nextAt \in 0 .. MaxTime + Minute /\ upsets \in 0 .. MaxFailures
    BY <1>0 DEF Scheduler!Init
  <2> QED BY <1>0, <2>1, <2>2, <2>3 DEF Scheduler!Init, Scheduler!TypeOK
<1>2. TickIsRunning /\ RunsAreRecent /\ Scheduler!NoStaleRun
  BY DEF Scheduler!Init, TickIsRunning, RunsAreRecent, Scheduler!NoStaleRun
<1>3. ClockIsAhead
  BY DEF Scheduler!Init, ClockIsAhead, Scheduler!None
<1>4. \A a \in Automations, t \in Scheduler!Time : decisions[a][t] = 0
  BY DEF Scheduler!Init
<1>5. MarkDivides /\ Scheduler!DecidedOnce
  BY <1>4 DEF Scheduler!Init, MarkDivides, Scheduler!DecidedOnce
<1>6. TakenAsDone
  <2> SUFFICES ASSUME NEW a \in Automations, NEW t \in Scheduler!Occurrences(a), owed[a] < t,
                      t <= lastTick \/ t <= heartbeat
               PROVE  FALSE
    BY DEF TakenAsDone
  <2>1. t \in Nat
    BY <1>0, OccurrencesAreTimes
  <2> QED BY <2>1 DEF Scheduler!Init, Scheduler!None
<1>7. BelowMark
  <2> SUFFICES ASSUME NEW a \in Automations, NEW t \in Scheduler!Occurrences(a), owed[a] < t,
                      t <= mark[a]
               PROVE  FALSE
    BY DEF BelowMark
  <2>1. t \in Nat
    BY <1>0, OccurrencesAreTimes
  <2> QED BY <2>1 DEF Scheduler!Init
<1>8. WindowKept
  BY DEF Scheduler!Init, WindowKept
<1> QED BY <1>1, <1>2, <1>3, <1>5, <1>6, <1>7, <1>8 DEF SchedulerInv

LEMMA AdvanceKeeps ==
  ASSUME Scheduler!ParametersFit, SchedulerInv, Scheduler!Advance
  PROVE SchedulerInv'
<1> USE DEF Scheduler!Advance, Scheduler!memory, Scheduler!files,
     Scheduler!tick, Scheduler!history
<1>0. Scheduler!TypeOK /\ TickIsRunning /\ ClockIsAhead
  BY DEF SchedulerInv
<1>1. Scheduler!TypeOK'
  <2>1. now' \in Scheduler!Time
    BY <1>0, TimesAreNumbers DEF Scheduler!Time
  <2> QED BY <1>0, <2>1 DEF Scheduler!TypeOK
<1>2. todo = {} /\ todo' = {} /\ now' = now + 1
  BY <1>0 DEF TickIsRunning
<1>3. TickIsRunning' /\ RunsAreRecent' /\ Scheduler!NoStaleRun' /\ MarkDivides'
        /\ Scheduler!DecidedOnce'
  BY <1>2 DEF SchedulerInv, TickIsRunning, RunsAreRecent,
       Scheduler!NoStaleRun, MarkDivides, Scheduler!DecidedOnce
<1>4. ClockIsAhead'
  BY <1>0, <1>2, TimesAreNumbers DEF ClockIsAhead
<1>5. \A a \in Automations : \A t \in Scheduler!Occurrences(a) : LongAgo(t) => LongAgo(t)'
  BY <1>0, TimesAreNumbers DEF LongAgo
<1>6. \A a \in Automations : \A t \in Scheduler!Occurrences(a) : Excused(a, t) => Excused(a, t)'
  BY <1>5 DEF Excused, Done
<1>7. TakenAsDone'
  BY <1>6 DEF SchedulerInv, TakenAsDone
<1>8. BelowMark'
  <2> SUFFICES ASSUME NEW a \in Automations, NEW t \in Scheduler!Occurrences(a),
                      Cardinality(Later(a, t)) >= Cap
               PROVE  Cardinality(Later(a, t)') >= Cap
    BY <1>5 DEF SchedulerInv, BelowMark, Done
  <2>1. Later(a, t)' \in SUBSET Scheduler!Time /\ Later(a, t) \in SUBSET Later(a, t)'
    BY <1>0, TimesAreNumbers DEF Later, Done
  <2> QED BY <2>1, MoreTimes
<1>9. WindowKept'
  BY DEF WindowKept
<1> QED BY <1>1, <1>3, <1>4, <1>7, <1>8, <1>9 DEF SchedulerInv

LEMMA CrashKeeps ==
  ASSUME Scheduler!ParametersFit, SchedulerInv, Scheduler!Crash
  PROVE SchedulerInv'
<1> USE DEF Scheduler!Crash, Scheduler!memory, Scheduler!files,
     Scheduler!tick, Scheduler!history
<1>0. Scheduler!TypeOK /\ TickIsRunning /\ ClockIsAhead
  BY DEF SchedulerInv
<1>1. Scheduler!TypeOK'
  <2>1. upsets' \in 0 .. MaxFailures
    BY <1>0, TimesAreNumbers
  <2> QED BY <1>0, <2>1 DEF Scheduler!TypeOK
<1>3. TickIsRunning' /\ RunsAreRecent' /\ Scheduler!NoStaleRun' /\ MarkDivides'
        /\ Scheduler!DecidedOnce'
  BY DEF SchedulerInv, TickIsRunning, RunsAreRecent, Scheduler!NoStaleRun,
       MarkDivides, Scheduler!DecidedOnce
<1>4. ClockIsAhead'
  BY <1>0, TimesAreNumbers DEF ClockIsAhead, Scheduler!None
<1>7. TakenAsDone'
  <2>1. \A a \in Automations : \A t \in Scheduler!Occurrences(a) : ~(t <= lastTick')
    BY <1>0, TimesAreNumbers DEF Scheduler!None
  <2>2. \A a \in Automations : \A t \in Scheduler!Occurrences(a) : Excused(a, t)
          => Excused(a, t)'
    BY DEF Excused, Done, LongAgo
  <2> QED BY <2>1, <2>2 DEF SchedulerInv, TakenAsDone
<1>8. BelowMark'
  BY DEF SchedulerInv, BelowMark, Later, Done, LongAgo
<1>9. WindowKept'
  BY DEF WindowKept
<1> QED BY <1>1, <1>3, <1>4, <1>7, <1>8, <1>9 DEF SchedulerInv

(* The timer and the boot begin a tick alike. *)
LEMMA BeginKeeps ==
  ASSUME Scheduler!ParametersFit, SchedulerInv, NEW last \in {lastTick, heartbeat},
         Scheduler!Begin(last),
         owed' = [a \in Automations |-> Scheduler!Owed(a, last)], up', up' \in BOOLEAN,
         UNCHANGED <<now, nextAt, Scheduler!files, decisions, ran, upsets>>
  PROVE  SchedulerInv'
<1> USE DEF Scheduler!files
<1>0. Scheduler!TypeOK /\ ClockIsAhead
  BY DEF SchedulerInv
<1>1. last \in Scheduler!Time \cup {Scheduler!None} /\ last <= now /\ last \in Int
  BY <1>0, TimesAreNumbers DEF Scheduler!TypeOK, ClockIsAhead
<1>2. /\ lastTick' = last /\ ticking' = TRUE /\ healthy' = TRUE
      /\ todo' = UNION {Scheduler!Emits(a, last, now) : a \in Automations}
  BY DEF Scheduler!Begin
<1>3. \A a \in Automations : /\ owed'[a] = Scheduler!Owed(a, last) /\ owed'[a] \in Scheduler!Time
                             /\ owed[a] <= owed'[a] /\ owed'[a] <= now
                             /\ Scheduler!Since(last, now) = last
                                  \/ Scheduler!Since(last, now) <= owed'[a]
  BY <1>0, <1>1, OwedEffect
<1>4. \A d \in todo' : \E a \in Automations : d \in Scheduler!Emits(a, last, now)
  BY <1>2
<1>5. ASSUME NEW d \in todo'
      PROVE  /\ d \in Scheduler!Emits(d.of, last, now) /\ d.of \in Automations
             /\ d \in [of : Automations, at : Scheduler!Time, run : BOOLEAN]
             /\ d.at \in Scheduler!Occurrences(d.of) /\ enabled[d.of]
             /\ mark[d.of] < d.at /\ d.at <= now
             /\ d.run /\ d.of \notin RunLatest => now - d.at < GapMin
  <2>1. PICK a \in Automations : d \in Scheduler!Emits(a, last, now)
    BY <1>4
  <2>2. /\ Scheduler!Emits(a, last, now) \subseteq [of : Automations, at : Scheduler!Time,
                                                    run : BOOLEAN]
        /\ \A e \in Scheduler!Emits(a, last, now) :
             /\ e.of = a /\ e.at \in Scheduler!Occurrences(a) /\ enabled[a]
             /\ mark[a] < e.at /\ e.at <= now
             /\ e.run /\ a \notin RunLatest => now - e.at < GapMin
    BY <1>0, <1>1, EmitsEffect
  <2> QED BY <2>1, <2>2
<1>6. \A d, e \in todo' : d.of = e.of /\ d.at = e.at => d = e
  <2> SUFFICES ASSUME NEW d \in todo', NEW e \in todo', d.of = e.of, d.at = e.at
               PROVE  d = e
    OBVIOUS
  <2>1. d \in Scheduler!Emits(d.of, last, now) /\ e \in Scheduler!Emits(d.of, last, now)
          /\ d.of \in Automations
    BY <1>5
  <2>2. \A x, y \in Scheduler!Emits(d.of, last, now) : x.at = y.at => x = y
    BY <1>0, <1>1, <2>1, EmitsEffect
  <2> QED BY <2>1, <2>2
<1>7. Scheduler!TypeOK'
  <2>1. todo' \subseteq [of : Automations, at : Scheduler!Time, run : BOOLEAN]
    BY <1>5
  <2>2. owed' \in [Automations -> Scheduler!Time]
    BY <1>3
  <2> QED BY <1>0, <1>1, <1>2, <2>1, <2>2 DEF Scheduler!TypeOK
<1>8. TickIsRunning'
  BY <1>2 DEF TickIsRunning
<1>9. ClockIsAhead'
  BY <1>0, <1>1, <1>2, <1>3, <1>5 DEF ClockIsAhead
<1>10. MarkDivides'
  BY <1>5, <1>6 DEF SchedulerInv, MarkDivides, Scheduler!Occurrences
<1>11. RunsAreRecent' /\ Scheduler!DecidedOnce' /\ Scheduler!NoStaleRun'
  BY <1>5 DEF SchedulerInv, RunsAreRecent, Scheduler!DecidedOnce,
       Scheduler!NoStaleRun
<1>12. \A a \in Automations : \A t \in Scheduler!Occurrences(a) :
         /\ owed'[a] < t => owed[a] < t
         /\ Excused(a, t) => Excused(a, t)'
  <2>1. \A a \in Automations : owed'[a] \in Nat /\ owed[a] \in Nat
    BY <1>0, <1>3, TimesAreNumbers
  <2>2. \A a \in Automations : \A t \in Scheduler!Occurrences(a) : t \in Nat
    BY <1>0, TimesAreNumbers
  <2> QED BY <1>3, <2>1, <2>2 DEF Excused, Done, LongAgo
<1>13. TakenAsDone'
  <2> SUFFICES ASSUME NEW a \in Automations, enabled[a],
                      NEW t \in Scheduler!Occurrences(a), owed'[a] < t,
                      t <= last \/ t <= heartbeat
               PROVE  Excused(a, t)'
    BY <1>2 DEF TakenAsDone
  <2>1. t <= lastTick \/ t <= heartbeat
    OBVIOUS
  <2> QED BY <1>12, <2>1 DEF SchedulerInv, TakenAsDone
<1>14. BelowMark'
  <2> SUFFICES ASSUME NEW a \in Automations, enabled[a],
                      NEW t \in Scheduler!Occurrences(a), owed'[a] < t, t <= mark[a]
               PROVE  t \in Done(a) \/ LongAgo(t) \/ Cardinality(Later(a, t)) >= Cap
    BY DEF BelowMark, Later, Done, LongAgo
  <2> QED BY <1>12 DEF SchedulerInv, BelowMark
<1>15. WindowKept'
  <2> SUFFICES ASSUME NEW a \in Automations, enabled[a],
                      NEW t \in Scheduler!Occurrences(a), mark[a] < t, t <= now
               PROVE  \/ t \in Left(a)' \/ t <= last \/ t <= owed'[a] \/ LongAgo(t)
                      \/ Cardinality(Left(a)') >= Cap /\ \A u \in Left(a)' : t < u
    BY <1>2 DEF WindowKept, LongAgo
  <2>1. {d \in todo' : d.of = a} = Scheduler!Emits(a, last, now)
    <3>1. \A d \in Scheduler!Emits(a, last, now) : d.of = a
      BY <1>0, <1>1, EmitsEffect
    <3> QED BY <1>2, <1>5, <3>1
  <2>2. Left(a)' = {d.at : d \in Scheduler!Emits(a, last, now)}
    BY <2>1 DEF Left
  <2>3. \/ t \in Left(a)' \/ t <= Scheduler!Since(last, now) \/ LongAgo(t)
        \/ Cardinality(Left(a)') >= Cap /\ \A u \in Left(a)' : t < u
    BY <1>0, <1>1, <2>2, EmitsEffect
  <2>4. t <= Scheduler!Since(last, now) => t <= last \/ t <= owed'[a]
    <3>1. CASE Scheduler!Since(last, now) = last
      BY <3>1
    <3>2. CASE Scheduler!Since(last, now) # last
      <4>1. Scheduler!Since(last, now) \in Int /\ Scheduler!Since(last, now) <= owed'[a]
            /\ owed'[a] \in Nat /\ t \in Nat
        <5>1. now % Minute \in Nat
          BY <1>0, ModBound, TimesAreNumbers DEF Scheduler!ParametersFit
        <5>2. Scheduler!Since(last, now) \in Int
          BY <1>0, <1>1, <5>1, TimesAreNumbers DEF Scheduler!Since,
               Scheduler!ParametersFit
        <5> QED BY <1>0, <1>3, <3>2, <5>2, TimesAreNumbers DEF Scheduler!Time
      <4> QED BY <4>1
    <3> QED BY <3>1, <3>2
  <2> QED BY <2>3, <2>4
<1> QED BY <1>7, <1>8, <1>9, <1>10, <1>11, <1>13, <1>14, <1>15 DEF SchedulerInv

LEMMA WriteFailsKeeps ==
  ASSUME Scheduler!ParametersFit, SchedulerInv, NEW d \in todo, Scheduler!WriteFails(d)
  PROVE SchedulerInv'
<1> USE DEF Scheduler!WriteFails, Scheduler!memory, Scheduler!files,
     Scheduler!history
<1>0. Scheduler!TypeOK /\ TickIsRunning /\ ClockIsAhead
  BY DEF SchedulerInv
<1>1. todo' = {e \in todo : e.of # d.of} /\ todo' \subseteq todo
  OBVIOUS
<1>2. Scheduler!TypeOK'
  <2>1. upsets' \in 0 .. MaxFailures
    BY <1>0, TimesAreNumbers
  <2> QED BY <1>0, <1>1, <2>1 DEF Scheduler!TypeOK
<1>3. TickIsRunning' /\ ClockIsAhead'
  BY <1>0, <1>1 DEF TickIsRunning, ClockIsAhead
<1>4. MarkDivides' /\ RunsAreRecent' /\ Scheduler!DecidedOnce' /\ Scheduler!NoStaleRun'
  BY <1>1 DEF SchedulerInv, MarkDivides, RunsAreRecent, Scheduler!DecidedOnce,
       Scheduler!NoStaleRun, Scheduler!Occurrences
<1>5. TakenAsDone'
  BY DEF SchedulerInv, TakenAsDone, Excused, Done, LongAgo
<1>6. BelowMark'
  BY DEF SchedulerInv, BelowMark, Later, Done, LongAgo
<1>7. WindowKept'
  <2> SUFFICES ASSUME NEW a \in Automations, enabled[a], ticking, Left(a)' # {},
                      NEW t \in Scheduler!Occurrences(a), mark[a] < t, t <= now
               PROVE  \/ t \in Left(a)' \/ t <= lastTick \/ t <= owed[a] \/ LongAgo(t)
                      \/ Cardinality(Left(a)') >= Cap /\ \A u \in Left(a)' : t < u
    BY DEF WindowKept, LongAgo
  <2>1. a # d.of
    BY <1>1 DEF Left
  <2>2. {e \in todo' : e.of = a} = {e \in todo : e.of = a}
    BY <1>1, <2>1
  <2>3. Left(a)' = Left(a)
    BY <2>2 DEF Left
  <2> QED BY <2>3 DEF SchedulerInv, WindowKept
<1> QED BY <1>2, <1>3, <1>4, <1>5, <1>6, <1>7 DEF SchedulerInv

LEMMA EndTickKeeps ==
  ASSUME Scheduler!ParametersFit, SchedulerInv, Scheduler!EndTick
  PROVE SchedulerInv'
<1>0. Scheduler!TypeOK /\ TickIsRunning /\ ClockIsAhead
  BY DEF SchedulerInv
<1>1. /\ ticking /\ todo = {} /\ ticking' = FALSE /\ upsets' \in 0 .. MaxFailures
      /\ lastTick' = IF healthy THEN now ELSE lastTick
      /\ heartbeat' = heartbeat \/ (healthy /\ heartbeat' = now)
      /\ nextAt' = Scheduler!NextTick(Scheduler!Enabled)
      /\ UNCHANGED <<now, up, mark, enabled, todo, healthy, decisions, ran, owed>>
  <2>1. upsets \in 0 .. MaxFailures
    BY <1>0 DEF Scheduler!TypeOK
  <2>2. upsets' \in 0 .. MaxFailures
    BY <1>0, <2>1, TimesAreNumbers DEF Scheduler!EndTick
  <2> QED BY <2>2 DEF Scheduler!EndTick, Scheduler!history
<1>2. Scheduler!TypeOK'
  <2>1. nextAt' \in 0 .. MaxTime + Minute
    BY <1>0, <1>1, NextTickIsATime DEF Scheduler!TypeOK, Scheduler!Enabled
  <2> QED BY <1>0, <1>1, <2>1 DEF Scheduler!TypeOK
<1>3. TickIsRunning' /\ RunsAreRecent' /\ MarkDivides' /\ Scheduler!DecidedOnce'
        /\ Scheduler!NoStaleRun'
  BY <1>1 DEF SchedulerInv, TickIsRunning, RunsAreRecent, MarkDivides,
       Scheduler!DecidedOnce, Scheduler!NoStaleRun,
              Scheduler!Occurrences
<1>4. ClockIsAhead'
  BY <1>0, <1>1, TimesAreNumbers DEF ClockIsAhead
<1>5. TakenAsDone'
  <2> SUFFICES ASSUME NEW a \in Automations, enabled[a],
                      NEW t \in Scheduler!Occurrences(a), owed[a] < t,
                      t <= lastTick' \/ t <= heartbeat'
               PROVE  Excused(a, t)
    BY <1>1 DEF TakenAsDone, Excused, Done, LongAgo
  <2>0. t \in Nat /\ now \in Nat
    BY <1>0, TimesAreNumbers
  <2>1. CASE t <= lastTick \/ t <= heartbeat
    BY <2>1 DEF SchedulerInv, TakenAsDone
  <2>2. CASE ~(t <= lastTick \/ t <= heartbeat)
    <3>1. healthy /\ t <= now
      BY <1>1, <2>2
    (* Nothing is left, so what is above the watermark was seen before. *)
    <3>2. ASSUME NEW u \in Scheduler!Occurrences(a), t <= u, u <= now, mark[a] < u
          PROVE  Excused(a, t)
      <4>0. /\ u \in Nat /\ owed[a] \in Nat /\ lastTick \in Int
            /\ Lookback \in Nat /\ Cap \in Nat \ {0}
        BY <1>0, TimesAreNumbers
      <4>1. Left(a) = {}
        BY <1>1 DEF Left
      <4>2. Cardinality(Left(a)) = 0
        BY <4>1, FS_EmptySet
      <4>3. u <= lastTick \/ u <= owed[a] \/ LongAgo(u)
        <5>1. \/ u \in Left(a) \/ u <= lastTick \/ u <= owed[a] \/ LongAgo(u)
              \/ Cardinality(Left(a)) >= Cap
          BY <1>1, <3>1, <3>2 DEF SchedulerInv, WindowKept
        <5>2. ~(Cardinality(Left(a)) >= Cap)
          BY <4>0, <4>2
        <5> QED BY <4>1, <5>1, <5>2
      <4>4. LongAgo(u) => LongAgo(t)
        BY <2>0, <3>2, <4>0 DEF LongAgo
      <4>5. ~(u <= owed[a]) /\ ~(u <= lastTick)
        BY <2>0, <2>2, <3>2, <4>0
      <4> QED BY <4>3, <4>4, <4>5 DEF Excused
    <3>3. CASE mark[a] < t
      BY <2>0, <3>1, <3>2, <3>3
    <3>4. CASE ~(mark[a] < t)
      <4>1. t <= mark[a]
        BY <1>0, <2>0, <3>4, TimesAreNumbers
      <4>2. t \in Done(a) \/ LongAgo(t) \/ Cardinality(Later(a, t)) >= Cap
        BY <4>1 DEF SchedulerInv, BelowMark
      <4>3. CASE t \in Done(a) \/ LongAgo(t)
        BY <4>3 DEF Excused
      <4>4. CASE \E u \in Later(a, t) : mark[a] < u
        <5>1. PICK u \in Later(a, t) : mark[a] < u
          BY <4>4
        <5>2. u \in Scheduler!Occurrences(a) /\ t < u /\ u <= now /\ u \in Nat
          BY <1>0, TimesAreNumbers DEF Later
        <5> QED BY <2>0, <3>2, <5>1, <5>2
      <4>5. CASE Cardinality(Later(a, t)) >= Cap /\ ~\E u \in Later(a, t) : mark[a] < u
        <5>1. Later(a, t) \subseteq {u \in Scheduler!Occurrences(a) : u > t /\ u \in Done(a)}
          <6> SUFFICES ASSUME NEW u \in Later(a, t) PROVE u > t
            BY <4>5 DEF Later
          <6>1. u \in Nat /\ t < u
            BY <1>0, TimesAreNumbers DEF Later
          <6> QED BY <2>0, <6>1
        <5>2. {u \in Scheduler!Occurrences(a) : u > t
               /\ u \in Done(a)} \in SUBSET Scheduler!Time
          BY <1>0, TimesAreNumbers
        <5> QED BY <4>5, <5>1, <5>2, MoreTimes DEF Excused
      <4> QED BY <4>2, <4>3, <4>4, <4>5
    <3> QED BY <3>3, <3>4
  <2> QED BY <2>1, <2>2
<1>6. BelowMark'
  BY <1>1 DEF SchedulerInv, BelowMark, Later, Done, LongAgo
<1>7. WindowKept'
  BY <1>1 DEF WindowKept
<1> QED BY <1>2, <1>3, <1>4, <1>5, <1>6, <1>7 DEF SchedulerInv

LEMMA EnableKeeps ==
  ASSUME Scheduler!ParametersFit, SchedulerInv, NEW a \in Automations, Scheduler!Enable(a)
  PROVE SchedulerInv'
<1>0. Scheduler!TypeOK /\ TickIsRunning /\ ClockIsAhead
  BY DEF SchedulerInv
<1>1. /\ todo = {} /\ todo' = {} /\ ticking' = FALSE /\ upsets' \in 0 .. MaxFailures
      /\ now' = now /\ now \in Scheduler!Time
      /\ nextAt' = Scheduler!NextTick(Scheduler!Enabled \cup {a})
      /\ enabled' = [enabled EXCEPT ![a] = TRUE]
      /\ mark' = [mark EXCEPT ![a] = now] /\ owed' = [owed EXCEPT ![a] = now]
      /\ UNCHANGED <<up, lastTick, heartbeat, healthy, decisions, ran>>
  <2>1. upsets \in 0 .. MaxFailures /\ now \in Scheduler!Time /\ ticking \in BOOLEAN
    BY <1>0 DEF Scheduler!TypeOK
  <2>2. upsets' \in 0 .. MaxFailures
    BY <1>0, <2>1, TimesAreNumbers DEF Scheduler!Enable
  <2> QED BY <1>0, <2>1, <2>2 DEF Scheduler!Enable, Scheduler!tick,
       TickIsRunning
<1>2. Scheduler!TypeOK'
  <2>1. nextAt' \in 0 .. MaxTime + Minute
    BY <1>1, NextTickIsATime DEF Scheduler!Enabled
  <2> QED BY <1>0, <1>1, <2>1 DEF Scheduler!TypeOK
<1>3. \A b \in Automations : /\ mark'[b] = IF b = a THEN now ELSE mark[b]
                             /\ owed'[b] = IF b = a THEN now ELSE owed[b]
                             /\ b # a => enabled'[b] = enabled[b]
  BY <1>0, <1>1 DEF Scheduler!TypeOK
<1>4. TickIsRunning' /\ RunsAreRecent' /\ Scheduler!DecidedOnce' /\ Scheduler!NoStaleRun'
  BY <1>0, <1>1 DEF SchedulerInv, TickIsRunning, RunsAreRecent,
       Scheduler!DecidedOnce, Scheduler!NoStaleRun
<1>5. ClockIsAhead'
  BY <1>0, <1>1, <1>3, TimesAreNumbers DEF ClockIsAhead
<1>6. MarkDivides'
  <2>1. ASSUME NEW b \in Automations, NEW t \in Scheduler!Time, decisions[b][t] > 0
        PROVE  t <= mark'[b]
    <3>1. t <= mark[b] /\ mark[b] <= now
      BY <1>0, <2>1 DEF SchedulerInv, MarkDivides, ClockIsAhead
    <3> QED BY <1>0, <1>3, <3>1, TimesAreNumbers
  <2> QED BY <1>1, <2>1 DEF MarkDivides
<1>7. TakenAsDone'
  <2> SUFFICES ASSUME NEW b \in Automations, enabled'[b],
                      NEW t \in Scheduler!Occurrences(b), owed'[b] < t,
                      t <= lastTick \/ t <= heartbeat
               PROVE  Excused(b, t)
    BY <1>1 DEF TakenAsDone, Excused, Done, LongAgo
  <2>1. b # a
    BY <1>0, <1>3, TimesAreNumbers DEF ClockIsAhead
  <2> QED BY <1>3, <2>1 DEF SchedulerInv, TakenAsDone
<1>8. BelowMark'
  <2> SUFFICES ASSUME NEW b \in Automations, enabled'[b],
                      NEW t \in Scheduler!Occurrences(b), owed'[b] < t, t <= mark'[b]
               PROVE  t \in Done(b)' \/ LongAgo(t)' \/ Cardinality(Later(b, t)') >= Cap
    BY DEF BelowMark
  <2>1. b # a
    BY <1>0, <1>3, TimesAreNumbers
  <2>2. t \in Done(b) \/ LongAgo(t) \/ Cardinality(Later(b, t)) >= Cap
    BY <1>3, <2>1 DEF SchedulerInv, BelowMark
  <2>3. Done(b)' = Done(b) /\ LongAgo(t)' = LongAgo(t)
    BY <1>1 DEF Done, LongAgo
  <2>4. Later(b, t)' = Later(b, t)
    BY <1>1, <1>3, <2>1, <2>3 DEF Later
  <2> QED BY <2>2, <2>3, <2>4
<1>9. WindowKept'
  BY <1>1 DEF WindowKept
<1> QED BY <1>2, <1>4, <1>5, <1>6, <1>7, <1>8, <1>9 DEF SchedulerInv

LEMMA DisableKeeps ==
  ASSUME Scheduler!ParametersFit, SchedulerInv, NEW a \in Automations, Scheduler!Disable(a)
  PROVE SchedulerInv'
<1>0. Scheduler!TypeOK /\ TickIsRunning /\ ClockIsAhead
  BY DEF SchedulerInv
<1>1. /\ todo = {} /\ todo' = {} /\ ticking' = FALSE /\ upsets' \in 0 .. MaxFailures
      /\ now \in Scheduler!Time /\ nextAt' = Scheduler!NextTick(Scheduler!Enabled \ {a})
      /\ enabled' = [enabled EXCEPT ![a] = FALSE]
      /\ UNCHANGED <<now, up, lastTick, heartbeat, mark, healthy, decisions, ran, owed>>
  <2>1. upsets \in 0 .. MaxFailures /\ now \in Scheduler!Time /\ ticking \in BOOLEAN
    BY <1>0 DEF Scheduler!TypeOK
  <2>2. upsets' \in 0 .. MaxFailures
    BY <1>0, <2>1, TimesAreNumbers DEF Scheduler!Disable
  <2> QED BY <1>0, <2>1, <2>2 DEF Scheduler!Disable, Scheduler!tick,
       Scheduler!history, TickIsRunning
<1>2. Scheduler!TypeOK'
  <2>1. nextAt' \in 0 .. MaxTime + Minute
    BY <1>1, NextTickIsATime DEF Scheduler!Enabled
  <2> QED BY <1>0, <1>1, <2>1 DEF Scheduler!TypeOK
<1>3. \A b \in Automations : enabled'[b] => enabled[b]
  BY <1>0, <1>1 DEF Scheduler!TypeOK
<1>4. TickIsRunning' /\ RunsAreRecent' /\ Scheduler!DecidedOnce' /\ Scheduler!NoStaleRun'
        /\ ClockIsAhead'
  BY <1>0, <1>1 DEF SchedulerInv, TickIsRunning, RunsAreRecent,
       Scheduler!DecidedOnce, Scheduler!NoStaleRun, ClockIsAhead
<1>5. MarkDivides'
  BY <1>1 DEF SchedulerInv, MarkDivides
<1>6. TakenAsDone'
  BY <1>1, <1>3 DEF SchedulerInv, TakenAsDone, Excused, Done, LongAgo
<1>7. BelowMark'
  BY <1>1, <1>3 DEF SchedulerInv, BelowMark, Later, Done, LongAgo
<1>8. WindowKept'
  BY <1>1 DEF WindowKept
<1> QED BY <1>2, <1>4, <1>5, <1>6, <1>7, <1>8 DEF SchedulerInv

LEMMA DecideKeeps ==
  ASSUME Scheduler!ParametersFit, SchedulerInv, NEW d \in todo, Scheduler!Decide(d)
  PROVE SchedulerInv'
<1>0. Scheduler!TypeOK /\ TickIsRunning /\ ClockIsAhead /\ MarkDivides
  BY DEF SchedulerInv
<1> DEFINE a == d.of
<1>1. /\ a \in Automations /\ d.at \in Scheduler!Time /\ d.at \in Nat /\ d.run \in BOOLEAN
      /\ mark[a] < d.at /\ d.at <= now /\ d.at \in Scheduler!Occurrences(a) /\ d.at \in Left(a)
      /\ mark[a] \in Nat
  BY <1>0, TimesAreNumbers DEF Scheduler!TypeOK, MarkDivides, ClockIsAhead,
       Left
<1>2. /\ mark' = [mark EXCEPT ![a] = d.at] /\ todo' = todo \ {d} /\ todo' \subseteq todo
      /\ decisions' = [decisions EXCEPT ![a][d.at] = @ + 1]
      /\ ran' = IF d.run THEN ran \cup {[of |-> a, at |-> d.at, when |-> now]} ELSE ran
      /\ UNCHANGED <<now, up, lastTick, nextAt, heartbeat, enabled, ticking, healthy,
                     owed, upsets>>
  BY <1>1 DEF Scheduler!Decide, Scheduler!Decided, Scheduler!memory
<1>3. /\ decisions[a][d.at] = 0 /\ decisions'[a][d.at] = 1
      /\ \A b \in Automations, t \in Scheduler!Time :
           b # a \/ t # d.at => decisions'[b][t] = decisions[b][t]
  <2>1. decisions[a][d.at] \in Nat /\ ~(d.at <= mark[a])
    BY <1>0, <1>1 DEF Scheduler!TypeOK
  <2>2. decisions[a][d.at] = 0
    BY <1>0, <1>1, <2>1 DEF MarkDivides
  <2> QED BY <1>0, <1>1, <1>2, <2>2 DEF Scheduler!TypeOK
<1>4. \A b \in Automations : mark'[b] = IF b = a THEN d.at ELSE mark[b]
  BY <1>0, <1>2 DEF Scheduler!TypeOK
<1>5. Done(a)' = Done(a) \cup {d.at} /\ \A b \in Automations : b # a => Done(b)' = Done(b)
  BY <1>1, <1>3 DEF Done
(* The turn goes by the time. *)
<1>6. \A e \in todo : e.of = a /\ e # d => d.at < e.at
  <2> SUFFICES ASSUME NEW e \in todo, e.of = a, e # d PROVE d.at < e.at
    OBVIOUS
  <2>1. d.of < e.of \/ d.at <= e.at
    BY DEF Scheduler!Decide, Scheduler!Turn
  <2>2. ~(d.of < e.of) /\ e.at \in Nat
    <3>1. a \in Nat
      BY <1>1 DEF Scheduler!ParametersFit
    <3> QED BY <1>0, <3>1, TimesAreNumbers
  <2>3. d.at # e.at
    BY <1>0 DEF MarkDivides
  <2> QED BY <1>1, <2>1, <2>2, <2>3
<1>7. /\ Left(a)' = Left(a) \ {d.at} /\ \A u \in Left(a) : u = d.at \/ d.at < u
      /\ \A b \in Automations : b # a => Left(b)' = Left(b)
  <2>1. \A u \in Left(a) : u = d.at \/ d.at < u
    BY <1>6 DEF Left
  <2>2. Left(a)' \subseteq Left(a) \ {d.at}
    BY <1>1, <1>2, <1>6 DEF Left
  <2>3. Left(a) \ {d.at} \subseteq Left(a)'
    BY <1>2 DEF Left
  <2>4. \A b \in Automations : b # a => {e \in todo' : e.of = b} = {e \in todo : e.of = b}
    BY <1>2
  <2>5. \A b \in Automations : b # a => Left(b)' = Left(b)
    BY <2>4 DEF Left
  <2> QED BY <2>1, <2>2, <2>3, <2>5
<1>8. Scheduler!TypeOK'
  <2>1. mark' \in [Automations -> Scheduler!Time]
    BY <1>0, <1>1, <1>2 DEF Scheduler!TypeOK
  <2>2. decisions' \in [Automations -> [Scheduler!Time -> Nat]]
    BY <1>0, <1>1, <1>2 DEF Scheduler!TypeOK
  <2>3. ran' \subseteq [of : Automations, at : Scheduler!Time, when : Scheduler!Time]
    BY <1>0, <1>1, <1>2 DEF Scheduler!TypeOK
  <2> QED BY <1>0, <1>2, <2>1, <2>2, <2>3 DEF Scheduler!TypeOK
<1>9. TickIsRunning' /\ ClockIsAhead' /\ RunsAreRecent'
  BY <1>0, <1>1, <1>2, <1>4 DEF SchedulerInv, TickIsRunning, ClockIsAhead,
       RunsAreRecent
<1>10. Scheduler!DecidedOnce'
  BY <1>3 DEF SchedulerInv, Scheduler!DecidedOnce
<1>11. Scheduler!NoStaleRun'
  BY <1>2 DEF SchedulerInv, RunsAreRecent, Scheduler!NoStaleRun
<1>12. MarkDivides'
  <2>1. ASSUME NEW b \in Automations, NEW t \in Scheduler!Time, decisions'[b][t] > 0
        PROVE  t <= mark'[b]
    <3>1. CASE b = a /\ t = d.at
      BY <1>1, <1>4, <3>1
    <3>2. CASE ~(b = a /\ t = d.at)
      <4>1. t <= mark[b] /\ t \in Nat /\ mark[b] \in Nat
        BY <1>0, <1>3, <2>1, <3>2, TimesAreNumbers DEF MarkDivides
      <4> QED BY <1>1, <1>4, <4>1
    <3> QED BY <3>1, <3>2
  <2>2. \A e \in todo' : /\ mark'[e.of] < e.at /\ enabled'[e.of]
                         /\ e.at \in Scheduler!Occurrences(e.of)
    BY <1>0, <1>2, <1>4, <1>6, TimesAreNumbers DEF MarkDivides
  <2>3. \A e, f \in todo' : e.of = f.of /\ e.at = f.at => e = f
    BY <1>0, <1>2 DEF MarkDivides
  <2> QED BY <2>1, <2>2, <2>3 DEF MarkDivides
<1>13. \A b \in Automations : \A t \in Scheduler!Occurrences(b) :
         /\ Excused(b, t) => Excused(b, t)'
         /\ LongAgo(t)' = LongAgo(t)
  <2> SUFFICES ASSUME NEW b \in Automations, NEW t \in Scheduler!Occurrences(b),
                      Cardinality({u \in Scheduler!Occurrences(b) : u > t
                                   /\ u \in Done(b)}) >= Cap
               PROVE  Cardinality({u \in Scheduler!Occurrences(b) : u > t
                                   /\ u \in Done(b)'}) >= Cap
    BY <1>2, <1>5 DEF Excused, LongAgo
  <2>1. /\ {u \in Scheduler!Occurrences(b) : u > t /\ u \in Done(b)'} \in SUBSET Scheduler!Time
        /\ {u \in Scheduler!Occurrences(b) : u > t /\ u \in Done(b)}
             \in SUBSET {u \in Scheduler!Occurrences(b) : u > t /\ u \in Done(b)'}
    BY <1>0, <1>5, TimesAreNumbers
  <2> QED BY <2>1, MoreTimes
<1>14. TakenAsDone'
  BY <1>2, <1>13 DEF SchedulerInv, TakenAsDone
<1>15. BelowMark'
  <2> SUFFICES ASSUME NEW b \in Automations, enabled[b],
                      NEW t \in Scheduler!Occurrences(b), owed[b] < t, t <= mark'[b]
               PROVE  t \in Done(b)' \/ LongAgo(t) \/ Cardinality(Later(b, t)') >= Cap
    BY <1>2, <1>13 DEF BelowMark
  <2>1. CASE b # a
    <3>1. Done(b)' = Done(b) /\ mark'[b] = mark[b]
      BY <1>4, <1>5, <2>1
    <3>2. Later(b, t)' = Later(b, t)
      BY <1>2, <3>1 DEF Later
    <3> QED BY <3>1, <3>2 DEF SchedulerInv, BelowMark
  <2>2. CASE b = a
    <3>0. /\ t \in Nat /\ now \in Nat /\ owed[a] \in Nat /\ lastTick \in Int
          /\ Lookback \in Nat /\ mark'[a] = d.at /\ Later(a, t)' \in SUBSET Scheduler!Time
          /\ \A u \in Scheduler!Occurrences(a) : u \in Nat /\ u \in Scheduler!Time
      BY <1>0, <1>1, <1>4, <2>2, TimesAreNumbers DEF Later
    (* Whoever has to do without the old witnesses has new ones. *)
    <3>1. CASE t \in Done(a) \/ t = d.at \/ LongAgo(t)
      BY <1>5, <2>2, <3>1
    <3>2. CASE Cardinality({u \in Scheduler!Occurrences(a) : u > t /\ u \in Done(a)}) >= Cap
      <4>1. {u \in Scheduler!Occurrences(a) : u > t /\ u \in Done(a)} \in SUBSET Later(a, t)'
        <5> SUFFICES ASSUME NEW u \in Scheduler!Occurrences(a), u > t, u \in Done(a)
                     PROVE  u \in Later(a, t)'
          OBVIOUS
        <5>1. u \in Nat /\ u <= mark[a] /\ mark[a] <= now /\ mark[a] \in Nat
          BY <1>0, <1>1, <3>0 DEF MarkDivides, ClockIsAhead, Done
        <5>2. t < u /\ u <= now
          BY <3>0, <5>1
        <5> QED BY <1>2, <1>5, <5>2 DEF Later
      <4> QED BY <2>2, <3>0, <3>2, <4>1, MoreTimes
    <3>3. CASE \E u \in Scheduler!Occurrences(a) : t <= u /\ mark[a] < u /\ u < d.at
      <4>1. PICK u \in Scheduler!Occurrences(a) : t <= u /\ mark[a] < u /\ u < d.at
        BY <3>3
      <4>2. u \in Nat /\ u <= now /\ u \notin Left(a) /\ ~(u <= owed[a])
        BY <1>1, <1>7, <2>2, <3>0, <4>1
      <4>3. ticking /\ Left(a) # {}
        BY <1>0, <1>1 DEF TickIsRunning
      <4>4. \/ u <= lastTick \/ LongAgo(u)
            \/ Cardinality(Left(a)) >= Cap /\ \A v \in Left(a) : u < v
        BY <2>2, <4>1, <4>2, <4>3 DEF SchedulerInv, WindowKept
      <4>5. CASE u <= lastTick
        <5>1. t <= lastTick
          BY <3>0, <4>1, <4>2, <4>5
        <5>2. Excused(a, t)
          BY <2>2, <5>1 DEF SchedulerInv, TakenAsDone
        <5> QED BY <3>1, <3>2, <5>2 DEF Excused
      <4>6. CASE LongAgo(u)
        BY <3>0, <3>1, <4>1, <4>2, <4>6 DEF LongAgo
      <4>7. CASE Cardinality(Left(a)) >= Cap /\ \A v \in Left(a) : u < v
        <5>1. Left(a) \in SUBSET Later(a, t)'
          <6> SUFFICES ASSUME NEW v \in Left(a) PROVE v \in Later(a, t)'
            OBVIOUS
          <6>1. v \in Scheduler!Occurrences(a) /\ v <= now /\ v \in Nat
            BY <1>0, TimesAreNumbers DEF Left, MarkDivides, ClockIsAhead
          <6>2. t < v
            BY <3>0, <4>1, <4>2, <4>7, <6>1
          <6>3. v \in Done(a)' \/ d.at < v
            BY <1>5, <1>7
          <6> QED BY <1>2, <3>0, <6>1, <6>2, <6>3 DEF Later
        <5> QED BY <2>2, <3>0, <4>7, <5>1, MoreTimes
      <4> QED BY <4>4, <4>5, <4>6, <4>7
    <3>4. CASE /\ t <= mark[a] /\ Cardinality(Later(a, t)) >= Cap
               /\ ~\E u \in Scheduler!Occurrences(a) : t <= u /\ mark[a] < u /\ u < d.at
      <4>1. Later(a, t) \in SUBSET Later(a, t)'
        <5> SUFFICES ASSUME NEW u \in Later(a, t) PROVE u \in Later(a, t)'
          OBVIOUS
        <5>1. /\ u \in Scheduler!Occurrences(a) /\ u \in Nat /\ t < u /\ u <= now
              /\ u \in Done(a) \/ mark[a] < u
          BY <3>0 DEF Later
        <5>2. u \in Done(a) \/ ~(u < d.at)
          BY <3>0, <3>4, <5>1
        <5>3. u \in Done(a)' \/ d.at < u
          BY <1>1, <1>5, <5>1, <5>2
        <5> QED BY <1>2, <3>0, <5>1, <5>3 DEF Later
      <4> QED BY <2>2, <3>0, <3>4, <4>1, MoreTimes
    <3>5. CASE t <= mark[a]
      <4>1. t \in Done(a) \/ LongAgo(t) \/ Cardinality(Later(a, t)) >= Cap
        BY <2>2, <3>5 DEF SchedulerInv, BelowMark
      <4> QED BY <3>1, <3>3, <3>4, <3>5, <4>1
    <3>6. CASE mark[a] < t /\ t < d.at
      BY <2>2, <3>0, <3>3, <3>6
    <3> QED BY <1>1, <2>2, <3>0, <3>1, <3>5, <3>6
  <2> QED BY <2>1, <2>2
<1>16. WindowKept'
  <2> SUFFICES ASSUME NEW b \in Automations, enabled[b], ticking, healthy \/ Left(b)' # {},
                      NEW t \in Scheduler!Occurrences(b), mark'[b] < t, t <= now
               PROVE  \/ t \in Left(b)' \/ t <= lastTick \/ t <= owed[b] \/ LongAgo(t)
                      \/ Cardinality(Left(b)') >= Cap /\ \A u \in Left(b)' : t < u
    BY <1>2, <1>13 DEF WindowKept
  <2>1. CASE b # a
    <3>1. Left(b)' = Left(b) /\ mark'[b] = mark[b]
      BY <1>4, <1>7, <2>1
    <3> QED BY <3>1 DEF SchedulerInv, WindowKept
  <2>2. CASE b = a
    <3>1. t \in Nat /\ d.at < t /\ mark[a] < t /\ (healthy \/ Left(a) # {})
      BY <1>0, <1>1, <1>4, <2>2, TimesAreNumbers
    <3>2. \/ t \in Left(a) \/ t <= lastTick \/ t <= owed[a] \/ LongAgo(t)
          \/ \A u \in Left(a) : t < u
      BY <2>2, <3>1 DEF SchedulerInv, WindowKept
    <3>3. ~\A u \in Left(a) : t < u
      BY <1>1, <3>1
    <3>4. t \in Left(a) => t \in Left(a)'
      BY <1>1, <1>7, <3>1
    <3> QED BY <2>2, <3>2, <3>3, <3>4
  <2> QED BY <2>1, <2>2
<1> QED BY <1>8, <1>9, <1>10, <1>11, <1>12, <1>14, <1>15, <1>16
  DEF SchedulerInv

LEMMA SchedulerStep ==
  ASSUME Scheduler!ParametersFit, SchedulerInv, [Scheduler!Next]_(Scheduler!vars)
  PROVE SchedulerInv'
<1>0. Scheduler!TypeOK /\ ClockIsAhead /\ TickIsRunning
  BY DEF SchedulerInv
<1>1. CASE Scheduler!Advance
  BY <1>1, AdvanceKeeps
<1>2. CASE Scheduler!TimerFires
  BY <1>2, BeginKeeps DEF Scheduler!TimerFires
<1>3. CASE Scheduler!Boot
  BY <1>3, BeginKeeps DEF Scheduler!Boot
<1>4. CASE Scheduler!Crash
  BY <1>4, CrashKeeps
<1>5. CASE \E d \in todo : Scheduler!Decide(d)
  BY <1>5, DecideKeeps
<1>6. CASE \E d \in todo : Scheduler!WriteFails(d)
  BY <1>6, WriteFailsKeeps
<1>7. CASE Scheduler!EndTick
  BY <1>7, EndTickKeeps
<1>8. CASE \E a \in Automations : Scheduler!Enable(a)
  BY <1>8, EnableKeeps
<1>9. CASE \E a \in Automations : Scheduler!Disable(a)
  BY <1>9, DisableKeeps
<1>10. CASE UNCHANGED Scheduler!vars
  <2>1. /\ UNCHANGED <<now, up, lastTick, nextAt, heartbeat, mark, enabled, upsets>>
        /\ UNCHANGED <<ticking, todo, healthy, decisions, ran, owed>>
    BY <1>10 DEF Scheduler!vars, Scheduler!memory, Scheduler!files, Scheduler!tick,
       Scheduler!history
  <2>2. Scheduler!TypeOK' /\ Scheduler!DecidedOnce' /\ Scheduler!NoStaleRun'
    BY <2>1 DEF SchedulerInv, Scheduler!TypeOK, Scheduler!DecidedOnce, Scheduler!NoStaleRun
  <2>3. TickIsRunning' /\ ClockIsAhead' /\ MarkDivides' /\ RunsAreRecent'
    BY <2>1 DEF SchedulerInv, TickIsRunning, ClockIsAhead, MarkDivides, RunsAreRecent
  <2>4. TakenAsDone' /\ BelowMark'
    BY <2>1 DEF SchedulerInv, TakenAsDone, BelowMark, Excused, Later, Left, Done, LongAgo
  <2>5. WindowKept'
    BY <2>1 DEF SchedulerInv, WindowKept, Excused, Later, Left, Done, LongAgo
  <2> QED BY <2>2, <2>3, <2>4, <2>5 DEF SchedulerInv
<1> QED BY <1>1, <1>2, <1>3, <1>4, <1>5, <1>6, <1>7, <1>8, <1>9, <1>10
  DEF Scheduler!Next

(* The invariant of the ticks holds always.                                *)
LEMMA SchedulerInvariance ==
  ASSUME Scheduler!ParametersFit PROVE Scheduler!Spec => []SchedulerInv
<1>1. Scheduler!Init => SchedulerInv
  BY SchedulerStarts
<1>2. SchedulerInv /\ [Scheduler!Next]_(Scheduler!vars) => SchedulerInv'
  BY SchedulerStep
<1> QED BY <1>1, <1>2, PTL DEF Scheduler!Spec

(* What the invariant comes to: what is taken as done but was not decided  *)
(* is excused by the cap or the look-back.                                 *)
LEMMA SchedulerKeeps ==
  SchedulerInv => Scheduler!DecidedOnce /\ Scheduler!NoneForgotten /\ Scheduler!NoStaleRun
<1>1. ASSUME SchedulerInv PROVE Scheduler!NoneForgotten
  <2>0. Scheduler!TypeOK
    BY <1>1 DEF SchedulerInv
  <2> SUFFICES ASSUME NEW a \in Automations, enabled[a],
                      NEW t \in Scheduler!Occurrences(a), owed[a] < t,
                      t <= Scheduler!Max({IF ~ticking THEN lastTick ELSE Scheduler!None,
                                          heartbeat})
               PROVE  \/ decisions[a][t] = 1
                      \/ Cardinality({u \in Scheduler!Occurrences(a) :
                                        u > t /\ decisions[a][u] = 1}) >= Cap
                      \/ now + 1 - t >= Lookback
    BY SameCardinality DEF Scheduler!NoneForgotten
  <2>1. t <= lastTick \/ t <= heartbeat
    <3> DEFINE kept == IF ~ticking THEN lastTick ELSE Scheduler!None
    <3>0. kept = lastTick \/ kept = -1
      BY DEF Scheduler!None
    <3>1. kept \in Int /\ heartbeat \in Int /\ t \in Nat /\ (kept = lastTick \/ kept = -1)
      <4> HIDE DEF kept
      <4> QED BY <2>0, <3>0, SchedulerFits, TimesAreNumbers
    <3>2. Scheduler!Max({kept, heartbeat}) \in {kept, heartbeat}
      BY <3>1, MaxOfTwo
    <3>3. t <= kept \/ t <= heartbeat
      BY <3>2
    <3> QED BY <3>1, <3>3
  <2>2. Excused(a, t)
    BY <1>1, <2>1 DEF SchedulerInv, TakenAsDone
  <2>3. {u \in Scheduler!Occurrences(a) : u > t /\ u \in Done(a)}
          = {u \in Scheduler!Occurrences(a) : u > t /\ decisions[a][u] = 1}
    BY OccurrencesAreTimes DEF Done
  <2> QED BY <2>2, <2>3 DEF Excused, LongAgo, Done
<1> QED BY <1>1 DEF SchedulerInv

-----------------------------------------------------------------------------
(* The theorems                                                            *)

(* Every variable keeps its type, so that a decision is always about an    *)
(* occurrence of an automation, and the timer within a minute.             *)
THEOREM SchedulerIsTyped ==
  ASSUME Scheduler!ParametersFit PROVE Scheduler!Spec => []Scheduler!TypeOK
<1>1. SchedulerInv => Scheduler!TypeOK
  BY DEF SchedulerInv
<1> QED BY <1>1, SchedulerInvariance, PTL

(* No occurrence is decided twice: the watermark that is committed with a  *)
(* decision keeps every later tick and every later boot away from it.      *)
THEOREM EachDecidedOnce ==
  ASSUME Scheduler!ParametersFit PROVE Scheduler!Spec => []Scheduler!DecidedOnce
<1>1. SchedulerInv => Scheduler!DecidedOnce
  BY DEF SchedulerInv
<1> QED BY <1>1, SchedulerInvariance, PTL

(* What lastTickAt or the heartbeat counts as done was decided, but for    *)
(* what the cap and the look-back of a downtime leave out.                 *)
THEOREM NoneIsForgotten ==
  ASSUME Scheduler!ParametersFit PROVE Scheduler!Spec => []Scheduler!NoneForgotten
BY SchedulerKeeps, SchedulerInvariance, PTL

(* Whatever ticks were late or failed before, an automation that skips     *)
(* missed runs does not run an occurrence as late as a downtime.           *)
THEOREM NoneRunsStale ==
  ASSUME Scheduler!ParametersFit PROVE Scheduler!Spec => []Scheduler!NoStaleRun
<1>1. SchedulerInv => Scheduler!NoStaleRun
  BY DEF SchedulerInv
<1> QED BY <1>1, SchedulerInvariance, PTL
=============================================================================
