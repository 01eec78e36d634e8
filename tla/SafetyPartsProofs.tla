--------------------------- MODULE SafetyPartsProofs ---------------------------
(***************************************************************************)
(* Proofs about the parts of SafetyParts, for any values of their          *)
(* parameters, and about the parts side by side.  First each part by       *)
(* itself: its inductive invariant, and that its own steps keep it; the    *)
(* dispatcher and the scheduler have modules of their own.  Then all of    *)
(* them: a step of PartsNext is a step of the part that the initial state  *)
(* chose, so that the part's invariant holds throughout.                   *)
(***************************************************************************)
EXTENDS AutomationDispatchProofs, AutomationSchedulerProofs, SequenceTheorems

-----------------------------------------------------------------------------
(* The diff cache: what is cached is only fresh because what is being      *)
(* built would be, so that the invariant speaks of the builds: one whose   *)
(* generation is still the directory's has read nothing from before the    *)
(* last invalidation.                                                      *)

(* A build never knows of a later generation than the directory has, and   *)
(* one that will be served began to read after the last invalidation.      *)
BuildsAreFresh ==
    \A k \in Comparisons :
        /\ build[k].generation <= generation
        /\ build[k].generation = generation /\ build[k].first # -1
             => build[k].first >= told

(* Who waits asked when the tree had been invalidated no more than now.    *)
AskedBefore == told <= tree /\ \A r \in Requests : asked[r].told <= told

DiffInv == Diff!TypeOK /\ Diff!DiffIsFresh /\ BuildsAreFresh /\ AskedBefore

(* A finite set of numbers that is not empty has a maximum: the smallest   *)
(* part of it that had none would lose one element and have one.           *)
LEMMA MaxExists ==
  ASSUME NEW S \in SUBSET Nat, IsFiniteSet(S), S # {}
  PROVE  Diff!Max(S) \in S /\ \A y \in S : Diff!Max(S) >= y
<1> DEFINE HasMax(T) == \E x \in T : \A y \in T : x >= y
           Without == {T \in SUBSET S : T # {} /\ ~HasMax(T)}
<1>1. HasMax(S)
  <2> SUFFICES ASSUME ~HasMax(S) PROVE FALSE
    OBVIOUS
  <2>1. Without \subseteq FiniteSubsetsOf(S) /\ S \in Without
    BY FS_Subset DEF FiniteSubsetsOf
  <2>2. PICK T \in Without : \A U \in Without : <<U, T>> \notin StrictSubsetOrdering(S)
    <3> HIDE DEF Without
    <3> QED BY <2>1, FS_StrictSubsetOrderingWellFounded, WFMin
  <2>3. T \subseteq S /\ T # {} /\ ~HasMax(T)
    BY <2>2
  <2>4. PICK x \in T : TRUE
    BY <2>3
  <2> DEFINE U == T \ {x}
  <2>5. U \subseteq S /\ <<U, T>> \in StrictSubsetOrdering(S)
    BY <2>3, <2>4 DEF StrictSubsetOrdering
  <2>6. U = {} \/ HasMax(U)
    BY <2>2, <2>5
  <2>7. CASE U = {}
    BY <2>3, <2>4, <2>7
  <2>8. CASE HasMax(U)
    <3>1. PICK m \in U : \A y \in U : m >= y
      BY <2>8
    <3>2. m \in Nat /\ x \in Nat
      BY <2>3, <2>4, <3>1
    <3>3. \A y \in T : y \in Nat /\ (y = x \/ m >= y)
      BY <2>3, <3>1
    <3>4. CASE m >= x
      BY <2>3, <3>1, <3>2, <3>3, <3>4
    <3>5. CASE m < x
      BY <2>3, <2>4, <3>2, <3>3, <3>5
    <3> QED BY <3>2, <3>4, <3>5
  <2> QED BY <2>6, <2>7, <2>8
<1> QED BY <1>1 DEF Diff!Max

(* The library's finite sets are the instance's. *)
LEMMA ComparisonsAreFinite == IsFiniteSet(Comparisons)
BY DiffFits DEF Diff!ParametersFit, Diff!IsFiniteSet, IsFiniteSet

(* The time of a build is later than all the others. *)
LEMMA DiffNowIsNat ==
  ASSUME Diff!TypeOK, NEW k \in Comparisons
  PROVE  Diff!Now \in Nat
<1> DEFINE S == {builtAt[j] : j \in Comparisons}
<1>1. S \subseteq Nat /\ S # {}
  BY DEF Diff!TypeOK
<1>2. IsFiniteSet(S)
  <2>1. /\ builtAt \in [Comparisons -> Nat]
        /\ builtAt \in Surjection(Comparisons, S)
    BY DEF Diff!TypeOK, Surjection
  <2> QED BY <2>1, ComparisonsAreFinite, FS_Surjection
<1>3. Diff!Max(S) \in Nat
  <2> HIDE DEF S
  <2> QED BY <1>1, <1>2, MaxExists
<1> QED BY <1>3 DEF Diff!Now

(* Pruning drops entries and changes none. *)
LEMMA PrunedEffect ==
  ASSUME NEW c, NEW ages
  PROVE  \A k \in Comparisons : Diff!Pruned(c, ages)[k] \in {c[k], Diff!None}
BY DEF Diff!Pruned


LEMMA DiffStartsTyped == Diff!Init => Diff!TypeOK
BY DiffFits DEF Diff!ParametersFit, Diff!Init, Diff!TypeOK, Diff!None, Diff!NoBuild,
   Diff!NotAsked, Diff!Nothing

LEMMA DiffStaysTyped == ASSUME Diff!TypeOK, [Diff!Next]_(Diff!vars) PROVE Diff!TypeOK'
<1> DEFINE versions == 0 .. MaxChanges
           diffs == [first : versions, last : versions] \union {Diff!None}
           builds == [on : BOOLEAN, generation : Nat, first : versions \union {-1}]
           asks == [comparison : Comparisons \union {"none"}, told : versions]
<1>1. /\ tree \in versions /\ told \in versions /\ generation \in Nat
      /\ answers \in 0 .. MaxAnswers
      /\ cache \in [Comparisons -> diffs] /\ builtAt \in [Comparisons -> Nat]
      /\ build \in [Comparisons -> builds] /\ asked \in [Requests -> asks]
      /\ answer \in [of : diffs, told : versions]
  BY DEF Diff!TypeOK
<1>2. Diff!None \in diffs /\ Diff!NotAsked \in asks /\ Diff!NoBuild \in builds /\ 0 \in versions
  BY DiffFits DEF Diff!ParametersFit, Diff!NotAsked, Diff!NoBuild
<1>3. /\ (tree' \in versions /\ told' \in versions /\ generation' \in Nat
         /\ answers' \in 0 .. MaxAnswers
         /\ cache' \in [Comparisons -> diffs] /\ builtAt' \in [Comparisons -> Nat]
         /\ build' \in [Comparisons -> builds] /\ asked' \in [Requests -> asks]
         /\ answer' \in [of : diffs, told : versions]) => Diff!TypeOK'
  BY DEF Diff!TypeOK
<1> HIDE DEF diffs, asks
<1>4. CASE Diff!Change
  <2>1. tree' \in versions
    BY <1>1, <1>4, DiffFits DEF Diff!ParametersFit, Diff!Change
  <2> QED BY <1>1, <1>3, <1>4, <2>1 DEF Diff!Change
<1>5. CASE Diff!Invalidate
  BY <1>1, <1>2, <1>3, <1>5 DEF Diff!Invalidate
<1>6. CASE \E k \in Comparisons : Diff!Expire(k)
  BY <1>1, <1>2, <1>3, <1>6 DEF Diff!Expire
<1>7. CASE \E r \in Requests, k \in Comparisons : Diff!Ask(r, k)
  <2>1. PICK r \in Requests, k \in Comparisons : Diff!Ask(r, k)
    BY <1>7
  <2>2. answers' \in 0 .. MaxAnswers
    BY <1>1, <2>1, DiffFits DEF Diff!ParametersFit, Diff!Ask
  <2>3. [comparison |-> k, told |-> told] \in asks
    BY <1>1 DEF asks
  <2>4. [Diff!NoBuild EXCEPT !.on = TRUE, !.generation = generation] \in builds
    BY <1>1, <1>2 DEF Diff!NoBuild
  <2>5. /\ answer' \in [of : diffs, told : versions]
        /\ asked' \in [Requests -> asks] /\ build' \in [Comparisons -> builds]
    <3> HIDE DEF builds, versions
    <3>1. CASE cache[k] # Diff!None
      BY <1>1, <2>1, <3>1 DEF Diff!Ask
    <3>2. CASE cache[k] = Diff!None
      BY <1>1, <2>1, <2>3, <2>4, <3>2 DEF Diff!Ask
    <3> QED BY <3>1, <3>2
  <2> QED BY <1>1, <1>3, <2>1, <2>2, <2>5 DEF Diff!Ask
<1>8. CASE \E k \in Comparisons : Diff!BuildReads(k)
  BY <1>1, <1>3, <1>8 DEF Diff!BuildReads
<1>9. CASE \E k \in Comparisons : Diff!BuildEnds(k)
  <2>1. PICK k \in Comparisons : Diff!BuildEnds(k)
    BY <1>9
  <2>2. CASE build[k].generation # generation
    BY <1>1, <1>3, <2>1, <2>2 DEF Diff!BuildEnds
  <2>3. CASE build[k].generation = generation
    <3> DEFINE diff == [first |-> build[k].first, last |-> tree]
               ages == [builtAt EXCEPT ![k] = Diff!Now]
               full == [cache EXCEPT ![k] = diff]
    <3>1. diff \in diffs
      BY <1>1, <2>1 DEF diffs, Diff!BuildEnds
    <3>2. ages \in [Comparisons -> Nat]
      BY <1>1, DiffNowIsNat
    <3>3. full \in [Comparisons -> diffs]
      BY <1>1, <3>1
    <3> HIDE DEF diff, ages, full
    <3>4. Diff!Pruned(full, ages) \in [Comparisons -> diffs]
      BY <1>2, <3>3 DEF Diff!Pruned
    <3>5. builtAt' = ages /\ cache' = Diff!Pruned(full, ages) /\ Diff!Answered(k, diff)
          /\ UNCHANGED <<tree, generation, told, answers>>
      BY <2>1, <2>3 DEF Diff!BuildEnds, diff, ages, full
    <3>6. /\ asked' \in [Requests -> asks]
          /\ answer' \in [of : diffs, told : versions]
          /\ build' \in [Comparisons -> builds]
      <4>1. \A r \in Requests : asked[r].told \in versions
        BY <1>1 DEF asks
      <4> HIDE DEF versions, builds
      <4> QED BY <1>1, <1>2, <3>1, <3>5, <4>1 DEF Diff!Answered
    <3> QED BY <1>1, <1>3, <3>2, <3>4, <3>5, <3>6
  <2> QED BY <2>2, <2>3
<1>10. CASE \E k \in Comparisons : Diff!BuildFails(k)
  BY <1>1, <1>2, <1>3, <1>10 DEF Diff!BuildFails
<1>11. CASE UNCHANGED Diff!vars
  BY <1>1, <1>3, <1>11 DEF Diff!vars
<1> QED BY <1>4, <1>5, <1>6, <1>7, <1>8, <1>9, <1>10, <1>11 DEF Diff!Next


LEMMA DiffStart == Diff!Init => DiffInv
<1> SUFFICES ASSUME Diff!Init PROVE DiffInv
  OBVIOUS
<1>1. Diff!DiffIsFresh /\ BuildsAreFresh /\ AskedBefore
  BY DEF Diff!Init, Diff!DiffIsFresh, BuildsAreFresh, AskedBefore, Diff!None, Diff!NoBuild,
         Diff!Nothing, Diff!NotAsked
<1> QED BY <1>1, DiffStartsTyped DEF DiffInv

(* A diff that ends with the directory's generation is as fresh as its     *)
(* build, and whoever waited for it is answered with it.                   *)
LEMMA EndIsFresh ==
  ASSUME DiffInv, NEW k \in Comparisons, Diff!BuildEnds(k)
  PROVE  Diff!DiffIsFresh' /\ BuildsAreFresh' /\ AskedBefore'
<1> USE DEF DiffInv
<1>1. /\ build \in [Comparisons -> [on : BOOLEAN, generation : Nat,
                                    first : (0 .. MaxChanges) \union {-1}]]
      /\ asked \in [Requests -> [comparison : Comparisons \union {"none"},
                                 told : 0 .. MaxChanges]]
      /\ told \in Nat /\ generation \in Nat /\ DOMAIN cache = Comparisons
      /\ cache = [j \in Comparisons |-> cache[j]]
  BY DiffFits DEF Diff!ParametersFit, Diff!TypeOK
<1>2. build[k].first # -1 /\ UNCHANGED <<tree, generation, told, answers>>
  BY DEF Diff!BuildEnds
<1>3. CASE build[k].generation # generation
  <2>1. /\ build' = [build EXCEPT ![k].generation = generation, ![k].first = -1]
        /\ UNCHANGED <<cache, asked, answer>>
    BY <1>3 DEF Diff!BuildEnds
  <2>2. BuildsAreFresh'
    BY <1>1, <1>2, <2>1 DEF BuildsAreFresh
  <2> QED BY <1>2, <2>1, <2>2 DEF Diff!DiffIsFresh, AskedBefore
<1>4. CASE build[k].generation = generation
  <2> DEFINE diff == [first |-> build[k].first, last |-> tree]
             ages == [builtAt EXCEPT ![k] = Diff!Now]
             full == [cache EXCEPT ![k] = diff]
  <2>1. cache' = Diff!Pruned(full, ages) /\ Diff!Answered(k, diff)
    BY <1>4 DEF Diff!BuildEnds
  <2>2. diff.first >= told
    BY <1>2, <1>4 DEF BuildsAreFresh
  <2>3. \A j \in Comparisons : full[j] # Diff!None => full[j].first >= told
    BY <1>1, <2>2 DEF Diff!DiffIsFresh
  <2> HIDE DEF diff, full, ages
  <2>4. \A j \in Comparisons : cache'[j] \in {full[j], Diff!None}
    BY <2>1, PrunedEffect
  <2>5. PICK r \in Requests : answer' = [of |-> diff, told |-> asked[r].told]
    BY <2>1 DEF Diff!Answered
  <2>6. answer'.of.first >= answer'.told
    <3>1. diff.first \in Int /\ asked[r].told \in Int /\ told \in Int
      BY <1>1 DEF diff
    <3>2. asked[r].told <= told
      BY DEF AskedBefore
    <3> QED BY <2>2, <2>5, <3>1, <3>2
  <2>7. Diff!DiffIsFresh'
    BY <1>2, <2>3, <2>4, <2>6 DEF Diff!DiffIsFresh
  <2>8. BuildsAreFresh'
    BY <1>1, <1>2, <2>1 DEF BuildsAreFresh, Diff!Answered, Diff!NoBuild
  <2>9. AskedBefore'
    BY <1>1, <1>2, <2>1 DEF AskedBefore, Diff!Answered, Diff!NotAsked
  <2> QED BY <2>7, <2>8, <2>9
<1> QED BY <1>3, <1>4

LEMMA DiffStep == ASSUME DiffInv, [Diff!Next]_(Diff!vars) PROVE DiffInv'
<1> USE DEF DiffInv
<1>0. Diff!TypeOK'
  BY DiffStaysTyped
<1>1. /\ tree \in Nat /\ told \in Nat /\ generation \in Nat
      /\ cache = [k \in Comparisons |-> cache[k]]
      /\ build \in [Comparisons -> [on : BOOLEAN, generation : Nat,
                                    first : (0 .. MaxChanges) \union {-1}]]
      /\ asked \in [Requests -> [comparison : Comparisons \union {"none"},
                                 told : 0 .. MaxChanges]]
  BY DiffFits DEF Diff!ParametersFit, Diff!TypeOK
<1>2. CASE Diff!Change
  BY <1>0, <1>1, <1>2 DEF Diff!Change, Diff!DiffIsFresh, BuildsAreFresh, AskedBefore
<1>3. CASE Diff!Invalidate
  <2>1. Diff!DiffIsFresh'
    BY <1>3 DEF Diff!Invalidate, Diff!DiffIsFresh
  <2>2. BuildsAreFresh'
    BY <1>1, <1>3 DEF Diff!Invalidate, BuildsAreFresh
  <2>3. AskedBefore'
    BY <1>1, <1>3 DEF Diff!Invalidate, AskedBefore
  <2> QED BY <1>0, <2>1, <2>2, <2>3
<1>4. CASE \E k \in Comparisons : Diff!Expire(k)
  BY <1>0, <1>1, <1>4 DEF Diff!Expire, Diff!DiffIsFresh, BuildsAreFresh, AskedBefore
<1>5. CASE \E r \in Requests, k \in Comparisons : Diff!Ask(r, k)
  <2>1. PICK r \in Requests, k \in Comparisons : Diff!Ask(r, k)
    BY <1>5
  <2>2. Diff!DiffIsFresh'
    BY <2>1 DEF Diff!Ask, Diff!DiffIsFresh
  <2>3. BuildsAreFresh'
    <3>1. \/ build' = build
          \/ build' = [build EXCEPT ![k] = [on |-> TRUE, generation |-> generation,
                                           first |-> -1]]
      BY <2>1 DEF Diff!Ask, Diff!NoBuild
    <3>2. UNCHANGED <<generation, told>>
      BY <2>1 DEF Diff!Ask
    <3> QED BY <1>1, <3>1, <3>2 DEF BuildsAreFresh
  <2>4. AskedBefore'
    <3>1. \/ asked' = asked
          \/ asked' = [asked EXCEPT ![r] = [comparison |-> k, told |-> told]]
      BY <2>1 DEF Diff!Ask
    <3>2. UNCHANGED <<tree, told>>
      BY <2>1 DEF Diff!Ask
    <3> QED BY <1>1, <3>1, <3>2 DEF AskedBefore
  <2> QED BY <1>0, <2>2, <2>3, <2>4
<1>6. CASE \E k \in Comparisons : Diff!BuildReads(k)
  <2>1. PICK k \in Comparisons : Diff!BuildReads(k)
    BY <1>6
  <2>2. BuildsAreFresh'
    BY <1>1, <2>1 DEF Diff!BuildReads, BuildsAreFresh, AskedBefore
  <2> QED BY <1>0, <2>1, <2>2 DEF Diff!BuildReads, Diff!DiffIsFresh, AskedBefore
<1>7. CASE \E k \in Comparisons : Diff!BuildEnds(k)
  BY <1>0, <1>7, EndIsFresh
<1>8. CASE \E k \in Comparisons : Diff!BuildFails(k)
  <2>1. PICK k \in Comparisons : Diff!BuildFails(k)
    BY <1>8
  <2>2. BuildsAreFresh'
    BY <1>1, <2>1 DEF Diff!BuildFails, BuildsAreFresh, Diff!NoBuild
  <2>3. AskedBefore'
    BY <1>1, <2>1 DEF Diff!BuildFails, AskedBefore, Diff!NotAsked
  <2> QED BY <1>0, <2>1, <2>2, <2>3 DEF Diff!BuildFails, Diff!DiffIsFresh
<1>9. CASE UNCHANGED Diff!vars
  BY <1>0, <1>9 DEF Diff!vars, Diff!DiffIsFresh, BuildsAreFresh, AskedBefore
<1> QED BY <1>2, <1>3, <1>4, <1>5, <1>6, <1>7, <1>8, <1>9 DEF Diff!Next

LEMMA DiffInvariance == Diff!Spec => []DiffInv
BY DiffStart, DiffStep, PTL DEF Diff!Spec

(* Every variable keeps its type, also the order in which entries were     *)
(* built, which pruning goes by.                                           *)
THEOREM DiffIsTyped == Diff!Spec => []Diff!TypeOK
BY DiffInvariance, PTL DEF DiffInv

(* No request is answered with, and no entry keeps, a diff that was begun  *)
(* before the last invalidation of which the asker had been told.          *)
THEOREM AnswersAreFresh == Diff!Spec => []Diff!DiffIsFresh
BY DiffInvariance, PTL DEF DiffInv

-----------------------------------------------------------------------------
(* The triggers                                                            *)

(* A grace period that is over, or that never was, leaves the time since   *)
(* the last run at its maximum, and one that runs has not more left than   *)
(* that time lacks.                                                        *)
GraceKept ==
    \A m \in Triggers!Watchers :
        since[m] >= Grace - (IF grace[m] = Triggers!Off THEN 0 ELSE grace[m])

NoneFormer == \A m \in Triggers!Watchers : "former" \notin causes[m]

(* A debounce that runs within the grace was armed before the run ended.   *)
ArmedBefore ==
    \A m \in Triggers!Watchers :
        since[m] < Grace /\ wait[m] # Triggers!Off => wait[m] + since[m] <= Debounce

TriggersInv ==
    /\ Triggers!TypeOK /\ GraceKept /\ NoneFormer /\ ArmedBefore
    /\ Triggers!NothingFromFormer

LEMMA TriggersStart == Triggers!Init => TriggersInv
<1> SUFFICES ASSUME Triggers!Init PROVE TriggersInv
  OBVIOUS
<1> USE TriggersFit DEF Triggers!Init, Triggers!Watchers, Triggers!Managers, Triggers!Off
<1>0. enabled \in BOOLEAN /\ runs \in BOOLEAN
  BY DEF Triggers!Init
<1>1. Triggers!TypeOK
  BY <1>0 DEF Triggers!TypeOK
<1>2. GraceKept
  BY DEF GraceKept
<1>3. NoneFormer /\ ArmedBefore /\ Triggers!NothingFromFormer
  BY DEF NoneFormer, ArmedBefore, Triggers!NothingFromFormer
<1> QED BY <1>1, <1>2, <1>3 DEF TriggersInv

LEMMA TriggersStep ==
  ASSUME TriggersInv, [Triggers!Next]_(Triggers!vars)
  PROVE  TriggersInv' /\ (Triggers!Next => Triggers!QuietStep)
<1> USE TriggersFit DEF TriggersInv, Triggers!TypeOK, GraceKept, NoneFormer, ArmedBefore,
   Triggers!NothingFromFormer, Triggers!Watchers, Triggers!Managers, Triggers!Off,
   Triggers!QuietStep
<1>1. ASSUME NEW m \in Triggers!Watchers, NEW cause \in {"own", "outside"},
             Triggers!Change(m, cause)
      PROVE  TriggersInv' /\ Triggers!QuietStep
  BY <1>1 DEF Triggers!Change, Triggers!Occurs, Triggers!Arm, Triggers!trigger
<1>2. CASE Triggers!Post
  BY <1>2 DEF Triggers!Post, Triggers!Occurs, Triggers!Arm, Triggers!trigger
<1>3. ASSUME NEW k \in Triggers!Managers, NEW on \in BOOLEAN, Triggers!Edit(k, on)
      PROVE  TriggersInv' /\ Triggers!QuietStep
  BY <1>3 DEF Triggers!Edit, Triggers!Occurs, Triggers!Rebuild, Triggers!Former
<1>4. CASE Triggers!RunByHand
  BY <1>4 DEF Triggers!RunByHand, Triggers!Occurs, Triggers!trigger, Triggers!timers
<1>5. CASE Triggers!RunEnds
  <2>1. runs' \in BOOLEAN
    BY <1>5 DEF Triggers!RunEnds
  <2> QED BY <1>5, <2>1 DEF Triggers!RunEnds, Triggers!Notify, Triggers!trigger
<1>6. CASE Triggers!LastRunEnds
  <2>1. runs' \in BOOLEAN /\ enabled' \in BOOLEAN
    BY <1>6 DEF Triggers!LastRunEnds
  <2> QED BY <1>6, <2>1 DEF Triggers!LastRunEnds, Triggers!Rebuild, Triggers!Former
<1>7. CASE Triggers!RunDropped
  BY <1>7 DEF Triggers!RunDropped, Triggers!trigger, Triggers!timers
<1>8. ASSUME NEW m \in Triggers!Managers, Triggers!Fires(m)
      PROVE  TriggersInv' /\ Triggers!QuietStep
  <2>1. runs' \in BOOLEAN
    BY <1>8 DEF Triggers!Fires
  <2> QED BY <1>8, <2>1 DEF Triggers!Fires, Triggers!trigger
<1>9. ASSUME NEW m \in Triggers!Watchers, Triggers!GraceOver(m)
      PROVE  TriggersInv' /\ Triggers!QuietStep
  BY <1>9 DEF Triggers!GraceOver, Triggers!trigger
<1>10. CASE Triggers!Elapse
  BY <1>10 DEF Triggers!Elapse, Triggers!Less, Triggers!trigger
<1>11. CASE UNCHANGED Triggers!vars
  BY <1>11 DEF Triggers!vars, Triggers!trigger, Triggers!timers, Triggers!history
<1> QED BY <1>1, <1>2, <1>3, <1>4, <1>5, <1>6, <1>7, <1>8, <1>9, <1>10, <1>11
        DEF Triggers!Next

(* A debounce or grace timer that an edit cleared fires nothing, so no run *)
(* is started for what the former trigger saw (stopEntry in                *)
(* folder-watch-manager.ts and its siblings).                              *)
THEOREM FormerStartsNothing == Triggers!Spec => []Triggers!NothingFromFormer
<1>1. Triggers!Init => TriggersInv
  BY TriggersStart
<1>2. TriggersInv /\ [Triggers!Next]_(Triggers!vars) => TriggersInv'
  BY TriggersStep
<1>3. TriggersInv => Triggers!NothingFromFormer
  BY DEF TriggersInv
<1> QED BY <1>1, <1>2, <1>3, PTL DEF Triggers!Spec

(* What is noticed within the grace after a run triggers nothing           *)
(* (notifyRunFinished in folder-watch-manager.ts), and what was noticed    *)
(* before its end triggers within a debounce of it or not at all, for all  *)
(* lengths of the debounce and the grace.                                  *)
THEOREM Quiet == Triggers!Spec => Triggers!QuietAfterRun
<1>1. Triggers!Init => TriggersInv
  BY TriggersStart
<1>2. TriggersInv /\ [Triggers!Next]_(Triggers!vars) => TriggersInv'
           /\ [Triggers!QuietStep]_(Triggers!vars)
  BY TriggersStep
<1> QED BY <1>1, <1>2, PTL DEF Triggers!Spec, Triggers!QuietAfterRun

-----------------------------------------------------------------------------
(* The daemon and the commands that start and stop it                      *)

Bound == {"starting", "serving", "stopping", "closing", "gone"}
Phases == Bound \union {"unused", "boot", "bootRestarted", "retrying", "binding",
                        "checking", "awaiting", "rebinding"}

DaemonTyped ==
    /\ phase \in [Daemon!Daemons -> Phases]
    /\ age \in [Daemon!Daemons -> Nat]
    /\ file \in Daemon!Daemons \union {0}
    /\ victim \in [Daemon!Daemons -> Daemon!Daemons \union {0}]
    /\ cli \in [op : {"none", "start", "stop", "restart"},
                step : {"none", "verifying", "waiting", "probing"},
                old : Daemon!Daemons \union {0}, child : Daemon!Daemons \union {0},
                recorded : BOOLEAN, waited : 0 .. ProbeWait]
    /\ outcome \in [op : {"none", "start", "stop", "restart"},
                    result : {"none", "ok", "running", "died", "timeout", "interrupted"}]

(* What has a deadline has not passed it. *)
AgesKept ==
    \A d \in Daemon!Daemons :
        /\ phase[d] = "unused" => age[d] = 0
        /\ phase[d] \in Daemon!Booting => age[d] <= BootTime
        /\ phase[d] = "retrying" => age[d] <= BindRetry
        /\ phase[d] \in {"stopping", "closing"} => age[d] <= ForceAfter
        /\ phase[d] \notin Daemon!Timed => age[d] <= BindRetry

(* One daemon listens, and whoever is recorded or to be stopped has.       *)
PortKept ==
    /\ \A d, e \in Daemon!Daemons : Daemon!Listens(d) /\ Daemon!Listens(e) => d = e
    /\ file # 0 => phase[file] \in Bound
    /\ \A d \in Daemon!Daemons :
          /\ victim[d] # 0 => phase[victim[d]] \in Bound
          /\ phase[d] \in {"checking", "awaiting"} => victim[d] # 0

(* How far the command is. *)
CommandKept ==
    /\ cli = Daemon!Idle \/ (cli.op # "none" /\ cli.step # "none")
    /\ cli.op = "start" => /\ cli.old = 0 /\ cli.recorded = FALSE
                           /\ cli.step = "probing"
    /\ cli.op = "restart" => (cli.recorded = FALSE <=> cli.old = 0)
    /\ cli.op = "stop" => cli.step # "probing"
    /\ cli.op \in {"start", "restart"} =>
          cli.child # 0 /\ phase[cli.child] # "unused" /\ cli.child # cli.old
    /\ cli.old # 0 => phase[cli.old] \in Bound
    /\ cli.step \in {"verifying", "waiting"} => cli.old # 0
    /\ cli.step = "verifying" => cli.waited <= BootTime
    /\ cli.step = "waiting" =>
          /\ phase[cli.old] \in {"stopping", "closing", "gone"}
          /\ cli.waited <= ForceAfter
          /\ phase[cli.old] # "gone" => cli.waited = age[cli.old]

(* A daemon serves, or one takes over and whatever else is stopping does   *)
(* so for a start's child: this lasts until a command stops it.            *)
Evicting(f) == \E g \in Daemon!Daemons : phase[g] = "awaiting" /\ victim[g] = f
Leftover(f) == phase[f] = "stopping" /\ ~Evicting(f)
Duty ==
    \/ Daemon!Serves
    \/ Daemon!TakesOver /\ \A f \in Daemon!Daemons : ~Leftover(f)

(* A command that found nothing recorded, and finds something now.         *)
NewlyRecorded ==
    cli.step = "probing" /\ cli.recorded = FALSE /\ file # 0 => Duty

(* The daemon that a restart has spawned outlasts those that stop.         *)
ChildOutlasts ==
    LET child == cli.child IN
    cli.op = "restart" =>
        /\ phase[child] \in Bound \union {"bootRestarted", "retrying"}
        /\ phase[child] \in Bound =>
              Duty /\ (cli.step = "verifying" => phase[cli.old] \in {"closing", "gone"})
        /\ cli.step = "verifying" /\ phase[child] \in {"bootRestarted", "retrying"} =>
              age[child] <= cli.waited
        /\ \A f \in Daemon!Daemons :
              Leftover(f) =>
                 /\ phase[child] = "retrying" => age[child] <= age[f] + BootTime
                 /\ cli.step = "probing" => cli.waited <= age[f]
        /\ cli.step = "probing" =>
              /\ phase[child] = "bootRestarted" => cli.waited <= age[child]
              /\ phase[child] = "retrying" /\ ~Duty => cli.waited <= ForceAfter

(* What the last command reported is so still.                             *)
ReportHolds ==
    /\ cli = Daemon!Idle
    /\ \/ outcome.op = "restart" /\ outcome.result # "interrupted"
       \/ outcome.op = "start" /\ outcome.result = "ok"
    => Duty

DaemonInv ==
    /\ DaemonTyped /\ AgesKept /\ PortKept /\ CommandKept /\ NewlyRecorded
    /\ ChildOutlasts /\ ReportHolds

LEMMA DaemonStarts == Daemon!Init => DaemonInv
<1> SUFFICES ASSUME Daemon!Init PROVE DaemonInv
  OBVIOUS
<1> USE DaemonFits
<1>1. /\ \A d \in Daemon!Daemons : phase[d] = "unused" /\ age[d] = 0 /\ victim[d] = 0
      /\ file = 0 /\ cli = Daemon!Idle /\ outcome.op = "none"
      /\ cli.op = "none" /\ cli.step = "none" /\ cli.recorded = FALSE /\ cli.old = 0
  BY DEF Daemon!Init, Daemon!Idle, Daemon!None
<1>2. DaemonTyped
  BY DEF Daemon!Init, DaemonTyped, Daemon!Idle, Daemon!None, Phases
<1>3. AgesKept
  BY <1>1 DEF AgesKept, Daemon!Booting
<1>4. CommandKept /\ PortKept
  BY <1>1 DEF CommandKept, PortKept, Daemon!Listens
<1>5. NewlyRecorded /\ ChildOutlasts /\ ReportHolds
  BY <1>1 DEF NewlyRecorded, ChildOutlasts, ReportHolds
<1> QED BY <1>2, <1>3, <1>4, <1>5 DEF DaemonInv

LEMMA DaemonFacts ==
    ASSUME DaemonInv
    PROVE  /\ phase \in [Daemon!Daemons -> Phases] /\ age \in [Daemon!Daemons -> Nat]
           /\ file \in Daemon!Daemons \union {0}
           /\ victim \in [Daemon!Daemons -> Daemon!Daemons \union {0}]
           /\ cli \in [op : {"none", "start", "stop", "restart"},
                       step : {"none", "verifying", "waiting", "probing"},
                       old : Daemon!Daemons \union {0}, child : Daemon!Daemons \union {0},
                       recorded : BOOLEAN, waited : 0 .. ProbeWait]
           /\ cli.child \in Daemon!Daemons \union {0} /\ cli.old \in Daemon!Daemons \union {0}
           /\ cli.waited \in Nat /\ 0 \notin Daemon!Daemons
           /\ outcome \in [op : {"none", "start", "stop", "restart"},
                           result : {"none", "ok", "running", "died", "timeout",
                                     "interrupted"}]
BY DaemonFits DEF DaemonInv, DaemonTyped, Daemon!Daemons

(* Who holds the port while nobody is on duty is left over: its end is     *)
(* waited for by no start.                                                 *)
LEMMA PortIsLeftover ==
    ASSUME DaemonInv, Daemon!PortTaken, ~Duty
    PROVE  \E f \in Daemon!Daemons : Leftover(f)
<1>1. PICK s \in Daemon!Daemons : phase[s] = "stopping"
  BY DEF Daemon!PortTaken, Daemon!Listens, Duty, Daemon!Serves
<1> SUFFICES ASSUME \A f \in Daemon!Daemons : ~Leftover(f) PROVE FALSE
  OBVIOUS
<1>2. Daemon!TakesOver
  BY <1>1 DEF Leftover, Evicting, Daemon!TakesOver
<1> QED BY <1>2 DEF Duty

(* A daemon does something by itself, in the course of whatever command.   *)
DaemonMoves(d, was, is) ==
    /\ phase[d] = was /\ phase' = [phase EXCEPT ![d] = is]
    /\ <<was, is>> \in
          {<<p, "starting">> : p \in Daemon!Binding}
            \union {<<"boot", "binding">>, <<"bootRestarted", "retrying">>,
                    <<"binding", "checking">>, <<"starting", "serving">>,
                    <<"stopping", "closing">>}
            \union {<<p, "rebinding">> : p \in {"binding", "checking", "awaiting"}}
            \union {<<p, "gone">> : p \in {"boot", "retrying", "rebinding", "stopping",
                                           "closing"}}
    /\ is = "starting" => ~Daemon!PortTaken /\ file' = d
    /\ is = "retrying" => Daemon!PortTaken
    /\ was \in {"retrying", "rebinding"} /\ is = "gone" => Daemon!PortTaken
    /\ was = "retrying" /\ is = "gone" => age[d] = BindRetry
    /\ was = "awaiting" => ~Daemon!Alive(victim[d])
    /\ is = "checking" => file # 0
    /\ victim' = IF was = "binding" /\ is # "starting" THEN [victim EXCEPT ![d] = file]
                 ELSE victim
    /\ age' = IF was \in {"starting", "stopping", "closing"} THEN age
              ELSE [age EXCEPT ![d] = 0]
    /\ file' = file \/ file' = 0 \/ (is = "starting" /\ file' = d)
    /\ cli' = cli /\ outcome' = outcome

LEMMA MovesEffect ==
    ASSUME DaemonInv, NEW d \in Daemon!Daemons, NEW was, NEW is, DaemonMoves(d, was, is)
    PROVE  /\ phase[d] = was /\ phase'[d] = is /\ was # is
           /\ was \in {"boot", "bootRestarted", "retrying", "binding", "checking",
                       "awaiting", "rebinding", "starting", "stopping", "closing"}
           /\ is \in {"starting", "serving", "closing", "gone", "retrying", "binding",
                      "checking", "rebinding"}
           /\ was \in Bound => is \in Bound
           /\ was = "starting" => is = "serving"
           /\ was = "stopping" => is \in {"closing", "gone"}
           /\ was = "closing" => is = "gone"
           /\ was = "bootRestarted" => is \in {"starting", "retrying"}
           /\ was = "retrying" => is \in {"starting", "gone"}
           /\ was = "awaiting" => is = "rebinding"
           /\ was = "rebinding" => is \in {"starting", "gone"}
           /\ is = "closing" => was = "stopping"
           /\ is = "retrying" => was = "bootRestarted"
           /\ is = "serving" => was = "starting"
           /\ is = "checking" => was = "binding"
           /\ \A e \in Daemon!Daemons :
                 e # d => phase'[e] = phase[e] /\ age'[e] = age[e] /\ victim'[e] = victim[e]
           /\ victim'[d] = victim[d] \/ victim'[d] = file
           /\ age'[d] = IF was \in {"starting", "stopping", "closing"} THEN age[d] ELSE 0
<1>1. /\ phase \in [Daemon!Daemons -> Phases] /\ age \in [Daemon!Daemons -> Nat]
      /\ victim \in [Daemon!Daemons -> Daemon!Daemons \union {0}]
  BY DaemonFacts
<1>2. /\ phase[d] = was /\ phase' = [phase EXCEPT ![d] = is]
      /\ victim' = victim \/ victim' = [victim EXCEPT ![d] = file]
      /\ age' = IF was \in {"starting", "stopping", "closing"} THEN age
                ELSE [age EXCEPT ![d] = 0]
  BY DEF DaemonMoves
<1>3. /\ was # is
      /\ was \in {"boot", "bootRestarted", "retrying", "binding", "checking",
                  "awaiting", "rebinding", "starting", "stopping", "closing"}
      /\ is \in {"starting", "serving", "closing", "gone", "retrying", "binding",
                 "checking", "rebinding"}
      /\ was \in Bound => is \in Bound
      /\ was = "starting" => is = "serving"
      /\ was = "stopping" => is \in {"closing", "gone"}
      /\ was = "closing" => is = "gone"
      /\ was = "bootRestarted" => is \in {"starting", "retrying"}
      /\ was = "retrying" => is \in {"starting", "gone"}
      /\ was = "awaiting" => is = "rebinding"
      /\ was = "rebinding" => is \in {"starting", "gone"}
      /\ is = "closing" => was = "stopping"
      /\ is = "retrying" => was = "bootRestarted"
      /\ is = "serving" => was = "starting"
      /\ is = "checking" => was = "binding"
  BY DEF DaemonMoves, Daemon!Binding, Bound
<1>4. /\ phase'[d] = is
      /\ \A e \in Daemon!Daemons :
            e # d => phase'[e] = phase[e] /\ age'[e] = age[e] /\ victim'[e] = victim[e]
      /\ victim'[d] = victim[d] \/ victim'[d] = file
      /\ age'[d] = IF was \in {"starting", "stopping", "closing"} THEN age[d] ELSE 0
  BY <1>1, <1>2
<1> QED BY <1>2, <1>3, <1>4

(* A move makes nobody a leftover, and leaves duty as it is. *)
LEMMA MovesLeftover ==
    ASSUME DaemonInv, NEW d \in Daemon!Daemons, NEW was, NEW is, DaemonMoves(d, was, is),
           NEW f \in Daemon!Daemons, Leftover(f)'
    PROVE  Leftover(f) /\ age'[f] = age[f]
<1>1. f # d /\ phase[f] = "stopping" /\ age'[f] = age[f]
  BY MovesEffect DEF Leftover
<1>2. ASSUME NEW g \in Daemon!Daemons, phase[g] = "awaiting", victim[g] = f PROVE FALSE
  <2>1. CASE g = d
    <3>1. ~Daemon!Alive(f) /\ f # 0
      BY <1>2, <2>1, MovesEffect, DaemonFacts DEF DaemonMoves
    <3> QED BY <1>1, <3>1 DEF Daemon!Alive, Daemon!None
  <2>2. CASE g # d
    <3>1. phase'[g] = "awaiting" /\ victim'[g] = f
      BY <1>2, <2>2, MovesEffect
    <3> QED BY <3>1 DEF Leftover, Evicting, Daemon!Daemons
  <2> QED BY <2>1, <2>2
<1> QED BY <1>1, <1>2 DEF Leftover, Evicting

LEMMA MovesDuty ==
    ASSUME DaemonInv, NEW d \in Daemon!Daemons, NEW was, NEW is, DaemonMoves(d, was, is),
           Duty
    PROVE  Duty'
<1>1. CASE is \in {"starting", "serving"}
  <2>1. Daemon!Serves'
    BY <1>1, MovesEffect DEF Daemon!Serves, Daemon!Daemons
  <2> QED BY <2>1 DEF Duty
<1>2. CASE Daemon!Serves /\ is \notin {"starting", "serving"}
  <2>1. PICK e \in Daemon!Daemons : phase[e] \in {"starting", "serving"}
    BY <1>2 DEF Daemon!Serves
  <2>2. e # d /\ phase'[e] = phase[e]
    BY <1>2, <2>1, MovesEffect
  <2>3. Daemon!Serves'
    BY <2>1, <2>2 DEF Daemon!Serves, Daemon!Daemons
  <2> QED BY <2>3 DEF Duty
<1>3. CASE ~Daemon!Serves /\ is \notin {"starting", "serving"}
  <2>1. PICK t \in Daemon!Daemons : phase[t] \in {"awaiting", "rebinding"}
    BY <1>3 DEF Duty, Daemon!TakesOver
  <2>2. \A f \in Daemon!Daemons : ~Leftover(f)
    BY <1>3 DEF Duty
  <2>3. \A f \in Daemon!Daemons : ~Leftover(f)'
    BY <2>2, MovesLeftover
  <2>4. \E g \in Daemon!Daemons : phase'[g] \in {"awaiting", "rebinding"}
    <3>1. CASE t # d
      BY <2>1, <3>1, MovesEffect
    <3>2. CASE t = d /\ was = "awaiting"
      BY <2>1, <3>2, MovesEffect
    <3>3. CASE t = d /\ was = "rebinding"
      <4>1. is = "gone"
        BY <1>3, <3>3, MovesEffect
      <4>2. Daemon!PortTaken
        BY <3>3, <4>1 DEF DaemonMoves
      <4>3. PICK s \in Daemon!Daemons : phase[s] = "stopping"
        BY <1>3, <4>2 DEF Daemon!PortTaken, Daemon!Listens, Daemon!Serves
      <4>4. PICK g \in Daemon!Daemons : phase[g] = "awaiting"
        BY <2>2, <4>3 DEF Leftover, Evicting
      <4> QED BY <3>3, <4>4, MovesEffect
    <3> QED BY <2>1, <3>1, <3>2, <3>3, MovesEffect
  <2>5. Daemon!TakesOver'
    BY <2>4 DEF Daemon!TakesOver, Daemon!Daemons
  <2> QED BY <2>3, <2>5 DEF Duty, Daemon!Daemons
<1> QED BY <1>1, <1>2, <1>3

LEMMA MovesKeep ==
    ASSUME DaemonInv, NEW d \in Daemon!Daemons, NEW was, NEW is, DaemonMoves(d, was, is)
    PROVE  DaemonInv'
<1> USE DaemonFits
<1>0. /\ phase \in [Daemon!Daemons -> Phases] /\ age \in [Daemon!Daemons -> Nat]
      /\ file \in Daemon!Daemons \union {0} /\ 0 \notin Daemon!Daemons
      /\ victim \in [Daemon!Daemons -> Daemon!Daemons \union {0}]
      /\ cli.child \in Daemon!Daemons \union {0} /\ cli.old \in Daemon!Daemons \union {0}
      /\ cli.waited \in Nat
  BY DaemonFacts
<1>1. /\ phase' = [phase EXCEPT ![d] = is] /\ phase[d] = was /\ cli' = cli
      /\ age' = IF was \in {"starting", "stopping", "closing"} THEN age
                ELSE [age EXCEPT ![d] = 0]
      /\ victim' = victim \/ victim' = [victim EXCEPT ![d] = file]
      /\ outcome' = outcome
      /\ file' = file \/ file' = 0 \/ (is = "starting" /\ file' = d)
  BY DEF DaemonMoves
<1>2. /\ was # is
      /\ was \in {"boot", "bootRestarted", "retrying", "binding", "checking",
                  "awaiting", "rebinding", "starting", "stopping", "closing"}
      /\ is \in {"starting", "serving", "closing", "gone", "retrying", "binding",
                 "checking", "rebinding"}
      /\ was \in Bound => is \in Bound
      /\ was = "starting" => is = "serving"
      /\ was = "stopping" => is \in {"closing", "gone"}
      /\ was = "closing" => is = "gone"
      /\ was = "bootRestarted" => is \in {"starting", "retrying"}
      /\ was = "retrying" => is \in {"starting", "gone"}
      /\ is = "closing" => was = "stopping"
      /\ is = "retrying" => was = "bootRestarted"
      /\ is = "serving" => was = "starting"
      /\ is = "checking" => was = "binding"
  BY MovesEffect
<1>3. /\ phase'[d] = is
      /\ \A e \in Daemon!Daemons :
            e # d => phase'[e] = phase[e] /\ age'[e] = age[e] /\ victim'[e] = victim[e]
      /\ victim'[d] = victim[d] \/ victim'[d] = file
      /\ age'[d] = IF was \in {"starting", "stopping", "closing"} THEN age[d] ELSE 0
  BY MovesEffect
<1>4. DaemonTyped'
  <2>1. phase' \in [Daemon!Daemons -> Phases]
    BY <1>0, <1>1, <1>2 DEF Phases, Bound
  <2>2. age' \in [Daemon!Daemons -> Nat]
    BY <1>0, <1>1
  <2>3. file' \in Daemon!Daemons \union {0}
    BY <1>0, <1>1
  <2>4. victim' \in [Daemon!Daemons -> Daemon!Daemons \union {0}]
    BY <1>0, <1>1
  <2> QED BY <1>1, <2>1, <2>2, <2>3, <2>4 DEF DaemonInv, DaemonTyped, Daemon!Daemons
<1>5. AgesKept'
  <2> SUFFICES ASSUME NEW e \in Daemon!Daemons
               PROVE  /\ phase'[e] = "unused" => age'[e] = 0
                      /\ phase'[e] \in Daemon!Booting => age'[e] <= BootTime
                      /\ phase'[e] = "retrying" => age'[e] <= BindRetry
                      /\ phase'[e] \in {"stopping", "closing"} => age'[e] <= ForceAfter
                      /\ phase'[e] \notin Daemon!Timed => age'[e] <= BindRetry
    BY DEF AgesKept, Daemon!Daemons, Daemon!Timed, Daemon!Booting
  <2>1. /\ phase[e] = "unused" => age[e] = 0
        /\ phase[e] \in Daemon!Booting => age[e] <= BootTime
        /\ phase[e] = "retrying" => age[e] <= BindRetry
        /\ phase[e] \in {"stopping", "closing"} => age[e] <= ForceAfter
        /\ phase[e] \notin Daemon!Timed => age[e] <= BindRetry
    BY DEF DaemonInv, AgesKept
  <2>2. CASE e # d
    BY <1>3, <2>1, <2>2
  <2>3. CASE e = d
    BY <1>0, <1>1, <1>2, <1>3, <2>1, <2>3 DEF Daemon!Timed, Daemon!Booting
  <2> QED BY <2>2, <2>3
<1>6. CommandKept'
  <2>1. \A e \in Daemon!Daemons : phase[e] # "unused" => phase'[e] # "unused"
    BY <1>2, <1>3
  <2>2. cli.op \in {"start", "restart"} => phase'[cli.child] # "unused"
    BY <1>0, <1>1, <1>2, <1>3, <2>1 DEF DaemonInv, CommandKept
  <2>3. cli.step = "waiting" =>
          /\ phase'[cli.old] \in {"stopping", "closing", "gone"}
          /\ phase'[cli.old] # "gone" => cli.waited = age'[cli.old]
    BY <1>0, <1>1, <1>2, <1>3 DEF DaemonInv, CommandKept
  <2>4. cli.old # 0 => phase'[cli.old] \in Bound
    BY <1>0, <1>1, <1>2, <1>3 DEF DaemonInv, CommandKept
  <2> QED BY <1>1, <2>2, <2>3, <2>4 DEF DaemonInv, CommandKept, Daemon!Idle, Daemon!None
<1>12. PortKept'
  <2>1. \A e \in Daemon!Daemons : phase[e] \in Bound => phase'[e] \in Bound
    BY <1>1, <1>2, <1>3
  <2>2. file' # 0 => phase'[file'] \in Bound
    <3>1. CASE is = "starting" /\ file' = d
      BY <1>3, <3>1 DEF Bound
    <3>2. CASE file' = file
      BY <1>0, <2>1, <3>2 DEF DaemonInv, PortKept
    <3> QED BY <1>1, <3>1, <3>2
  <2>3. ASSUME NEW e \in Daemon!Daemons
        PROVE  /\ victim'[e] # 0 => phase'[victim'[e]] \in Bound
               /\ phase'[e] \in {"checking", "awaiting"} => victim'[e] # 0
    <3>1. /\ victim[e] # 0 => phase[victim[e]] \in Bound
          /\ phase[e] \in {"checking", "awaiting"} => victim[e] # 0
          /\ file # 0 => phase[file] \in Bound
      BY DEF DaemonInv, PortKept
    <3>2. victim[e] \in Daemon!Daemons \union {0}
      BY <1>0
    <3>3. CASE e # d
      BY <1>3, <2>1, <3>1, <3>2, <3>3
    <3>4. CASE e = d
      <4>1. is = "checking" => victim'[d] = file /\ file # 0
        BY <1>0, <1>2 DEF DaemonMoves
      <4> QED BY <1>0, <1>2, <1>3, <2>1, <3>1, <3>2, <3>4, <4>1
    <3> QED BY <3>3, <3>4
  <2>4. ASSUME NEW e \in Daemon!Daemons, Daemon!Listens(e)'
        PROVE  /\ e # d => Daemon!Listens(e)
               /\ e = d => is = "starting" \/ Daemon!Listens(d)
    BY <1>1, <1>2, <1>3, <2>4 DEF Daemon!Listens
  <2>5. is = "starting" => \A e \in Daemon!Daemons : ~Daemon!Listens(e)
    BY DEF DaemonMoves, Daemon!PortTaken
  <2>6. \A e, f \in Daemon!Daemons : Daemon!Listens(e) /\ Daemon!Listens(f) => e = f
    BY DEF DaemonInv, PortKept
  <2>7. \A e, f \in Daemon!Daemons : Daemon!Listens(e)' /\ Daemon!Listens(f)' => e = f
    BY <2>4, <2>5, <2>6
  <2> QED BY <2>2, <2>3, <2>7 DEF PortKept, Daemon!Daemons
<1>13. is = "starting" => Duty'
  <2>1. is = "starting" => Daemon!Serves'
    BY <1>3 DEF Daemon!Serves, Daemon!Daemons
  <2> QED BY <2>1 DEF Duty
<1>14. Duty => Duty'
  BY MovesDuty
<1>7. NewlyRecorded'
  <2> SUFFICES ASSUME cli.step = "probing", cli.recorded = FALSE, file' # 0
               PROVE  Duty'
    BY <1>1 DEF NewlyRecorded
  <2>1. CASE file' = file
    BY <1>14, <2>1 DEF DaemonInv, NewlyRecorded
  <2> QED BY <1>1, <1>13, <2>1
<1>8. ChildOutlasts'
  <2> SUFFICES ASSUME cli.op = "restart" PROVE ChildOutlasts'
    BY <1>1 DEF ChildOutlasts
  <2> DEFINE child == cli.child
  <2>1. child \in Daemon!Daemons /\ child # cli.old
    BY <1>0 DEF DaemonInv, CommandKept
  <2>2. /\ phase[child] \in Bound \union {"bootRestarted", "retrying"}
        /\ phase[child] \in Bound =>
              Duty /\ (cli.step = "verifying" => phase[cli.old] \in {"closing", "gone"})
        /\ cli.step = "verifying" /\ phase[child] \in {"bootRestarted", "retrying"} =>
              age[child] <= cli.waited
        /\ \A f \in Daemon!Daemons :
              Leftover(f) =>
                 /\ phase[child] = "retrying" => age[child] <= age[f] + BootTime
                 /\ cli.step = "probing" => cli.waited <= age[f]
        /\ cli.step = "probing" =>
              /\ phase[child] = "bootRestarted" => cli.waited <= age[child]
              /\ phase[child] = "retrying" /\ ~Duty => cli.waited <= ForceAfter
    BY DEF DaemonInv, ChildOutlasts
  <2>3. \A f \in Daemon!Daemons : Leftover(f) => age[f] <= ForceAfter /\ age[f] \in Nat
    BY <1>0 DEF DaemonInv, AgesKept, Leftover
  <2>4. cli.step = "verifying" => cli.old \in Daemon!Daemons /\ phase[cli.old] \in Bound
    BY <1>0 DEF DaemonInv, CommandKept
  <2>6. phase'[child] \in Bound \union {"bootRestarted", "retrying"}
    BY <1>1, <1>2, <1>3, <2>1, <2>2 DEF Bound
  <2>7. ASSUME phase'[child] \in Bound
        PROVE  Duty' /\ (cli.step = "verifying" => phase'[cli.old] \in {"closing", "gone"})
    <3>1. CASE phase[child] \in Bound
      <4>1. cli.step = "verifying" => phase'[cli.old] \in {"closing", "gone"}
        BY <1>1, <1>2, <1>3, <2>2, <2>4, <3>1
      <4> QED BY <1>14, <2>2, <3>1, <4>1
    <3>2. CASE phase[child] \notin Bound
      <4>1. child = d /\ was \in {"bootRestarted", "retrying"}
        BY <1>1, <1>3, <2>1, <2>2, <2>7, <3>2
      <4>2. is \in {"starting", "gone"} /\ (is = "gone" => was = "retrying")
        BY <1>2, <1>3, <2>7, <4>1 DEF Bound
      <4>3. CASE is = "starting"
        <5>1. cli.step = "verifying" => phase[cli.old] \in {"closing", "gone"}
          BY <2>4, <4>3 DEF DaemonMoves, Daemon!PortTaken, Daemon!Listens, Bound
        <5> QED BY <1>3, <1>13, <2>1, <2>4, <4>1, <4>3, <5>1
      <4>4. CASE is = "gone"
        <5>1. Daemon!PortTaken /\ age[child] = BindRetry /\ phase[child] = "retrying"
          BY <1>1, <4>1, <4>2, <4>4 DEF DaemonMoves
        <5>2. cli.step # "verifying"
          BY <1>0, <2>1, <2>2, <5>1 DEF DaemonInv, CommandKept
        <5>3. Duty
          <6> SUFFICES ASSUME ~Duty PROVE FALSE
            OBVIOUS
          <6>1. PICK f \in Daemon!Daemons : Leftover(f)
            BY <5>1, PortIsLeftover
          <6> QED BY <2>2, <2>3, <5>1, <6>1
        <5> QED BY <1>14, <5>2, <5>3
      <4> QED BY <4>2, <4>3, <4>4
    <3> QED BY <3>1, <3>2
  <2>8. cli.step = "verifying" /\ phase'[child] \in {"bootRestarted", "retrying"} =>
           age'[child] <= cli.waited
    BY <1>0, <1>1, <1>2, <1>3, <2>1, <2>2
  <2>9. ASSUME NEW f \in Daemon!Daemons, Leftover(f)'
        PROVE  /\ phase'[child] = "retrying" => age'[child] <= age'[f] + BootTime
               /\ cli.step = "probing" => cli.waited <= age'[f]
    <3>1. Leftover(f) /\ age'[f] = age[f]
      BY <2>9, MovesLeftover
    <3>2. phase'[child] = "retrying" =>
             (phase[child] = "retrying" /\ age'[child] = age[child]) \/ age'[child] = 0
      BY <1>1, <1>2, <1>3, <2>1
    <3> QED BY <1>0, <2>2, <2>3, <3>1, <3>2
  <2>10. cli.step = "probing" /\ phase'[child] = "bootRestarted" =>
            cli.waited <= age'[child]
    BY <1>0, <1>1, <1>2, <1>3, <2>1, <2>2
  <2>11. ASSUME cli.step = "probing", phase'[child] = "retrying", ~Duty'
         PROVE  cli.waited <= ForceAfter
    <3>1. ~Duty
      BY <1>14, <2>11
    <3>2. CASE phase[child] = "retrying"
      BY <2>2, <2>11, <3>1, <3>2
    <3>3. CASE phase[child] # "retrying"
      <4>1. is = "retrying"
        BY <1>3, <2>1, <2>11, <3>3
      <4>2. PICK f \in Daemon!Daemons : Leftover(f)
        BY <3>1, <4>1, PortIsLeftover DEF DaemonMoves
      <4> QED BY <1>0, <2>2, <2>3, <2>11, <4>2
    <3> QED BY <3>2, <3>3
  <2> QED BY <1>1, <2>6, <2>7, <2>8, <2>9, <2>10, <2>11 DEF ChildOutlasts, Daemon!Daemons
<1>9. ReportHolds'
  BY <1>1, <1>14 DEF DaemonInv, ReportHolds, Daemon!Idle, Daemon!None
<1> QED BY <1>4, <1>5, <1>6, <1>7, <1>8, <1>9, <1>12 DEF DaemonInv

-----------------------------------------------------------------------------

(* A start's child signals the daemon that it takes over from.             *)
LEMMA EvictsKeep ==
    ASSUME DaemonInv, NEW d \in Daemon!Daemons, phase[d] = "checking",
           Daemon!Alive(victim[d]),
           Daemon!Signalled(victim[d], [phase EXCEPT ![d] = "awaiting"]),
           UNCHANGED <<victim, cli, outcome>>
    PROVE  DaemonInv'
<1> USE DaemonFits DEF Daemon!None
<1> DEFINE v == victim[d]
           is == IF phase[v] = "serving" THEN "stopping" ELSE "gone"
<1>0. /\ phase \in [Daemon!Daemons -> Phases] /\ age \in [Daemon!Daemons -> Nat]
      /\ file \in Daemon!Daemons \union {0} /\ 0 \notin Daemon!Daemons
      /\ victim \in [Daemon!Daemons -> Daemon!Daemons \union {0}]
      /\ cli.child \in Daemon!Daemons \union {0} /\ cli.old \in Daemon!Daemons \union {0}
      /\ cli.waited \in Nat
  BY DaemonFacts
<1>1. v \in Daemon!Daemons /\ phase[v] \in Bound /\ v # d /\ victim[d] = v
  BY <1>0 DEF Daemon!Alive, DaemonInv, PortKept, Bound
<1>2. /\ phase' = [phase EXCEPT ![d] = "awaiting", ![v] = is]
      /\ age' = [age EXCEPT ![v] = 0]
      /\ file' = file \/ file' = 0
      /\ victim' = victim /\ cli' = cli /\ outcome' = outcome
  BY <1>0, <1>1 DEF Daemon!Signalled
<1>14. is \in {"stopping", "gone"} /\ (is = "stopping" => phase[v] = "serving")
  OBVIOUS
<1> HIDE DEF is, v
<1>3. /\ phase'[d] = "awaiting" /\ phase'[v] = is /\ age'[v] = 0
      /\ is \in {"stopping", "gone"} /\ (is = "stopping" => phase[v] = "serving")
      /\ \A e \in Daemon!Daemons : e # v => age'[e] = age[e]
      /\ \A e \in Daemon!Daemons : e # v /\ e # d => phase'[e] = phase[e]
  BY <1>0, <1>1, <1>2, <1>14
<1>4. DaemonTyped'
  <2>1. phase' \in [Daemon!Daemons -> Phases]
    BY <1>0, <1>2, <1>3 DEF Phases, Bound
  <2>2. age' \in [Daemon!Daemons -> Nat]
    BY <1>0, <1>2
  <2> QED BY <1>0, <1>2, <2>1, <2>2 DEF DaemonInv, DaemonTyped, Daemon!Daemons
<1>5. AgesKept'
  <2> SUFFICES ASSUME NEW e \in Daemon!Daemons
               PROVE  /\ phase'[e] = "unused" => age'[e] = 0
                      /\ phase'[e] \in Daemon!Booting => age'[e] <= BootTime
                      /\ phase'[e] = "retrying" => age'[e] <= BindRetry
                      /\ phase'[e] \in {"stopping", "closing"} => age'[e] <= ForceAfter
                      /\ phase'[e] \notin Daemon!Timed => age'[e] <= BindRetry
    BY DEF AgesKept, Daemon!Daemons, Daemon!Timed, Daemon!Booting
  <2>1. CASE e = v
    BY <1>3, <2>1 DEF Daemon!Booting
  <2>2. CASE e = d
    <3>1. age[d] <= BootTime /\ age[d] \in Nat
      BY <1>0 DEF DaemonInv, AgesKept, Daemon!Booting
    <3> QED BY <1>1, <1>3, <2>2, <3>1 DEF Daemon!Booting
  <2>3. CASE e # v /\ e # d
    BY <1>3, <2>3 DEF DaemonInv, AgesKept
  <2> QED BY <2>1, <2>2, <2>3
<1>6. \A e \in Daemon!Daemons :
         phase[e] \in Bound => phase'[e] \in Bound /\ (phase[e] # "serving" /\ e # v
                                                        => phase'[e] = phase[e])
  BY <1>1, <1>3 DEF Bound
<1>7. CommandKept'
  <2>1. cli.op \in {"start", "restart"} => phase'[cli.child] # "unused"
    BY <1>0, <1>3 DEF DaemonInv, CommandKept
  <2>2. cli.old # 0 => phase'[cli.old] \in Bound
    BY <1>0, <1>6 DEF DaemonInv, CommandKept
  <2>3. cli.step = "waiting" =>
          /\ phase'[cli.old] \in {"stopping", "closing", "gone"}
          /\ phase'[cli.old] # "gone" => cli.waited = age'[cli.old]
    <3> SUFFICES ASSUME cli.step = "waiting"
                 PROVE  /\ phase'[cli.old] \in {"stopping", "closing", "gone"}
                        /\ phase'[cli.old] # "gone" => cli.waited = age'[cli.old]
      OBVIOUS
    <3>1. /\ cli.old \in Daemon!Daemons
          /\ phase[cli.old] \in {"stopping", "closing", "gone"}
          /\ phase[cli.old] # "gone" => cli.waited = age[cli.old]
      BY <1>0 DEF DaemonInv, CommandKept
    <3>2. cli.old # d
      BY <3>1
    <3> QED BY <1>3, <3>1, <3>2
  <2> QED BY <1>2, <2>1, <2>2, <2>3 DEF DaemonInv, CommandKept, Daemon!Idle
<1>8. PortKept'
  <2>1. ASSUME NEW e \in Daemon!Daemons, Daemon!Listens(e)' PROVE Daemon!Listens(e)
    BY <1>3, <2>1 DEF Daemon!Listens
  <2>2. \A e, f \in Daemon!Daemons : Daemon!Listens(e) /\ Daemon!Listens(f) => e = f
    BY DEF DaemonInv, PortKept
  <2>3. \A e, f \in Daemon!Daemons : Daemon!Listens(e)' /\ Daemon!Listens(f)' => e = f
    BY <2>1, <2>2
  <2>4. file' # 0 => phase'[file'] \in Bound
    BY <1>0, <1>2, <1>6 DEF DaemonInv, PortKept
  <2>5. ASSUME NEW e \in Daemon!Daemons
        PROVE  /\ victim[e] # 0 => phase'[victim[e]] \in Bound
               /\ phase'[e] \in {"checking", "awaiting"} => victim[e] # 0
    <3>1. /\ victim[e] # 0 => phase[victim[e]] \in Bound
          /\ phase[e] \in {"checking", "awaiting"} => victim[e] # 0
          /\ victim[e] \in Daemon!Daemons \union {0}
      BY <1>0 DEF DaemonInv, PortKept
    <3> QED BY <1>1, <1>3, <1>6, <3>1
  <2> QED BY <1>2, <2>3, <2>4, <2>5 DEF PortKept, Daemon!Daemons
<1>9. ASSUME NEW f \in Daemon!Daemons, Leftover(f)'
      PROVE  Leftover(f) /\ age'[f] = age[f] /\ f # v
  <2>1. \A g \in Daemon!Daemons : phase'[g] = "awaiting" => victim[g] # f
    BY <1>2, <1>9 DEF Leftover, Evicting, Daemon!Daemons
  <2>2. f # v
    BY <1>1, <1>3, <2>1
  <2>3. phase[f] = "stopping"
    BY <1>3, <1>9, <2>2 DEF Leftover
  <2>4. ~Evicting(f)
    BY <1>1, <1>3, <2>1 DEF Evicting, Bound
  <2> QED BY <1>3, <2>2, <2>3, <2>4 DEF Leftover
<1>10. ASSUME Duty PROVE Duty'
  <2>1. Daemon!TakesOver'
    BY <1>3 DEF Daemon!TakesOver, Daemon!Daemons
  <2>2. CASE ~Daemon!Serves
    <3>1. \A f \in Daemon!Daemons : ~Leftover(f)'
      BY <1>9, <1>10, <2>2 DEF Duty
    <3> QED BY <2>1, <3>1 DEF Duty, Daemon!Daemons
  <2>3. CASE Daemon!Serves
    <3>1. PICK s \in Daemon!Daemons : phase[s] \in {"starting", "serving"}
      BY <2>3 DEF Daemon!Serves
    <3>2. CASE s = v
      <4>1. \A f \in Daemon!Daemons : phase[f] = "stopping" => f = v
        BY <1>1, <3>1, <3>2 DEF DaemonInv, PortKept, Daemon!Listens
      <4>2. \A f \in Daemon!Daemons : ~Leftover(f)'
        BY <1>9, <4>1 DEF Leftover
      <4> QED BY <2>1, <4>2 DEF Duty, Daemon!Daemons
    <3>3. CASE s # v
      <4>1. phase'[s] = phase[s]
        BY <1>3, <3>1, <3>3
      <4>2. Daemon!Serves'
        BY <3>1, <4>1 DEF Daemon!Serves, Daemon!Daemons
      <4> QED BY <4>2 DEF Duty
    <3> QED BY <3>2, <3>3
  <2> QED BY <2>2, <2>3
<1>11. NewlyRecorded' /\ ReportHolds'
  BY <1>2, <1>10 DEF DaemonInv, NewlyRecorded, ReportHolds, Daemon!Idle
<1>12. ChildOutlasts'
  <2> SUFFICES ASSUME cli.op = "restart" PROVE ChildOutlasts'
    BY <1>2 DEF ChildOutlasts
  <2> DEFINE child == cli.child
  <2>1. child \in Daemon!Daemons /\ child # cli.old
    BY <1>0 DEF DaemonInv, CommandKept
  <2>2. /\ phase[child] \in Bound \union {"bootRestarted", "retrying"}
        /\ phase[child] \in Bound =>
              Duty /\ (cli.step = "verifying" => phase[cli.old] \in {"closing", "gone"})
        /\ cli.step = "verifying" /\ phase[child] \in {"bootRestarted", "retrying"} =>
              age[child] <= cli.waited
        /\ \A f \in Daemon!Daemons :
              Leftover(f) =>
                 /\ phase[child] = "retrying" => age[child] <= age[f] + BootTime
                 /\ cli.step = "probing" => cli.waited <= age[f]
        /\ cli.step = "probing" =>
              /\ phase[child] = "bootRestarted" => cli.waited <= age[child]
              /\ phase[child] = "retrying" /\ ~Duty => cli.waited <= ForceAfter
    BY DEF DaemonInv, ChildOutlasts
  <2>3. child # d
    BY <2>2 DEF Bound
  <2>4. /\ phase[child] \in Bound <=> phase'[child] \in Bound
        /\ phase[child] \notin Bound => /\ phase'[child] = phase[child]
                                        /\ age'[child] = age[child]
    BY <1>1, <1>3, <1>6, <2>1, <2>3
  <2>5. phase[child] \in Bound /\ cli.step = "verifying" =>
           phase'[cli.old] \in {"closing", "gone"}
    <3> SUFFICES ASSUME phase[child] \in Bound, cli.step = "verifying"
                 PROVE  phase'[cli.old] \in {"closing", "gone"}
      OBVIOUS
    <3>1. cli.old \in Daemon!Daemons /\ phase[cli.old] \in {"closing", "gone"}
      BY <1>0, <2>2 DEF DaemonInv, CommandKept
    <3> QED BY <1>3, <3>1
  <2>6. ASSUME NEW f \in Daemon!Daemons, Leftover(f)'
        PROVE  /\ phase'[child] = "retrying" => age'[child] <= age'[f] + BootTime
               /\ cli.step = "probing" => cli.waited <= age'[f]
    <3>1. phase'[child] = "retrying" => phase[child] = "retrying" /\ age'[child] = age[child]
      BY <2>2, <2>4 DEF Bound
    <3>2. Leftover(f) /\ age'[f] = age[f]
      BY <1>9, <2>6
    <3> QED BY <2>2, <3>1, <3>2
  <2>7. /\ phase'[child] \in Bound \union {"bootRestarted", "retrying"}
        /\ phase'[child] \in {"bootRestarted", "retrying"} =>
              phase'[child] = phase[child] /\ age'[child] = age[child]
    BY <2>2, <2>4 DEF Bound
  <2> QED BY <1>2, <1>10, <2>2, <2>4, <2>5, <2>6, <2>7 DEF ChildOutlasts, Daemon!Daemons
<1> QED BY <1>4, <1>5, <1>7, <1>8, <1>11, <1>12 DEF DaemonInv

-----------------------------------------------------------------------------

LEMMA DaemonsMove ==
    ASSUME DaemonInv, NEW d \in Daemon!Daemons,
           \/ Daemon!Preflight(d) \/ Daemon!Binds(d) \/ Daemon!PortInUse(d)
           \/ Daemon!Evicts(d) \/ Daemon!Evicted(d) \/ Daemon!HandlesSignals(d)
           \/ Daemon!Closes(d) \/ Daemon!Exits(d)
    PROVE  DaemonInv'
<1> USE DEF Daemon!None
<1>1. CASE Daemon!Preflight(d)
  <2>1. \/ DaemonMoves(d, "boot", "gone")
        \/ DaemonMoves(d, "boot", "binding")
    BY <1>1 DEF Daemon!Preflight, DaemonMoves
  <2> QED BY <2>1, MovesKeep
<1>2. CASE Daemon!Binds(d)
  <2>1. DaemonMoves(d, phase[d], "starting")
    BY <1>2 DEF Daemon!Binds, Daemon!Binding, DaemonMoves
  <2> QED BY <2>1, MovesKeep
<1>3. CASE Daemon!PortInUse(d)
  <2>1. CASE phase[d] = "bootRestarted"
    <3>1. DaemonMoves(d, "bootRestarted", "retrying")
      BY <1>3, <2>1 DEF Daemon!PortInUse, DaemonMoves
    <3> QED BY <3>1, MovesKeep
  <2>2. CASE phase[d] = "binding"
    <3>1. \/ DaemonMoves(d, "binding", "checking")
          \/ DaemonMoves(d, "binding", "rebinding")
      BY <1>3, <2>2 DEF Daemon!PortInUse, DaemonMoves
    <3> QED BY <3>1, MovesKeep
  <2>3. CASE phase[d] \in {"retrying", "rebinding"}
    <3>1. DaemonMoves(d, phase[d], "gone")
      BY <1>3, <2>3 DEF Daemon!PortInUse, DaemonMoves
    <3> QED BY <3>1, MovesKeep
  <2> QED BY <1>3, <2>1, <2>2, <2>3 DEF Daemon!PortInUse, Daemon!Binding
<1>4. CASE Daemon!Evicts(d)
  <2>1. CASE Daemon!Alive(victim[d])
    <3>1. /\ phase[d] = "checking"
          /\ Daemon!Signalled(victim[d], [phase EXCEPT ![d] = "awaiting"])
          /\ UNCHANGED <<victim, cli, outcome>>
      BY <1>4, <2>1 DEF Daemon!Evicts
    <3> QED BY <2>1, <3>1, EvictsKeep
  <2>2. CASE ~Daemon!Alive(victim[d])
    <3>1. DaemonMoves(d, "checking", "rebinding")
      BY <1>4, <2>2 DEF Daemon!Evicts, Daemon!FoundDead, DaemonMoves
    <3> QED BY <3>1, MovesKeep
  <2> QED BY <2>1, <2>2
<1>5. CASE Daemon!Evicted(d)
  <2>1. DaemonMoves(d, "awaiting", "rebinding")
    BY <1>5 DEF Daemon!Evicted, DaemonMoves
  <2> QED BY <2>1, MovesKeep
<1>6. CASE Daemon!HandlesSignals(d)
  <2>1. DaemonMoves(d, "starting", "serving")
    BY <1>6 DEF DaemonMoves, Daemon!HandlesSignals
  <2> QED BY <2>1, MovesKeep
<1>7. CASE Daemon!Closes(d)
  <2>1. DaemonMoves(d, "stopping", "closing")
    BY <1>7 DEF DaemonMoves, Daemon!Closes
  <2> QED BY <2>1, MovesKeep
<1>8. CASE Daemon!Exits(d)
  <2>1. phase[d] \in {"stopping", "closing"}
    BY <1>8 DEF Daemon!Exits, Daemon!Overdue
  <2>2. DaemonMoves(d, phase[d], "gone")
    BY <1>8, <2>1 DEF DaemonMoves, Daemon!Exits
  <2> QED BY <2>2, MovesKeep
<1> QED BY <1>1, <1>2, <1>3, <1>4, <1>5, <1>6, <1>7, <1>8

(* What the command goes on with. *)
LEMMA CommandUpdate ==
    ASSUME NEW Op, NEW Step, NEW Old, NEW New, NEW Flag, NEW Time,
           NEW c \in [op : Op, step : Step, old : Old, child : New, recorded : Flag,
                      waited : Time],
           NEW s \in Step, NEW w \in Time
    PROVE  LET next == [c EXCEPT !.step = s, !.waited = w] IN
           /\ next.op = c.op /\ next.step = s /\ next.waited = w
           /\ next.old = c.old /\ next.child = c.child
           /\ next.recorded = c.recorded
           /\ next \in [op : Op, step : Step, old : Old, child : New, recorded : Flag,
                        waited : Time]
OBVIOUS

LEMMA CommandGoesOn ==
    ASSUME DaemonInv, NEW s \in {"verifying", "waiting", "probing"}, NEW w \in 0 .. ProbeWait,
           cli' = [cli EXCEPT !.step = s, !.waited = w]
    PROVE  /\ cli'.op = cli.op /\ cli'.step = s /\ cli'.waited = w
           /\ cli'.old = cli.old /\ cli'.child = cli.child
           /\ cli'.recorded = cli.recorded
           /\ cli' \in [op : {"none", "start", "stop", "restart"},
                       step : {"none", "verifying", "waiting", "probing"},
                       old : Daemon!Daemons \union {0}, child : Daemon!Daemons \union {0},
                       recorded : BOOLEAN, waited : 0 .. ProbeWait]
<1>1. cli \in [op : {"none", "start", "stop", "restart"},
              step : {"none", "verifying", "waiting", "probing"},
              old : Daemon!Daemons \union {0}, child : Daemon!Daemons \union {0},
              recorded : BOOLEAN, waited : 0 .. ProbeWait]
  BY DaemonFacts
<1>2. s \in {"none", "verifying", "waiting", "probing"}
  OBVIOUS
<1> QED BY <1>1, <1>2, CommandUpdate

(* A daemon is spawned, with the command that waits for it.                *)
LEMMA SpawnKeeps ==
    ASSUME DaemonInv, cli = Daemon!Idle, NEW d \in Daemon!Daemons,
           NEW op \in {"start", "restart"}, Daemon!Spawned(d, op),
           UNCHANGED <<age, victim, outcome>>,
           \/ op = "start" /\ file' = 0
           \/ op = "restart" /\ file' = file,
           LET old == IF op = "start" THEN 0 ELSE file IN
              cli' = [op |-> op, step |-> IF old = 0 THEN "probing" ELSE "verifying",
                      old |-> old, child |-> d, recorded |-> old # 0, waited |-> 0]
    PROVE  DaemonInv'
<1> USE DaemonFits
<1>0. /\ phase \in [Daemon!Daemons -> Phases] /\ age \in [Daemon!Daemons -> Nat]
      /\ file \in Daemon!Daemons \union {0} /\ 0 \notin Daemon!Daemons
      /\ victim \in [Daemon!Daemons -> Daemon!Daemons \union {0}]
  BY DaemonFacts
<1> DEFINE old == IF op = "start" THEN 0 ELSE file
           is == IF op = "restart" THEN "bootRestarted" ELSE "boot"
<1>1. /\ phase[d] = "unused" /\ phase' = [phase EXCEPT ![d] = is]
  BY DEF Daemon!Spawned
<1>2. phase'[d] = is /\ age' = age
      /\ \A e \in Daemon!Daemons : e # d => phase'[e] = phase[e]
  BY <1>0, <1>1
<1>3. old # d /\ (old # 0 => phase[old] \in Bound) /\ old \in Daemon!Daemons \union {0}
  BY <1>0, <1>1 DEF DaemonInv, PortKept, Bound
<1>4. /\ cli'.op = op /\ cli'.step = (IF old = 0 THEN "probing" ELSE "verifying")
      /\ cli'.old = old /\ cli'.child = d /\ cli'.waited = 0
      /\ (cli'.recorded = FALSE <=> old = 0)
  <2>1. (old # 0) \in BOOLEAN
    OBVIOUS
  <2> QED BY <2>1
<1>5. age[d] = 0
  BY <1>1 DEF DaemonInv, AgesKept
<1>6. DaemonTyped'
  <2>1. (old # 0) \in BOOLEAN
    OBVIOUS
  <2>2. cli' \in [op : {"none", "start", "stop", "restart"},
                  step : {"none", "verifying", "waiting", "probing"},
                  old : Daemon!Daemons \union {0}, child : Daemon!Daemons \union {0},
                  recorded : BOOLEAN, waited : 0 .. ProbeWait]
    <3>1. (IF old = 0 THEN "probing" ELSE "verifying") \in {"probing", "verifying"}
      OBVIOUS
    <3>2. 0 \in 0 .. ProbeWait
      OBVIOUS
    <3>3. cli' = [op |-> op, step |-> IF old = 0 THEN "probing" ELSE "verifying",
                  old |-> old, child |-> d, recorded |-> old # 0, waited |-> 0]
      OBVIOUS
    <3> HIDE DEF old
    <3> QED BY <1>3, <2>1, <3>1, <3>2, <3>3
  <2>3. phase' \in [Daemon!Daemons -> Phases]
    <3>1. is \in Phases
      BY DEF Phases, Bound
    <3> HIDE DEF is
    <3> QED BY <1>0, <1>1, <3>1
  <2> QED BY <1>0, <1>2, <2>2, <2>3 DEF DaemonInv, DaemonTyped, Daemon!Daemons
<1>7. AgesKept'
  <2> SUFFICES ASSUME NEW e \in Daemon!Daemons
               PROVE  /\ phase'[e] = "unused" => age[e] = 0
                      /\ phase'[e] \in Daemon!Booting => age[e] <= BootTime
                      /\ phase'[e] = "retrying" => age[e] <= BindRetry
                      /\ phase'[e] \in {"stopping", "closing"} => age[e] <= ForceAfter
                      /\ phase'[e] \notin Daemon!Timed => age[e] <= BindRetry
    BY <1>2 DEF AgesKept, Daemon!Daemons, Daemon!Timed, Daemon!Booting
  <2>1. CASE e = d
    BY <1>2, <1>5, <2>1 DEF Daemon!Timed
  <2>2. CASE e # d
    BY <1>2, <2>2 DEF DaemonInv, AgesKept
  <2> QED BY <2>1, <2>2
<1>8. CommandKept'
  <2>1. cli'.old # 0 => phase'[cli'.old] \in Bound
    BY <1>2, <1>3, <1>4
  <2>2. cli'.step = "verifying" => cli'.old # 0
    BY <1>4
  <2>3. phase'[cli'.child] # "unused" /\ cli'.child # 0 /\ cli'.child # cli'.old
    BY <1>0, <1>2, <1>3, <1>4
  <2>4. cli'.step # "waiting" /\ cli'.op \in {"start", "restart"}
    BY <1>4
  <2> QED BY <1>4, <2>1, <2>2, <2>3, <2>4 DEF CommandKept
<1>12. PortKept'
  <2>1. \A e \in Daemon!Daemons :
           /\ phase[e] \in Bound => phase'[e] = phase[e]
           /\ phase'[e] \in Bound \union {"checking", "awaiting"} => phase'[e] = phase[e]
    BY <1>1, <1>2 DEF Bound
  <2>2. \A e \in Daemon!Daemons : Daemon!Listens(e)' => Daemon!Listens(e)
    BY <2>1 DEF Daemon!Listens, Bound
  <2>3. file' # 0 => phase'[file'] \in Bound
    BY <1>0, <2>1 DEF DaemonInv, PortKept
  <2>4. \A e \in Daemon!Daemons :
          /\ victim[e] # 0 => phase'[victim[e]] \in Bound
          /\ phase'[e] \in {"checking", "awaiting"} => victim[e] # 0
    BY <1>0, <2>1 DEF DaemonInv, PortKept
  <2> QED BY <2>2, <2>3, <2>4 DEF DaemonInv, PortKept, Daemon!Daemons
<1>9. NewlyRecorded'
  BY <1>4 DEF NewlyRecorded
<1>10. ChildOutlasts'
  <2> SUFFICES ASSUME op = "restart" PROVE ChildOutlasts'
    BY <1>4 DEF ChildOutlasts
  <2>1. phase'[d] = "bootRestarted" /\ age'[d] = 0
    BY <1>2, <1>5
  <2>2. \A e \in Daemon!Daemons : 0 <= age'[e]
    BY <1>0, <1>2
  <2> QED BY <1>4, <2>1, <2>2 DEF ChildOutlasts, Bound, Daemon!Daemons
<1>11. ReportHolds'
  BY <1>4 DEF ReportHolds, Daemon!Idle
<1> QED BY <1>6, <1>7, <1>8, <1>9, <1>10, <1>11, <1>12 DEF DaemonInv

(* A command ends: what it reports is so. *)
LEMMA PhaseEndKeeps ==
    ASSUME DaemonInv, cli # Daemon!Idle, UNCHANGED <<phase, age, victim>>,
           file' = file \/ file' = 0, NEW result \in {"ok", "died", "timeout", "interrupted"},
           Daemon!Ends(result),
           cli.op = "restart" /\ result # "interrupted" => Duty,
           cli.op = "start" /\ result = "ok" => Duty
    PROVE  DaemonInv'
<1> USE DaemonFits
<1>0. file \in Daemon!Daemons \union {0} /\ cli.op \in {"none", "start", "stop", "restart"}
  BY DaemonFacts
<1>1. /\ cli' = Daemon!Idle /\ cli'.op = "none" /\ cli'.step = "none"
      /\ outcome' = [op |-> cli.op, result |-> result] /\ phase' = phase /\ age' = age
      /\ victim' = victim /\ cli'.old = 0
  BY DEF Daemon!Ends, Daemon!Idle, Daemon!None
<1>2. cli' \in [op : {"none", "start", "stop", "restart"},
                step : {"none", "verifying", "waiting", "probing"},
                old : Daemon!Daemons \union {0}, child : Daemon!Daemons \union {0},
                recorded : BOOLEAN, waited : 0 .. ProbeWait]
  BY <1>1 DEF Daemon!Idle, Daemon!None
<1>3. DaemonTyped' /\ AgesKept'
  <2>1. file' \in Daemon!Daemons \union {0}
    BY <1>0
  <2>2. outcome' \in [op : {"none", "start", "stop", "restart"},
                      result : {"none", "ok", "running", "died", "timeout", "interrupted"}]
    BY <1>0, <1>1
  <2>3. DaemonTyped'
    BY <1>1, <1>2, <2>1, <2>2 DEF DaemonInv, DaemonTyped
  <2>4. AgesKept'
    BY <1>1 DEF DaemonInv, AgesKept
  <2> QED BY <2>3, <2>4
<1>4. CommandKept'
  BY <1>1 DEF CommandKept
<1>7. PortKept'
  BY <1>1 DEF DaemonInv, PortKept, Daemon!Listens, Daemon!Daemons
<1>6. NewlyRecorded' /\ ChildOutlasts'
  BY <1>1 DEF NewlyRecorded, ChildOutlasts
<1>5. ReportHolds'
  <2>1. Duty => Duty'
    BY <1>1 DEF Duty, Daemon!Serves, Daemon!TakesOver, Leftover, Evicting, Daemon!Daemons
  <2> QED BY <1>1, <2>1 DEF ReportHolds
<1> QED BY <1>3, <1>4, <1>5, <1>6, <1>7 DEF DaemonInv

LEMMA CommandsStart ==
    ASSUME DaemonInv, Daemon!Start \/ Daemon!Restart \/ Daemon!Stop
    PROVE  DaemonInv'
<1> USE DaemonFits DEF Daemon!None
<1>0. /\ phase \in [Daemon!Daemons -> Phases] /\ age \in [Daemon!Daemons -> Nat]
      /\ file \in Daemon!Daemons \union {0} /\ 0 \notin Daemon!Daemons
  BY DaemonFacts
(* It refuses, or there is nothing to do. *)
<1>1. ASSUME cli = Daemon!Idle, cli' = cli, UNCHANGED <<phase, age, victim>>,
             file' = file \/ file' = 0,
             outcome' \in {[op |-> "start", result |-> "running"],
                           [op |-> "stop", result |-> "ok"]}
      PROVE  DaemonInv'
  <2>1. /\ cli.op = "none" /\ cli.step = "none" /\ cli' = Daemon!Idle
        /\ phase' = phase /\ age' = age /\ victim' = victim /\ cli.old = 0
    BY <1>1 DEF Daemon!Idle
  <2>2. DaemonTyped'
    BY <1>0, <1>1 DEF DaemonInv, DaemonTyped
  <2>0. AgesKept'
    BY <2>1 DEF DaemonInv, AgesKept
  <2>3. PortKept'
    BY <1>1, <2>1 DEF DaemonInv, PortKept, Daemon!Listens, Daemon!Daemons
  <2>4. CommandKept'
    BY <1>1, <2>1 DEF CommandKept
  <2>5. NewlyRecorded' /\ ChildOutlasts'
    BY <1>1, <2>1 DEF NewlyRecorded, ChildOutlasts
  <2>6. ReportHolds'
    BY <1>1 DEF ReportHolds
  <2> QED BY <2>0, <2>2, <2>3, <2>4, <2>5, <2>6 DEF DaemonInv
<1>2. CASE Daemon!Start
  <2>1. CASE Daemon!Alive(file)
    BY <1>1, <1>2, <2>1 DEF Daemon!Start
  <2>2. CASE ~Daemon!Alive(file)
    <3>1. PICK d \in Daemon!Daemons :
            /\ Daemon!Spawned(d, "start")
            /\ cli' = [Daemon!Idle EXCEPT !.op = "start", !.step = "probing", !.child = d]
      BY <1>2, <2>2 DEF Daemon!Start
    <3>2. cli' = [op |-> "start", step |-> "probing", old |-> 0, child |-> d,
                  recorded |-> FALSE, waited |-> 0]
      BY <3>1 DEF Daemon!Idle
    <3>3. cli = Daemon!Idle /\ file' = 0 /\ UNCHANGED <<age, victim, outcome>>
      BY <1>2, <2>2 DEF Daemon!Start
    <3> HIDE <1>2
    <3> QED BY <3>1, <3>2, <3>3, SpawnKeeps
  <2> QED BY <2>1, <2>2
<1>3. CASE Daemon!Restart
  <2>1. PICK d \in Daemon!Daemons :
          /\ Daemon!Spawned(d, "restart")
          /\ cli' = [Daemon!Idle EXCEPT !.op = "restart", !.old = file, !.child = d,
                                 !.recorded = file # 0,
                                 !.step = IF file = 0 THEN "probing" ELSE "verifying"]
    BY <1>3 DEF Daemon!Restart
  <2>2. cli' = [op |-> "restart", step |-> IF file = 0 THEN "probing" ELSE "verifying",
                old |-> file, child |-> d, recorded |-> file # 0, waited |-> 0]
    BY <2>1 DEF Daemon!Idle
  <2>3. cli = Daemon!Idle /\ file' = file /\ UNCHANGED <<age, victim, outcome>>
    BY <1>3 DEF Daemon!Restart
  <2> QED BY <2>1, <2>2, <2>3, SpawnKeeps
<1>4. CASE Daemon!Stop
  <2>1. CASE file = 0
    BY <1>1, <1>4, <2>1 DEF Daemon!Stop
  <2>2. CASE file # 0
    <3>1. /\ cli' = [op |-> "stop", step |-> "verifying", old |-> file, child |-> 0,
                     recorded |-> FALSE, waited |-> 0]
          /\ file' = file /\ outcome' = outcome /\ phase' = phase /\ age' = age
          /\ victim' = victim
      BY <1>4, <2>2 DEF Daemon!Stop, Daemon!Idle
    <3>2. DaemonTyped' /\ AgesKept'
      BY <1>0, <3>1 DEF DaemonInv, DaemonTyped, AgesKept, Daemon!Daemons
    <3>3. /\ cli'.op = "stop" /\ cli'.step = "verifying" /\ cli'.old = file
          /\ cli'.waited = 0
      BY <3>1
    <3>4. phase'[file] \in Bound
      BY <2>2, <3>1 DEF DaemonInv, PortKept
    <3>5. CommandKept'
      BY <2>2, <3>1, <3>3, <3>4 DEF CommandKept
    <3>7. PortKept'
      BY <3>1 DEF DaemonInv, PortKept, Daemon!Listens, Daemon!Daemons
    <3>6. NewlyRecorded' /\ ChildOutlasts' /\ ReportHolds'
      BY <3>3 DEF NewlyRecorded, ChildOutlasts, ReportHolds, Daemon!Idle
    <3> QED BY <3>2, <3>5, <3>6, <3>7 DEF DaemonInv
  <2> QED BY <2>1, <2>2
<1> QED BY <1>2, <1>3, <1>4

(* The command goes on: the old daemon was signalled, or is gone.          *)
LEMMA OldGoneKeeps ==
    ASSUME DaemonInv, cli.step \in {"verifying", "waiting"},
           UNCHANGED <<phase, age, victim>>,
           IF cli.op = "stop" THEN file' \in {0, file} /\ Daemon!Ends("ok")
                              ELSE Daemon!Probes /\ UNCHANGED file
    PROVE  DaemonInv'
<1> USE DaemonFits DEF Daemon!None
<1>0. /\ cli.op \in {"none", "start", "stop", "restart"}
      /\ cli \in [op : {"none", "start", "stop", "restart"},
                  step : {"none", "verifying", "waiting", "probing"},
                  old : Daemon!Daemons \union {0}, child : Daemon!Daemons \union {0},
                  recorded : BOOLEAN, waited : 0 .. ProbeWait]
      /\ phase \in [Daemon!Daemons -> Phases] /\ age \in [Daemon!Daemons -> Nat]
      /\ 0 \in 0 .. ProbeWait
  BY DaemonFacts
<1>1. cli # Daemon!Idle /\ cli.old # 0
  BY DEF Daemon!Idle, DaemonInv, CommandKept
<1>2. CASE cli.op = "stop"
  BY <1>1, <1>2, PhaseEndKeeps
<1>3. CASE cli.op # "stop"
  <2>1. cli.op = "restart" /\ ~(cli.recorded = FALSE)
    BY <1>0, <1>1, <1>3 DEF DaemonInv, CommandKept, Daemon!Idle
  <2>2. /\ cli' = [cli EXCEPT !.step = "probing", !.waited = 0]
        /\ file' = file /\ outcome' = outcome /\ phase' = phase /\ age' = age
        /\ victim' = victim
    BY <1>3 DEF Daemon!Probes
  <2>3. /\ cli'.op = "restart" /\ cli'.step = "probing" /\ cli'.waited = 0
        /\ cli'.old = cli.old /\ cli'.child = cli.child /\ cli'.recorded = cli.recorded
    BY <1>0, <2>1, <2>2, CommandGoesOn, Zenon
  <2>4. cli' \in [op : {"none", "start", "stop", "restart"},
                  step : {"none", "verifying", "waiting", "probing"},
                  old : Daemon!Daemons \union {0}, child : Daemon!Daemons \union {0},
                  recorded : BOOLEAN, waited : 0 .. ProbeWait]
    BY <1>0, <2>2, CommandGoesOn, Zenon
  <2>5. DaemonTyped' /\ AgesKept'
    BY <2>2, <2>4 DEF DaemonInv, DaemonTyped, AgesKept, Daemon!Daemons
  <2>6. CommandKept'
    BY <2>1, <2>2, <2>3 DEF DaemonInv, CommandKept
  <2>10. PortKept'
    BY <2>2 DEF DaemonInv, PortKept, Daemon!Listens, Daemon!Daemons
  <2>11. /\ Duty' <=> Duty
         /\ \A f \in Daemon!Daemons : Leftover(f)' <=> Leftover(f)
    BY <2>2 DEF Duty, Daemon!Serves, Daemon!TakesOver, Leftover, Evicting, Daemon!Daemons
  <2>7. NewlyRecorded'
    BY <2>1, <2>3 DEF NewlyRecorded
  <2>8. ChildOutlasts'
    <3>1. \A d \in Daemon!Daemons : 0 <= age[d]
      BY <1>0
    <3>2. cli.child \in Daemon!Daemons
      BY <1>0, <2>1 DEF DaemonInv, CommandKept
    <3> QED BY <2>1, <2>2, <2>3, <2>11, <3>1, <3>2 DEF DaemonInv, ChildOutlasts, Daemon!Daemons
  <2>9. ReportHolds'
    BY <2>3 DEF ReportHolds, Daemon!Idle
  <2> QED BY <2>5, <2>6, <2>7, <2>8, <2>9, <2>10 DEF DaemonInv
<1> QED BY <1>2, <1>3

LEMMA SignalKeeps ==
    ASSUME DaemonInv, cli.step = "verifying", Daemon!Alive(cli.old),
           Daemon!Signalled(cli.old, phase), UNCHANGED <<victim, outcome>>,
           cli' = [cli EXCEPT !.step = "waiting", !.waited = 0]
    PROVE  DaemonInv'
<1> USE DaemonFits DEF Daemon!None
<1> DEFINE old == cli.old
           is == IF phase[old] = "serving" THEN "stopping" ELSE "gone"
<1>0. /\ phase \in [Daemon!Daemons -> Phases] /\ age \in [Daemon!Daemons -> Nat]
      /\ file \in Daemon!Daemons \union {0} /\ cli.waited \in Nat
      /\ cli.op \in {"none", "start", "stop", "restart"}
      /\ old \in Daemon!Daemons \union {0} /\ cli.child \in Daemon!Daemons \union {0}
      /\ victim \in [Daemon!Daemons -> Daemon!Daemons \union {0}]
      /\ 0 \in 0 .. ProbeWait /\ 0 \notin Daemon!Daemons
  BY DaemonFacts
<1>1. /\ old \in Daemon!Daemons /\ phase' = [phase EXCEPT ![old] = is]
      /\ age' = [age EXCEPT ![old] = 0]
      /\ file' = file \/ file' = 0
      /\ victim' = victim /\ outcome' = outcome /\ phase[old] \in Bound
  BY <1>0 DEF Daemon!Signalled, Daemon!Alive, DaemonInv, CommandKept
<1>2. /\ phase'[old] = is /\ age'[old] = 0
      /\ \A e \in Daemon!Daemons : e # old => phase'[e] = phase[e] /\ age'[e] = age[e]
  BY <1>0, <1>1
<1>3. /\ cli'.op = cli.op /\ cli'.step = "waiting" /\ cli'.waited = 0
      /\ cli'.old = old /\ cli'.child = cli.child /\ cli'.recorded = cli.recorded
  BY <1>0, CommandGoesOn, Zenon
<1>4. cli.op \in {"stop", "restart"}
  BY <1>0 DEF DaemonInv, CommandKept, Daemon!Idle
<1>5. DaemonTyped'
  <2>1. phase' \in [Daemon!Daemons -> Phases]
    BY <1>0, <1>1 DEF Phases, Bound
  <2>2. age' \in [Daemon!Daemons -> Nat]
    BY <1>0, <1>1
  <2>3. cli' \in [op : {"none", "start", "stop", "restart"},
                  step : {"none", "verifying", "waiting", "probing"},
                  old : Daemon!Daemons \union {0}, child : Daemon!Daemons \union {0},
                  recorded : BOOLEAN, waited : 0 .. ProbeWait]
    BY <1>0, CommandGoesOn, Zenon
  <2> QED BY <1>0, <1>1, <2>1, <2>2, <2>3 DEF DaemonInv, DaemonTyped, Daemon!Daemons
<1>6. AgesKept'
  <2> SUFFICES ASSUME NEW e \in Daemon!Daemons
               PROVE  /\ phase'[e] = "unused" => age'[e] = 0
                      /\ phase'[e] \in Daemon!Booting => age'[e] <= BootTime
                      /\ phase'[e] = "retrying" => age'[e] <= BindRetry
                      /\ phase'[e] \in {"stopping", "closing"} => age'[e] <= ForceAfter
                      /\ phase'[e] \notin Daemon!Timed => age'[e] <= BindRetry
    BY DEF AgesKept, Daemon!Daemons, Daemon!Timed, Daemon!Booting
  <2>1. CASE e = old
    BY <1>2, <2>1
  <2>2. CASE e # old
    BY <1>2, <2>2 DEF DaemonInv, AgesKept
  <2> QED BY <2>1, <2>2
<1>7. CommandKept'
  <2>1. \A e \in Daemon!Daemons : phase[e] # "unused" => phase'[e] # "unused"
    BY <1>2
  <2>2. cli.op = "restart" => phase'[cli.child] # "unused"
    BY <1>0, <1>1, <2>1 DEF DaemonInv, CommandKept
  <2>3. is \in {"stopping", "gone"}
    OBVIOUS
  <2>4. cli'.op # "none" /\ cli'.step # "none"
    BY <1>3, <1>4
  <2>5. cli.op = "restart" => cli.child # 0 /\ cli.child # old
                              /\ (cli.recorded = FALSE <=> old = 0)
    BY DEF DaemonInv, CommandKept
  <2>6. old # 0
    BY DEF DaemonInv, CommandKept
  <2> HIDE DEF is
  <2> QED BY <1>2, <1>3, <1>4, <2>2, <2>3, <2>4, <2>5, <2>6 DEF CommandKept, Bound
<1>10. \A e \in Daemon!Daemons : phase[e] \in Bound => phase'[e] \in Bound
  BY <1>2 DEF Bound
<1>11. PortKept'
  <2>1. \A e \in Daemon!Daemons : Daemon!Listens(e)' => Daemon!Listens(e)
    BY <1>2 DEF Daemon!Listens
  <2>2. file' # 0 => phase'[file'] \in Bound
    BY <1>0, <1>1, <1>10 DEF DaemonInv, PortKept
  <2>3. \A e \in Daemon!Daemons :
           /\ victim[e] # 0 => phase'[victim[e]] \in Bound
           /\ phase'[e] \in {"checking", "awaiting"} => victim[e] # 0
    <3>1. \A e \in Daemon!Daemons : phase'[e] \in {"checking", "awaiting"} =>
                                       phase[e] \in {"checking", "awaiting"}
      BY <1>2
    <3> QED BY <1>0, <1>10, <3>1 DEF DaemonInv, PortKept
  <2> QED BY <1>1, <2>1, <2>2, <2>3 DEF DaemonInv, PortKept, Daemon!Daemons
<1>12. \A f \in Daemon!Daemons :
          /\ Evicting(f) => Evicting(f)'
          /\ Leftover(f)' /\ f # old => Leftover(f) /\ age'[f] = age[f]
  <2>1. \A g \in Daemon!Daemons : phase[g] = "awaiting" =>
                                     phase'[g] = "awaiting" /\ victim'[g] = victim[g]
    BY <1>1, <1>2 DEF Bound
  <2>2. \A f \in Daemon!Daemons : Evicting(f) => Evicting(f)'
    BY <2>1 DEF Evicting, Daemon!Daemons
  <2> QED BY <1>2, <2>2 DEF Leftover
(* One that no longer listens is signalled once more. *)
<1>13. phase[old] \in {"closing", "gone"} /\ Duty => Duty'
  <2> SUFFICES ASSUME phase[old] \in {"closing", "gone"}, Duty PROVE Duty'
    OBVIOUS
  <2>1. phase'[old] = "gone"
    BY <1>2
  <2>2. \A f \in Daemon!Daemons : Leftover(f)' => Leftover(f)
    BY <1>12, <2>1 DEF Leftover
  <2>3. /\ Daemon!Serves => Daemon!Serves'
        /\ Daemon!TakesOver => Daemon!TakesOver'
    BY <1>2 DEF Daemon!Serves, Daemon!TakesOver, Daemon!Daemons
  <2> QED BY <2>2, <2>3 DEF Duty, Daemon!Daemons
<1>8. NewlyRecorded' /\ ReportHolds'
  BY <1>3 DEF NewlyRecorded, ReportHolds, Daemon!Idle
<1>9. ChildOutlasts'
  <2> SUFFICES ASSUME cli.op = "restart" PROVE ChildOutlasts'
    BY <1>3 DEF ChildOutlasts
  <2> DEFINE child == cli.child
  <2>1. child \in Daemon!Daemons /\ child # old /\ cli.waited <= BootTime
    BY <1>0 DEF DaemonInv, CommandKept
  <2>2. phase'[child] = phase[child] /\ age'[child] = age[child]
    BY <1>2, <2>1
  <2>3. /\ phase[child] \in Bound \union {"bootRestarted", "retrying"}
        /\ phase[child] \in Bound => Duty /\ phase[old] \in {"closing", "gone"}
        /\ phase[child] = "retrying" => age[child] <= cli.waited
        /\ phase[child] = "retrying" =>
              \A f \in Daemon!Daemons : Leftover(f) => age[child] <= age[f] + BootTime
    BY DEF DaemonInv, ChildOutlasts
  <2>4. ASSUME phase[child] = "retrying", NEW f \in Daemon!Daemons, Leftover(f)'
        PROVE  age[child] <= age'[f] + BootTime
    <3>1. CASE f = old
      BY <1>0, <1>2, <2>1, <2>3, <2>4, <3>1
    <3>2. CASE f # old
      BY <1>12, <2>3, <2>4, <3>2
    <3> QED BY <3>1, <3>2
  <2>5. phase[child] \in Bound => Duty'
    BY <1>13, <2>3
  <2> QED BY <1>3, <2>2, <2>3, <2>4, <2>5 DEF ChildOutlasts, Daemon!Daemons
<1> QED BY <1>5, <1>6, <1>7, <1>8, <1>9, <1>11 DEF DaemonInv

LEMMA ProbeKeeps == ASSUME DaemonInv, Daemon!Probe PROVE DaemonInv'
<1> USE DaemonFits DEF Daemon!None
<1> DEFINE child == cli.child
<1>0. /\ phase \in [Daemon!Daemons -> Phases] /\ age \in [Daemon!Daemons -> Nat]
      /\ file \in Daemon!Daemons \union {0} /\ cli.waited \in Nat
      /\ cli.recorded \in BOOLEAN /\ cli.op \in {"none", "start", "stop", "restart"}
      /\ child \in Daemon!Daemons \union {0} /\ 0 \notin Daemon!Daemons
  BY DaemonFacts
<1>1. /\ cli # Daemon!Idle /\ cli.step = "probing" /\ cli.op \in {"start", "restart"}
      /\ UNCHANGED <<phase, age, victim>> /\ file' = file
  BY <1>0 DEF Daemon!Probe, Daemon!Idle, DaemonInv, CommandKept
<1>2. child \in Daemon!Daemons /\ phase[child] # "unused"
  BY <1>0, <1>1 DEF DaemonInv, CommandKept
<1>3. cli.op = "restart" =>
        /\ phase[child] \in Bound \union {"bootRestarted", "retrying"}
        /\ phase[child] \in Bound => Duty
        /\ phase[child] = "bootRestarted" => cli.waited <= age[child]
        /\ phase[child] = "retrying" /\ ~Duty => cli.waited <= ForceAfter
  BY <1>1 DEF DaemonInv, ChildOutlasts
<1>5. CASE ~Daemon!Alive(child) /\ Daemon!Ends("died")
  <2>1. cli.op = "restart" => Duty
    BY <1>0, <1>2, <1>3, <1>5 DEF Daemon!Alive
  <2> QED BY <1>1, <1>5, <2>1, PhaseEndKeeps
<1>6. CASE Daemon!Ready /\ Daemon!Ends("ok")
  <2>1. CASE cli.recorded = FALSE
    <3>2. Duty
      BY <1>0, <1>1, <1>6, <2>1 DEF DaemonInv, NewlyRecorded, Daemon!Ready
    <3> QED BY <1>1, <1>6, <3>2, PhaseEndKeeps
  <2>2. CASE cli.recorded # FALSE
    <3>1. Daemon!Listens(child)
      BY <1>0, <1>6, <2>2 DEF Daemon!Ready
    <3>2. cli.op = "restart"
      BY <1>1, <2>2 DEF DaemonInv, CommandKept
    <3>3. Duty
      BY <1>3, <3>1, <3>2 DEF Daemon!Listens, Bound
    <3> QED BY <1>1, <1>6, <3>3, PhaseEndKeeps
  <2> QED BY <2>1, <2>2
<1>7. CASE cli.waited = ProbeWait /\ Daemon!Ends("timeout")
  <2>1. cli.op = "restart" => Duty
    <3> SUFFICES ASSUME cli.op = "restart", ~Duty PROVE FALSE
      OBVIOUS
    <3>1. phase[child] = "bootRestarted" => age[child] <= BootTime /\ age[child] \in Nat
      BY <1>0, <1>2 DEF DaemonInv, AgesKept, Daemon!Booting
    <3> QED BY <1>0, <1>3, <1>7, <3>1
  <2> QED BY <1>1, <1>7, <2>1, PhaseEndKeeps
<1> QED BY <1>5, <1>6, <1>7 DEF Daemon!Probe

LEMMA SecondKeeps == ASSUME DaemonInv, Daemon!Second PROVE DaemonInv'
<1> USE DaemonFits DEF Daemon!None
<1> DEFINE child == cli.child
<1>0. /\ phase \in [Daemon!Daemons -> Phases] /\ age \in [Daemon!Daemons -> Nat]
      /\ file \in Daemon!Daemons \union {0} /\ cli.waited \in Nat
      /\ cli.op \in {"none", "start", "stop", "restart"}
      /\ cli.step \in {"none", "verifying", "waiting", "probing"}
      /\ child \in Daemon!Daemons \union {0} /\ cli.old \in Daemon!Daemons \union {0}
      /\ cli.waited \in 0 .. ProbeWait /\ 0 \notin Daemon!Daemons
  BY DaemonFacts
<1>1. /\ ~Daemon!Due
      /\ age' = [d \in Daemon!Daemons |-> IF phase[d] \in Daemon!Timed THEN age[d] + 1 ELSE 0]
      /\ cli' = IF cli = Daemon!Idle THEN cli ELSE [cli EXCEPT !.waited = cli.waited + 1]
      /\ phase' = phase /\ file' = file /\ outcome' = outcome /\ victim' = victim
  BY DEF Daemon!Second
<1>2. \A d \in Daemon!Daemons :
        /\ age'[d] = IF phase[d] \in Daemon!Timed THEN age[d] + 1 ELSE 0
        /\ phase[d] \in Daemon!Booting => age[d] < BootTime
        /\ phase[d] = "retrying" => Daemon!PortTaken /\ age[d] < BindRetry
        /\ phase[d] \in {"stopping", "closing"} => age[d] < ForceAfter
  BY <1>0, <1>1 DEF Daemon!Due, Daemon!Overdue, DaemonInv, AgesKept
<1>3. /\ cli.step = "verifying" => cli.waited < BootTime
      /\ cli.step = "waiting" => cli.old # 0 /\ phase[cli.old] \in {"stopping", "closing"}
      /\ cli.step = "probing" => cli.waited < ProbeWait
  BY <1>0, <1>1 DEF Daemon!Due, DaemonInv, CommandKept, Daemon!Alive
<1>4. age' \in [Daemon!Daemons -> Nat]
  BY <1>0, <1>1
<1>5. AgesKept'
  <2> SUFFICES ASSUME NEW d \in Daemon!Daemons
               PROVE  /\ phase[d] = "unused" => age'[d] = 0
                      /\ phase[d] \in Daemon!Booting => age'[d] <= BootTime
                      /\ phase[d] = "retrying" => age'[d] <= BindRetry
                      /\ phase[d] \in {"stopping", "closing"} => age'[d] <= ForceAfter
                      /\ phase[d] \notin Daemon!Timed => age'[d] <= BindRetry
    BY <1>1 DEF AgesKept, Daemon!Daemons, Daemon!Timed, Daemon!Booting
  <2> QED BY <1>0, <1>2 DEF Daemon!Timed, Daemon!Booting
<1>8. PortKept'
  BY <1>1 DEF DaemonInv, PortKept, Daemon!Listens, Daemon!Daemons
<1>9. /\ Duty' <=> Duty
      /\ \A f \in Daemon!Daemons : Leftover(f)' <=> Leftover(f)
  BY <1>1 DEF Duty, Daemon!Serves, Daemon!TakesOver, Leftover, Evicting, Daemon!Daemons
<1>6. CASE cli = Daemon!Idle
  <2>1. /\ cli' = cli /\ cli.op = "none" /\ cli.step = "none"
    BY <1>1, <1>6 DEF Daemon!Idle
  <2>2. DaemonTyped'
    BY <1>1, <1>4, <2>1 DEF DaemonInv, DaemonTyped, Daemon!Daemons
  <2>3. CommandKept'
    BY <1>1, <1>6, <2>1 DEF DaemonInv, CommandKept
  <2>4. NewlyRecorded' /\ ChildOutlasts'
    BY <2>1 DEF NewlyRecorded, ChildOutlasts
  <2>5. ReportHolds'
    BY <1>1, <1>9, <2>1 DEF DaemonInv, ReportHolds
  <2> QED BY <1>5, <1>8, <2>2, <2>3, <2>4, <2>5 DEF DaemonInv
<1>7. CASE cli # Daemon!Idle
  <2>1. cli.op # "none" /\ cli.step # "none"
    BY <1>7 DEF DaemonInv, CommandKept
  <2>2. cli.waited + 1 \in 0 .. ProbeWait
    BY <1>0, <1>3, <2>1 DEF DaemonInv, CommandKept
  <2>3. cli' = [cli EXCEPT !.step = cli.step, !.waited = cli.waited + 1]
    <3>1. cli' = [cli EXCEPT !.waited = cli.waited + 1]
      BY <1>1, <1>7
    <3>2. cli \in [op : {"none", "start", "stop", "restart"},
                 step : {"none", "verifying", "waiting", "probing"},
                 old : Daemon!Daemons \union {0}, child : Daemon!Daemons \union {0},
                 recorded : BOOLEAN, waited : 0 .. ProbeWait]
      BY DaemonFacts
    <3> QED BY <3>1, <3>2
  <2>4. /\ cli'.op = cli.op /\ cli'.step = cli.step /\ cli'.waited = cli.waited + 1
        /\ cli'.old = cli.old /\ cli'.child = cli.child /\ cli'.recorded = cli.recorded
    BY <1>0, <2>1, <2>2, <2>3, CommandGoesOn
  <2>5. cli' \in [op : {"none", "start", "stop", "restart"},
                  step : {"none", "verifying", "waiting", "probing"},
                  old : Daemon!Daemons \union {0}, child : Daemon!Daemons \union {0},
                  recorded : BOOLEAN, waited : 0 .. ProbeWait]
    BY <1>0, <2>1, <2>2, <2>3, CommandGoesOn
  <2>6. DaemonTyped'
    BY <1>1, <1>4, <2>5 DEF DaemonInv, DaemonTyped, Daemon!Daemons
  <2>7. CommandKept'
    <3>1. cli.step = "verifying" => cli.waited + 1 <= BootTime
      BY <1>0, <1>3
    <3>2. cli.step = "waiting" =>
            /\ phase[cli.old] \in {"stopping", "closing", "gone"}
            /\ cli.waited + 1 <= ForceAfter
            /\ phase[cli.old] # "gone" => cli.waited + 1 = age'[cli.old]
      BY <1>0, <1>2, <1>3 DEF DaemonInv, CommandKept, Daemon!Timed
    <3> QED BY <1>1, <2>1, <2>4, <3>1, <3>2 DEF DaemonInv, CommandKept
  <2>8. NewlyRecorded'
    BY <1>1, <1>9, <2>4 DEF DaemonInv, NewlyRecorded
  <2>9. ChildOutlasts'
    <3> SUFFICES ASSUME cli.op = "restart" PROVE ChildOutlasts'
      BY <2>4 DEF ChildOutlasts
    <3>1. child \in Daemon!Daemons
      BY <1>0 DEF DaemonInv, CommandKept
    <3>2. /\ phase[child] \in Bound \union {"bootRestarted", "retrying"}
          /\ phase[child] \in Bound =>
                Duty /\ (cli.step = "verifying" => phase[cli.old] \in {"closing", "gone"})
          /\ cli.step = "verifying" /\ phase[child] \in {"bootRestarted", "retrying"} =>
                age[child] <= cli.waited
          /\ \A f \in Daemon!Daemons :
                Leftover(f) =>
                   /\ phase[child] = "retrying" => age[child] <= age[f] + BootTime
                   /\ cli.step = "probing" => cli.waited <= age[f]
          /\ cli.step = "probing" =>
                /\ phase[child] = "bootRestarted" => cli.waited <= age[child]
                /\ phase[child] = "retrying" /\ ~Duty => cli.waited <= ForceAfter
      BY DEF DaemonInv, ChildOutlasts
    <3>3. \A e \in Daemon!Daemons :
            phase[e] \in {"bootRestarted", "retrying", "stopping"} => age'[e] = age[e] + 1
      BY <1>2 DEF Daemon!Timed, Daemon!Booting
    <3>4. cli.step = "verifying" /\ phase[child] \in {"bootRestarted", "retrying"} =>
             age'[child] <= cli.waited + 1
      BY <1>0, <3>1, <3>2, <3>3
    <3>5. ASSUME NEW f \in Daemon!Daemons, Leftover(f)
          PROVE  /\ phase[child] = "retrying" => age'[child] <= age'[f] + BootTime
                 /\ cli.step = "probing" => cli.waited + 1 <= age'[f]
      <4>1. age'[f] = age[f] + 1 /\ age[f] \in Nat
        BY <1>0, <3>3, <3>5 DEF Leftover
      <4> QED BY <1>0, <3>1, <3>2, <3>3, <3>5, <4>1
    <3>6. cli.step = "probing" /\ phase[child] = "bootRestarted" =>
             cli.waited + 1 <= age'[child]
      BY <1>0, <3>1, <3>2, <3>3
    <3>7. ASSUME cli.step = "probing", phase[child] = "retrying", ~Duty
          PROVE  cli.waited + 1 <= ForceAfter
      <4>1. Daemon!PortTaken
        BY <1>2, <3>1, <3>7
      <4>2. PICK f \in Daemon!Daemons : Leftover(f)
        BY <3>7, <4>1, PortIsLeftover
      <4>3. cli.waited <= age[f] /\ age[f] < ForceAfter /\ age[f] \in Nat
        BY <1>0, <1>2, <3>2, <3>7, <4>2 DEF Leftover
      <4> QED BY <1>0, <4>3
    <3> QED BY <1>1, <1>9, <2>4, <3>2, <3>4, <3>5, <3>6, <3>7
            DEF ChildOutlasts, Daemon!Daemons
  <2>10. ReportHolds'
    BY <2>1, <2>4 DEF ReportHolds, Daemon!Idle
  <2> QED BY <1>5, <1>8, <2>6, <2>7, <2>8, <2>9, <2>10 DEF DaemonInv
<1> QED BY <1>6, <1>7

LEMMA DaemonStep == ASSUME DaemonInv, [Daemon!Next]_(Daemon!vars) PROVE DaemonInv'
<1>1. CASE Daemon!Verified
  <2>1. CASE Daemon!Alive(cli.old)
    <3>1. /\ cli.step = "verifying" /\ Daemon!Signalled(cli.old, phase)
          /\ UNCHANGED <<victim, outcome>>
          /\ cli' = [cli EXCEPT !.step = "waiting", !.waited = 0]
      BY <1>1, <2>1 DEF Daemon!Verified
    <3> QED BY <2>1, <3>1, SignalKeeps
  <2>2. CASE ~Daemon!Alive(cli.old)
    <3>1. /\ cli.step = "verifying" /\ UNCHANGED <<phase, age, victim>>
          /\ IF cli.op = "stop" THEN file' \in {0, file} /\ Daemon!Ends("ok")
                                ELSE Daemon!Probes /\ UNCHANGED file
      BY <1>1, <2>2 DEF Daemon!Verified, Daemon!FoundDead, Daemon!None
    <3> QED BY <3>1, OldGoneKeeps
  <2> QED BY <2>1, <2>2
<1>2. CASE Daemon!Waited
  <2>1. /\ cli.step = "waiting" /\ UNCHANGED <<phase, age, victim>>
        /\ IF cli.op = "stop" THEN file' \in {0, file} /\ Daemon!Ends("ok")
                              ELSE Daemon!Probes /\ UNCHANGED file
    BY <1>2 DEF Daemon!Waited, Daemon!None
  <2> QED BY <2>1, OldGoneKeeps
<1>3. CASE Daemon!Interrupt
  <2>1. cli # Daemon!Idle /\ Daemon!Ends("interrupted") /\ UNCHANGED <<phase, age, victim>>
        /\ file' = file
    BY <1>3 DEF Daemon!Interrupt
  <2> QED BY <2>1, PhaseEndKeeps
<1>4. CASE UNCHANGED Daemon!vars
  <2>1. /\ phase' = phase /\ age' = age /\ file' = file /\ cli' = cli
        /\ outcome' = outcome /\ victim' = victim
    BY <1>4 DEF Daemon!vars
  <2>2. /\ Duty' <=> Duty
        /\ \A f \in Daemon!Daemons : Leftover(f)' <=> Leftover(f)
    BY <2>1 DEF Duty, Daemon!Serves, Daemon!TakesOver, Leftover, Evicting, Daemon!Daemons
  <2>3. DaemonTyped' /\ AgesKept' /\ CommandKept' /\ PortKept'
    BY <2>1 DEF DaemonInv, DaemonTyped, AgesKept, CommandKept, PortKept, Daemon!Listens,
                Daemon!Daemons
  <2>4. NewlyRecorded' /\ ReportHolds'
    BY <2>1, <2>2 DEF DaemonInv, NewlyRecorded, ReportHolds
  <2>5. ChildOutlasts'
    BY <2>1, <2>2 DEF DaemonInv, ChildOutlasts, Daemon!Daemons
  <2> QED BY <2>3, <2>4, <2>5 DEF DaemonInv
<1> QED BY <1>1, <1>2, <1>3, <1>4, DaemonsMove, CommandsStart, ProbeKeeps, SecondKeeps
        DEF Daemon!Next

LEMMA DaemonIsTyped == DaemonInv => Daemon!TypeOK
<1> SUFFICES ASSUME DaemonInv PROVE Daemon!TypeOK
  OBVIOUS
<1> USE DaemonFits DEF Daemon!None
<1>1. /\ phase \in [Daemon!Daemons -> Phases] /\ age \in [Daemon!Daemons -> Nat]
      /\ file \in Daemon!Daemons \union {0}
      /\ victim \in [Daemon!Daemons -> Daemon!Daemons \union {0}]
      /\ cli.op \in {"none", "start", "stop", "restart"}
      /\ cli.child \in Daemon!Daemons \union {0} /\ cli.old \in Daemon!Daemons \union {0}
      /\ cli.waited \in 0 .. ProbeWait
      /\ outcome.op \in {"none", "start", "stop", "restart"}
  BY DaemonFacts
<1>2. ASSUME NEW d \in Daemon!Daemons PROVE age[d] \in 0 .. BindRetry
  BY <1>1 DEF DaemonInv, AgesKept, Daemon!Timed, Daemon!Booting
<1>3. age \in [Daemon!Daemons -> 0 .. BindRetry]
  BY <1>1, <1>2
<1>4. phase \in [Daemon!Daemons -> Daemon!Timed \union {"unused", "awaiting", "starting",
                                                        "serving", "gone"}]
  BY <1>1 DEF Phases, Bound, Daemon!Timed, Daemon!Booting
<1> QED BY <1>1, <1>3, <1>4 DEF Daemon!TypeOK, Daemon!Commands

(* A restart that is not broken off leaves a daemon that serves or a       *)
(* start's child that takes its place, and so it stays until the next      *)
(* command, for all deadlines that come in the order of the code's         *)
(* (restart.ts, and the forced exit, the retried and the second bind of    *)
(* start.ts).                                                              *)
THEOREM RestartsServe == Daemon!Spec => [](Daemon!TypeOK /\ Daemon!RestartServes)
<1>1. DaemonInv => Daemon!TypeOK /\ Daemon!RestartServes
  BY DaemonIsTyped DEF DaemonInv, ReportHolds, Duty, Daemon!RestartServes
<1> QED BY DaemonStarts, DaemonStep, <1>1, PTL DEF Daemon!Spec

-----------------------------------------------------------------------------
(* Reading panes                                                           *)

Chunks == SUBSET (1 .. MaxChunks)

(* What a read under way is: of whom, on which of the renderers shown, and *)
(* that it awaits no more than its renderer was given.                     *)
ReadOn(t, shown) ==
    /\ t.of \in {"wait", "capture", "snapshot"} /\ t.primed \in BOOLEAN
    /\ t.on \in DOMAIN shown /\ t.sees \subseteq shown[t.on]

(* Renderers are given more and are never taken away.                      *)
Grown(before, after) ==
    /\ after \in Seq(Chunks)
    /\ Len(before) <= Len(after)
    /\ \A r \in DOMAIN before : before[r] \subseteq after[r]

(* The text is heard of by who waits.                                      *)
HeardWaiting == heard => waiting # "no"

PaneInv == Pane!TypeOK /\ Pane!WaitHears /\ HeardWaiting

LEMMA PaneStart == Pane!Init => PaneInv
<1> SUFFICES ASSUME Pane!Init PROVE PaneInv
  OBVIOUS
<1>1. shell \in BOOLEAN /\ heard \in BOOLEAN
  BY DEF Pane!Init
<1>2. panes \in Seq(Chunks) /\ Len(panes) = 0
  BY DEF Pane!Init
<1> QED BY <1>1, <1>2, PaneFits
        DEF Pane!Init, PaneInv, Pane!TypeOK, Pane!WaitHears, HeardWaiting, Pane!None, Chunks

LEMMA ReadStays ==
  ASSUME NEW before, NEW after, Grown(before, after), before \in Seq(Chunks),
         NEW t, ReadOn(t, before)
  PROVE  ReadOn(t, after)
BY DEF ReadOn, Grown

LEMMA ShownGrows ==
  ASSUME panes \in Seq(Chunks), current \in DOMAIN panes \union {Pane!None},
         NEW chunk \in 1 .. MaxChunks
  PROVE  /\ Grown(panes, Pane!Shown(chunk)) /\ Len(Pane!Shown(chunk)) = Len(panes)
         /\ current # Pane!None => chunk \in Pane!Shown(chunk)[current]
<1>1. CASE current = Pane!None
  BY <1>1 DEF Pane!Shown, Grown
<1>2. CASE current # Pane!None
  BY <1>2 DEF Pane!Shown, Grown, Chunks
<1> QED BY <1>1, <1>2

(* A request adds one read, of the current renderer or of a new one, and   *)
(* takes none away.                                                        *)
LEMMA ReadEffect ==
  ASSUME panes \in Seq(Chunks), Len(panes) <= MaxRenderers, out' \in 0 .. MaxChunks,
         NEW of \in {"wait", "capture", "snapshot"},
         NEW shown, Grown(panes, shown), Len(shown) = Len(panes),
         NEW renderer \in DOMAIN panes \union {Pane!None},
         Pane!Read(of, renderer, shown, tests)
  PROVE  /\ Grown(panes, panes') /\ Len(panes') <= MaxRenderers
         /\ \E t : /\ tests' = tests \union {t}
                   /\ t.of = of /\ ReadOn(t, panes')
                   /\ t.sees = IF renderer = Pane!None THEN 1 .. out' ELSE shown[renderer]
<1> USE PaneFits
<1>1. CASE renderer # Pane!None
  <2> DEFINE t == [of |-> of, on |-> renderer, primed |-> TRUE, sees |-> shown[renderer]]
  <2>1. panes' = shown /\ tests' = tests \union {t}
    BY <1>1 DEF Pane!Read
  <2>2. renderer \in DOMAIN shown
    BY <1>1 DEF Grown
  <2>3. t.of = of /\ ReadOn(t, shown) /\ t.sees = shown[renderer]
    BY <2>2 DEF ReadOn
  <2> QED BY <1>1, <2>1, <2>3
<1>2. CASE renderer = Pane!None
  <2> DEFINE n == Len(panes) + 1
             t == [of |-> of, on |-> n, primed |-> FALSE, sees |-> 1 .. out']
  <2>1. panes' = Append(shown, 1 .. out') /\ tests' = tests \union {t} /\ n <= MaxRenderers
    BY <1>2, PaneFits DEF Pane!Read
  <2>2. shown \in Seq(Chunks) /\ 1 .. out' \in Chunks
    BY DEF Grown, Chunks
  <2>3. /\ panes' \in Seq(Chunks) /\ Len(panes') = n
        /\ \A r \in DOMAIN shown : panes'[r] = shown[r]
        /\ panes'[n] = 1 .. out' /\ n \in DOMAIN panes'
    BY <2>1, <2>2
  <2>4. Grown(panes, panes')
    BY <2>3 DEF Grown
  <2>5. t.of = of /\ ReadOn(t, panes') /\ t.sees = 1 .. out'
    BY <2>3 DEF ReadOn
  <2> QED BY <1>2, <2>1, <2>3, <2>4, <2>5
<1> QED BY <1>1, <1>2

LEMMA PaneStep == ASSUME PaneInv, [Pane!Next]_(Pane!vars) PROVE PaneInv'
<1> USE PaneFits DEF Pane!None, Pane!Renderers
<1>0. /\ shell \in BOOLEAN /\ heard \in BOOLEAN
      /\ out \in 0 .. MaxChunks /\ fed \in 0 .. out
      /\ panes \in Seq(Chunks) /\ Len(panes) <= MaxRenderers
      /\ current \in DOMAIN panes \union {Pane!None}
      /\ \A t \in tests : ReadOn(t, panes)
      /\ waiting \in {"no", "waits", "matched", "over"}
      /\ shell /\ waiting = "waits" /\ heard =>
             \E t \in tests : t.of = "wait" /\ Target \in t.sees
      /\ heard => waiting # "no"
  BY DEF PaneInv, Pane!TypeOK, Pane!WaitHears, HeardWaiting, ReadOn, Chunks
<1>00. ASSUME shell' \in BOOLEAN, heard' \in BOOLEAN,
              out' \in 0 .. MaxChunks, fed' \in 0 .. out',
              panes' \in Seq(Chunks), Len(panes') <= MaxRenderers,
              current' \in DOMAIN panes' \union {Pane!None},
              \A t \in tests' : ReadOn(t, panes'),
              waiting' \in {"no", "waits", "matched", "over"},
              shell' /\ waiting' = "waits" /\ heard' =>
                  \E t \in tests' : t.of = "wait" /\ Target \in t.sees,
              heard' => waiting' # "no"
       PROVE  PaneInv'
  BY <1>00 DEF PaneInv, Pane!TypeOK, Pane!WaitHears, HeardWaiting, ReadOn, Chunks
<1>same. Grown(panes, panes)
  BY <1>0 DEF Grown
<1>1. CASE Pane!Output
  <2>1. out' \in 1 .. MaxChunks /\ fed' = out' /\ heard' \in BOOLEAN
    BY <1>0, <1>1 DEF Pane!Output
  <2>2. /\ Grown(panes, Pane!Shown(out')) /\ Len(Pane!Shown(out')) = Len(panes)
        /\ current # Pane!None => out' \in Pane!Shown(out')[current]
    BY <1>0, <2>1, ShownGrows
  <2>3. CASE waiting = "waits"
    <3>1. Pane!Read("wait", current, Pane!Shown(out'), tests)
      BY <1>1, <2>3 DEF Pane!Output
    <3>2. Grown(panes, panes') /\ Len(panes') <= MaxRenderers
      BY <1>0, <2>1, <2>2, <3>1, ReadEffect
    <3>3. PICK t : /\ tests' = tests \union {t}
                   /\ t.of = "wait" /\ ReadOn(t, panes')
                   /\ t.sees = IF current = Pane!None THEN 1 .. out'
                               ELSE Pane!Shown(out')[current]
      BY <1>0, <2>1, <2>2, <3>1, ReadEffect
    <3>4. out' \in t.sees
      BY <2>1, <2>2, <3>3
    <3>5. \A u \in tests' : ReadOn(u, panes')
      BY <1>0, <3>2, <3>3, ReadStays
    <3>6. heard' => \E u \in tests' : u.of = "wait" /\ Target \in u.sees
      BY <1>0, <1>1, <2>3, <3>3, <3>4 DEF Pane!Output
    <3> QED BY <1>0, <1>00, <1>1, <2>1, <3>2, <3>5, <3>6 DEF Pane!Output, Grown
  <2>4. CASE waiting # "waits"
    <3>1. panes' = Pane!Shown(out') /\ tests' = tests
      BY <1>1, <2>4 DEF Pane!Output
    <3>2. \A u \in tests' : ReadOn(u, panes')
      BY <1>0, <2>2, <3>1, ReadStays
    <3> QED BY <1>0, <1>00, <1>1, <2>1, <2>2, <2>4, <3>1, <3>2 DEF Pane!Output, Grown
  <2> QED BY <2>3, <2>4
<1>2. CASE Pane!OutputQueued
  <2>1. out' \in 1 .. MaxChunks /\ fed' \in 0 .. out'
    BY <1>0, <1>2 DEF Pane!OutputQueued
  <2>2. CASE waiting = "waits"
    <3>1. Pane!Read("wait", current, panes, tests)
      BY <1>2, <2>2 DEF Pane!OutputQueued
    <3>2. Grown(panes, panes') /\ Len(panes') <= MaxRenderers
      BY <1>0, <1>same, <2>1, <3>1, ReadEffect
    <3>3. PICK t : tests' = tests \union {t} /\ ReadOn(t, panes')
      BY <1>0, <1>same, <2>1, <3>1, ReadEffect
    <3>4. \A u \in tests' : ReadOn(u, panes')
      BY <1>0, <3>2, <3>3, ReadStays
    <3> QED BY <1>0, <1>00, <1>2, <2>1, <3>2, <3>3, <3>4 DEF Pane!OutputQueued, Grown
  <2>3. CASE waiting # "waits"
    BY <1>0, <1>00, <1>2, <1>same, <2>1, <2>3 DEF Pane!OutputQueued
  <2> QED BY <2>2, <2>3
<1>3. CASE Pane!Feed
  <2>1. fed' \in 1 .. MaxChunks /\ fed' <= out
    BY <1>0, <1>3 DEF Pane!Feed
  <2>2. Grown(panes, panes') /\ Len(panes') = Len(panes)
    BY <1>0, <1>3, <2>1, ShownGrows DEF Pane!Feed
  <2>3. \A u \in tests' : ReadOn(u, panes')
    BY <1>0, <1>3, <2>2, ReadStays DEF Pane!Feed
  <2> QED BY <1>0, <1>00, <1>3, <2>1, <2>2, <2>3 DEF Pane!Feed, Grown
(* What a request that prints nothing changes. *)
<1>4. ASSUME NEW of \in {"wait", "capture", "snapshot"},
             NEW renderer \in DOMAIN panes \union {Pane!None},
             out' = out, Pane!Read(of, renderer, panes, tests)
      PROVE  /\ Grown(panes, panes') /\ Len(panes') <= MaxRenderers
             /\ \A u \in tests' : ReadOn(u, panes')
             /\ tests \subseteq tests'
  <2>1. Grown(panes, panes') /\ Len(panes') <= MaxRenderers
    BY <1>0, <1>same, <1>4, ReadEffect
  <2>2. PICK t : tests' = tests \union {t} /\ ReadOn(t, panes')
    BY <1>0, <1>same, <1>4, ReadEffect
  <2> QED BY <1>0, <2>1, <2>2, ReadStays
<1>5. CASE Pane!Capture
  BY <1>0, <1>00, <1>4, <1>5 DEF Pane!Capture, Grown
<1>6. CASE Pane!Wait
  BY <1>0, <1>00, <1>4, <1>6 DEF Pane!Wait, Grown
<1>7. ASSUME NEW t \in tests, Pane!Primed(t) PROVE PaneInv'
  <2> DEFINE u == [t EXCEPT !.primed = TRUE, !.sees = panes[t.on]]
  <2>1. tests' = (tests \ {t}) \union {u} /\ current' = t.on /\ panes' = panes
    BY <1>7 DEF Pane!Primed
  <2>2. ReadOn(u, panes) /\ u.of = t.of /\ t.sees \subseteq u.sees
    BY <1>0 DEF ReadOn
  <2>3. \A v \in tests' : ReadOn(v, panes')
    BY <1>0, <2>1, <2>2
  <2>4. t.on \in DOMAIN panes
    BY <1>0 DEF ReadOn
  <2>5. shell' /\ waiting' = "waits" /\ heard' =>
            \E v \in tests' : v.of = "wait" /\ Target \in v.sees
    BY <1>0, <1>7, <2>1, <2>2 DEF Pane!Primed
  <2> QED BY <1>0, <1>00, <1>7, <1>same, <2>1, <2>3, <2>4, <2>5 DEF Pane!Primed
<1>8. ASSUME NEW t \in tests, Pane!Test(t) PROVE PaneInv'
  <2>1. tests' = tests \ {t} /\ panes' = panes
    BY <1>8 DEF Pane!Test
  <2>2. PICK parsed \in {t.sees, panes[t.on]} :
          waiting' = IF t.of = "wait" /\ waiting = "waits" /\ Target \in parsed
                     THEN "matched" ELSE waiting
    BY <1>8 DEF Pane!Test
  <2>3. t.sees \subseteq parsed
    BY <1>0, <2>2 DEF ReadOn
  <2>4. shell' /\ waiting' = "waits" /\ heard' =>
            \E v \in tests' : v.of = "wait" /\ Target \in v.sees
    BY <1>0, <1>8, <2>1, <2>2, <2>3 DEF Pane!Test
  <2> QED BY <1>0, <1>00, <1>8, <1>same, <2>1, <2>2, <2>4 DEF Pane!Test
<1>9. CASE Pane!Timeout
  BY <1>0, <1>00, <1>4, <1>9 DEF Pane!Timeout, Grown
(* The end of the session: the current renderer keeps what it parsed.      *)
<1>10. ASSUME NEW last
       PROVE  /\ Pane!Disposed(last) \in Seq(Chunks)
              /\ Len(Pane!Disposed(last)) = Len(panes)
              /\ \A u \in Pane!Curtailed(last) : ReadOn(u, Pane!Disposed(last))
  <2> DEFINE kept == Pane!Disposed(last)
  <2>1. /\ kept \in Seq(Chunks) /\ Len(kept) = Len(panes) /\ DOMAIN kept = DOMAIN panes
    BY <1>0 DEF Pane!Disposed, Chunks
  <2>2. ASSUME NEW t \in tests
        PROVE  ReadOn([t EXCEPT !.sees = @ \intersect kept[t.on]], kept)
    <3>1. PICK of \in {"wait", "capture", "snapshot"}, on \in DOMAIN panes,
               primed \in BOOLEAN : t.of = of /\ t.on = on /\ t.primed = primed
      BY <1>0 DEF ReadOn
    <3> QED BY <2>1, <3>1 DEF ReadOn
  <2> QED BY <2>1, <2>2 DEF Pane!Curtailed
<1>11. CASE Pane!Exit
  <2>1. PICK last \in 0 .. MaxChunks :
          IF waiting = "waits"
          THEN /\ waiting' = "over"
               /\ Pane!Read("snapshot", Pane!None, Pane!Disposed(last), Pane!Curtailed(last))
          ELSE /\ panes' = Pane!Disposed(last) /\ tests' = Pane!Curtailed(last)
               /\ UNCHANGED waiting
    BY <1>11 DEF Pane!Exit
  <2>2. /\ shell' = FALSE /\ current' = Pane!None
        /\ out' = out /\ fed' = fed /\ heard' = heard
    BY <1>11 DEF Pane!Exit
  <2>3. CASE waiting = "waits"
    <3> DEFINE n == Len(panes) + 1
               kept == Pane!Disposed(last)
               t == [of |-> "snapshot", on |-> n, primed |-> FALSE, sees |-> 1 .. out']
    <3>1. /\ waiting' = "over" /\ n <= MaxRenderers
          /\ panes' = Append(kept, 1 .. out') /\ tests' = Pane!Curtailed(last) \union {t}
      BY <1>10, <2>1, <2>3 DEF Pane!Read
    <3>2. /\ panes' \in Seq(Chunks) /\ Len(panes') = n
          /\ \A r \in DOMAIN kept : r \in DOMAIN panes' /\ panes'[r] = kept[r]
          /\ panes'[n] = 1 .. out' /\ n \in DOMAIN panes'
      <4>1. 1 .. out' \in Chunks
        BY <1>0, <2>2 DEF Chunks
      <4> QED BY <1>0, <1>10, <3>1, <4>1
    <3>3. ReadOn(t, panes')
      BY <3>2 DEF ReadOn
    <3>4. ASSUME NEW u \in Pane!Curtailed(last) PROVE ReadOn(u, panes')
      <4>1. ReadOn(u, kept)
        BY <1>10
      <4> QED BY <3>2, <4>1 DEF ReadOn
    <3>5. \A u \in tests' : ReadOn(u, panes')
      BY <3>1, <3>3, <3>4
    <3> QED BY <1>0, <1>00, <2>2, <3>1, <3>2, <3>5
  <2>4. CASE waiting # "waits"
    BY <1>0, <1>00, <1>10, <2>1, <2>2, <2>4
  <2> QED BY <2>3, <2>4
<1>13. CASE Pane!Kill
  <2>1. PICK last \in 0 .. MaxChunks :
          panes' = Pane!Disposed(last) /\ tests' = Pane!Curtailed(last)
    BY <1>13 DEF Pane!Kill
  <2>2. /\ shell' = FALSE /\ current' = Pane!None
        /\ UNCHANGED <<out, fed, waiting, heard>>
    BY <1>13 DEF Pane!Kill
  <2> QED BY <1>0, <1>00, <1>10, <2>1, <2>2
<1>12. CASE UNCHANGED Pane!vars
  BY <1>0, <1>00, <1>12, <1>same DEF Pane!vars
<1> QED BY <1>1, <1>2, <1>3, <1>5, <1>6, <1>7, <1>8, <1>9, <1>11, <1>12, <1>13 DEF Pane!Next

(* Who waits for a text has a read under way that will see it once it is   *)
(* printed, in a chunk that waits for no file, while the session lives,    *)
(* whichever renderers are shared, primed or replaced (waitFor in          *)
(* session-command-executor.ts).                                           *)
THEOREM WaitHearsPrinted == Pane!Spec => []Pane!WaitHears
<1>1. Pane!Init => PaneInv
  BY PaneStart
<1>2. PaneInv /\ [Pane!Next]_(Pane!vars) => PaneInv'
  BY PaneStep
<1>3. PaneInv => Pane!WaitHears
  BY DEF PaneInv
<1> QED BY <1>1, <1>2, <1>3, PTL DEF Pane!Spec

-----------------------------------------------------------------------------
(* Hibernation                                                             *)

(* Who saw a session through is still there, with all the lines it had.    *)
StillThere(w) ==
    /\ viewer[w.page] = sid[w.page]
    /\ sid[w.page] \in table \ auto
    /\ w.lines <= lines[sid[w.page]]

(* The text of w's session is in a set of records. *)
KeptIn(w, records) ==
    \E e \in records : /\ e.owner = owner[sid[w.page]] /\ e.window = WindowOf[w.page]
                       /\ e.sid = sid[w.page] /\ w.lines <= e.lines

(* The loop has w's session still to come, is reading it, or has read it.  *)
OnItsWay(w) ==
    \/ cursor < sid[w.page]
    \/ read.sid = sid[w.page] /\ w.lines <= read.lines
    \/ KeptIn(w, entries)

(* At each moment of a restart the text of a page that stays is somewhere. *)
SteadyKept ==
    \A w \in steady :
        /\ daemon \in {"awaiting", "saving"} => StillThere(w)
        /\ WindowOf[w.page] # NoWindow =>
              /\ daemon = "saving" => OnItsWay(w)
              /\ daemon = "down" => KeptIn(w, stored)
              /\ daemon = "up" => KeptIn(w, startup)

(* A page watches the session it asks for. *)
WatchedIsAsked == \A p \in Page : viewer[p] # 0 => viewer[p] = sid[p]

HiberInv == Hiber!TypeOK /\ WatchedIsAsked /\ SteadyKept

LEMMA HiberStart == Hiber!Init => HiberInv
BY HiberFits DEF Hiber!Init, HiberInv, WatchedIsAsked, Hiber!TypeOK, SteadyKept, Hiber!Session,
   Hiber!None, Hiber!Idle

Owners == {OwnerOf[p] : p \in Page} \union {Operator}
Entries == [owner : Owners, window : {WindowOf[p] : p \in Page},
            sid : Hiber!Session, lines : 0 .. MaxLines]

LEMMA HiberTyped == ASSUME Hiber!TypeOK, [Hiber!Next]_(Hiber!vars) PROVE Hiber!TypeOK'
<1> USE HiberFits DEF Hiber!None
<1>0. /\ daemon \in {"up", "awaiting", "saving", "down"}
      /\ stops \in 0 .. MaxStops /\ created \in 0 .. MaxSessions
      /\ table \subseteq 1 .. created /\ auto \subseteq 1 .. created
      /\ owner \in [Hiber!Session -> Owners] /\ lines \in [Hiber!Session -> 0 .. MaxLines]
      /\ viewer \in [Page -> table \union {0}]
      /\ sid \in [Page -> 0 .. created]
      /\ cursor \in Hiber!Session \union {0}
      /\ read \in [sid : Hiber!Session, lines : 0 .. MaxLines] \union {Hiber!Idle}
      /\ entries \subseteq Entries /\ stored \subseteq Entries
      /\ startup \subseteq Entries
      /\ steady \subseteq [page : Page, lines : 0 .. MaxLines]
  BY DEF Hiber!TypeOK, Owners, Entries
<1>00. ASSUME daemon' \in {"up", "awaiting", "saving", "down"},
              stops' \in 0 .. MaxStops, created' \in 0 .. MaxSessions,
              table' \subseteq 1 .. created', auto' \subseteq 1 .. created',
              owner' \in [Hiber!Session -> Owners], lines' \in [Hiber!Session -> 0 .. MaxLines],
              viewer' \in [Page -> table' \union {0}],
              sid' \in [Page -> 0 .. created'],
              cursor' \in Hiber!Session \union {0},
              read' \in [sid : Hiber!Session, lines : 0 .. MaxLines] \union {Hiber!Idle},
              entries' \subseteq Entries, stored' \subseteq Entries,
              startup' \subseteq Entries,
              steady' \subseteq [page : Page, lines : 0 .. MaxLines]
       PROVE  Hiber!TypeOK'
  BY <1>00 DEF Hiber!TypeOK, Owners, Entries
<1> USE DEF Hiber!Session, Hiber!sessions, Hiber!pages, Hiber!saved, Hiber!Gone
<1>1. ASSUME NEW p \in Page, NEW s \in Hiber!Session, Hiber!Attach(p, s) PROVE Hiber!TypeOK'
  BY <1>0, <1>00, <1>1 DEF Hiber!Attach, Hiber!MayAttach
<1>2. ASSUME NEW p \in Page, NEW purpose \in {"plain", "run", "command"},
             Hiber!Spawn(p, purpose)
      PROVE  Hiber!TypeOK'
  <2>1. created' \in Hiber!Session /\ created' = created + 1
    BY <1>0, <1>2 DEF Hiber!Spawn
  <2>2. lines' \in [Hiber!Session -> 0 .. MaxLines]
    BY <1>0, <1>2, <2>1 DEF Hiber!Spawn, Hiber!TabsFor, Entries
  <2>3. owner' \in [Hiber!Session -> Owners]
    BY <1>0, <1>2, <2>1 DEF Hiber!Spawn, Owners
  <2>4. /\ table' = table \union {created'} /\ auto' \subseteq auto \union {created'}
        /\ viewer' = [viewer EXCEPT ![p] = created'] /\ sid' = [sid EXCEPT ![p] = created']
        /\ steady' \subseteq steady
    BY <1>2 DEF Hiber!Spawn
  <2>5. /\ table' \subseteq 1 .. created' /\ auto' \subseteq 1 .. created'
        /\ viewer' \in [Page -> table' \union {0}] /\ sid' \in [Page -> 0 .. created']
    BY <1>0, <2>1, <2>4
  <2> QED BY <1>0, <1>00, <1>2, <2>1, <2>2, <2>3, <2>4, <2>5 DEF Hiber!Spawn
<1>3. ASSUME NEW p \in Page, Hiber!Detach(p) PROVE Hiber!TypeOK'
  BY <1>0, <1>00, <1>3 DEF Hiber!Detach
<1>4. ASSUME NEW s \in Hiber!Session, Hiber!Output(s) PROVE Hiber!TypeOK'
  <2>1. lines' \in [Hiber!Session -> 0 .. MaxLines]
    <3>1. lines[s] \in 0 .. MaxLines /\ lines[s] + 1 \in 0 .. MaxLines
      BY <1>0, <1>4 DEF Hiber!Output
    <3>2. lines' = [lines EXCEPT ![s] = lines[s] + 1]
      BY <1>4 DEF Hiber!Output
    <3> QED BY <1>0, <3>1, <3>2
  <2> QED BY <1>0, <1>00, <1>4, <2>1 DEF Hiber!Output
<1>5. ASSUME NEW s \in Hiber!Session, Hiber!TearDown(s) PROVE Hiber!TypeOK'
  BY <1>0, <1>00, <1>5 DEF Hiber!TearDown
<1>6. CASE Hiber!Stop
  <2>1. steady' \subseteq [page : Page, lines : 0 .. MaxLines]
    <3>1. ASSUME NEW p \in Page, viewer[p] \notin auto \union {0}
          PROVE  lines[viewer[p]] \in 0 .. MaxLines
      <4>1. viewer[p] \in table \union {0}
        BY <1>0
      <4>2. viewer[p] \in 1 .. created
        BY <1>0, <3>1, <4>1
      <4>3. viewer[p] \in Hiber!Session
        BY <1>0, <4>2
      <4> QED BY <1>0, <4>3
    <3> QED BY <1>6, <3>1 DEF Hiber!Stop
  <2> QED BY <1>0, <1>00, <1>6, <2>1 DEF Hiber!Stop
<1>7. CASE Hiber!RunsSettled
  BY <1>0, <1>00, <1>7 DEF Hiber!RunsSettled, Hiber!Idle
<1>8. CASE Hiber!Visit
  <2>1. PICK s \in Hiber!Ahead :
          /\ cursor' = s
          /\ read' = IF s \in auto \/ Hiber!Clients(s) = {} THEN Hiber!Idle
                     ELSE [sid |-> s, lines |-> lines[s]]
    BY <1>8 DEF Hiber!Visit
  <2>2. s \in Hiber!Session
    BY <1>0, <2>1 DEF Hiber!Ahead
  <2>3. read' \in [sid : Hiber!Session, lines : 0 .. MaxLines] \union {Hiber!Idle}
    BY <1>0, <2>1, <2>2 DEF Hiber!Idle
  <2> QED BY <1>0, <1>00, <1>8, <2>1, <2>2, <2>3 DEF Hiber!Visit
<1>9. CASE Hiber!Collect
  <2>1. ASSUME read.sid \in Hiber!Session, NEW p \in Page PROVE Hiber!Tab(p) \in Entries
    BY <1>0, <2>1 DEF Hiber!Tab, Hiber!Entry, Hiber!Idle, Entries
  <2>2. read.sid \in Hiber!Session
    BY <1>0, <1>9 DEF Hiber!Collect
  <2>3. entries' \subseteq Entries
    BY <1>0, <1>9, <2>1, <2>2 DEF Hiber!Collect, Hiber!Clients
  <2> QED BY <1>0, <1>00, <1>9, <2>3 DEF Hiber!Collect, Hiber!Idle
<1>10. ASSUME Hiber!Down, daemon' = "down", stored' \subseteq Entries, steady' \subseteq steady
       PROVE  Hiber!TypeOK'
  BY <1>0, <1>00, <1>10 DEF Hiber!Down, Hiber!Idle
<1>11. CASE Hiber!Write
  BY <1>0, <1>10, <1>11 DEF Hiber!Write, Hiber!Down
<1>12. CASE Hiber!ForceExit
  BY <1>0, <1>10, <1>12 DEF Hiber!ForceExit, Hiber!Down
<1>13. CASE Hiber!Start
  BY <1>0, <1>00, <1>13 DEF Hiber!Start
<1>14. CASE UNCHANGED Hiber!vars
  BY <1>0, <1>00, <1>14 DEF Hiber!vars
<1> QED BY <1>1, <1>2, <1>3, <1>4, <1>5, <1>6, <1>7, <1>8, <1>9, <1>11, <1>12,
           <1>13, <1>14 DEF Hiber!Next

LEMMA HiberWatched ==
    ASSUME HiberInv, [Hiber!Next]_(Hiber!vars) PROVE WatchedIsAsked'
<1>1. /\ viewer \in [Page -> table \union {0}] /\ sid \in [Page -> 0 .. created]
      /\ \A p \in Page : viewer[p] # 0 => viewer[p] = sid[p]
  BY DEF HiberInv, Hiber!TypeOK, WatchedIsAsked, Hiber!None
<1>2. CASE UNCHANGED <<viewer, sid>>
  BY <1>1, <1>2 DEF WatchedIsAsked
<1>3. ASSUME NEW p \in Page, NEW s, viewer' = [viewer EXCEPT ![p] = s],
             sid' = [sid EXCEPT ![p] = s]
      PROVE  WatchedIsAsked'
  BY <1>1, <1>3 DEF WatchedIsAsked
<1>4. ASSUME \A p \in Page : viewer'[p] \in {0, viewer[p]}, sid' = sid
      PROVE  WatchedIsAsked'
  BY <1>1, <1>4 DEF WatchedIsAsked
<1> USE DEF Hiber!sessions, Hiber!pages, Hiber!saved, Hiber!None
<1>5. CASE \/ Hiber!Stop \/ Hiber!RunsSettled \/ Hiber!Visit \/ Hiber!Collect \/ Hiber!Start
           \/ (\E s \in Hiber!Session : Hiber!Output(s)) \/ UNCHANGED Hiber!vars
  BY <1>2, <1>5 DEF Hiber!Stop, Hiber!RunsSettled, Hiber!Visit, Hiber!Collect,
     Hiber!Start, Hiber!Output, Hiber!vars
<1>6. ASSUME NEW p \in Page, NEW s \in Hiber!Session, Hiber!Attach(p, s)
      PROVE  WatchedIsAsked'
  BY <1>3, <1>6 DEF Hiber!Attach
<1>7. ASSUME NEW p \in Page, NEW purpose \in {"plain", "run", "command"},
             Hiber!Spawn(p, purpose)
      PROVE  WatchedIsAsked'
  BY <1>3, <1>7 DEF Hiber!Spawn
<1>8. ASSUME NEW p \in Page, Hiber!Detach(p) PROVE WatchedIsAsked'
  BY <1>1, <1>4, <1>8 DEF Hiber!Detach
<1>9. ASSUME NEW s \in Hiber!Session, Hiber!TearDown(s) PROVE WatchedIsAsked'
  BY <1>1, <1>4, <1>9 DEF Hiber!TearDown
<1>10. CASE Hiber!Write \/ Hiber!ForceExit
  BY <1>1, <1>4, <1>10 DEF Hiber!Write, Hiber!ForceExit, Hiber!Down
<1> QED BY <1>5, <1>6, <1>7, <1>8, <1>9, <1>10 DEF Hiber!Next

(* A session that a page saw through is one of those there have been.      *)
LEMMA SteadySession ==
    ASSUME HiberInv, NEW w \in steady,
           \/ daemon \in {"awaiting", "saving"}
           \/ daemon \in {"up", "down"} /\ WindowOf[w.page] # NoWindow
    PROVE  w.page \in Page /\ w.lines \in Nat /\ sid[w.page] \in 1 .. created
<1>1. w.page \in Page /\ w.lines \in 0 .. MaxLines /\ sid[w.page] \in 0 .. created
      /\ created \in Nat
  BY HiberFits DEF HiberInv, Hiber!TypeOK
<1>2. CASE daemon \in {"awaiting", "saving"}
  BY <1>1, <1>2, HiberFits DEF HiberInv, SteadyKept, StillThere, Hiber!TypeOK
<1>3. CASE daemon \in {"up", "down"} /\ WindowOf[w.page] # NoWindow
  <2>1. PICK e \in stored \union startup : e.sid = sid[w.page]
    BY <1>3 DEF HiberInv, SteadyKept, KeptIn
  <2>2. e.sid \in 1 .. MaxSessions
    BY DEF HiberInv, Hiber!TypeOK, Hiber!Session
  <2> QED BY <1>1, <2>1, <2>2, HiberFits
<1> QED BY <1>1, <1>2, <1>3, HiberFits

LEMMA HiberKept == ASSUME HiberInv, [Hiber!Next]_(Hiber!vars) PROVE SteadyKept'
<1> USE HiberFits DEF Hiber!None
<1>0. /\ daemon \in {"up", "awaiting", "saving", "down"}
      /\ created \in 0 .. MaxSessions
      /\ table \subseteq 1 .. created
      /\ owner \in [Hiber!Session -> Owners] /\ lines \in [Hiber!Session -> 0 .. MaxLines]
      /\ viewer \in [Page -> table \union {0}]
      /\ sid \in [Page -> 0 .. created]
      /\ cursor \in Hiber!Session \union {0}
      /\ read \in [sid : Hiber!Session, lines : 0 .. MaxLines] \union {Hiber!Idle}
  BY DEF HiberInv, Hiber!TypeOK, Owners
<1>s. ASSUME NEW w \in steady
      PROVE  /\ daemon \in {"awaiting", "saving"} => StillThere(w)
             /\ WindowOf[w.page] # NoWindow =>
                  /\ daemon = "saving" => OnItsWay(w)
                  /\ daemon = "down" => KeptIn(w, stored)
                  /\ daemon = "up" => KeptIn(w, startup)
  BY DEF HiberInv, SteadyKept
<1> DEFINE SameSession(w) == /\ sid'[w.page] = sid[w.page]
                             /\ owner'[sid[w.page]] = owner[sid[w.page]]
(* Until the shutdown itself goes on, a page that stays keeps its session. *)
<1>00. ASSUME daemon' = daemon, UNCHANGED Hiber!saved, stored' = stored,
              startup' = startup, steady' \subseteq steady,
              \A w \in steady' : w.page \in Page /\ sid[w.page] \in 1 .. created
                                    => SameSession(w) /\ (StillThere(w) => StillThere(w)')
       PROVE  SteadyKept'
  <2> SUFFICES ASSUME NEW w \in steady'
               PROVE  /\ daemon' \in {"awaiting", "saving"} => StillThere(w)'
                      /\ WindowOf[w.page] # NoWindow =>
                           /\ daemon' = "saving" => OnItsWay(w)'
                           /\ daemon' = "down" => KeptIn(w, stored)'
                           /\ daemon' = "up" => KeptIn(w, startup)'
    BY DEF SteadyKept
  <2>1. w \in steady
    BY <1>00
  <2>2. CASE daemon \in {"awaiting", "saving"} \/ WindowOf[w.page] # NoWindow
    <3>1. SameSession(w) /\ (StillThere(w) => StillThere(w)')
      BY <1>0, <1>00, <2>1, <2>2, SteadySession
    <3> QED BY <1>00, <1>s, <2>1, <3>1 DEF OnItsWay, KeptIn, Hiber!saved
  <2> QED BY <1>00, <2>2
<1> USE DEF Hiber!Session, Hiber!sessions, Hiber!pages, Hiber!Gone
<1>1. ASSUME NEW p \in Page, NEW s \in Hiber!Session, Hiber!Attach(p, s) PROVE SteadyKept'
  <2>1. ASSUME NEW w \in steady', w.page \in Page
        PROVE  SameSession(w) /\ (StillThere(w) => StillThere(w)')
    BY <1>0, <1>1, <2>1 DEF Hiber!Attach, StillThere
  <2> QED BY <1>00, <1>1, <2>1 DEF Hiber!Attach
<1>2. ASSUME NEW p \in Page, NEW purpose \in {"plain", "run", "command"},
             Hiber!Spawn(p, purpose)
      PROVE  SteadyKept'
  <2>1. ASSUME NEW w \in steady', w.page \in Page, sid[w.page] \in 1 .. created
        PROVE  SameSession(w) /\ (StillThere(w) => StillThere(w)')
    <3>1. w.page # p /\ sid[w.page] \in Hiber!Session /\ sid[w.page] # created'
      BY <1>0, <1>2, <2>1 DEF Hiber!Spawn
    <3>2. SameSession(w) /\ viewer'[w.page] = viewer[w.page]
      BY <1>0, <1>2, <2>1, <3>1 DEF Hiber!Spawn
    <3>3. lines'[sid[w.page]] = lines[sid[w.page]]
      BY <1>0, <1>2, <3>1 DEF Hiber!Spawn
    <3>4. table \subseteq table' /\ auto' \subseteq auto \union {created'}
      BY <1>2 DEF Hiber!Spawn
    <3> QED BY <3>1, <3>2, <3>3, <3>4 DEF StillThere
  <2> QED BY <1>00, <1>2, <2>1 DEF Hiber!Spawn
<1>3. ASSUME NEW p \in Page, Hiber!Detach(p) PROVE SteadyKept'
  <2>1. ASSUME NEW w \in steady', w.page \in Page
        PROVE  SameSession(w) /\ (StillThere(w) => StillThere(w)')
    BY <1>0, <1>3, <2>1 DEF Hiber!Detach, StillThere
  <2> QED BY <1>00, <1>3, <2>1 DEF Hiber!Detach
<1>4. ASSUME NEW s \in Hiber!Session, Hiber!Output(s) PROVE SteadyKept'
  <2>1. ASSUME NEW w \in steady', w.page \in Page, sid[w.page] \in 1 .. created
        PROVE  SameSession(w) /\ (StillThere(w) => StillThere(w)')
    <3>1. sid[w.page] \in Hiber!Session /\ w \in steady
      BY <1>0, <1>4, <2>1 DEF Hiber!Output
    <3>2. w.lines \in Nat
      BY <3>1 DEF HiberInv, Hiber!TypeOK
    <3>3. lines[sid[w.page]] \in 0 .. MaxLines /\ lines[s] \in 0 .. MaxLines
      BY <1>0, <3>1
    <3>4. lines' = [lines EXCEPT ![s] = lines[s] + 1]
      BY <1>4 DEF Hiber!Output
    <3>5. lines'[sid[w.page]] >= lines[sid[w.page]] /\ lines'[sid[w.page]] \in Nat
                                                  /\ lines[sid[w.page]] \in Nat
      BY <1>0, <3>1, <3>3, <3>4
    <3> QED BY <1>4, <3>2, <3>3, <3>5 DEF Hiber!Output, StillThere
  <2> QED BY <1>00, <1>4, <2>1 DEF Hiber!Output
<1>5. ASSUME NEW s \in Hiber!Session, Hiber!TearDown(s) PROVE SteadyKept'
  <2>1. ASSUME NEW w \in steady', w.page \in Page, sid[w.page] \in 1 .. created
        PROVE  SameSession(w) /\ (StillThere(w) => StillThere(w)')
    BY <1>0, <1>5, <2>1 DEF Hiber!TearDown, StillThere
  <2> QED BY <1>00, <1>5, <2>1 DEF Hiber!TearDown
(* A page that is there at the stop is there with its session.            *)
<1>6. CASE Hiber!Stop
  <2> SUFFICES ASSUME NEW w \in steady' PROVE StillThere(w)'
    BY <1>6 DEF SteadyKept, Hiber!Stop
  <2>1. PICK p \in Page : /\ w = [page |-> p, lines |-> lines[viewer[p]]]
                          /\ viewer[p] \notin auto \union {0}
    BY <1>6 DEF Hiber!Stop
  <2>2. viewer[p] \in table /\ viewer[p] = sid[p]
    BY <1>0, <2>1 DEF HiberInv, WatchedIsAsked
  <2>3. lines[viewer[p]] \in Nat
    BY <1>0, <2>2
  <2> QED BY <1>6, <2>1, <2>2, <2>3 DEF Hiber!Stop, StillThere
<1>7. CASE Hiber!RunsSettled
  <2> SUFFICES ASSUME NEW w \in steady PROVE StillThere(w)' /\ OnItsWay(w)'
    BY <1>7 DEF SteadyKept, Hiber!RunsSettled
  <2>1. StillThere(w)
    BY <1>7, <1>s DEF Hiber!RunsSettled
  <2>2. sid[w.page] \in 1 .. created
    BY <1>0, <2>1 DEF StillThere
  <2> QED BY <1>0, <1>7, <2>1, <2>2 DEF Hiber!RunsSettled, StillThere, OnItsWay
<1>8. CASE Hiber!Visit
  <2>0. PICK s \in Hiber!Ahead :
          /\ \A t \in Hiber!Ahead : s <= t
          /\ cursor' = s
          /\ read' = IF s \in auto \/ Hiber!Clients(s) = {} THEN Hiber!Idle
                     ELSE [sid |-> s, lines |-> lines[s]]
    BY <1>8 DEF Hiber!Visit
  <2>1. /\ daemon = "saving" /\ daemon' = "saving" /\ read = Hiber!Idle
        /\ UNCHANGED <<table, auto, owner, lines, viewer, sid, entries, steady>>
    BY <1>8 DEF Hiber!Visit
  <2> SUFFICES ASSUME NEW w \in steady
               PROVE  StillThere(w)' /\ (WindowOf[w.page] # NoWindow => OnItsWay(w)')
    BY <2>1 DEF SteadyKept
  <2>2. /\ StillThere(w) /\ (WindowOf[w.page] # NoWindow => OnItsWay(w))
        /\ w.page \in Page /\ sid[w.page] \in 1 .. created
    BY <1>s, <2>1, SteadySession
  <2>3. StillThere(w)'
    BY <2>1, <2>2 DEF StillThere
  <2>4. ASSUME cursor < sid[w.page] PROVE OnItsWay(w)'
    <3>1. sid[w.page] \in Hiber!Ahead
      BY <2>2, <2>4 DEF StillThere, Hiber!Ahead
    <3>2. CASE s = sid[w.page]
      <4>1. s \notin auto /\ w.page \in Hiber!Clients(s) /\ w.lines <= lines[s]
        BY <2>2, <3>2 DEF StillThere, Hiber!Clients
      <4> QED BY <2>0, <2>1, <3>2, <4>1 DEF OnItsWay
    <3>3. CASE s < sid[w.page]
      BY <2>0, <2>1, <3>3 DEF OnItsWay
    <3>4. s \in Nat /\ sid[w.page] \in Nat
      <4>1. \A n \in 1 .. created : n \in Nat
        BY <1>0
      <4>2. s \in 1 .. created
        BY <1>0, <2>0 DEF Hiber!Ahead
      <4> QED BY <2>2, <4>1, <4>2
    <3> QED BY <2>0, <3>1, <3>2, <3>3, <3>4
  <2>5. ~(read.sid = sid[w.page])
    BY <1>0, <2>1, <2>2 DEF Hiber!Idle
  <2>6. ASSUME KeptIn(w, entries) PROVE OnItsWay(w)'
    BY <2>1, <2>6 DEF OnItsWay, KeptIn
  <2> QED BY <2>2, <2>3, <2>4, <2>5, <2>6 DEF OnItsWay
<1>9. CASE Hiber!Collect
  <2>1. /\ daemon = "saving" /\ daemon' = "saving"
        /\ UNCHANGED <<table, auto, owner, lines, viewer, sid, cursor, steady>>
        /\ entries' = entries \union
             {Hiber!Tab(p) : p \in {q \in Hiber!Clients(read.sid) : WindowOf[q] # NoWindow}}
    BY <1>9 DEF Hiber!Collect
  <2> SUFFICES ASSUME NEW w \in steady
               PROVE  StillThere(w)' /\ (WindowOf[w.page] # NoWindow => OnItsWay(w)')
    BY <2>1 DEF SteadyKept
  <2>2. /\ StillThere(w) /\ (WindowOf[w.page] # NoWindow => OnItsWay(w))
        /\ w.page \in Page
    BY <1>s, <2>1, SteadySession
  <2>3. ASSUME read.sid = sid[w.page], w.lines <= read.lines, WindowOf[w.page] # NoWindow
        PROVE  OnItsWay(w)'
    <3>1. w.page \in Hiber!Clients(read.sid)
      BY <2>2, <2>3 DEF StillThere, Hiber!Clients
    <3>2. Hiber!Tab(w.page) \in entries'
      BY <2>1, <2>3, <3>1
    <3>3. KeptIn(w, entries')
      BY <2>3, <3>2 DEF KeptIn, Hiber!Tab, Hiber!Entry
    <3> QED BY <2>1, <3>3 DEF OnItsWay, KeptIn
  <2>4. ASSUME KeptIn(w, entries) PROVE OnItsWay(w)'
    BY <2>1, <2>4 DEF OnItsWay, KeptIn
  <2>5. ASSUME cursor < sid[w.page] PROVE OnItsWay(w)'
    BY <2>1, <2>5 DEF OnItsWay
  <2>6. StillThere(w)'
    BY <2>1, <2>2 DEF StillThere
  <2> QED BY <2>2, <2>3, <2>4, <2>5, <2>6 DEF OnItsWay
<1>10. CASE Hiber!Write
  <2>1. /\ daemon = "saving" /\ read = Hiber!Idle /\ Hiber!Ahead = {}
        /\ daemon' = "down" /\ stored' = entries /\ UNCHANGED <<owner, sid, steady>>
    BY <1>10 DEF Hiber!Write, Hiber!Down
  <2> SUFFICES ASSUME NEW w \in steady, WindowOf[w.page] # NoWindow PROVE KeptIn(w, stored)'
    BY <2>1 DEF SteadyKept
  <2>2. StillThere(w) /\ OnItsWay(w) /\ sid[w.page] \in 1 .. created
    BY <1>s, <2>1, SteadySession
  <2>3. ~(cursor < sid[w.page])
    BY <2>1, <2>2 DEF StillThere, Hiber!Ahead
  <2>4. ~(read.sid = sid[w.page])
    BY <1>0, <2>1, <2>2 DEF Hiber!Idle
  <2>5. KeptIn(w, entries)
    BY <2>2, <2>3, <2>4 DEF OnItsWay
  <2> QED BY <2>1, <2>5 DEF KeptIn
<1>11. CASE Hiber!ForceExit
  BY <1>11 DEF Hiber!ForceExit, SteadyKept
<1>12. CASE Hiber!Start
  <2>1. /\ daemon = "down" /\ daemon' = "up" /\ startup' = stored
        /\ UNCHANGED <<owner, sid, steady>>
    BY <1>12 DEF Hiber!Start
  <2> QED BY <1>s, <2>1 DEF SteadyKept, KeptIn
<1>13. CASE UNCHANGED Hiber!vars
  <2>1. \A w \in steady' : SameSession(w) /\ (StillThere(w) => StillThere(w)')
    BY <1>13 DEF Hiber!vars, StillThere
  <2> QED BY <1>00, <1>13, <2>1 DEF Hiber!vars
<1> QED BY <1>1, <1>2, <1>3, <1>4, <1>5, <1>6, <1>7, <1>8, <1>9, <1>10, <1>11,
           <1>12, <1>13 DEF Hiber!Next

LEMMA HiberStep == ASSUME HiberInv, [Hiber!Next]_(Hiber!vars) PROVE HiberInv'
BY HiberTyped, HiberWatched, HiberKept DEF HiberInv

LEMMA HiberComplete == HiberInv => Hiber!SnapshotComplete
<1> SUFFICES ASSUME HiberInv, daemon \in {"down", "up"}, NEW w \in steady,
                    WindowOf[w.page] # NoWindow, owner[sid[w.page]] = OwnerOf[w.page]
             PROVE  \E e \in Hiber!TabsFor(w.page, IF daemon = "down" THEN stored
                                                   ELSE startup) : e.lines >= w.lines
  BY DEF Hiber!SnapshotComplete
<1>1. KeptIn(w, IF daemon = "down" THEN stored ELSE startup)
  BY DEF HiberInv, SteadyKept
<1>2. PICK e \in IF daemon = "down" THEN stored ELSE startup :
        /\ e.owner = owner[sid[w.page]] /\ e.window = WindowOf[w.page]
        /\ e.sid = sid[w.page] /\ w.lines <= e.lines
  BY <1>1 DEF KeptIn
<1>3. e.lines \in Nat /\ w.lines \in Nat
  BY <1>2, HiberFits DEF HiberInv, Hiber!TypeOK
<1> QED BY <1>2, <1>3 DEF Hiber!TabsFor

(* The snapshot has the text of every page that stayed, whatever attaches, *)
(* spawns and ends while the table is walked (stop in index.ts and         *)
(* hibernateEntries in session-manager.ts).                                *)
THEOREM SnapshotIsComplete == Hiber!Spec => []Hiber!SnapshotComplete
BY HiberStart, HiberStep, HiberComplete, PTL DEF Hiber!Spec

-----------------------------------------------------------------------------
(* Local echo                                                              *)

LEMMA PartOfSeq ==
  ASSUME NEW S, NEW s \in Seq(S), NEW m \in Nat \ {0}, NEW n \in 0 .. Len(s)
  PROVE  /\ SubSeq(s, m, n) \in Seq(S)
         /\ Len(SubSeq(s, m, n)) = IF m <= n THEN n - m + 1 ELSE 0
<1>1. \A i \in m .. n : s[i] \in S
  BY LenProperties
<1> QED BY <1>1, SubSeqProperties

(* A common prefix is no longer than either of the two, and there is a     *)
(* longest one.                                                            *)
LEMMA CommonPrefixFits ==
  ASSUME NEW S, NEW s \in Seq(S), NEW T, NEW t \in Seq(T)
  PROVE  Len(Echo!LongestCommonPrefix({s, t})) \in 0 .. Len(t)
<1> DEFINE Common == Echo!CommonPrefixes({s, t})
           Lengths == {Len(p) : p \in Common}
<1>1. \A p \in Common : Len(p) \in 0 .. Len(t)
  <2> SUFFICES ASSUME NEW p \in Common PROVE Len(p) \in 0 .. Len(t)
    OBVIOUS
  <2>1. Len(p) <= Len(t)
    BY DEF Echo!CommonPrefixes, Echo!IsPrefix
  <2>2. \E l \in Nat : Len(p) = l
    <3>1. PICK q \in {s, t} : p \in Echo!Prefixes(q)
      BY DEF Echo!CommonPrefixes
    <3>2. PICK l \in 0 .. Len(q) : p = SubSeq(q, 1, l)
      BY <3>1 DEF Echo!Prefixes
    <3>3. Len(q) \in Nat /\ l \in Nat
      BY <3>1, <3>2, LenProperties
    <3>4. Len(p) = l
      BY <3>1, <3>2, <3>3, PartOfSeq
    <3> QED BY <3>3, <3>4
  <2> QED BY <2>1, <2>2, LenProperties
<1>2. <<>> \in Common
  <2>1. <<>> = SubSeq(s, 1, 0) /\ <<>> = SubSeq(t, 1, 0)
    BY SubSeqEmpty
  <2>2. 0 \in 0 .. Len(s)
    BY LenProperties
  <2>3. <<>> \in Echo!Prefixes(s)
    BY <2>1, <2>2 DEF Echo!Prefixes
  <2>4. \A u \in {s, t} : Echo!IsPrefix(<<>>, u)
    BY LenProperties, SubSeqEmpty DEF Echo!IsPrefix
  <2> QED BY <2>3, <2>4 DEF Echo!CommonPrefixes
<1> HIDE DEF Common
<1>3. Lengths \in SUBSET (0 .. Len(t)) /\ Lengths # {}
  BY <1>1, <1>2
<1>4. IsFiniteSet(Lengths) /\ Lengths \in SUBSET Nat
  <2>1. Len(t) \in Nat
    BY LenProperties
  <2>2. IsFiniteSet(0 .. Len(t)) /\ 0 .. Len(t) \subseteq Nat
    BY <2>1, FS_Interval
  <2> QED BY <1>3, <2>2, FS_Subset
<1>5. Diff!Max(Lengths) \in Lengths /\ \A y \in Lengths : Diff!Max(Lengths) >= y
  BY <1>3, <1>4, MaxExists
<1>6. PICK p \in Common : Len(p) = Diff!Max(Lengths)
  BY <1>5
<1>7. \A q \in Common : Len(q) <= Len(p)
  BY <1>4, <1>5, <1>6
<1>8. Echo!LongestCommonPrefix({s, t}) \in Common
  BY <1>7 DEF Echo!LongestCommonPrefix, Common
<1> QED BY <1>1, <1>8

Bytes == (Echo!Letter \union {" ", "bs", "forward", "reprint"})
Shells == [kind : {"plain", "highlight", "silent"}, line : Seq(Echo!Letter), cursor : Nat]

LEMMA TimesTyped ==
  ASSUME NEW S, NEW n \in Nat, NEW x \in S PROVE Echo!Times(n, x) \in Seq(S)
<1>1. Echo!Times(n, x) \in [1 .. n -> S]
  BY DEF Echo!Times
<1> QED BY <1>1, SeqDef

(* A key leaves the line a line and the cursor on it.                      *)
LEMMA EditedTyped ==
  ASSUME prompt \in Shells, prompt.cursor <= Len(prompt.line), NEW k
  PROVE  Echo!Edited(k) \in Shells /\ Echo!Edited(k).cursor <= Len(Echo!Edited(k).line)
<1> DEFINE l == prompt.line
           c == prompt.cursor
<1>0. l \in Seq(Echo!Letter) /\ c \in Nat /\ c <= Len(l) /\ Len(l) \in Nat
  BY LenProperties DEF Shells
<1>1. ASSUME NEW text \in Seq(Echo!Letter), NEW at \in Nat, at <= Len(text)
      PROVE  /\ [prompt EXCEPT !.line = text, !.cursor = at] \in Shells
             /\ [prompt EXCEPT !.line = text, !.cursor = at].line = text
             /\ [prompt EXCEPT !.line = text, !.cursor = at].cursor = at
  BY <1>1 DEF Shells
<1>2. ASSUME k \in Char
      PROVE  Echo!InsertAt(l, c + 1, k) \in Seq(Echo!Letter)
               /\ c + 1 <= Len(Echo!InsertAt(l, c + 1, k))
  <2>0. k \in Echo!Letter
    BY <1>2 DEF Echo!Letter
  <2>1. SubSeq(l, 1, c) \in Seq(Echo!Letter) /\ Len(SubSeq(l, 1, c)) = c
    BY <1>0, PartOfSeq
  <2>2. SubSeq(l, c + 1, Len(l)) \in Seq(Echo!Letter) /\ Len(SubSeq(l, c + 1, Len(l))) \in Nat
    BY <1>0, PartOfSeq, LenProperties
  <2>3. <<k>> \in Seq(Echo!Letter) /\ Len(<<k>>) = 1
    BY <2>0
  <2> HIDE DEF l, c
  <2>4. /\ SubSeq(l, 1, c) \o <<k>> \in Seq(Echo!Letter)
        /\ Len(SubSeq(l, 1, c) \o <<k>>) = c + 1
    BY <2>1, <2>3, ConcatProperties
  <2>5. /\ (SubSeq(l, 1, c) \o <<k>>) \o SubSeq(l, c + 1, Len(l)) \in Seq(Echo!Letter)
        /\ Len((SubSeq(l, 1, c) \o <<k>>) \o SubSeq(l, c + 1, Len(l)))
             = (c + 1) + Len(SubSeq(l, c + 1, Len(l)))
    <3> HIDE DEF l, c
    <3> QED BY <2>2, <2>4, ConcatProperties
  <2>6. (c + 1) - 1 = c
    BY <1>0
  <2>7. Echo!InsertAt(l, c + 1, k) = (SubSeq(l, 1, c) \o <<k>>) \o SubSeq(l, c + 1, Len(l))
    BY <2>6 DEF Echo!InsertAt
  <2>8. c + 1 <= Len(Echo!InsertAt(l, c + 1, k))
    <3>1. Len(Echo!InsertAt(l, c + 1, k)) = (c + 1) + Len(SubSeq(l, c + 1, Len(l)))
      BY <2>5, <2>7
    <3> DEFINE n == Len(SubSeq(l, c + 1, Len(l)))
    <3>2. n \in Nat /\ c \in Nat /\ Len(Echo!InsertAt(l, c + 1, k)) = (c + 1) + n
      BY <1>0, <2>2, <3>1
    <3> HIDE DEF n, l, c
    <3> QED BY <3>2
  <2> QED BY <2>5, <2>7, <2>8
<1>3. ASSUME c > 0
      PROVE  Echo!RemoveAt(l, c) \in Seq(Echo!Letter) /\ c - 1 <= Len(Echo!RemoveAt(l, c))
  <2>0. c - 1 \in Nat /\ c - 1 \in 0 .. Len(l) /\ c + 1 \in Nat \ {0}
    BY <1>0, <1>3
  <2>1. SubSeq(l, 1, c - 1) \in Seq(Echo!Letter) /\ Len(SubSeq(l, 1, c - 1)) = c - 1
    BY <1>0, <2>0, PartOfSeq
  <2>2. SubSeq(l, c + 1, Len(l)) \in Seq(Echo!Letter) /\ Len(SubSeq(l, c + 1, Len(l))) \in Nat
    BY <1>0, <2>0, PartOfSeq, LenProperties
  <2> HIDE DEF l, c
  <2>3. /\ SubSeq(l, 1, c - 1) \o SubSeq(l, c + 1, Len(l)) \in Seq(Echo!Letter)
        /\ Len(SubSeq(l, 1, c - 1) \o SubSeq(l, c + 1, Len(l))) >= c - 1
    BY <2>0, <2>1, <2>2, ConcatProperties
  <2> QED BY <2>3 DEF Echo!RemoveAt
<1>4. CASE k \in Char
  <2> DEFINE e == Echo!InsertAt(l, c + 1, k)
  <2>1. Echo!Edited(k) = [prompt EXCEPT !.line = e, !.cursor = c + 1]
    BY <1>0, <1>4, EchoFits DEF Echo!Edited, Echo!ParametersFit
  <2> DEFINE at == c + 1
  <2>2. e \in Seq(Echo!Letter) /\ at \in Nat /\ at <= Len(e)
    BY <1>0, <1>2, <1>4
  <2>3. Echo!Edited(k) = [prompt EXCEPT !.line = e, !.cursor = at]
    BY <2>1
  <2> HIDE DEF e, at, l, c
  <2>4. /\ [prompt EXCEPT !.line = e, !.cursor = at] \in Shells
        /\ [prompt EXCEPT !.line = e, !.cursor = at].line = e
        /\ [prompt EXCEPT !.line = e, !.cursor = at].cursor = at
    BY <1>1, <2>2
  <2> QED BY <2>2, <2>3, <2>4
<1>5. CASE k \notin Char /\ k = "back" /\ c > 0
  <2> DEFINE e == Echo!RemoveAt(l, c)
  <2>1. Echo!Edited(k) = [prompt EXCEPT !.line = e, !.cursor = c - 1]
    BY <1>0, <1>5, EchoFits DEF Echo!Edited, Echo!ParametersFit
  <2> DEFINE at == c - 1
  <2>2. e \in Seq(Echo!Letter) /\ at \in Nat /\ at <= Len(e)
    BY <1>0, <1>3, <1>5
  <2>3. Echo!Edited(k) = [prompt EXCEPT !.line = e, !.cursor = at]
    BY <2>1
  <2> HIDE DEF e, at, l, c
  <2>4. /\ [prompt EXCEPT !.line = e, !.cursor = at] \in Shells
        /\ [prompt EXCEPT !.line = e, !.cursor = at].line = e
        /\ [prompt EXCEPT !.line = e, !.cursor = at].cursor = at
    BY <1>1, <2>2
  <2> QED BY <2>2, <2>3, <2>4
<1>6. CASE k \notin Char /\ k = "left" /\ c > 0
  BY <1>0, <1>6 DEF Echo!Edited, Shells
<1>7. CASE k \notin Char /\ k = "right" /\ c < Len(l)
  BY <1>0, <1>7 DEF Echo!Edited, Shells
<1>8. CASE k \notin Char /\ ~(k = "back" /\ c > 0) /\ ~(k = "left" /\ c > 0)
           /\ ~(k = "right" /\ c < Len(l))
  BY <1>0, <1>8 DEF Echo!Edited, Shells
<1> QED BY <1>4, <1>5, <1>6, <1>7, <1>8

LEMMA OneOrTwo ==
  ASSUME NEW S, NEW x \in S, NEW y \in S
  PROVE  <<x>> \in Seq(S) /\ <<x, y>> \in Seq(S)
OBVIOUS

(* What the terminal is sent for a key is a sequence of bytes. *)
LEMMA EchoTyped ==
  ASSUME prompt \in Shells, prompt.cursor <= Len(prompt.line), NEW k \in Echo!Keys
  PROVE  Echo!Echo(k) \in Seq(Bytes)
<1> DEFINE new == Echo!Edited(k)
           tail == SubSeq(new.line, new.cursor + 1, Len(new.line))
           home == Echo!Times(Len(tail), "bs")
<1>1. new.line \in Seq(Echo!Letter) /\ new.cursor \in Nat /\ Len(new.line) \in Nat
  BY EditedTyped, LenProperties DEF Shells
<1>2. tail \in Seq(Echo!Letter) /\ Len(tail) \in Nat
  BY <1>1, PartOfSeq, LenProperties
<1>3. tail \in Seq(Bytes) /\ new.line \in Seq(Bytes)
  BY <1>1, <1>2, SeqMonotonic DEF Bytes
<1>4. home \in Seq(Bytes)
  BY <1>2, TimesTyped DEF Bytes
<1>5. /\ <<>> \in Seq(Bytes) /\ <<"bs">> \in Seq(Bytes) /\ <<"forward">> \in Seq(Bytes)
      /\ <<"reprint">> \in Seq(Bytes) /\ <<" ", "bs">> \in Seq(Bytes)
      /\ k \in Char => <<k>> \in Seq(Bytes)
  <2>1. /\ "bs" \in Bytes /\ "forward" \in Bytes /\ "reprint" \in Bytes /\ " " \in Bytes
        /\ k \in Char => k \in Bytes
    BY DEF Bytes, Echo!Letter
  <2> QED BY <2>1, OneOrTwo, EmptySeq
<1>6. /\ (<<"reprint">> \o new.line) \o home \in Seq(Bytes)
      /\ ((<<"bs">> \o tail) \o <<" ", "bs">>) \o home \in Seq(Bytes)
      /\ k \in Char => (<<k>> \o tail) \o home \in Seq(Bytes)
  <2> HIDE DEF new, tail, home
  <2> QED BY <1>3, <1>4, <1>5, ConcatProperties
<1>7. Echo!Echo(k) =
        CASE new = prompt \/ prompt.kind = "silent" -> <<>>
          [] k = "left" -> <<"bs">>
          [] k = "right" -> <<"forward">>
          [] prompt.kind = "highlight" -> (<<"reprint">> \o new.line) \o home
          [] k = "back" -> ((<<"bs">> \o tail) \o <<" ", "bs">>) \o home
          [] OTHER -> (<<k>> \o tail) \o home
  BY DEF Echo!Echo
<1> HIDE DEF new, tail, home
<1>8. k \in Char \/ k \in {"back", "left", "right"}
  BY DEF Echo!Keys
<1> QED BY <1>5, <1>6, <1>7, <1>8

Flags == /\ predicting \in BOOLEAN /\ suspended \in BOOLEAN /\ slow \in BOOLEAN
         /\ cooling \in BOOLEAN /\ watchdog \in BOOLEAN /\ strayed \in BOOLEAN

Queues == /\ prompt \in Shells /\ prompt.cursor <= Len(prompt.line)
          /\ wire \in Seq(Echo!Keys) /\ predicted \in Seq(Char)
          /\ echoed \in Seq(Bytes \X BOOLEAN) /\ keys \in 0 .. MaxKeys

Probe == probe \in [sent : BOOLEAN, flying : BOOLEAN]

LEMMA EchoTypes == Echo!TypeOK <=> Queues /\ Flags /\ Probe
<1>1. Echo!TypeOK <=> Queues /\ {predicting, suspended, slow, cooling, watchdog, strayed}
                                  \subseteq BOOLEAN /\ Probe
  BY Zenon DEF Echo!TypeOK, Queues, Probe, Shells, Bytes
<1>2. Flags <=> {predicting, suspended, slow, cooling, watchdog, strayed} \subseteq BOOLEAN
  BY Zenon DEF Flags
<1> QED BY <1>1, <1>2

LEMMA EchoStart == Echo!Init => Echo!TypeOK
<1> SUFFICES ASSUME Echo!Init PROVE Echo!TypeOK
  OBVIOUS
<1>1. Queues
  <2>0. PICK l \in Lines :
          \E sort \in {"plain", "highlight", "silent"}, c \in 0 .. Len(l) :
             prompt = [kind |-> sort, line |-> l, cursor |-> c]
    BY DEF Echo!Init
  <2>1. PICK sort \in {"plain", "highlight", "silent"}, c \in 0 .. Len(l) :
          prompt = [kind |-> sort, line |-> l, cursor |-> c]
    BY <2>0
  <2>2. l \in Seq(Echo!Letter)
    <3>1. l \in Seq(Echo!Range(l)) /\ Echo!Range(l) \subseteq Echo!Letter
      BY EchoFits DEF Echo!ParametersFit, Echo!Letter
    <3> QED BY <3>1, SeqMonotonic
  <2>3. c \in Nat /\ c <= Len(l)
    BY <2>1, <2>2, LenProperties
  <2>4. prompt \in Shells /\ prompt.cursor <= Len(prompt.line)
    BY <2>1, <2>2, <2>3 DEF Shells
  <2>5. wire = <<>> /\ predicted = <<>> /\ echoed = <<>> /\ keys = 0 /\ MaxKeys \in Nat
    BY EchoFits DEF Echo!Init, Echo!ParametersFit
  <2> QED BY <2>4, <2>5 DEF Queues
<1>2. Flags /\ Probe
  BY DEF Echo!Init, Flags, Probe
<1> QED BY <1>1, <1>2, EchoTypes

LEMMA EchoStep == ASSUME Echo!TypeOK, [Echo!Next]_(Echo!vars) PROVE Echo!TypeOK'
<1>0. Queues /\ Flags /\ Probe
  BY EchoTypes
<1>1. /\ prompt \in Shells /\ prompt.cursor <= Len(prompt.line)
      /\ wire \in Seq(Echo!Keys) /\ predicted \in Seq(Char)
      /\ echoed \in Seq(Bytes \X BOOLEAN) /\ keys \in 0 .. MaxKeys /\ MaxKeys \in Nat
  BY <1>0, EchoFits DEF Queues, Echo!ParametersFit
<1>2. Queues'
  <2>1. ASSUME NEW k \in Echo!Keys, NEW burst \in BOOLEAN, NEW stale \in BOOLEAN,
               NEW safe \in BOOLEAN, Echo!Input(k, burst, stale, safe)
        PROVE  Queues'
    <3>1. /\ wire' = Append(wire, k) /\ keys' = keys + 1 /\ keys < MaxKeys
          /\ prompt' = prompt /\ echoed' = echoed
      BY <2>1 DEF Echo!Input
    <3>0. predicted' = predicted \/ (k \in Char /\ predicted' = Append(predicted, k))
      BY <2>1 DEF Echo!Input
    <3>2. wire' \in Seq(Echo!Keys) /\ predicted' \in Seq(Char)
      <4>1. wire' \in Seq(Echo!Keys)
        BY <1>1, <3>1, AppendProperties
      <4>2. predicted' \in Seq(Char)
        <5>1. predicted \in Seq(Char)
          BY <1>1
        <5>2. k \in Char => Append(predicted, k) \in Seq(Char)
          BY <5>1, AppendProperties
        <5> QED BY <3>0, <5>1, <5>2
      <4> QED BY <4>1, <4>2
    <3>3. keys' \in 0 .. MaxKeys
      BY <1>1, <3>1
    <3> QED BY <1>1, <3>1, <3>2, <3>3 DEF Queues
  <2>2. ASSUME NEW k \in Echo!Keys, Echo!InputAsIs(k) PROVE Queues'
    <3>1. wire' \in Seq(Echo!Keys)
      BY <1>1, <2>2, AppendProperties DEF Echo!InputAsIs
    <3> QED BY <1>1, <2>2, <3>1 DEF Echo!InputAsIs, Queues
  <2>3. CASE Echo!ShellReads
    <3> DEFINE k == Head(wire)
               echo == Echo!Echo(k)
               sent == [i \in DOMAIN echo |-> <<echo[i], k \in Char>>]
    <3>1. k \in Echo!Keys /\ wire' \in Seq(Echo!Keys)
      BY <1>1, <2>3, HeadTailProperties DEF Echo!ShellReads
    <3>2. echo \in Seq(Bytes)
      BY <1>1, <3>1, EchoTyped
    <3>3. prompt' \in Shells /\ prompt'.cursor <= Len(prompt'.line)
      BY <1>1, <2>3, EditedTyped DEF Echo!ShellReads
    <3>4. sent \in Seq(Bytes \X BOOLEAN)
      <4>1. Len(echo) \in Nat /\ DOMAIN echo = 1 .. Len(echo)
              /\ echo \in [1 .. Len(echo) -> Bytes]
        BY <3>2, LenProperties
      <4>2. (k \in Char) \in BOOLEAN
        OBVIOUS
      <4> HIDE DEF echo, k
      <4>3. sent \in [1 .. Len(echo) -> Bytes \X BOOLEAN]
        BY <4>1, <4>2, Zenon
      <4> QED BY <4>1, <4>3, SeqDef
    <3>5. echoed' = echoed \o sent /\ UNCHANGED <<predicted, keys>>
      BY <2>3 DEF Echo!ShellReads
    <3> HIDE DEF sent
    <3>6. echoed' \in Seq(Bytes \X BOOLEAN)
      BY <1>1, <3>4, <3>5, ConcatProperties
    <3> QED BY <1>1, <3>1, <3>3, <3>5, <3>6 DEF Queues
  <2>4. ASSUME NEW n \in 1 .. Len(echoed), Echo!Receive(n) PROVE Queues'
    <3> DEFINE real == [i \in 1 .. n |-> echoed[i][1]]
    <3>1. Len(echoed) \in Nat /\ n \in Nat \ {0} /\ n <= Len(echoed)
      BY <1>1, <2>4, LenProperties
    <3>2. SubSeq(echoed, n + 1, Len(echoed)) \in Seq(Bytes \X BOOLEAN)
      BY <1>1, <3>1, PartOfSeq
    <3>3. /\ echoed' = SubSeq(echoed, n + 1, Len(echoed))
          /\ prompt' = prompt /\ wire' = wire /\ keys' = keys
          /\ Echo!Passes(real) \/ Echo!Reconciles(real)
      BY <2>4 DEF Echo!Receive
    <3>4. real \in Seq(Bytes)
      <4>1. \A i \in 1 .. n : echoed[i] \in Bytes \X BOOLEAN
        BY <1>1, <3>1, LenProperties
      <4>2. \A i \in 1 .. n : echoed[i][1] \in Bytes
        BY <4>1
      <4>3. real \in [1 .. n -> Bytes]
        BY <4>2
      <4> QED BY <3>1, <4>3, SeqDef
    <3> HIDE DEF real
    <3>5. predicted' \in Seq(Char)
      <4> DEFINE matched == Len(Echo!LongestCommonPrefix({real, predicted}))
      <4>1. matched \in 0 .. Len(predicted) /\ Len(predicted) \in Nat
        BY <1>1, <3>4, CommonPrefixFits, LenProperties
      <4>2. \/ predicted' = predicted \/ predicted' = <<>>
            \/ predicted' = SubSeq(predicted, matched + 1, Len(predicted))
        BY <3>3 DEF Echo!Passes, Echo!Reconciles, Echo!Rest
      <4> HIDE DEF matched
      <4>3. SubSeq(predicted, matched + 1, Len(predicted)) \in Seq(Char)
        BY <1>1, <4>1, PartOfSeq
      <4> QED BY <1>1, <4>2, <4>3, EmptySeq
    <3> QED BY <1>1, <3>2, <3>3, <3>5 DEF Queues
  <2>5. ASSUME Echo!Watchdog \/ Echo!Disable \/ Echo!CoolEnds \/ Echo!Enable
               \/ UNCHANGED Echo!vars
        PROVE  Queues'
    <3>1. UNCHANGED <<prompt, wire, echoed, keys>> /\ (predicted' = predicted \/ predicted' = <<>>)
      BY <2>5 DEF Echo!Watchdog, Echo!Disable, Echo!CoolEnds, Echo!Enable, Echo!Flush,
                  Echo!vars, Echo!link
    <3>2. predicted' \in Seq(Char)
      BY <1>1, <3>1, EmptySeq
    <3> QED BY <1>1, <3>1, <3>2 DEF Queues
  <2> QED BY <2>1, <2>2, <2>3, <2>4, <2>5 DEF Echo!Next
<1>3. Flags'
  <2>0. /\ predicting \in BOOLEAN /\ suspended \in BOOLEAN /\ slow \in BOOLEAN
        /\ cooling \in BOOLEAN /\ watchdog \in BOOLEAN /\ strayed \in BOOLEAN
    BY <1>0 DEF Flags
  <2>1. ASSUME NEW k \in Echo!Keys, NEW burst \in BOOLEAN, NEW stale \in BOOLEAN,
               NEW safe \in BOOLEAN, Echo!Input(k, burst, stale, safe)
        PROVE  Flags'
    BY <2>0, <2>1, Zenon DEF Echo!Input, Flags
  <2>2. ASSUME NEW k \in Echo!Keys, Echo!InputAsIs(k) PROVE Flags'
    BY <2>0, <2>2 DEF Echo!InputAsIs, Echo!estimate, Flags
  <2>3. CASE Echo!ShellReads
    BY <2>0, <2>3 DEF Echo!ShellReads, Echo!estimate, Flags
  <2>4. ASSUME NEW n \in 1 .. Len(echoed), Echo!Receive(n) PROVE Flags'
    <3>1. PICK real : Echo!Passes(real) \/ Echo!Reconciles(real)
      BY <2>4 DEF Echo!Receive
    <3>2. predicting' = predicting /\ cooling' = cooling
      BY <2>4 DEF Echo!Receive
    <3>3. CASE Echo!Passes(real)
      BY <2>0, <3>2, <3>3 DEF Echo!Passes, Echo!estimate, Flags
    <3>4. CASE Echo!Reconciles(real)
      <4>1. suspended' \in BOOLEAN /\ strayed' \in BOOLEAN /\ watchdog' \in BOOLEAN
        BY <3>4, Zenon DEF Echo!Reconciles
      <4>2. slow' \in BOOLEAN
        BY <2>0, <3>4, Zenon DEF Echo!Reconciles
      <4> QED BY <2>0, <3>2, <4>1, <4>2 DEF Flags
    <3> QED BY <3>1, <3>3, <3>4
  <2>5. CASE Echo!Watchdog \/ Echo!Disable
    <3>1. suspended' \in BOOLEAN /\ strayed' \in BOOLEAN
      BY <2>0, <2>5, Zenon DEF Echo!Watchdog, Echo!Disable, Echo!Flush
    <3>2. predicting' \in BOOLEAN /\ slow' \in BOOLEAN /\ cooling' \in BOOLEAN
          /\ watchdog' \in BOOLEAN
      BY <2>0, <2>5, Zenon DEF Echo!Watchdog, Echo!Disable
    <3> QED BY <3>1, <3>2 DEF Flags
  <2>6. CASE Echo!CoolEnds \/ Echo!Enable \/ UNCHANGED Echo!vars
    BY <2>0, <2>6 DEF Echo!CoolEnds, Echo!Enable, Echo!vars, Echo!estimate, Flags
  <2> QED BY <2>1, <2>2, <2>3, <2>4, <2>5, <2>6 DEF Echo!Next
<1>4. Probe'
  <2>1. ASSUME NEW k \in Echo!Keys, NEW burst \in BOOLEAN, NEW stale \in BOOLEAN,
               NEW safe \in BOOLEAN, Echo!Input(k, burst, stale, safe)
        PROVE  Probe'
    <3>1. PICK sent \in BOOLEAN, flying \in BOOLEAN :
            probe' = [sent |-> sent, flying |-> flying]
      BY <2>1, Zenon DEF Echo!Input
    <3> QED BY <3>1 DEF Probe
  <2>2. CASE probe' = probe \/ probe' = [sent |-> FALSE, flying |-> FALSE]
    <3>1. [sent |-> FALSE, flying |-> FALSE] \in [sent : BOOLEAN, flying : BOOLEAN]
      BY Zenon
    <3> QED BY <1>0, <2>2, <3>1, Zenon DEF Probe
  <2>3. ASSUME NEW k \in Echo!Keys, Echo!InputAsIs(k) PROVE probe' = probe
    BY <2>3 DEF Echo!InputAsIs, Echo!estimate
  <2>4. ASSUME NEW n \in 1 .. Len(echoed), Echo!Receive(n)
        PROVE  probe' = probe \/ probe' = [sent |-> FALSE, flying |-> FALSE]
    BY <2>4 DEF Echo!Receive, Echo!Passes, Echo!Reconciles, Echo!estimate
  <2>5. CASE Echo!Watchdog \/ Echo!Disable
    BY <2>2, <2>5 DEF Echo!Watchdog, Echo!Disable, Echo!Flush
  <2>6. ASSUME Echo!ShellReads \/ Echo!CoolEnds \/ Echo!Enable \/ UNCHANGED Echo!vars
        PROVE  probe' = probe
    BY <2>6 DEF Echo!ShellReads, Echo!CoolEnds, Echo!Enable, Echo!vars, Echo!estimate
  <2> QED BY <2>1, <2>2, <2>3, <2>4, <2>5, <2>6 DEF Echo!Next
<1>5. {predicting, suspended, slow, cooling, watchdog, strayed}' \subseteq BOOLEAN
  BY <1>3, Zenon DEF Flags
<1> QED BY <1>2, <1>4, <1>5, Zenon DEF Echo!TypeOK, Queues, Probe, Shells, Bytes

-----------------------------------------------------------------------------
(* Side by side                                                            *)

(* The part that the initial state chose keeps its invariant. *)
PartsInv ==
    /\ part \in {"dispatch", "scheduler", "triggers", "daemon", "diff", "pane",
                "hibernation", "echo"}
    /\ part = "dispatch" => IInv
    /\ part = "scheduler" => SchedulerInv
    /\ part = "triggers" => TriggersInv
    /\ part = "daemon" => DaemonInv
    /\ part = "diff" => DiffInv
    /\ part = "pane" => PaneInv
    /\ part = "hibernation" => HiberInv
    /\ part = "echo" => Echo!TypeOK

LEMMA PartsStart == PartsInit => PartsInv
<1>1. PartsInit /\ part = "dispatch" => IInv
  BY InitIInv DEF PartsInit
<1>2. PartsInit /\ part = "scheduler" => SchedulerInv
  BY SchedulerStarts, SchedulerFits DEF PartsInit
<1>3. PartsInit /\ part = "triggers" => TriggersInv
  BY TriggersStart DEF PartsInit
<1>4. PartsInit /\ part = "daemon" => DaemonInv
  BY DaemonStarts DEF PartsInit
<1>5. PartsInit /\ part = "diff" => DiffInv
  BY DiffStart DEF PartsInit
<1>6. PartsInit /\ part = "pane" => PaneInv
  BY PaneStart DEF PartsInit
<1>7. PartsInit /\ part = "hibernation" => HiberInv
  BY HiberStart DEF PartsInit
<1>8. PartsInit /\ part = "echo" => Echo!TypeOK
  BY EchoStart DEF PartsInit
<1> QED BY <1>1, <1>2, <1>3, <1>4, <1>5, <1>6, <1>7, <1>8 DEF PartsInv, PartsInit

(* A step of the whole is a step of the part, or leaves the part alone. *)
LEMMA DispatchPartMoves ==
  ASSUME [PartsNext]_everything, part = "dispatch"
  PROVE  part' = "dispatch" /\ [Next]_vars
<1>1. CASE PartsNext
  BY <1>1 DEF PartsNext, Frame
<1>2. CASE UNCHANGED everything
  BY <1>2 DEF everything, ofDispatch, vars, settings, budget, record, memory, tabs
<1> QED BY <1>1, <1>2

LEMMA SchedulerPartMoves ==
  ASSUME [PartsNext]_everything, part = "scheduler"
  PROVE  part' = "scheduler" /\ [Scheduler!Next]_(Scheduler!vars)
<1>1. CASE PartsNext
  BY <1>1 DEF PartsNext, Frame
<1>2. CASE UNCHANGED everything
  BY <1>2 DEF everything, ofScheduler, Scheduler!vars, Scheduler!memory, Scheduler!files,
       Scheduler!tick, Scheduler!history
<1> QED BY <1>1, <1>2

LEMMA TriggersPartMoves ==
  ASSUME [PartsNext]_everything, part = "triggers"
  PROVE  part' = "triggers" /\ [Triggers!Next]_(Triggers!vars)
<1>1. CASE PartsNext
  BY <1>1 DEF PartsNext, Frame
<1>2. CASE UNCHANGED everything
  BY <1>2 DEF everything, ofTriggers, Triggers!vars, Triggers!trigger, Triggers!timers,
       Triggers!history
<1> QED BY <1>1, <1>2

LEMMA DaemonPartMoves ==
  ASSUME [PartsNext]_everything, part = "daemon"
  PROVE  part' = "daemon" /\ [Daemon!Next]_(Daemon!vars)
<1>1. CASE PartsNext
  BY <1>1 DEF PartsNext, Frame
<1>2. CASE UNCHANGED everything
  BY <1>2 DEF everything, ofDaemon, Daemon!vars
<1> QED BY <1>1, <1>2

LEMMA DiffPartMoves ==
  ASSUME [PartsNext]_everything, part = "diff"
  PROVE  part' = "diff" /\ [Diff!Next]_(Diff!vars)
<1>1. CASE PartsNext
  BY <1>1 DEF PartsNext, Frame
<1>2. CASE UNCHANGED everything
  BY <1>2 DEF everything, ofDiff, Diff!vars
<1> QED BY <1>1, <1>2

LEMMA PanePartMoves ==
  ASSUME [PartsNext]_everything, part = "pane"
  PROVE  part' = "pane" /\ [Pane!Next]_(Pane!vars)
<1>1. CASE PartsNext
  BY <1>1 DEF PartsNext, Frame
<1>2. CASE UNCHANGED everything
  BY <1>2 DEF everything, ofPane, Pane!vars
<1> QED BY <1>1, <1>2

LEMMA HiberPartMoves ==
  ASSUME [PartsNext]_everything, part = "hibernation"
  PROVE  part' = "hibernation" /\ [Hiber!Next]_(Hiber!vars)
<1>1. CASE PartsNext
  BY <1>1 DEF PartsNext, Frame
<1>2. CASE UNCHANGED everything
  BY <1>2 DEF everything, ofHiber, Hiber!vars, Hiber!sessions, Hiber!pages,
       Hiber!saved
<1> QED BY <1>1, <1>2

LEMMA EchoPartMoves ==
  ASSUME [PartsNext]_everything, part = "echo"
  PROVE  part' = "echo" /\ [Echo!Next]_(Echo!vars)
<1>1. CASE PartsNext
  BY <1>1 DEF PartsNext, Frame
<1>2. CASE UNCHANGED everything
  BY <1>2 DEF everything, ofEcho, Echo!vars, Echo!link,
       Echo!estimate
<1> QED BY <1>1, <1>2

LEMMA PartsStep == PartsInv /\ [PartsNext]_everything => PartsInv'
<1> SUFFICES ASSUME PartsInv, [PartsNext]_everything PROVE PartsInv'
  OBVIOUS
<1>0. part' = part
  BY DEF PartsNext, Frame, everything
<1>1. part' = "dispatch" => IInv'
  BY <1>0, DispatchPartMoves, NextIInv DEF PartsInv
<1>2. part' = "scheduler" => SchedulerInv'
  BY <1>0, SchedulerPartMoves, SchedulerStep, SchedulerFits DEF PartsInv
<1>3. part' = "triggers" => TriggersInv'
  BY <1>0, TriggersPartMoves, TriggersStep DEF PartsInv
<1>4. part' = "daemon" => DaemonInv'
  BY <1>0, DaemonPartMoves, DaemonStep DEF PartsInv
<1>5. part' = "diff" => DiffInv'
  BY <1>0, DiffPartMoves, DiffStep DEF PartsInv
<1>6. part' = "pane" => PaneInv'
  BY <1>0, PanePartMoves, PaneStep DEF PartsInv
<1>7. part' = "hibernation" => HiberInv'
  BY <1>0, HiberPartMoves, HiberStep DEF PartsInv
<1>8. part' = "echo" => Echo!TypeOK'
  BY <1>0, EchoPartMoves, EchoStep DEF PartsInv
<1> QED BY <1>0, <1>1, <1>2, <1>3, <1>4, <1>5, <1>6, <1>7, <1>8 DEF PartsInv

LEMMA PartsInvariance == PartsSpec => []PartsInv
BY PartsStart, PartsStep, PTL DEF PartsSpec

(* Every variable of every part keeps its type.                            *)
THEOREM PartsAreTyped == PartsSpec => []PartsTypeOK
<1>1. PartsInv => PartsTypeOK
  BY DaemonIsTyped DEF PartsInv, PartsTypeOK, IInv, SchedulerInv, TriggersInv,
     DiffInv, PaneInv, HiberInv
<1> QED BY <1>1, PartsInvariance, PTL

(* Whichever handlers interleave, no more runs of an automation are under  *)
(* way than MAX_AUTOMATION_CONCURRENT_RUNS and its policy allow.           *)
THEOREM CapacityIsKept == PartsSpec => []CapacityKept
<1>1. PartsInv => CapacityKept
  BY DEF PartsInv, CapacityKept, IInv
<1> QED BY <1>1, PartsInvariance, PTL

(* An occurrence is decided once, none is forgotten for good, and none is  *)
(* run too late, through late ticks, failed writes and crashes.            *)
THEOREM EveryOccurrenceIsKept == PartsSpec => []OccurrencesKept
<1>1. PartsInv => OccurrencesKept
  BY SchedulerFits, SchedulerKeeps DEF PartsInv, OccurrencesKept
<1> QED BY <1>1, PartsInvariance, PTL

(* An edited folder or session-event trigger starts no run for what its    *)
(* former one has seen.                                                    *)
THEOREM NothingStartsFromFormer == PartsSpec => []NothingFromFormer
<1>1. PartsInv => NothingFromFormer
  BY DEF PartsInv, NothingFromFormer, TriggersInv
<1> QED BY <1>1, PartsInvariance, PTL

(* No diff request is answered by a read from before what it must see, and *)
(* who waits for a text hears it when it is drawn at once and the session  *)
(* lives.                                                                  *)
THEOREM ReadsStayFresh == PartsSpec => []ReadsAreFresh
<1>1. PartsInv => ReadsAreFresh
  BY DEF PartsInv, ReadsAreFresh, DiffInv, PaneInv
<1> QED BY <1>1, PartsInvariance, PTL

(* Through a restart the daemon comes to serve again, or a start's child   *)
(* is taking its place, and a page that stays finds its text in the        *)
(* snapshot.                                                               *)
THEOREM RestartsKeep == PartsSpec => []RestartKeeps
<1>1. PartsInv => RestartKeeps
  BY HiberComplete DEF PartsInv, RestartKeeps, DaemonInv, ReportHolds, Duty,
     Daemon!RestartServes
<1> QED BY <1>1, PartsInvariance, PTL

(* After a run, what is noticed within the grace triggers nothing, and     *)
(* what was noticed before comes within a debounce or never.               *)
THEOREM QuietFollowsRuns == PartsSpec => QuietAfterRun
<1>1. PartsInv /\ [PartsNext]_everything
        => [part = "triggers" => Triggers!QuietStep]_<<part, ofTriggers>>
  <2> SUFFICES ASSUME PartsInv, [PartsNext]_everything, part = "triggers",
                      ~UNCHANGED <<part, ofTriggers>>
               PROVE  Triggers!QuietStep
    OBVIOUS
  <2>1. [Triggers!Next]_(Triggers!vars) /\ part' = part
    BY TriggersPartMoves
  <2>2. ~UNCHANGED Triggers!vars
    BY <2>1 DEF ofTriggers, Triggers!vars, Triggers!trigger, Triggers!timers,
                Triggers!history
  <2> QED BY <2>1, <2>2, TriggersStep DEF PartsInv
<1> QED BY <1>1, PartsInvariance, PTL DEF PartsSpec, QuietAfterRun
=============================================================================
