---------------------------- MODULE MCSafetyParts ----------------------------
(***************************************************************************)
(* SafetyParts for TLC.  In the dispatcher the limit of two is reached by  *)
(* two runs, with a third to queue behind.  The scheduler has occurrences  *)
(* that coincide, more of them than the cap in one downtime, and a         *)
(* downtime longer than the look-back.  The grace outlasts the debounce,   *)
(* as FOLDER_WATCH_* have it.  The timeouts of a restart are in seconds,   *)
(* and one more daemon can be started on top of it.  The diff cache has    *)
(* two requests that compare differently, and holds one entry.  The text   *)
(* that is waited for is printed between two other chunks, and two         *)
(* renderers can meet.  Before and after two restarts, the operator and a  *)
(* user have the same window.  Three keys are pressed on an empty line or  *)
(* around a letter, two of them predicted.                                 *)
(***************************************************************************)
EXTENDS SafetyParts, TLC

(* The scheduler *)
Two == {1, 2}
AnchorOfTwo == (1 :> 2) @@ (2 :> 1)
PeriodOfTwo == (1 :> 2) @@ (2 :> 5)

(* The dispatcher *)
SomePolicies == {"queue-latest", "allow"}

(* Hibernation *)
TwoPages == {"p1", "p2"}
SameWindow == ("p1" :> "w") @@ ("p2" :> "w")
TwoOwners == ("p1" :> "operator") @@ ("p2" :> "ann")

(* Local echo *)
TwoChars == {"a", "b"}
EmptyOrLetter == {<<>>, <<"a">>}
=============================================================================
