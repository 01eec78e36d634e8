---------------------------- MODULE SessionTable ----------------------------
(***************************************************************************)
(* What the session registry promises its users, with nothing said of      *)
(* timers, stamps, sockets or pins: a session that is busy (viewed, pinned *)
(* or running something) is only ended by its user or by its shell; the    *)
(* daemon may take away any other one, one at a time, and at the cap does  *)
(* so to let a new one start.                                              *)
(***************************************************************************)
EXTENDS Integers, FiniteSets

CONSTANTS Session, MaxSessions

VARIABLES
    status,  \* unborn, live, or what ended the session
    busy     \* the session must not be taken away

LiveNow == {s \in Session : status[s] = "live"}

TypeOK ==
    /\ status \in [Session -> {"unborn", "live", "reaped", "evicted",
                               "killed", "exited", "disposed"}]
    /\ busy \in [Session -> BOOLEAN]

Init ==
    /\ status = [s \in Session |-> "unborn"]
    /\ busy = [s \in Session |-> FALSE]

(* Viewers come and go, pins are toggled, the shell works and rests. *)
Change ==
    /\ busy' \in [Session -> BOOLEAN]
    /\ \A s \in Session : s \notin LiveNow => busy'[s] = busy[s]
    /\ UNCHANGED status

(* One session ends; the record that it was busy goes with it. *)
End(s, causes) ==
    /\ s \in LiveNow
    /\ \E cause \in causes : status' = [status EXCEPT ![s] = cause]
    /\ busy' = [busy EXCEPT ![s] = FALSE]

TakeAway(s) == ~busy[s] /\ End(s, {"reaped", "evicted"})

UserEnds(s) == End(s, {"killed", "exited"})

(* A session starts; the one that made room, if any, was not busy. *)
Start(s, D) ==
    /\ status[s] = "unborn"
    /\ D \subseteq LiveNow
    /\ \A x \in D : ~busy[x]
    /\ Cardinality(LiveNow) - Cardinality(D) < MaxSessions
    /\ D # {} => Cardinality(LiveNow) = MaxSessions /\ Cardinality(D) = 1
    /\ status' = [x \in Session |->
                    IF x = s THEN "live" ELSE IF x \in D THEN "evicted" ELSE status[x]]
    /\ \E b \in BOOLEAN :
          busy' = [x \in Session |->
                     IF x = s THEN b ELSE IF x \in D THEN FALSE ELSE busy[x]]

Shutdown ==
    /\ status' = [s \in Session |-> IF s \in LiveNow THEN "disposed" ELSE status[s]]
    /\ busy' = [s \in Session |-> FALSE]

Next ==
    \/ Change
    \/ \E s \in Session : TakeAway(s) \/ UserEnds(s)
    \/ \E s \in Session, D \in SUBSET Session : Start(s, D)
    \/ Shutdown

Spec == Init /\ [][Next]_<<status, busy>>
=============================================================================
