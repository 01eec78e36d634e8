----------------------------- MODULE GitMetadata -----------------------------
(***************************************************************************)
(* The git summary each viewer shows, from the change of a working tree to *)
(* the page.                                                               *)
(*                                                                         *)
(* Models packages/server/src/git-metadata-coordinator.ts with the         *)
(* watchers of session-git-event-bridge.ts and git-diff-watcher.ts, the    *)
(* throttle of utils/throttle.ts, the recovery of                          *)
(* utils/watch-with-recovery.ts, the coordinators of session-client-hub.ts *)
(* and what the page does with a cwd and with a summary frame.  A tree is  *)
(* the number of its changes.  A summary is the pair of versions that      *)
(* `git diff` and the listing of untracked files saw.  Each place is a     *)
(* repository of its own.                                                  *)
(***************************************************************************)
EXTENDS Naturals, Sequences, FiniteSets

CONSTANTS
    Places,     \* working directories
    Viewers,    \* sockets
    Sessions,
    SessionOf,  \* [Viewers -> Sessions]
    FirstPlace, \* a place: where every session starts
    MaxNews,    \* bound: changes, failed passes, lost watches, moves, prompts
    MaxVisits   \* bound: attachments

(* What the constants are. *)
ParametersFit ==
    /\ {MaxNews, MaxVisits} \subseteq Nat
    /\ SessionOf \in [Viewers -> Sessions] /\ FirstPlace \in Places

VARIABLES
    tree,       \* the version of each working tree
    here,       \* session.lastEmittedCwd
    att,        \* "gone", "pending" or "live", for each viewer
    queue,      \* cwd frames in pendingQueue
    shown,      \* the summary on the page: <<place, read>>, or <<>>
    co,         \* the coordinator of each place
    watch,      \* the file system watch of each place
    missed,     \* history: a change no signal will tell of, or a failed pass
    news, visits    \* bounds

viewers == <<here, att, queue, shown>>
bounds == <<news, visits>>
vars == <<tree, viewers, co, watch, missed, bounds>>

(* A coordinator: its subscribers are the viewers at its place.  read is   *)
(* what the git commands of the running pass have seen so far.             *)
NewCoordinator == [inFlight |-> FALSE, pending |-> FALSE, read |-> <<>>, last |-> <<>>]
NewWatch == [up |-> TRUE, note |-> FALSE, timer |-> FALSE, trailing |-> FALSE]

(* A summary that says of no version of a tree. *)
EmptySummary == <<MaxNews + 1, MaxNews + 1>>

Attached(v) == att[v] # "gone"
Subscribers(p) == {v \in Viewers : Attached(v) /\ here[SessionOf[v]] = p}
Watched(p) == Subscribers(p) # {}

(* Mutation: a signal during a pass is taken as answered by that pass. *)
SignalledDropped(c) ==
    IF c.inFlight THEN c ELSE [c EXCEPT !.inFlight = TRUE, !.read = <<>>]

(* signal(): one pass at a time, and one more for all that came meanwhile. *)
Signalled(c) ==
    IF c.inFlight THEN [c EXCEPT !.pending = TRUE]
    ELSE [c EXCEPT !.inFlight = TRUE, !.read = <<>>]

(* add(): a coordinator without a summary starts a pass for its first      *)
(* subscriber.                                                             *)
Joined(c) == IF c.last = <<>> /\ ~c.inFlight THEN Signalled(c) ELSE c

Summary(p, c) == <<p, c.last>>
Replayed(p, c, before) == IF c.last = <<>> THEN before ELSE Summary(p, c)

(* Mutation: the throttle fires on the leading edge only. *)
TriggeredLeading(w) == [w EXCEPT !.timer = TRUE, !.note = FALSE]

(* trigger(): a call while the timer runs is left to its end. *)
Triggered(w) ==
    [w EXCEPT !.note = FALSE, !.timer = TRUE, !.trailing = w.timer]

-----------------------------------------------------------------------------
(* Working trees and watches *)

Change(p) ==
    /\ news < MaxNews /\ news' = news + 1
    /\ tree' = [tree EXCEPT ![p] = @ + 1]
    /\ IF Watched(p) /\ watch[p].up
       THEN watch' = [watch EXCEPT ![p].note = TRUE] /\ UNCHANGED missed
       ELSE missed' = [missed EXCEPT ![p] = TRUE] /\ UNCHANGED watch
    /\ UNCHANGED <<viewers, co, visits>>

(* An event of the watch reaches the throttle. *)
Notice(p) ==
    /\ watch[p].note
    /\ watch' = [watch EXCEPT ![p] = Triggered(@)]
    /\ co' = IF watch[p].timer THEN co ELSE [co EXCEPT ![p] = Signalled(@)]
    /\ UNCHANGED <<tree, viewers, missed, bounds>>

(* flush(): what was left to the end of the interval starts a new one. *)
Flush(p) ==
    /\ watch[p].timer
    /\ watch' = [watch EXCEPT ![p].timer = @ /\ watch[p].trailing, ![p].trailing = FALSE]
    /\ co' = IF watch[p].trailing THEN [co EXCEPT ![p] = Signalled(@)] ELSE co
    /\ UNCHANGED <<tree, viewers, missed, bounds>>

(* The shell's prompt hook. *)
Prompt(s) ==
    /\ Watched(here[s]) /\ news < MaxNews /\ news' = news + 1
    /\ co' = [co EXCEPT ![here[s]] = Signalled(@)]
    /\ missed' = [missed EXCEPT ![here[s]] = FALSE]
    /\ UNCHANGED <<tree, viewers, watch, visits>>

(* An error of the handle; its events are lost until it is opened again. *)
WatchFails(p) ==
    /\ Watched(p) /\ watch[p].up /\ news < MaxNews
    /\ news' = news + 1
    /\ watch' = [watch EXCEPT ![p].up = FALSE, ![p].note = FALSE]
    /\ missed' = [missed EXCEPT ![p] = @ \/ watch[p].note]
    /\ UNCHANGED <<tree, viewers, co, visits>>

WatchRecovers(p) ==
    /\ ~watch[p].up
    /\ watch' = [watch EXCEPT ![p].up = TRUE]
    /\ UNCHANGED <<tree, viewers, co, missed, bounds>>

-----------------------------------------------------------------------------
(* The pass of a coordinator *)

(* getGitDiffSummary(): `git diff`, then the untracked files. *)
Read(p) ==
    /\ co[p].inFlight /\ Len(co[p].read) < 2
    /\ co' = [co EXCEPT ![p].read = Append(@, tree[p])]
    /\ UNCHANGED <<tree, viewers, watch, missed, bounds>>

AfterPass(c) ==
    LET done == [c EXCEPT !.inFlight = FALSE, !.pending = FALSE, !.read = <<>>]
    IN  IF c.pending THEN Signalled(done) ELSE done

(* The summary goes to every subscriber, also to one that is pending. *)
Pass(p) ==
    /\ co[p].inFlight /\ Len(co[p].read) = 2
    /\ co' = [co EXCEPT ![p] = AfterPass([@ EXCEPT !.last = co[p].read])]
    /\ shown' = [v \in Viewers |->
          IF v \in Subscribers(p) THEN <<p, co[p].read>> ELSE shown[v]]
    /\ missed' = [missed EXCEPT ![p] = @ /\ ~co[p].pending /\ co[p].read # <<tree[p], tree[p]>>]
    /\ UNCHANGED <<tree, here, att, queue, watch, bounds>>

(* A failed git command makes the summary empty, until the next signal. *)
PassFails(p) ==
    /\ co[p].inFlight /\ news < MaxNews
    /\ news' = news + 1
    /\ co' = [co EXCEPT ![p] = AfterPass([@ EXCEPT !.last = EmptySummary])]
    /\ shown' = [v \in Viewers |->
          IF v \in Subscribers(p) THEN <<p, EmptySummary>> ELSE shown[v]]
    /\ missed' = [missed EXCEPT ![p] = ~co[p].pending]
    /\ UNCHANGED <<tree, here, att, queue, watch, visits>>

-----------------------------------------------------------------------------
(* Viewers *)

(* Coordinators and watches nobody is left at are dropped. *)
Kept(cs, staying) ==
    [p \in Places |-> IF p \in staying THEN cs[p] ELSE NewCoordinator]
KeptWatch(staying) ==
    [p \in Places |-> IF p \in staying THEN watch[p] ELSE NewWatch]
Occupied(ats, where) == {where[SessionOf[v]] : v \in {u \in Viewers : ats[u] # "gone"}}

(* attach(): the page starts empty and subscribes at once. *)
Attach(v) ==
    LET p == here[SessionOf[v]] IN
    /\ att[v] = "gone" /\ visits < MaxVisits /\ visits' = visits + 1
    /\ att' = [att EXCEPT ![v] = "pending"]
    /\ queue' = [queue EXCEPT ![v] = 0]
    /\ shown' = [shown EXCEPT ![v] = Replayed(p, co[p], <<>>)]
    /\ co' = [co EXCEPT ![p] = Joined(@)]
    /\ missed' = IF Watched(p) THEN missed ELSE [missed EXCEPT ![p] = FALSE]
    /\ UNCHANGED <<tree, here, watch, news>>

Detach(v) ==
    /\ Attached(v)
    /\ att' = [att EXCEPT ![v] = "gone"]
    /\ shown' = [shown EXCEPT ![v] = <<>>]
    /\ queue' = [queue EXCEPT ![v] = 0]
    /\ co' = Kept(co, Occupied(att', here))
    /\ watch' = KeptWatch(Occupied(att', here))
    /\ UNCHANGED <<tree, here, missed, bounds>>

(* promote() sends the held frames one by one, then goes live. *)
SendHeld(v) ==
    /\ att[v] = "pending" /\ queue[v] > 0
    /\ queue' = [queue EXCEPT ![v] = @ - 1]
    /\ shown' = [shown EXCEPT ![v] = <<>>]
    /\ UNCHANGED <<tree, here, att, co, watch, missed, bounds>>

(* Mutation: the summary is not sent again to a viewer that goes live. *)
GoLiveSilently(v) ==
    /\ att[v] = "pending" /\ queue[v] = 0
    /\ att' = [att EXCEPT ![v] = "live"]
    /\ UNCHANGED <<tree, here, queue, shown, co, watch, missed, bounds>>

(* replayLastSummary(). *)
GoLive(v) ==
    LET p == here[SessionOf[v]] IN
    /\ att[v] = "pending" /\ queue[v] = 0
    /\ att' = [att EXCEPT ![v] = "live"]
    /\ shown' = [shown EXCEPT ![v] = Replayed(p, co[p], @)]
    /\ UNCHANGED <<tree, here, queue, co, watch, missed, bounds>>

(* The session's "cwd" event: the frame first, then the coordinators. *)
Move(s, p) ==
    LET mine == {v \in Viewers : SessionOf[v] = s /\ Attached(v)}
        moved == [here EXCEPT ![s] = p]
        kept == Kept(co, Occupied(att, moved))
    IN
    /\ here[s] # p /\ news < MaxNews /\ news' = news + 1
    /\ here' = moved
    /\ queue' = [v \in Viewers |->
          IF v \in mine /\ att[v] = "pending" THEN queue[v] + 1 ELSE queue[v]]
    /\ shown' = [v \in Viewers |->
          IF v \in mine
          THEN Replayed(p, co[p], IF att[v] = "live" THEN <<>> ELSE shown[v])
          ELSE shown[v]]
    /\ co' = IF mine = {} THEN kept ELSE [kept EXCEPT ![p] = Joined(@)]
    /\ watch' = KeptWatch(Occupied(att, moved))
    /\ missed' = IF mine = {} \/ Watched(p) THEN missed ELSE [missed EXCEPT ![p] = FALSE]
    /\ UNCHANGED <<tree, att, visits>>

-----------------------------------------------------------------------------

Init ==
    /\ tree = [p \in Places |-> 0]
    /\ here = [s \in Sessions |-> FirstPlace]
    /\ att = [v \in Viewers |-> "gone"]
    /\ queue = [v \in Viewers |-> 0]
    /\ shown = [v \in Viewers |-> <<>>]
    /\ co = [p \in Places |-> NewCoordinator]
    /\ watch = [p \in Places |-> NewWatch]
    /\ missed = [p \in Places |-> FALSE]
    /\ news = 0 /\ visits = 0

Next ==
    \/ \E p \in Places : Change(p)
    \/ \E p \in Places : Notice(p)
    \/ \E p \in Places : Flush(p)
    \/ \E s \in Sessions : Prompt(s)
    \/ \E p \in Places : WatchFails(p)
    \/ \E p \in Places : WatchRecovers(p)
    \/ \E p \in Places : Read(p)
    \/ \E p \in Places : Pass(p)
    \/ \E p \in Places : PassFails(p)
    \/ \E v \in Viewers : Attach(v)
    \/ \E v \in Viewers : Detach(v)
    \/ \E v \in Viewers : SendHeld(v)
    \/ \E v \in Viewers : GoLive(v)
    \/ \E s \in Sessions, p \in Places : Move(s, p)

(* What runs without anybody's help: timers, watch events, git commands,   *)
(* and the sending of held frames.                                         *)
Fairness ==
    /\ \A p \in Places : WF_vars(Notice(p)) /\ WF_vars(Flush(p))
    /\ \A p \in Places : WF_vars(Read(p)) /\ WF_vars(Pass(p))
    /\ \A v \in Viewers : WF_vars(SendHeld(v)) /\ WF_vars(GoLive(v))

Spec == Init /\ [][Next]_vars /\ Fairness

-----------------------------------------------------------------------------
(* Properties *)

(* Every variable has its type. *)
TypeOK ==
    /\ tree \in [Places -> 0 .. MaxNews]
    /\ here \in [Sessions -> Places]
    /\ att \in [Viewers -> {"gone", "pending", "live"}]
    /\ queue \in [Viewers -> 0 .. MaxNews]
    /\ \A v \in Viewers : shown[v] # <<>> => shown[v][1] \in Places /\ Len(shown[v][2]) = 2
    /\ \A p \in Places : co[p].read \in Seq(Nat) /\ Len(co[p].last) \in {0, 2}
    /\ missed \in [Places -> BOOLEAN]

Current(v) ==
    LET p == here[SessionOf[v]] IN shown[v] = <<p, <<tree[p], tree[p]>>>>

Informed(v) ==
    Attached(v) => Current(v) \/ missed[here[SessionOf[v]]]

(* Every viewer comes to show the tree as it is, whichever tab, prompt or  *)
(* watch told of the change and whatever the viewer was in the middle of;  *)
(* but for changes made while a watch was lost and after a failed pass,    *)
(* which wait for the next signal.                                         *)
SummaryConverges == \A v \in Viewers : <>[]Informed(v)
=============================================================================
