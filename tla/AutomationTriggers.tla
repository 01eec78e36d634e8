-------------------------- MODULE AutomationTriggers --------------------------
(***************************************************************************)
(* What starts an automation without a schedule: a change of a folder, an  *)
(* event of a session, a POST to its webhook.                              *)
(*                                                                         *)
(* Models packages/server/src/folder-watch-manager.ts,                     *)
(* session-event-manager.ts and webhook-trigger-manager.ts, wired as       *)
(* index.ts wires them, for one automation whose trigger may be edited.    *)
(* The first two managers keep an entry with a debounce timer and a grace  *)
(* timer for the time after a run; the third keeps a debounce timer only.  *)
(* A timer is the number of time units it has left, or Off.  What the      *)
(* dispatcher makes of a trigger is AutomationDispatch: here a run is      *)
(* active or not.                                                          *)
(***************************************************************************)
EXTENDS Naturals

CONSTANTS
    Debounce,   \* AUTOMATION_WATCH_DEBOUNCE_MS and its two equals
    Grace,      \* AUTOMATION_WATCH_POST_RUN_GRACE_MS
    MaxEvents   \* bound: changes, POSTs, edits and runs asked for by hand

VARIABLES
    kind,     \* trigger.kind
    enabled,  \* enabled and not finished
    runs,     \* a run of the automation is queued, launched or running
    entry,    \* managers that have an entry for the automation
    wait,     \* debounceTimer of each manager
    grace,    \* postRunGraceTimer of each manager with entries
    causes,   \* history: whose changes armed the debounce
    since,    \* history: time since a run ended or the entry was made
    fired,    \* history: the causes of the last trigger, {} if there is none
    events    \* bound: events so far

trigger == <<kind, enabled>>
timers == <<entry, wait, grace>>
history == <<causes, since, fired>>
vars == <<trigger, runs, timers, history, events>>

Watchers == {"watch", "event"}
Managers == Watchers \cup {"webhook"}
Off == Debounce + Grace + 1

(* What an edit makes of the causes of the timers it leaves armed. *)
Former(timer) == [w \in Managers |-> IF timer[w] = Off THEN {} ELSE {"former"}]

(* Mutation: the timer of an entry that is stopped still fires. *)
StoppedKeepsTimer(m, on) ==
    /\ entry' = IF on THEN {m} \cap Watchers ELSE {}
    /\ grace' = [w \in Watchers |-> Off]
    /\ causes' = Former(wait)
    /\ since' = [w \in Watchers |-> Grace]
    /\ UNCHANGED wait

(* stopEntry() and startEntry() of sync(), for an automation that changed:  *)
(* its signature is another.  A webhook has no entry to stop.               *)
Rebuild(m, on) ==
    /\ entry' = IF on THEN {m} \cap Watchers ELSE {}
    /\ wait' = [w \in Managers |-> IF w \in Watchers THEN Off ELSE wait[w]]
    /\ grace' = [w \in Watchers |-> Off]
    /\ causes' = Former(wait')
    /\ since' = [w \in Watchers |-> Grace]

(* Mutation: a grace period that runs already is not started again. *)
NotifyOnce ==
    /\ grace' = [w \in Watchers |->
          IF w \in entry /\ grace[w] = Off THEN Grace ELSE grace[w]]
    /\ since' = [w \in Watchers |-> IF w \in entry THEN 0 ELSE since[w]]

(* notifyRunFinished() of both managers. *)
Notify ==
    /\ grace' = [w \in Watchers |-> IF w \in entry THEN Grace ELSE grace[w]]
    /\ since' = [w \in Watchers |-> IF w \in entry THEN 0 ELSE since[w]]

Arm(m, cause) ==
    /\ wait' = [wait EXCEPT ![m] = Debounce]
    /\ causes' = [causes EXCEPT ![m] = @ \cup {cause}]

Occurs == events < MaxEvents /\ events' = events + 1 /\ fired' = {}

-----------------------------------------------------------------------------
(* Changes and calls *)

(* onFsEvent(), onSessionEvent(): somebody's change, or the run's own. *)
Change(m, cause) ==
    /\ Occurs /\ m \in entry
    /\ cause = "own" => runs
    /\ grace[m] = Off
    /\ Arm(m, cause)
    /\ UNCHANGED <<trigger, runs, entry, grace, since>>

(* POST /webhooks/:id. *)
Post ==
    /\ Occurs /\ kind = "webhook" /\ enabled
    /\ Arm("webhook", "outside")
    /\ UNCHANGED <<trigger, runs, entry, grace, since>>

(* PATCH /automations/:id and the calls of sync(). *)
Edit(k, on) ==
    /\ Occurs
    /\ kind' = k /\ enabled' = on
    /\ Rebuild(k, on)
    /\ UNCHANGED runs

RunByHand ==
    /\ Occurs /\ ~runs
    /\ runs' = TRUE
    /\ UNCHANGED <<trigger, timers, causes, since>>

(* onAutomationExit(), and the end of an agent's run. *)
RunEnds ==
    /\ runs /\ runs' = FALSE /\ fired' = {}
    /\ Notify
    /\ UNCHANGED <<trigger, entry, wait, causes, events>>

(* The run's count reaches its limit: the automation is finished. *)
LastRunEnds ==
    /\ runs /\ enabled /\ runs' = FALSE /\ fired' = {}
    /\ enabled' = FALSE
    /\ Rebuild(kind, FALSE)
    /\ UNCHANGED <<kind, events>>

(* A cancelled run, and one no tab claimed, end without the managers. *)
RunDropped ==
    /\ runs /\ runs' = FALSE /\ fired' = {}
    /\ UNCHANGED <<trigger, timers, causes, since, events>>

-----------------------------------------------------------------------------
(* Timers *)

(* fire(): the webhook manager is told that no run is ever in flight. *)
Fires(m) ==
    /\ wait[m] = 0
    /\ wait' = [wait EXCEPT ![m] = Off]
    /\ causes' = [causes EXCEPT ![m] = {}]
    /\ IF /\ m = "webhook" \/ (m \in entry /\ ~runs)
          /\ enabled /\ kind = m
       THEN fired' = causes[m] /\ runs' = TRUE
       ELSE fired' = {} /\ UNCHANGED runs
    /\ UNCHANGED <<trigger, entry, grace, since, events>>

GraceOver(m) ==
    /\ grace[m] = 0
    /\ grace' = [grace EXCEPT ![m] = Off]
    /\ fired' = {}
    /\ UNCHANGED <<trigger, runs, entry, wait, causes, since, events>>

Less(t) == IF t = Off THEN Off ELSE t - 1

(* Time passes: no timer that is due is kept waiting for a whole unit. *)
Elapse ==
    /\ \A m \in Managers : wait[m] # 0
    /\ \A m \in Watchers : grace[m] # 0
    /\ wait' = [m \in Managers |-> Less(wait[m])]
    /\ grace' = [m \in Watchers |-> Less(grace[m])]
    /\ since' = [m \in Watchers |-> IF since[m] < Grace THEN since[m] + 1 ELSE Grace]
    /\ fired' = {}
    /\ UNCHANGED <<trigger, runs, entry, causes, events>>

-----------------------------------------------------------------------------

Init ==
    /\ kind \in Managers /\ enabled = TRUE /\ runs = FALSE
    /\ entry = {kind} \cap Watchers
    /\ wait = [m \in Managers |-> Off]
    /\ grace = [m \in Watchers |-> Off]
    /\ causes = [m \in Managers |-> {}]
    /\ since = [m \in Watchers |-> Grace]
    /\ fired = {} /\ events = 0

Next ==
    \/ \E m \in Watchers, cause \in {"own", "outside"} : Change(m, cause)
    \/ Post
    \/ \E k \in Managers, on \in BOOLEAN : Edit(k, on)
    \/ RunByHand
    \/ RunEnds
    \/ LastRunEnds
    \/ RunDropped
    \/ \E m \in Managers : Fires(m)
    \/ \E m \in Watchers : GraceOver(m)
    \/ Elapse

Spec == Init /\ [][Next]_vars

-----------------------------------------------------------------------------
(* Properties *)

(* Every variable has its type. *)
TypeOK ==
    /\ kind \in Managers /\ enabled \in BOOLEAN /\ runs \in BOOLEAN
    /\ entry \subseteq Watchers
    /\ wait \in [Managers -> 0 .. Debounce \cup {Off}]
    /\ grace \in [Watchers -> 0 .. Grace \cup {Off}]
    /\ causes \in [Managers -> SUBSET {"own", "outside", "former"}]
    /\ since \in [Watchers -> 0 .. Grace]
    /\ fired \subseteq {"own", "outside", "former"}
    /\ events \in 0 .. MaxEvents

(* A change seen before the folder, the events or the trigger itself was   *)
(* edited starts nothing: not after the automation was turned off, edited  *)
(* and turned on again, all while the debounce of the change ran.  A POST  *)
(* has no entry that an edit would stop: one from before it still fires.   *)
NothingFromFormer == kind \in Watchers => "former" \notin fired

(* For the whole grace period after the last of the runs that ended, no    *)
(* change arms the debounce again.  What starts a run within the grace was *)
(* noticed before the end of the last one, so it comes within a debounce   *)
(* of that end; thereafter the grace passes in silence.                    *)
QuietStep ==
    \A m \in Watchers :
        /\ wait'[m] = Debounce /\ wait[m] # Debounce => since[m] = Grace
        /\ wait[m] = 0 /\ wait'[m] = Off /\ runs' /\ ~runs =>
              since[m] <= Debounce \/ since[m] = Grace
QuietAfterRun == [][QuietStep]_vars

(* docs/automations.md: the triggers "suppress activity during a run and   *)
(* its cooldown to avoid self-trigger loops".  The code does not keep it:  *)
(* what was armed before the end of the run fires within the grace.        *)
NoSelfTrigger == "own" \notin fired
=============================================================================
