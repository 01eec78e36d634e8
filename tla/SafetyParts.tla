----------------------------- MODULE SafetyParts -----------------------------
(***************************************************************************)
(* The parts of the system that share no step, and of which only safety is *)
(* asked, side by side: the initial state chooses one, and the variables   *)
(* of the others stay Unused.  The dispatcher is extended, the other parts *)
(* are instances; all have their parameters for constants.                 *)
(***************************************************************************)
EXTENDS AutomationDispatch

CONSTANTS
    Automations, Anchor, Period, RunLatest, Minute, GapMin, Lookback, Cap,
    MaxTime, MaxFailures,                               \* AutomationScheduler
    Debounce, Grace, MaxEvents,                         \* AutomationTriggers
    MaxDaemons, ForceAfter, BindRetry, ProbeWait, BootTime,  \* DaemonRestart
    Requests, Comparisons, MaxEntries, MaxChanges, MaxAnswers, \* GitDiffCache
    Target, MaxChunks, MaxRenderers,                    \* PaneCapture
    Page, WindowOf, NoWindow, OwnerOf, Operator, MaxSessions, MaxLines,
    MaxStops,                                           \* Hibernation
    Char, Lines, PendingMax, MaxKeys                    \* LocalEcho

VARIABLES
    part,
    now, up, lastTick, nextAt, heartbeat, mark, ticking, todo, healthy,
    decisions, ran, owed, runs, entry, wait, grace, causes, since, fired,
    events, phase, age, file, victim, cli, outcome, tree, generation, cache,
    builtAt, build, asked, told, answer, answers, shell, out, fed, panes, current,
    tests, waiting, heard, daemon, stops, table, created, auto, owner, lines,
    viewer, sid, cursor, read, entries, stored, startup, steady,
    prompt, wire, echoed, screen, predicting, predicted, suspended, probe, slow,
    cooling, watchdog, strayed, keys

Unused == "unused"

Scheduler == INSTANCE AutomationScheduler WITH MaxUpsets <- MaxFailures
ASSUME SchedulerFits == Scheduler!ParametersFit

Triggers == INSTANCE AutomationTriggers
ASSUME TriggersFit == {Debounce, Grace, MaxEvents} \subseteq Nat

(* An old daemon is forced to exit before the new one stops trying to bind *)
(* and before the command stops waiting for it.                            *)
Daemon == INSTANCE DaemonRestart WITH Force <- ForceAfter
ASSUME DaemonFits ==
    /\ {MaxDaemons, ForceAfter, BindRetry, ProbeWait, BootTime} \subseteq Nat
    /\ BootTime + ForceAfter < BindRetry /\ BootTime < ProbeWait /\ ForceAfter < ProbeWait

Diff == INSTANCE GitDiffCache
ASSUME DiffFits == Diff!ParametersFit

Pane == INSTANCE PaneCapture WITH alive <- shell
ASSUME PaneFits == {MaxChunks, MaxRenderers} \subseteq Nat

Hiber == INSTANCE Hibernation WITH file <- stored
ASSUME HiberFits == {MaxSessions, MaxLines, MaxStops} \subseteq Nat

Echo == INSTANCE LocalEcho WITH
    shell <- prompt, out <- echoed, enabled <- predicting, pending <- predicted,
    timer <- watchdog
ASSUME EchoFits == Echo!ParametersFit

(* The variables that only one part has, and their value in the others.   *)
ofDispatch == <<exists, finished, count, limit, policy, runner, status, automatic,
             exclusive, draining, expired, pending, opening, executing,
             orphans, launches>>
ofScheduler == <<now, up, lastTick, nextAt, heartbeat, mark, ticking, todo,
                 healthy, decisions, ran, owed>>
ofTriggers == <<runs, entry, wait, grace, causes, since, fired, events>>
ofDaemon == <<phase, age, file, victim, cli, outcome>>
ofDiff == <<tree, generation, cache, builtAt, build, asked, told, answer, answers>>
ofPane == <<shell, out, fed, panes, current, tests, waiting, heard>>
ofHiber == <<daemon, stops, table, created, auto, owner, lines, viewer, sid,
             cursor, read, entries, stored, startup, steady>>
ofEcho == <<prompt, wire, echoed, screen, predicting, predicted, suspended, probe,
            slow, cooling, watchdog, strayed, keys>>

NoDispatch ==
    /\ exists = Unused /\ finished = Unused /\ count = Unused /\ limit = Unused
    /\ policy = Unused /\ runner = Unused /\ status = Unused
    /\ automatic = Unused /\ exclusive = Unused /\ draining = Unused
    /\ expired = Unused /\ pending = Unused /\ opening = Unused
    /\ executing = Unused /\ orphans = Unused /\ launches = Unused
NoScheduler ==
    /\ now = Unused /\ up = Unused /\ lastTick = Unused /\ nextAt = Unused
    /\ heartbeat = Unused /\ mark = Unused /\ ticking = Unused /\ todo = Unused
    /\ healthy = Unused /\ decisions = Unused /\ ran = Unused /\ owed = Unused
NoTriggers ==
    /\ runs = Unused /\ entry = Unused /\ wait = Unused /\ grace = Unused
    /\ causes = Unused /\ since = Unused /\ fired = Unused /\ events = Unused
NoDaemon ==
    /\ phase = Unused /\ age = Unused /\ file = Unused /\ cli = Unused
    /\ victim = Unused /\ outcome = Unused
NoDiff ==
    /\ tree = Unused /\ generation = Unused /\ cache = Unused
    /\ builtAt = Unused /\ build = Unused /\ asked = Unused
    /\ told = Unused /\ answer = Unused /\ answers = Unused
NoPane ==
    /\ shell = Unused /\ out = Unused /\ fed = Unused /\ panes = Unused
    /\ current = Unused /\ tests = Unused /\ waiting = Unused /\ heard = Unused
NoHiber ==
    /\ daemon = Unused /\ stops = Unused /\ table = Unused
    /\ created = Unused /\ auto = Unused /\ owner = Unused
    /\ lines = Unused /\ viewer = Unused /\ sid = Unused
    /\ cursor = Unused /\ read = Unused /\ entries = Unused
    /\ stored = Unused /\ startup = Unused /\ steady = Unused
NoEcho ==
    /\ prompt = Unused /\ wire = Unused /\ echoed = Unused /\ screen = Unused
    /\ predicting = Unused /\ predicted = Unused /\ suspended = Unused
    /\ probe = Unused /\ slow = Unused /\ cooling = Unused
    /\ watchdog = Unused /\ strayed = Unused /\ keys = Unused

PartsInit ==
    /\ part \in {"dispatch", "scheduler", "triggers", "daemon", "diff", "pane",
               "hibernation", "echo"}
    /\ IF part = "dispatch" THEN Init ELSE NoDispatch
    /\ IF part = "scheduler" THEN Scheduler!Init ELSE NoScheduler
    /\ IF part = "triggers" THEN Triggers!Init ELSE NoTriggers
    /\ IF part = "daemon" THEN Daemon!Init ELSE NoDaemon
    /\ IF part = "diff" THEN Diff!Init ELSE NoDiff
    /\ IF part = "pane" THEN Pane!Init ELSE NoPane
    /\ IF part = "hibernation" THEN Hiber!Init ELSE NoHiber
    /\ IF part = "echo" THEN Echo!Init ELSE NoEcho
    /\ part \notin {"dispatch", "scheduler", "triggers"} => enabled = Unused
    /\ part \notin {"dispatch", "triggers"} => kind = Unused
    /\ part \notin {"dispatch", "scheduler"} => upsets = Unused

(* What a step of the part leaves alone. *)
Frame ==
    /\ UNCHANGED part
    /\ part # "dispatch" => UNCHANGED ofDispatch
    /\ part # "scheduler" => UNCHANGED ofScheduler
    /\ part # "triggers" => UNCHANGED ofTriggers
    /\ part # "daemon" => UNCHANGED ofDaemon
    /\ part # "diff" => UNCHANGED ofDiff
    /\ part # "pane" => UNCHANGED ofPane
    /\ part # "hibernation" => UNCHANGED ofHiber
    /\ part # "echo" => UNCHANGED ofEcho
    /\ part \notin {"dispatch", "scheduler", "triggers"} => UNCHANGED enabled
    /\ part \notin {"dispatch", "triggers"} => UNCHANGED kind
    /\ part \notin {"dispatch", "scheduler"} => UNCHANGED upsets

PartsNext ==
    \/ part = "dispatch" /\ Next /\ Frame
    \/ part = "scheduler" /\ Scheduler!Next /\ Frame
    \/ part = "triggers" /\ Triggers!Next /\ Frame
    \/ part = "daemon" /\ Daemon!Next /\ Frame
    \/ part = "diff" /\ Diff!Next /\ Frame
    \/ part = "pane" /\ Pane!Next /\ Frame
    \/ part = "hibernation" /\ Hiber!Next /\ Frame
    \/ part = "echo" /\ Echo!Next /\ Frame

everything == <<part, ofDispatch, ofScheduler, ofTriggers, ofDaemon, ofDiff, ofPane,
                ofHiber, ofEcho, enabled, kind, upsets>>

PartsSpec == PartsInit /\ [][PartsNext]_everything

-----------------------------------------------------------------------------
(* Properties *)

(* Every part's variables have their types. *)
PartsTypeOK ==
    CASE part = "dispatch" -> TypeOK
      [] part = "scheduler" -> Scheduler!TypeOK
      [] part = "triggers" -> Triggers!TypeOK
      [] part = "daemon" -> Daemon!TypeOK
      [] part = "diff" -> Diff!TypeOK
      [] part = "pane" -> Pane!TypeOK
      [] part = "hibernation" -> Hiber!TypeOK
      [] part = "echo" -> Echo!TypeOK

(* The limit on concurrent runs and the policy hold however runs are       *)
(* queued, passed over and launched.                                       *)
CapacityKept == part = "dispatch" => ConcurrencyRespected

(* Every occurrence the scheduler is done with was decided exactly once,   *)
(* through crashes, failed writes and repeated ticks, and an automation    *)
(* that skips missed runs is never run late.                               *)
OccurrencesKept ==
    part = "scheduler" =>
        Scheduler!DecidedOnce /\ Scheduler!NoneForgotten /\ Scheduler!NoStaleRun

(* No change of the folder and no event of a session that was seen before  *)
(* an edit of the trigger starts a run after it.                           *)
NothingFromFormer == part = "triggers" => Triggers!NothingFromFormer

(* What is noticed within the grace after the last run triggers nothing,   *)
(* and what does start a run in that time comes within one debounce of it. *)
QuietAfterRun == [][part = "triggers" => Triggers!QuietStep]_<<part, ofTriggers>>

(* No request is answered with a diff from before the invalidation that it *)
(* follows; and while the session lives, who waits for a text that is      *)
(* printed in a chunk that waits for no file has a read under way that     *)
(* sees it.                                                                *)
ReadsAreFresh ==
    /\ part = "diff" => Diff!DiffIsFresh
    /\ part = "pane" => Pane!WaitHears

(* A restart that is not broken off leaves a daemon that serves, or that   *)
(* the child of a broken-off start takes over from; and in it a page that  *)
(* saw its session through finds the text it had.                          *)
RestartKeeps ==
    /\ part = "daemon" => Daemon!RestartServes
    /\ part = "hibernation" => Hiber!SnapshotComplete

(* A line that showed keys before their echo is the shell's after it, and  *)
(* the cursor does not leave it meanwhile.                                 *)
LineIsTrue == part = "echo" => Echo!LineIsTrue
=============================================================================
