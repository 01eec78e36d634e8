------------------------- MODULE AutomationDispatch -------------------------
(***************************************************************************)
(* The queue of one automation: which requested runs are admitted, when a  *)
(* queued run is launched, and what ends it.                               *)
(*                                                                         *)
(* Models packages/server/src/automation-dispatcher.ts with the routes and *)
(* callbacks of index.ts that feed it, automation-run-tracker.ts (a shell  *)
(* run launched in a browser tab waits there to be claimed) and the        *)
(* transactions of automation-store.ts.  Automations do not share state,   *)
(* so one is modelled.                                                     *)
(*                                                                         *)
(* A handler of the daemon runs to its end before the next one, but each   *)
(* transaction of the store is a file replacement of its own and drain     *)
(* commits one per run: the daemon may die, and a write may fail, between  *)
(* two of them.  So the loop of drain is unrolled: draining and expired    *)
(* hold what the current handler has still to do, and every other handler  *)
(* waits until both are empty.                                             *)
(***************************************************************************)
EXTENDS Naturals, FiniteSets

CONSTANTS
    MaxRuns,        \* bound: requests in the model; a run is its number
    MaxConcurrent,  \* MAX_AUTOMATION_CONCURRENT_RUNS
    Policies,       \* concurrency policies the user chooses from
    Runners,        \* runners the user chooses from
    Limits,         \* run limits the user chooses from; 0 is "forever"
    MaxUpsets       \* bound: edits, failed writes and restarts together

ASSUME RunsAssumption == MaxRuns \in Nat
ASSUME ConcurrencyAssumption == MaxConcurrent \in Nat \ {0}
ASSUME PoliciesAssumption == Policies \subseteq {"skip", "queue-latest", "allow"}
ASSUME RunnersAssumption == Runners \subseteq {"shell", "fresh", "thread"}
ASSUME LimitsAssumption == Limits \subseteq Nat
ASSUME UpsetsAssumption == MaxUpsets \in Nat

VARIABLES
    exists,     \* the automation has not been deleted
    enabled,    \* automation.enabled
    finished,   \* automation.lifecycle = "finished"
    count,      \* automation.runCount
    limit,      \* automation.limit
    policy,     \* automation.concurrencyPolicy
    runner,     \* automation.runner, with its sessionMode
    status,     \* run.status, "none" before the request
    automatic,  \* run.trigger is not "manual"
    kind,       \* run.execution.runner, the runner when it was requested
    exclusive,  \* dispatcher.exclusive holds the automation
    draining,   \* queued runs the drain in progress has still to visit
    expired,    \* runs the sweep in progress has still to mark missed
    pending,    \* tracker.pendingRuns: launched, its tab not seen yet
    opening,    \* runs whose tabController.open has not settled
    executing,  \* runs whose command or agent, of this daemon, is alive
    orphans,    \* agents of former daemons that are alive; 0: a compaction
    launches,   \* history: how often the run was handed to launch
    upsets      \* bound: edits, failed writes and restarts so far

settings == <<exists, enabled, limit, policy, runner>>
budget == <<count, finished>>
record == <<automatic, kind>>
memory == <<exclusive, draining, expired>>
tabs == <<pending, opening>>
vars == <<settings, budget, status, record, memory, tabs, executing, orphans,
          launches, upsets>>

Run == 1 .. MaxRuns
Over == {"skipped", "cancelled", "ended", "failed", "missed", "interrupted"}
Status == {"none", "queued", "launched", "running"} \cup Over

(* isActiveAutomationRun() *)
IsActive(r) == status[r] \in {"queued", "launched", "running"}
Active == {r \in Run : IsActive(r)}
Started == {r \in Run : status[r] \in {"launched", "running"}}

(* isBusy() *)
Busy == exclusive \/ Active # {}

(* No handler is under way. *)
Idle == draining = {} /\ expired = {}

(* Mutation: drain takes up work that has started as well. *)
VisitsStarted(st) ==
    IF exclusive THEN {}
                 ELSE {r \in Run : st[r] \in {"queued", "launched", "running"}}

(* What drain(), called when the statuses are st, will visit. *)
Visits(st) == IF exclusive THEN {} ELSE {r \in Run : st[r] = "queued"}

(* The next run of the loop of drain: history is newest first, reversed. *)
Turn(r) == r \in draining /\ \A q \in draining : r <= q

(* Mutation: the limit counts when the run is queued, not at its launch. *)
UnwantedWhenPaused(r) == automatic[r] /\ ~enabled

(* An automatic run that its automation no longer wants. *)
Unwanted(r) == automatic[r] /\ (~enabled \/ finished)

(* Mutation: the thread is looked up in the settings of today. *)
SharesThreadToday(r) == runner = "thread"

(* sharedThread: this run, or one under way, uses the session file. *)
SharesThread(r) == \E q \in {r} \cup Started : kind[q] = "thread"

(* Mutation: a run waiting for its tab does not count. *)
BlockedByRunning(r) ==
    LET alive == {q \in Started : status[q] = "running"}
    IN  \/ Cardinality(alive) >= MaxConcurrent
        \/ alive # {} /\ (SharesThread(r) \/ policy # "allow")

Blocked(r) ==
    \/ Cardinality(Started) >= MaxConcurrent
    \/ Started # {} /\ (SharesThread(r) \/ policy # "allow")

(* The statuses once run r has ended as s. *)
With(r, s) == [status EXCEPT ![r] = s]

(* A run ends, and the handler drains the queue. *)
EndAndDrain(r, s) ==
    /\ status' = With(r, s)
    /\ draining' = Visits(status')
    /\ UNCHANGED <<exclusive, expired>>

Reached(n, max) == max # 0 /\ n >= max

Upset == upsets < MaxUpsets /\ upsets' = upsets + 1

-----------------------------------------------------------------------------
(* Requests *)

Effective == IF runner = "thread" /\ policy = "allow" THEN "queue-latest"
                                                      ELSE policy

(* The request is recorded as skipped: downtime, overlap or capacity. *)
Refuses(missed) ==
    \/ missed
    \/ Busy /\ Effective = "skip"
    \/ Effective = "allow" /\ Cardinality(Active) >= MaxConcurrent

(* request(), for a trigger that passes its guards; missed is the          *)
(* "downtime" reason of the scheduler.  The commit and the drain are two   *)
(* transactions.                                                           *)
Request(r, auto, missed) ==
    /\ Idle /\ exists /\ status[r] = "none"
    /\ \A q \in Run : q < r => status[q] # "none"
    /\ auto => enabled /\ ~finished
    /\ missed => auto
    /\ status' = [q \in Run |->
          CASE q = r -> IF Refuses(missed) THEN "skipped" ELSE "queued"
            [] q # r /\ status[q] = "queued" /\ ~Refuses(missed)
                 /\ Effective = "queue-latest" -> "skipped"
            [] OTHER -> status[q]]
    /\ automatic' = [automatic EXCEPT ![r] = auto]
    /\ kind' = [kind EXCEPT ![r] = runner]
    /\ draining' = IF Refuses(missed) THEN {} ELSE Visits(status')
    /\ UNCHANGED <<settings, orphans, budget, exclusive, expired, tabs, executing,
                   launches, upsets>>

(* cancel(): only work that has not started. *)
Cancel(r) ==
    /\ Idle /\ exists /\ status[r] = "queued"
    /\ status' = With(r, "cancelled")
    /\ UNCHANGED <<settings, orphans, budget, record, memory, tabs, executing, launches,
                   upsets>>

-----------------------------------------------------------------------------
(* The loop of drain() *)

Discard(r) ==
    /\ Turn(r) /\ Unwanted(r)
    /\ status' = With(r, "cancelled")
    /\ draining' = draining \ {r}
    /\ UNCHANGED <<settings, orphans, budget, record, exclusive, expired, tabs,
                   executing, launches, upsets>>

PassOver(r) ==
    /\ Turn(r) /\ ~Unwanted(r) /\ Blocked(r)
    /\ draining' = draining \ {r}
    /\ UNCHANGED <<settings, orphans, budget, status, record, exclusive, expired, tabs,
                   executing, launches, upsets>>

(* Launching is committed before anything is started: an agent runs at     *)
(* once, a shell command when the tab opened for it claims the run.        *)
Launch(r) ==
    /\ Turn(r) /\ ~Unwanted(r) /\ ~Blocked(r)
    /\ draining' = draining \ {r}
    /\ count' = IF automatic[r] THEN count + 1 ELSE count
    /\ finished' = (finished \/ Reached(count', limit))
    /\ launches' = [launches EXCEPT ![r] = @ + 1]
    /\ status' = With(r, IF kind[r] = "shell" THEN "launched" ELSE "running")
    /\ \/ /\ kind[r] = "shell"
          /\ pending' = pending \cup {r}
          /\ opening' = opening \cup {r}
          /\ UNCHANGED executing
       \/ /\ kind[r] # "shell"
          /\ executing' = executing \cup {r}
          /\ UNCHANGED tabs
    /\ UNCHANGED <<settings, orphans, record, exclusive, expired, upsets>>

(* persist() throws: transact() rolls back, and the exception leaves the   *)
(* loop.  The tick catches it and goes on to its sweep; where nobody       *)
(* catches it the daemon dies, which is Restart.                           *)
WriteFails ==
    /\ draining # {} /\ Upset
    /\ draining' = {}
    /\ UNCHANGED <<settings, orphans, budget, status, record, exclusive, expired, tabs,
                   executing, launches>>

-----------------------------------------------------------------------------
(* The life of a launched run *)

(* A socket opens with ?run=r: the claim is single-use.  The command is    *)
(* typed into a fresh session, unless none can be spawned.                 *)
Claim(r) ==
    /\ Idle /\ r \in pending
    /\ pending' = pending \ {r}
    /\ \/ /\ status' = With(r, "running")
          /\ executing' = executing \cup {r}
          /\ UNCHANGED memory
       \/ /\ EndAndDrain(r, "failed")
          /\ UNCHANGED executing
    /\ UNCHANGED <<settings, orphans, budget, record, opening, launches, upsets>>

OpenSettles(r) ==
    /\ Idle /\ r \in opening
    /\ opening' = opening \ {r}
    /\ UNCHANGED <<settings, orphans, budget, status, record, memory, pending,
                   executing, launches, upsets>>

(* Mutation: the failed launch is withdrawn and nobody is told. *)
OpenFailsQuietly(r) ==
    /\ Idle /\ r \in opening
    /\ opening' = opening \ {r}
    /\ pending' = pending \ {r}
    /\ UNCHANGED <<settings, orphans, budget, status, record, memory, executing,
                   launches, upsets>>

(* The opener rejects: the claim is withdrawn and launchFailed() ends the  *)
(* run if it is still active, be it that its tab has loaded after all.     *)
OpenFails(r) ==
    /\ Idle /\ r \in opening
    /\ opening' = opening \ {r}
    /\ pending' = pending \ {r}
    /\ IF exists /\ IsActive(r) THEN EndAndDrain(r, "failed")
                                ELSE UNCHANGED <<status, memory>>
    /\ UNCHANGED <<settings, orphans, budget, record, executing, launches, upsets>>

(* The prompt hook reports the exit code of the command (onAutomationExit).*)
CommandEnds(r) ==
    /\ Idle /\ r \in executing /\ kind[r] = "shell"
    /\ executing' = executing \ {r}
    /\ IF exists THEN EndAndDrain(r, "ended") ELSE UNCHANGED <<status, memory>>
    /\ UNCHANGED <<settings, orphans, budget, record, tabs, launches, upsets>>

(* The session is killed, or its shell exits, before the hook reports:     *)
(* handleExit() does not know of the run.                                  *)
ShellDies(r) ==
    /\ Idle /\ r \in executing /\ kind[r] = "shell"
    /\ executing' = executing \ {r}
    /\ UNCHANGED <<settings, orphans, budget, status, record, memory, tabs, launches,
                   upsets>>

(* runAgent() resolves, or rejects and launchFailed() is called. *)
AgentEnds(r) ==
    /\ Idle /\ r \in executing /\ kind[r] # "shell"
    /\ executing' = executing \ {r}
    /\ \E verdict \in {"ended", "failed"} : EndAndDrain(r, verdict)
    /\ UNCHANGED <<settings, orphans, budget, record, tabs, launches, upsets>>

-----------------------------------------------------------------------------
(* The minute tick *)

(* Mutation: the tick only sweeps. *)
TickSweeping(late) ==
    /\ Idle /\ exists /\ late \subseteq pending
    /\ expired' = late
    /\ pending' = pending \ late
    /\ UNCHANGED <<settings, orphans, budget, status, record, exclusive, draining,
                   opening, executing, launches, upsets>>

(* Mutation: the sweep looks at the expired runs and leaves them there. *)
TickPeeking(late) ==
    /\ Idle /\ exists /\ late \subseteq pending
    /\ draining' = Visits(status)
    /\ expired' = late
    /\ UNCHANGED <<settings, orphans, budget, status, record, exclusive, tabs,
                   executing, launches, upsets>>

(* The queue is drained, then the launched runs no tab has claimed within  *)
(* AUTOMATION_PENDING_RUN_EXPIRY_MS are swept; late are those.             *)
Tick(late) ==
    /\ Idle /\ exists /\ late \subseteq pending
    /\ draining' = Visits(status)
    /\ expired' = late
    /\ pending' = pending \ late
    /\ UNCHANGED <<settings, orphans, budget, status, record, exclusive, opening,
                   executing, launches, upsets>>

(* One round of the sweep: mark the run missed, drain again. *)
Expire(r) ==
    /\ draining = {} /\ r \in expired
    /\ expired' = expired \ {r}
    /\ IF status[r] = "launched"
       THEN status' = With(r, "missed") /\ draining' = Visits(status')
       ELSE UNCHANGED <<status, draining>>
    /\ UNCHANGED <<settings, orphans, budget, record, exclusive, tabs, executing,
                   launches, upsets>>

-----------------------------------------------------------------------------
(* The user *)

(* PATCH /automations/:id.  A finished automation is not enabled again,    *)
(* and a thread is not given the policy "allow".                           *)
Patch(on, max, pol, run) ==
    /\ Idle /\ exists /\ Upset
    /\ finished /\ on => enabled
    /\ pol # policy \/ run # runner => ~(run = "thread" /\ pol = "allow")
    /\ enabled' = on
    /\ limit' = max
    /\ policy' = pol
    /\ runner' = run
    /\ finished' = (finished \/ Reached(count, max))
    /\ draining' = Visits(status)
    /\ UNCHANGED <<orphans, exists, count, status, record, exclusive, expired, tabs,
                   executing, launches>>

(* POST /automations/:id/reset: the only way back from finished. *)
Reset ==
    /\ Idle /\ exists /\ Upset
    /\ count' = 0
    /\ finished' = FALSE
    /\ enabled' = TRUE
    /\ UNCHANGED <<orphans, exists, limit, policy, runner, status, record, memory, tabs,
                   executing, launches>>

(* The compact and clear-thread routes hold the automation across an await.*)
AcquireExclusive ==
    /\ Idle /\ exists /\ runner = "thread" /\ ~Busy
    /\ exclusive' = TRUE
    /\ UNCHANGED <<settings, orphans, budget, status, record, draining, expired, tabs,
                   executing, launches, upsets>>

ReleaseExclusive ==
    /\ Idle /\ exclusive
    /\ exclusive' = FALSE
    /\ draining' = {r \in Run : status[r] = "queued"}
    /\ UNCHANGED <<settings, orphans, budget, status, record, expired, tabs, executing,
                   launches, upsets>>

(* DELETE /automations/:id; the session file of a thread goes with it. *)
Remove ==
    /\ Idle /\ exists /\ ~Busy
    /\ exists' = FALSE
    /\ UNCHANGED <<orphans, enabled, limit, policy, runner, budget, status, record,
                   memory, tabs, executing, launches, upsets>>

-----------------------------------------------------------------------------
(* Mutation: work that was launched but not seen to run is queued again. *)
RecoveredAgain(st) ==
    CASE st = "running" -> "interrupted"
      [] st = "launched" -> "queued"
      [] OTHER -> st

Recovered(st) == IF st \in {"launched", "running"} THEN "interrupted" ELSE st

(* What a daemon may leave behind: a shell ends with its PTY, but an agent *)
(* leads a process group of its own, and a compaction is a child like any. *)
Survivors == {r \in executing : kind[r] # "shell"} \cup (IF exclusive THEN {0} ELSE {})

(* The daemon stops or dies, at any moment, and starts again; stop() aborts*)
(* the agents and waits for them, a crash and a forced exit do not.  The   *)
(* next daemon knows nothing of those left, and recover() drains what was  *)
(* only accepted.                                                          *)
Restart(left) ==
    /\ Upset /\ left \subseteq Survivors
    /\ status' = IF exists THEN [r \in Run |-> Recovered(status[r])]
                           ELSE status
    /\ draining' = {r \in Run : exists /\ status'[r] = "queued"}
    /\ exclusive' = FALSE
    /\ expired' = {} /\ pending' = {} /\ opening' = {} /\ executing' = {}
    /\ orphans' = orphans \cup left
    /\ UNCHANGED <<settings, budget, record, launches>>

OrphanEnds(p) ==
    /\ p \in orphans
    /\ orphans' = orphans \ {p}
    /\ UNCHANGED <<settings, budget, status, record, memory, tabs, executing,
                   launches, upsets>>

-----------------------------------------------------------------------------
Init ==
    /\ exists = TRUE
    /\ enabled = TRUE
    /\ finished = FALSE
    /\ count = 0
    /\ limit \in Limits
    /\ policy \in Policies
    /\ runner \in Runners
    /\ status = [r \in Run |-> "none"]
    /\ automatic = [r \in Run |-> FALSE]
    /\ kind = [r \in Run |-> "shell"]
    /\ exclusive = FALSE
    /\ draining = {} /\ expired = {}
    /\ pending = {} /\ opening = {} /\ executing = {} /\ orphans = {}
    /\ launches = [r \in Run |-> 0]
    /\ upsets = 0

DrainStep == \E r \in Run : Discard(r) \/ PassOver(r) \/ Launch(r)

Next ==
    \/ \E r \in Run : \E auto, missed \in BOOLEAN : Request(r, auto, missed)
    \/ \E r \in Run : Cancel(r)
    \/ DrainStep
    \/ WriteFails
    \/ \E r \in Run : Claim(r) \/ OpenSettles(r) \/ OpenFails(r)
    \/ \E r \in Run : CommandEnds(r) \/ ShellDies(r) \/ AgentEnds(r)
    \/ \E late \in SUBSET pending : Tick(late)
    \/ \E r \in Run : Expire(r)
    \/ \E on \in BOOLEAN, max \in Limits, pol \in Policies, run \in Runners :
          Patch(on, max, pol, run)
    \/ Reset
    \/ AcquireExclusive \/ ReleaseExclusive \/ Remove
    \/ \E left \in SUBSET Survivors : Restart(left)
    \/ \E p \in orphans : OrphanEnds(p)

Spec == Init /\ [][Next]_vars

(* A handler that has begun goes on.  The scheduler re-arms its timer after*)
(* every tick, so ticks come for ever and a later one finds every waiting  *)
(* run past its time; no handler is so long that none can come between.    *)
Fairness ==
    /\ WF_vars(DrainStep)
    /\ WF_vars(\E r \in Run : Expire(r))
    /\ SF_vars(Tick(pending))

FairSpec == Spec /\ Fairness

-----------------------------------------------------------------------------
(* Properties *)

(* The shape of the state. *)
TypeOK ==
    /\ {exists, enabled, finished, exclusive} \subseteq BOOLEAN
    /\ count \in 0 .. MaxRuns /\ upsets \in 0 .. MaxUpsets
    /\ limit \in Limits /\ policy \in Policies /\ runner \in Runners
    /\ status \in [Run -> Status]
    /\ automatic \in [Run -> BOOLEAN]
    /\ kind \in [Run -> {"shell", "fresh", "thread"}]
    /\ launches \in [Run -> Nat]
    /\ draining \subseteq {r \in Run : status[r] = "queued"}
    /\ expired \subseteq Run /\ pending \subseteq Run
    /\ opening \subseteq Run /\ executing \subseteq Run /\ orphans \subseteq 0 .. MaxRuns

(* "Once launch was committed, external side effects may have happened;    *)
(* never rerun an interrupted command" (recover): over requests, failed    *)
(* writes and restarts, a run is handed to launch once if the history      *)
(* says that it started, and never if it says that it did not.             *)
LaunchedOnce ==
    \A r \in Run : launches[r] =
        IF status[r] \in {"none", "queued", "skipped", "cancelled"} THEN 0
                                                                    ELSE 1

(* The runs recorded as launched are the ones a tab may still claim or     *)
(* the sweep is about to mark: no failure of the opener and no restart     *)
(* leaves one that nothing would ever end.                                 *)
LaunchedIsClaimable ==
    {r \in Run : status[r] = "launched"} = pending \cup expired

(* Of a launch exactly one thing is true: it was made once and is on       *)
(* record, and while it is on record as launched something will end it.    *)
LaunchKept == LaunchedOnce /\ LaunchedIsClaimable

(* The session file of a thread has one user among what a daemon runs: one *)
(* agent resuming it, or the maintenance route, or nobody once the         *)
(* automation (and the file) is deleted - also when the runner or the      *)
(* policy is edited meanwhile.  What a daemon that died has left behind is *)
(* not covered: see ThreadsSerialized.                                     *)
SessionFileExclusive ==
    LET agents == {r \in executing : kind[r] = "thread"}
    IN  /\ Cardinality(agents) <= 1
        /\ agents # {} => exists /\ ~exclusive

(* "Allow" means up to MAX_AUTOMATION_CONCURRENT_RUNS at a time, whatever  *)
(* was queued behind other policies or before a restart.                   *)
ConcurrencyRespected == Cardinality(Started) <= MaxConcurrent

(* A run that is over stays over: no late tab, answer or recovery brings   *)
(* back one the history shows as missed, failed, cancelled or interrupted. *)
StaysOver == [][\A r \in Run : status[r] \in Over => status'[r] \in Over]_vars

(* "Changing the run limit is checked again before dispatch": no launch is *)
(* counted beyond the limit in force.                                      *)
LimitKept == [][count' > count => limit = 0 \/ count' <= limit]_vars

(* Accepted work whose launch could not be committed is not forgotten: it  *)
(* moves as soon as nothing of the automation is under way.                *)
QueueMoves ==
    \A r \in Run :
        status[r] = "queued" /\ Started = {} /\ ~exclusive
            ~> status[r] # "queued" \/ Started # {} \/ exclusive

(* A launched run does not wait forever for a tab that never loads.        *)
LaunchSettles == \A r \in Run : status[r] = "launched" ~> status[r] # "launched"

(* docs/automations.md: a second run is skipped "if already running".      *)
(* Checked with the policy "skip" and no edits.                            *)
NoOverlap == Cardinality(executing) <= 1

(* docs/automations.md: "Persistent agent threads are always serialized",  *)
(* and accepted work resumes after a restart.  The code does not keep it:  *)
(* an agent outlives its daemon, and Restart launches beside it.           *)
ThreadsSerialized ==
    Cardinality({r \in Run : r \in executing \cup orphans /\ kind[r] = "thread"}) <= 1

(* docs/automations.md: "its exit code drives the run status", so a run    *)
(* shown as running has a command, whose end one can "wait for".           *)
RunningIsExecuting ==
    \A r \in Run : status[r] = "running" => r \in executing

=============================================================================
