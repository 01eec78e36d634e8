# localterm: specifications, checks and proofs

localterm is a daemon (`packages/server`) that runs shells in PTYs and shows
them in browser tabs (`apps/terminal`). A shell outlives its tab, several tabs
may watch one shell, and automations start commands and agents on their own.
This directory holds TLA+ models of its stateful parts, the TLC runs that check
them and the TLAPS proofs about them. Paths below are relative to
`packages/server/src/` unless they say otherwise.

## 1. The system

| Component | State | Operations | Talks to |
|---|---|---|---|
| Session table, `session-manager.ts` | `sessions`, `wsToClient`, owner, pinned | spawn, attach, detach, kill, pin, exit, tearDown, disposeAll | policy, client hub, coordinator, git bridge |
| Lifecycle policy, `session-lifecycle-policy.ts` | `graceTimer`, `parkedAt` | startGrace, cancelGrace, rearmGrace, makeRoomForSession, evictOldestDormant | table (tearDown) |
| Client hub, `session-client-hub.ts` | a `ManagedClient` per socket: pending queue, focus, size, activity; resize owner, responder | attach, promote, writeInput, resize, focus, detach | transport, PTY |
| Output coordinator, `session-output-coordinator.ts` | batch and its timer, burst, atomic frame; file queue, drain poll | onSessionOutput, flush, open and close frame, drain, pause, poll | transport, renderer, PTY |
| Output transport, `session-output-transport.ts` | each client's encoder and backlog | broadcast, queue or overflow, sendScrollback | sockets |
| Command execution, `session-command-executor.ts`, `capture-renderer.ts` | renderer and its writes, listeners of a wait | capturePane, waitFor, execute | coordinator |
| Automation dispatcher, tracker and store, `automation-*.ts` | runs and their status, count, lifecycle; pending claims; exclusive set | request, drain, cancel, recover, launchFailed, claim, sweep, update, reset, remove | scheduler, triggers, browser, agents, the file |
| Automation scheduler, `automation-scheduler.ts` | last tick, heartbeat file, watermarks | runTick, scheduleNextTick, refresh | dispatcher |
| Triggers, `folder-watch-manager.ts`, `session-event-manager.ts`, `webhook-trigger-manager.ts` | an entry with its debounce and grace timers | sync, fire, notifyRunFinished | dispatcher |
| Browser control, `cdp/` | socket, calls in flight, callers that wait to be connected | openBackgroundTab, attach, call, heartbeat, dropStale, reset | dispatcher (tabs), extension |
| Browser extension, `extension/sw.js` | socket, reconnect timer, sessions of tabs | connect, disconnect, alarm, click, close | browser control, Chrome |
| Git metadata, `git-metadata-coordinator.ts` | a coordinator per directory: pass in flight, pending, last summary; watchers | add, remove, signal, run | client hub |
| Git diff cache, `git-diff-cache.ts` | generations, entries, builds in flight | ensureDiffCache, invalidate, prune | routes |
| Keep-awake, `caffeinate-*.ts` | mode and preferences, poll in flight, timers, battery check, the process | poke, pollAuto, setMode, runBatteryCheck, recompute | session activity |
| Daemon lifecycle, `packages/cli/src` | pid file, port, process | start, stop, restart | operating system |
| Terminal page, `apps/terminal/src` | socket, ids, reconnect timer, replay window, decompress queue | connect, switch, session, replay, exit, close | client hub |
| Local echo, `apps/terminal/src/lib/local-echo.ts` | predicted keys, suspension, round-trip estimate and probe, watchdog | handleInput, reconcile, flush, setEnabled | page, xterm |
| Agent runner, `agent-runner.ts`, `pi-rpc-client.ts` | the child and its process group, the forced kill's timer, what aborts it | runAgent, compactAgent, closeChildProcess, abort | dispatcher, shutdown |
| Hibernation, `hibernate-store.ts`, `stop()` | the file, the snapshot read at the start | hibernateEntries, write, read, hibernatedTabFor | table, agent runner, page |
| Identity, stores and others | see the last section | | |

The daemon is one Node process. A handler, timer or PTY callback runs to its
next `await` without interruption, and that is how the actions are cut: one
handler is one action, and a handler that awaits something slow (an encoder, a
file, git, ps, a tab that opens) is one action per stretch between such awaits.
An `await` of an already settled promise is no cut. File writes of the
automation store are synchronous, but each is its own replacement of the file, so
a crash or a failed write may fall between two of them: there the cut is per
transaction.

What makes the system hard, and what has to hold:

* **Sessions.** Timers, viewers, the user, eviction and the shell itself all end
  sessions. A session in use must never be taken away; one that nobody uses must
  go; the table must not outgrow its limit.
* **Output.** A viewer attaches in the middle of a stream, is held back until it
  is ready, is sent a replay, and then joins the live output, while the shell
  writes on, frames open and close, queues overflow and encoders are at work.
  It must see every byte once, in order, or be cut off.
* **Flow control.** Output that refers to files waits for reads and expands.
  The PTY is paused by a backlog and resumed by a poll alone.
* **Roles.** One viewer owns the size and one answers queries of the program,
  whoever comes, goes, focuses or types.
* **The line.** Keys are shown before the shell echoes them, and echoes come in
  pieces: what is left on the screen must be the shell's line.
* **The page.** Sockets close and open late, the user switches, shells exit: the
  keys should go to the shell that is on the screen.
* **Automations.** Queueing, launching and finishing of runs interleave with
  edits, failing writes, restarts, tabs that load late and shells that die. Every
  occurrence of a schedule is decided once, through downtimes and failed ticks;
  a trigger should neither fire on what a run did itself nor on what was before an
  edit.
* **Things that are read while they change.** A git summary, a diff, the process
  tree and the battery are asked for with commands that take time, and what they
  answer may be out of date when it arrives.
* **The browser.** Two kinds of socket replace one another while calls wait.
* **The daemon itself.** Several processes start, stop and restart it over one
  pid file and one port; what it started must not outlive it, and its pages must
  find what they showed.

`PROJECT.json` lists every component with its status, and every hazard with the
line where it bites and the property that watches it.

## 2. The modules

| Module | Models | Checked by |
|---|---|---|
| `SessionTable` | what the table promises its users (abstract) | `MCSessionLifecycle`, as a property |
| `SessionLifecycle` | table, policy, attach and detach; implements `SessionTable` | `MCSessionLifecycle` |
| `SessionLifecycleProofs` | proofs about it | TLAPS |
| `ViewerRoles` | resize owner, responder, focus, announced size | `MCViewerRoles`, `MCViewerMask` |
| `ViewerRolesProofs` | proofs about it | TLAPS |
| `OutputDelivery` | batch, frames, pending hold, promotion, encoder | part "delivery", `MCOutputReplayBroken` |
| `OutputDeliveryProofs` | proofs about it | TLAPS |
| `OutputBackpressure` | file queue, pausing and polling | part "flow" |
| `PaneCapture` | renderers, reads and waits | part "pane" |
| `TerminalPage` | the page's sockets, ids, replay | part "page", `MCPageGap` |
| `TerminalPageProofs` | proofs about it | TLAPS |
| `AutomationDispatch` | requests, queue, launches, claims, sweep, recovery | `MCAutomationDispatch`, part "dispatch", `MCAutomationOverlap`, `MCAutomationDeadShell` |
| `AutomationDispatchProofs` | proofs about it | TLAPS |
| `AutomationScheduler` | ticks, downtime, watermarks | part "scheduler" |
| `AutomationSchedulerProofs` | proofs about it | TLAPS |
| `AutomationTriggers` | debounce, grace, edits | part "triggers" |
| `GitMetadata` | coordinators, watches, summaries | part "git" |
| `GitDiffCache` | generations and builds | part "diff" |
| `BrowserControl` | sockets, calls, openers | part "browser", `MCBrowserFresh` |
| `KeepAwake` | modes, poll, battery, process | part "awake" |
| `DaemonRestart` | start, stop, restart | part "daemon", `MCDaemonUnrecorded` |
| `LocalEcho` | keys shown before their echo, and the line they end on | part "echo" |
| `AgentRun` | the process of an agent and its end | part "agent" |
| `Hibernation` | shutdown, snapshot, restored pages | part "hibernation" |
| `ExtensionRelay` | the extension's socket to the daemon | part "relay" |
| `SafetyParts`, `LivenessParts` | the parts side by side, with what is asked of them | `MCSafetyParts`, `MCLivenessParts` |
| `SafetyPartsProofs` | proofs about the former and its parts, but for the dispatcher and the scheduler | TLAPS |
| `LivenessPartsProofs` | proofs about the latter and its parts, but for the delivery and the page | TLAPS |
| `MC*` | the constants and symmetry of a run | |

In all of them the operators whose comment begins "Mutation:" belong to no
specification. They are plausible slips of the code, used to see that each
property notices one.

### How the modules compose

Most of these parts share no step: a diff that is built and a lid that is kept
open meet nowhere in the code, and a product of their states would check nothing
that the parts alone do not. `SafetyParts` and `LivenessParts` therefore
choose one part in the initial state; the variables of the others keep the value
`Unused`, and a property speaks of its part only. One part is extended (the
dispatcher in the one, the delivery in the other), the others are instances, and
all their parameters are constants with named assumptions (`SchedulerFits`,
`DaemonFits`, `DiffFits` and so on): those are what the theorems assume, and TLC
evaluates them for the values of the run. A variable that two parts have under one name
(`enabled`, `timer`, `client` and a few) is shared by them, and `Frame` says what a
step of each part leaves alone. The number of states is the sum of the parts', and
every part is explored completely.

Where parts do meet, the meeting is in a module. `OutputDelivery` has the shell's
side of `OutputBackpressure` (what is processed is written in chunks) and the
viewer's side of `TerminalPage`; `TerminalPage` has the daemon with a promotion as one
step, which is what `OutputDelivery` shows it to be when input does not interrupt
it. The scheduler and the triggers stop where the request is made, and
`AutomationDispatch` begins there. `PaneCapture` has the part of the coordinator
that feeds a renderer. `GitMetadata` has attaching, promotion and the hold of frames
as far as a summary is concerned. `Hibernation` waits for the runs of
`AgentRun`, and `DaemonRestart` has the processes of which `Hibernation` has the
text. What `Accept` of `ExtensionRelay` brings about is what `BrowserControl` adopts.

The shutdown shows where two of them meet badly. `FORCE_EXIT_TIMEOUT_MS` and
`AUTOMATION_AGENT_FORCE_KILL_DELAY_MS` are both three seconds, and the timer of the
forced exit starts first: a daemon that stops while an agent ignores SIGTERM is
gone before the SIGKILL (the fairness of `ForceKill` holds for a daemon that
lives), the agent stays behind, and no snapshot is written, which `ForceExit` of
`Hibernation` has.

### SessionLifecycle

State: `status`, `owner`, `clients` (`managed.clients`), `entry` (`wsToClient`),
`pinned`, `timer` (`graceTimer` is armed), `parkedAt`, `createdAt`, the two parts
of `computeState` (`recent`, `foreground`), `graceOn` (the configured period is
not null) and `up`. Actions: opening a socket (fresh, or attached to a session
its owner may use), a detached spawn, a spawn that fails after room was made,
detach, the grace timer, kill, exit, pin, the change of the grace period, output and the
foreground program, and stop. `TornEntry` and its relatives are `tearDown`; room is made
by `RoomChoices`, which are the evictable sessions of least stamp.

Time is left out: an armed timer may fire at any moment, `recent` may lapse at
any moment, and `Date.now()` is a stamp that never goes back. This allows every
order of events that real delays allow, and more.

`SessionTable` knows only which sessions are live, whose they are and which are
busy (watched, pinned or active). It lets an idle session be taken away, and any
session be ended by its user, its shell or shutdown. `KeepsTablePromise` says that
`SessionLifecycle` implements it, with `busy` computed from the detailed state.

### OutputDelivery

The shell writes numbered chunks. The batch is `flushed + 1 .. next`; a flush is
one message. `client` is the viewer's record (stage, pending queue, compression
mode, encoder FIFO, running promotion) together with `wire`, all it was sent.
Viewers share nothing on this path, so there is one; an attachment starts with a
fresh record, so one attachment shows what every attachment does.

`raw` stands for the modes null, gzip and br, whose promotion awaits nothing
slow and is one action (`PromoteRaw`); `ctx` is br-ctx, whose promotion is cut at
every encoder await, where any other handler may run. `PromoteTimeout` is the
two-second timer that promotes without replay. An overflow closes the socket.

Left out: control messages other than the ones that delimit output, pixel
frames, and the bytes themselves. Replay slices are chunks, and the prefix of
terminal modes before them is not there. A promotion that is suspended when its viewer leaves
is ended, because its later sends go to a closed socket. `cutShort` is a history
variable: input arrived while a promotion was running. `PromoteAgain` is what happens
then: the second promotion closes the encoder, which rejects what the first one
awaits, and both go on raw, by turns in the microtasks of one tick. The second sends
its `replay-end` and the queue from the start, the first the rest of its replay, its
`replay-end` and the queue from where it was; who comes to the end empties the queue
under the other. The action allows every order of the two rows (`Interleavings`),
which contains those of the microtasks. A viewer may then get output twice, out of
order or not at all. That case has a finding of its own (below), and the properties
that it breaks are stated for the other behaviours; that the marker comes before live
output, that nothing follows the exit and that a batch has its timer
hold for all of them. The run groups the module's properties in two: `OutputComplete`
(`NothingLost` and `BatchIsTimed`) and `OutputOrdered` (the marker divides the replay
from the rest, frames are bracketed, the exit is last).

### OutputBackpressure

`queue`, `reading` and `settling` are the pending entries and the active one
before and after its output; `bytes` is `queue.bytes`; `batch` and `backlog` are
what has yet to be flushed and taken; `paused` is the PTY, `poll` the interval of
`ensureDrainPoll`. `MaybePause` is `maybePauseForBacklog`, `Drain` is
`drainOutputQueue`, `Settle` its `finally`. Sizes are small numbers compared with
`HighWater` and `LowWater`; a chunk weighs one unit, and may expand to
`Expansion`. With real sizes, one read of the PTY takes the place of the unit.
Consumers take arbitrary amounts of time. The renderer is fed before the batch
is, as in `processScannedOutput`. `Dispose` is `disposeSession`.

### ViewerRoles

`order` and `recent` are the viewers in order of attachment and of activity
(`lastActivitySequence`), `live` those that were promoted, `focused`, `size`,
`owner` (`resizeOwner`), `responders`, and `grid`, the columns of the PTY, the last
columns announced and what each viewer was told. `signal` is what the program was
told of focus. A size is its number of columns: rows take the same way and are
not clamped by the page. A promotion may stay pending for long (an encoder at
work), so attaching and promotion are separate. `ResizeById` is meant for
sessions that nobody watches and is limited to those in the runs.

### AutomationDispatch

One automation, whose runs are numbered as requested. `status` has the run's
status with the finished ones (`completed`, and `failed` by exit code) as `ended`;
`kind` is the runner at the time of the request. The loop of `drain` is unrolled:
`draining` are the queued runs it has yet to visit, and `Discard`, `PassOver` and
`Launch` are its iterations, each with its transaction. `expired` is the loop of
the sweep. Every other handler needs `Idle`, since handlers do not interleave; only
`Restart` (the daemon stops or dies and starts again) and `WriteFails` (a
transaction throws) can come in between. A launched shell run is `pending`
(`AutomationRunTracker`) and `opening` (the browser was asked for a tab); its
tab claims it, or the opener rejects, or the sweep expires it, in any order. `LaunchKept` is
that a launch is made once and, while on record as launched, will be ended.
`executing` are the runs whose command or agent is really alive. A shell run's command
dies with its PTY. An agent has a process group of its own: `stop()` aborts the agents
and waits for them, but a crash or a forced exit leaves any of them alive, so `Restart`
leaves some as `orphans` of which the next daemon knows nothing, until `OrphanEnds`.
`SessionFileExclusive` speaks of what one daemon runs; that an orphan can meet a run of
the next daemon is a broken claim (`ThreadsSerialized`).

Left out: trimming of the history, marks and findings of runs, the watermark of
the scheduler, and `closeOnFinish`.

### AutomationScheduler

`lastTick` and `nextAt` are in memory; `heartbeat` (the file), `mark`
(`lastScheduledAt`) and `enabled` survive a crash. A tick is `Begin`, which computes
what it will emit (`Emits`, with the cap, the look-back and the rule for a
downtime), then one `Decide` or `WriteFails` for each decision in the order of
the loops, then `EndTick`, which advances `lastTick` and the heartbeat only if
the tick was `healthy`. A crash may come between any two. A schedule is an anchor
and a period: the calendar arithmetic of cron expressions is data. Time is counted
in half minutes, the least unit that tells a downtime of 90 seconds from a minute.
`owed` says from when on an occurrence is the scheduler's duty: the last edit
of the automation, or its first tick if there was no heartbeat.

### AutomationTriggers

One automation whose trigger is a folder, an event of a session or a webhook, and
may be edited from one to another. `entry`, `wait` (`debounceTimer`) and `grace`
(`postRunGraceTimer`) are kept for each manager; a timer is the time it has left.
`Rebuild` is `stopEntry` and `startEntry` of `sync()`, `Fires` is `fire()` with
what `index.ts` checks, `Notify` is `notifyRunFinished()`. `causes` remembers
whose changes armed a debounce, and `since` how long the last run is over. An edit
marks what an armed debounce has seen as `former`; a webhook has no entry that the
edit would stop, so a POST from before it still fires, and `NothingFromFormer` is
about folders and session events. `notifyRunFinished()` clears no debounce: what a run
wrote shortly before its end fires within the grace. `QuietAfterRun` therefore says two
things: nothing noticed within the grace arms a debounce, and what fires within it
comes within one debounce of the end. That it may be the run's own write is a
broken claim (`NoSelfTrigger`).

### GitMetadata

A tree is the number of its changes, a summary the pair of versions that `git diff`
and the listing of untracked files saw. A coordinator has `inFlight`, `pending`,
what its pass has `read` and the `last` summary; a watch its throttle (`timer`,
`trailing`). `Read` and `Pass` are the git commands of a pass and its end, where
the summary is sent to all subscribers, those that hold their frames too; a frame
`cwd` that is sent from the hold clears the page's summary, for which `GoLive`
replays it. A pass that fails yields the empty summary, which is kept and sent like any
other (`EmptySummary`). `missed` marks the directories of which a change went unnoticed
while a watch was lost, or whose last pass failed: they wait for the next signal.

### GitDiffCache

A diff is the versions its first and last git command saw. `build` is the build of
a comparison that all its askers share, with the generation it began with;
`BuildEnds` repeats it if the generation has changed. `told` is the tree as it was
when it was last invalidated: what is answered must not have begun before that.

### BrowserControl

`ws` is the connection's current socket and `client` the hub's; a socket is opening,
open, "closing", closed, or "silent" (open for the daemon, and nobody there). A socket
of the extension that was asked to close reads OPEN until its close event (`Closed`),
and until then the hub returns it: `OpenTab`, `Detected` and, after a drop, `Rejected`
may attach it again, which breaks a claim (`ReconnectsCleanly`). A debugging socket is
closed at once. `connecting` is
what `establish()` waits for (the extension, the detection of browsers, a handshake),
shared by all openers that wait. A call remembers its
socket. `Dropped` is `close()` with `failPending()`, which rejects every pending call
and, through `Rejected`, makes openers that have an attempt left connect again.
Targets, their sessions and what happens in a tab are left out.

### TerminalPage

`link` is the current socket with the daemon's end (`down` is on its way to the page,
`hold` the daemon's pending queue), `life` the flags of
`create-terminal-session-lifecycle.ts`, `os` the output session with its
decompress queue, `bar` the address bar. `screen` is whose output is on the screen
and the last chunk of it; `gap` records that a chunk is missing before another.
`Take` delivers one event of the socket: open, session, output, marker, exit, close.
A lost socket loses a suffix of what is on its way. `Sends` is what the page lets through
on its two ways: what comes by xterm's `onData` is dropped while output is suppressed;
what a key handler or the on-screen keyboard sends by itself looks at the socket only.
`ShownIsTyped` is of the former, and that the latter keeps no such promise is a
broken claim (`KeysWait`). Rendering, atomic frames and
the batcher are left out.

### KeepAwake

`det` is the detector with its poll in flight (`walking` until ps has answered,
`walked` until its end), `guard` the battery guard with its check, `held` the
assertion. Every setter of `caffeinate-manager.ts` is an action. `unheard` marks a
change that nothing tells the daemon of (a child of another program), `died` a lost
process that mode "on" starts again at the next event only; both are exempted.
`ungated` says that the activity gate was turned off and nothing has polled since:
`GateOff` recomputes with the conclusion of the last poll, which had the output check
in it. Until the next poll `KeepAwakeConverges` asks only that nothing is held
that nobody asks for; the rest breaks a claim (`SettingsCount`).

### DaemonRestart

Each daemon has a phase and an age, `file` is the pid file (with port and host,
which are written and removed with it), `cli` the command under way. Time passes
in seconds; what has a deadline happens before it. A command may be broken off, and
its child or its signal goes on. The restart asks the new daemon to retry its bind
until the old one is gone. The child of a start is different: it looks for a recorded
daemon first (`Preflight`), then binds (`Binds`), and if the port turns out to be taken
(`PortInUse`) it stops whatever is recorded by then (`Evicts`, `Evicted`, with the pid it
has read in `victim`) and binds once more. So the child of a start that was broken off
may end the daemon that another command has just reported, and serve in its place;
`RestartServes` counts the time until its second bind as taking over.

### PaneCapture

`panes` is what each renderer was given, `current` the session's, and `tests` the
reads under way with the chunks whose parse they await. `Output` feeds the renderer
and tells the waiter at once; `OutputQueued` is a chunk that waits for a file: the
waiter is told now, the renderer by `Feed`, which tells nobody. So a wait may miss a text
that was drawn after a file was read, which breaks a claim (`WaitEndsOnMatch`);
`WaitHears` is about text that is drawn at once. Requests that find no renderer prime
their own, and the last to be primed stays. `Exit` and `Kill` dispose of the
renderer under the reads (`Disposed`, `Curtailed`): what it had not parsed yet, they do
not see.


### AgentRun

One job, a run or a compaction, by pi or by a command of the user's. `leader` is the
child and `rest` what it has started; only a run's child leads a group. `closing` is
`closeChildProcess()`: its listeners are there, and `left` is its timer. `Exit` and
`Close` are the child's events, `ForceKill` the timer, `Abort` what `stop()` does
to a run. SIGTERM is no step: a process may end at any moment, asked or not. A
process that was sent SIGKILL counts as gone.

### Hibernation

`Stop`, `RunsSettled`, `Visit`, `Collect` and `Write` are `stop()` cut at its awaits:
for the agent runs, and for the renderer of each session in turn. `cursor` is the
position of the loop in the live table, `read` the text the renderer parses, `entries`
is `byKey`. Pages attach, spawn and detach, and shells print and end, in between.
That the agent runs settle is `JobSettles` of `AgentRun`; here they may do so at
any time, or the forced exit comes first. `steady` remembers the pages that stayed
with one session from the stop on.

### ExtensionRelay

`ws` and `timer` are the worker's variables, `hub` the daemon's extension client. A
socket has two ends, `sock` and `peer`, each of which hears later than it happens that
the other has closed; a socket that was given up on its way may still be accepted.
`Renew` is `disconnect()` with the rest of `connect()`, `Accept` is
`setExtensionClient()`, which closes the former client. `Closed` and `Forgets` are the
guards of the two close listeners: without either, the end of a former socket would
drop its successor. The worker's tabs and debugger sessions are left out, and so
is a second browser with the extension: the two would displace one another for
ever, since the last one wins. The badge of the icon is not modelled either; the close
event of a former socket clears it (`setBadge(false)`) though a new one is open.


### LocalEcho

`pending`, `suspended`, `probe`, `slow`, `cooling` and `timer` are the fields of the
class, with each time replaced by the question the code asks of it, answered either
way. The line is that of `tests/lib/simulated-shell.ts` in its three kinds and the
screen that of `terminal-model.ts`: `shell` reads `wire` and writes `out`, which
`Receive` takes in chunks of any length. Two things differ from the simulated shell,
as a real line editor does: an arrow key at the end of the line is not echoed, and a
reprint walks the cursor back to its place. Keys that reach the margin are left out:
there a backspace does not take back what wrapped. So is the flush of a socket that
closes, after which the page reattaches. `setEnabled()` is a menu away from the keys,
so the line is at rest when prediction is enabled.

`strayed` marks what the code does not keep: `local-echo.ts:130-133` says that the
echo of a cursor key ends the suspension, but a burst (lines 124-127), the match or
mismatch of an earlier key's echo (211-212) and `flush()` (233) end it too. A key
typed then is shown at the wrong column, over the tail of the line, and taking it
back leaves a blank until the shell redraws. `LineIsTrue` does not follow such a
line. The converse: with nothing predicted, `use-terminal-runtime.ts:599` does not
call `reconcile()`, so its lines 167-171 never run and the suspension lasts until the
next burst; that costs predictions and no truth.

## 3. The runs

| Run | Bounds | Distinct states | What it checks |
|---|---|---|---|
| `MCSessionLifecycle` | 3 spawns, 2 sockets, 2 owners, capacity 2, equal stamps | 79,372 | `TypeOK`, `EntriesAgree`, `TimersInStep`, `CapacityRespected`, `AbandonedAreReaped`, `KeepsTablePromise` |
| `MCViewerRoles` | 3 viewers (symmetric), 2 widths | 717,348 | `TypeOK`, `OneResponder`, `SizeFollowsUse`, `NoGhostFocus` |
| `MCAutomationDispatch` | 2 runs, all policies and runners, no limit or a limit of 1, 1 upset | 110,408 | `TypeOK`, `LaunchKept`, `SessionFileExclusive`, `StaysOver`, `LimitKept`, `QueueMoves`, `LaunchSettles` |
| `MCSafetyParts` | see below | 1,202,442 | `PartsTypeOK`, and the properties of the parts |
| `MCLivenessParts` | see below | 619,403 | `PartsTypeOK`, and the properties of the parts |
| `MCOutputReplayBroken` | 3 chunks | | `ReplayComesFirst` is violated |
| `MCViewerMask` | 2 viewers | | `LoneViewerIsUnmasked` is violated |
| `MCAutomationOverlap` | 2 shell runs, policy skip | | `NoOverlap` is violated |
| `MCAutomationDeadShell` | 2 shell runs | | `RunningIsExecuting` is violated |
| `MCBrowserFresh` | 2 openers and the probe, 3 sockets | | `FreshSocketKept` is violated |
| `MCDaemonUnrecorded` | 2 daemons | | `TimeoutIsTrue` is violated |
| `MCPageGap` | 3 shells at most, 3 chunks, 1 loss, 1 act | | `NoGap` is violated |

The parts of the two composed runs:

| Part | Bounds | States | Properties |
|---|---|---|---|
| "dispatch": `AutomationDispatch` | 3 shell runs, capacity 2, 1 upset | 259,996 | `CapacityKept` |
| "scheduler": `AutomationScheduler` | 2 automations, 8 time units, 2 upsets | 171,862 | `OccurrencesKept` |
| "triggers": `AutomationTriggers` | 5 events, debounce 2, grace 4 | 1,160 | `NothingFromFormer`, `QuietAfterRun` |
| "daemon": `DaemonRestart` | 3 daemons, forced exit after 3 s, retries for 5 s | 378,459 | `RestartKeeps` |
| "diff": `GitDiffCache` | 2 requests, 2 comparisons, 1 entry, 2 changes, 3 answers | 28,118 | `ReadsAreFresh` |
| "pane": `PaneCapture` | 3 chunks, 2 renderers | 127,338 | `ReadsAreFresh` |
| "echo": `LocalEcho` | 3 keys, 2 predicted, a line of at most a letter | 68,352 | `LineIsTrue` |
| "hibernation": `Hibernation` | 2 pages of 2 owners, 3 sessions, 1 line each, 2 shutdowns | 167,157 | `RestartKeeps` |
| "flow": `OutputBackpressure` | a viewer and the renderer, 5 chunks, 2 arrivals, levels 3 and 1, expansion 2 | | `OrderKept`, `StallIsWatched`, `MemoryBounded`, `ChunksFlow` |
| "delivery": `OutputDelivery` | 4 chunks, queues, ring and flush size of 2 | | `OutputComplete`, `OutputOrdered`, `OutputArrives` |
| "git": `GitMetadata` | 2 tabs, 2 places, 3 news, 2 visits | 177,235 | `SummaryConverges` |
| "browser": `BrowserControl` | 2 openers and the probe, 3 sockets, 2 attempts | | `OneSocket`, `LaunchesEnd` |
| "page": `TerminalPage` | 3 shells, 2 chunks, 2 losses, 1 act, queue 2 | | `ShownIsTyped`, `ClientsReturn` |
| "awake": `KeepAwake` | 3 floors, 3 charges, 3 events | | `KeepAwakeConverges` |
| "agent": `AgentRun` | 1 job, forced kill after 2 | 243 | `SettledIsGone`, `LaunchesEnd` |
| "relay": `ExtensionRelay` | 4 sockets remembered, 2 upsets | 13,968 | `ClientsReturn` |

Why the bounds are enough. Sessions interact only through the capacity: two fill
it and the third evicts, and two sockets make a last and a not-last viewer. Equal
stamps let any evictable session be the oldest, which contains every order.
Four chunks reach each of: before the attachment, held, overflowed, live; with a
ring of two something has always been forgotten. Five chunks and a level of three
fill the queue, pause the PTY, drain it and start again. Roles are handed among three viewers: the
one that had it, the one that gets it and one that must not. Two runs meet every
rule about a run and its successor; whether a third could slip through the
concurrency limit is the question of the part "dispatch", which has three. An upset is an edit, a
reset, a failed write or a restart; one is enough to fall between any two
transactions. The schedules have occurrences that coincide, more of
them than the cap within one downtime, and a downtime longer than the look-back. A
trigger sees changes before, during and after a run and around an edit. Three
daemons are one that serves, one that replaces it and one more on top. Two
requests share a build or build for two comparisons over a cache of one entry.
Two renderers can be primed at once, and the text is printed between two other
chunks. Two tabs share a directory and have three news: they part and meet again,
and a file changes meanwhile or a pass fails, or they stay while two changes fall into
one interval of the throttle and a prompt comes. Attaching does not count. Three sockets are one
current, one that replaces it and one that replaces that. The page has two losses
around one choice of the user, and the queue of frames overflows at three. A charge
may be below, between and above the two floors. Three sessions are two that two
pages may share or part over and one that appears during the walk; the second
shutdown saves what the first restored. An agent has one child, and descendants
that are quiet or hold its pipes; two ticks let the other events come before
the forced kill, or after. Three keys are one that is predicted, one that moves the
cursor and one typed before either is echoed; two predictions let an echo confirm
half of them. Of four sockets of the extension two can be lost in a row.

Deadlock is not checked where the model stops by design: the session ended, or
every bounded request was made.

### Liveness and fairness

Where a model's inputs are bounded (changes, moves, chunks, acts), liveness is
stated as `<>[]`: once the inputs end, the system comes to the promised state and
stays there. The inputs may end at any moment, so that this holds after every
prefix of them.

* `SessionLifecycle`: an armed grace timer fires. Nothing makes users leave or
  shells fall silent, so `AbandonedAreReaped` speaks of sessions that stay
  abandoned.
* `OutputDelivery`: the batch and pending timers fire, the encoder answers,
  and a closed socket reports its close.
* `OutputBackpressure`: reads and their tasks complete, timers fire, and each
  consumer takes what it is given. One that stalls for ever stalls the session
  until it is closed; that is how the code is meant to work.
* `AutomationDispatch`: a handler that has begun continues, and the tick of the
  scheduler, which re-arms its own timer, comes again and again and finds in the
  end that every waiting run is past its time. Weak fairness does not do for the
  tick, since handlers come between; the timer of Node is not starved by them.
* `GitMetadata`: watch events are delivered, throttles fire, git answers (or fails,
  within a bound), held frames are sent. A lost watch need not recover.
* `BrowserControl`: the deadlines of calls, of the wait for the extension and of
  the handshake, and the detection of browsers, which ends by itself. Nothing makes
  the browser answer, and no socket need report its close.
* `TerminalPage`: the daemon accepts and promotes, the browser delivers events and
  runs promises and timers. No shell need write and no user need act.
* `KeepAwake`: timers fire, ps and the battery probe answer.
* `AgentRun`: the child's events come, timers fire, and the loop meets its deadline.
  No process need ever end by itself.
* `ExtensionRelay`: the worker's alarm and reconnect timer come, both ends are told of
  sockets that end, and the daemon, if it runs, takes what connects. Nothing starts it.

The other modules have no liveness property and need no fairness.

### Findings

1. **A second promotion cuts into the replay** (`MCOutputReplayBroken`,
   `session-client-hub.ts:253`). Lines 162-164 promise no live frame between the
   replay and what was held. A br-ctx promotion awaits its replay with `pending`
   still set; input then promotes again and closes the encoder, so that the first promotion
   goes on raw, by turns with the second and behind live output. The page sends keys, mouse and paste without waiting for the marker.
2. **A lone viewer stays masked** (`MCViewerMask`, `session-client-hub.ts:430`).
   The final `pty-size` carries the width of that moment; a later widening is
   announced to nobody, and the page clamps to what it was last told
   (`apps/terminal/src/utils/install-terminal-scrollbar.ts:77-79`).
3. **A launch that "failed" runs on** (`MCAutomationOverlap`,
   `automation-dispatcher.ts:216`). If the opener rejects after the tab claimed
   the run, the run is over for the dispatcher and the next one is launched
   beside it under the policy `skip` (`docs/automations.md:69`).
4. **A dead shell leaves its run running** (`MCAutomationDeadShell`,
   `session-manager.ts:822`). `handleExit` and `kill` do not end the run. It
   blocks later requests and deletion until the daemon restarts
   (`docs/automations.md:35` and `92-93`).
5. **A late probe closes the fresh socket** (`MCBrowserFresh`,
   `cdp/cdp-connection.ts:335`). Lines 332-333 call `dropStale` safe against a
   reconnect that swapped in a fresh socket. The guard it refers to protects
   pending calls; the socket that is closed is whatever is current.
6. **A restart that succeeded is reported as failed** (`MCDaemonUnrecorded`,
   `packages/cli/src/commands/start.ts:360`). The old daemon removes the pid file its
   successor has written; the successor serves, nobody finds it, and the restart
   says that it did not bind (`packages/cli/src/errors.ts:222-223`).
7. **Output between a drop and a reattachment is not shown** (`MCPageGap`,
   `apps/terminal/src/hooks/use-terminal-runtime.ts:824`). Lines 818-823 and
   `schemas.ts:559-563` say nothing is lost across the gap; a silent reattachment asks
   for no replay.

### Claims the code does not keep, without a run

Six more claims of the docs and comments are stated as properties of their modules. No
run checks them, and the properties that are checked say what holds instead. TLC finds
each violated as soon as it is added to a configuration of its module with the
constants below.

| Property | Module | Constants | Exempted in |
|---|---|---|---|
| `ThreadsSerialized` | `AutomationDispatch` | those of `MCAutomationOverlap`, with the policy `queue-latest`, the runner `thread` and 1 upset | `SessionFileExclusive` |
| `NoSelfTrigger` | `AutomationTriggers` | 3 events, debounce 2, grace 4 | `QuietAfterRun` |
| `WaitEndsOnMatch` | `PaneCapture` | 3 chunks, 2 renderers, target 2 | `ReadsAreFresh` |
| `ReconnectsCleanly` | `BrowserControl` | those of `MCBrowserFresh` | `OneSocket` |
| `KeysWait` | `TerminalPage` | those of `MCPageGap`, with 1 chunk | `ShownIsTyped` |
| `SettingsCount` | `KeepAwake` | 3 floors, a charge of 3, 3 events | `KeepAwakeConverges` |

* **A thread can have two agents** (`ThreadsSerialized`, `automation-dispatcher.ts:94`).
  `docs/automations.md:71-72` has threads always serialized. An agent is detached and
  outlives a crash or a forced exit; `recover()` interrupts its run and launches the
  queued one beside it, on the same session file.
* **A run triggers the next one** (`NoSelfTrigger`, `folder-watch-manager.ts:148`).
  `docs/automations.md:72-74` and lines 164-165 say that what a run does itself is
  ignored. A write just before its end has armed the debounce, which
  `notifyRunFinished()` leaves running.
* **A wait does not end on the match** (`WaitEndsOnMatch`,
  `session-output-coordinator.ts:208`). `docs/cli.md:42` says that it blocks until the
  pane matches. What is drawn after a file was read is drawn after the test.
* **A reconnection gets the socket that is closing** (`ReconnectsCleanly`,
  `cdp/extension-hub.ts:31`). `cdp-connection.ts:287-289` says that after a failed
  probe the next opener reconnects cleanly, and `index.ts:2873-2874` that a manual
  connect awaits a fresh one. The hub returns the extension's socket until its close
  event.
* **Some keys do not wait for the screen** (`KeysWait`,
  `apps/terminal/src/utils/install-terminal-input-handlers.ts:84`). Lines 628-631 of
  `use-terminal-runtime.ts` say that keystrokes share `onData` and are dropped during
  a replay. Tab, Backspace, the editing keys, Shift-Enter and the on-screen
  keyboard do not take that way.
* **The gate stays shut** (`SettingsCount`, `caffeinate-automatic-detector.ts:111`). Lines
  108-110 say that to recompute drops the output check. It recomputes with the
  conclusion of a poll that made the check.

Other places where a comment and the code part ways are noted with their hazard in
`PROJECT.json`, and the properties exempt them by name: the first tick without a
heartbeat, a folder's own writes that are noticed after the grace, a webhook that
comes during a run or from before an edit, a switch of the page that loses its target, a kill that a
waiting request does not hear of, and a renderer that misses what is written
while it is primed.

## 4. The proofs

`SessionLifecycleProofs` proves, for all sets of sessions, clients and users and
every capacity and clock bound, from the named assumptions of the module:

| Theorem | What it states |
|---|---|
| `TypeCorrect` | `TypeOK` always holds |
| `EntriesAlwaysAgree` | `EntriesAgree` always holds: the table's maps agree |
| `TimersStayInStep` | `TimersInStep` always holds: a timer is armed exactly for a live session without viewers that may be reaped, and the stamp is set exactly while nobody watches |
| `NeverAboveCapacity` | `CapacityRespected` always holds |
| `OnlyIdleIsTakenAway` | no step reaps or evicts a session that is watched, pinned or active (an action property of the module) |
| `ImplementsTable` | `KeepsTablePromise`: `SessionLifecycle` implements `SessionTable` |

The inductive invariant is `TypeOK`, the coupling of the table's parts
(`EntriesAgree` with the two halves of `TimersInStep`) and
`CapacityRespected`. The parts need each other: that a firing timer belongs to a
session without viewers is the first half of `TimersInStep`, which a detach preserves only
because `entry` and `clients` agree. The action property and the refinement
follow from the invariant step by step: each detailed action is one of the
abstract table or a stutter.

`LivenessPartsProofs` proves of `OutputBackpressure`, for every set of consumers and all sizes and
levels with `LowWater < HighWater`:

| Theorem | What it states |
|---|---|
| `FlowIsTyped` | `TypeOK` always holds |
| `NoLostWakeup` | `StallIsWatched` always holds |
| `BacklogIsBounded` | `MemoryBounded` always holds |
| `OrderIsKept` | `OrderKept` always holds |

Its inductive invariant adds two facts. `Room`: while the PTY runs or an
expansion is being read, there is room below the bound for what that may
add. `Uncharged`: while the PTY runs, the queue's charge is below `HighWater`.
Without the first, a step that delivers an expansion could exceed the bound; the
second gives the admission of one more chunk its room. Lemmas state the effect of
`MaybePause`, `Deliver` and `Drain` once, and every action cites them.
`OrderKept` needs an invariant of its own, `Ordered`: what was handed on, the
chunk whose files are read and the queue are one increasing sequence, and together
with what was lost they are all the program wrote.

`OutputDeliveryProofs` proves, for all sizes of the batch, the ring and the hold and any
number of chunks and attachments, with `ParametersFit` (natural numbers; a batch and
the hold's limit of boundaries are at least one, as `constants.ts` has them; TLC evaluates it for the
run's values):

| Theorem | What it states |
|---|---|
| `TypeCorrect` | the module's `TypeOK` always holds |
| `NothingIsLost`, `BatchAlwaysTimed` | `NothingLost` and `BatchIsTimed` always hold, the two parts of `OutputComplete` |
| `MarkerAlwaysDivides`, `FramesAreBracketed`, `ExitIsLast` | `MarkerDivides`, `FramesBracketed` and `ExitComesLast` always hold, the three parts of `OutputOrdered` |

What was sent says too little: that the next message fits depends on what is held, on what the
encoder has and on what a suspended promotion has yet to send. The invariant
therefore speaks of the `Pipe`: the wire, the encoder, the rest of the
promotion's replay, the marker if it is still to come and the queue from where
the promotion stands. It is a `Story`: its outputs are linked from the attachment on,
its replay comes first and meets them, its frames are bracketed. For an
open socket it also `Ends` where the session is: its last output is what was
flushed last, and a frame is open at its end exactly if the session has one open. A
promotion that begins starts from the queue, so the marker with the whole queue is kept as
a story of its own (`Queue`). `Shape` says which of the viewer's fields may be
in use at which stage. A flush adds to the end of a story and a promotion moves its
parts along. `StoryMore` carries the weight: a story that ends where the session
is goes on with what the session does next. A promotion that input has cut into gives up
the story: of such a viewer the invariant keeps only that it is live or gone, that its
queue and its encoder are empty, and that no live output comes before a marker (`Cut`).
For that `InTurns` says what two rows that are sent by turns have in common with the
two. Half of the lemmas are about positions in sequences that are written
one after another.

`ViewerRolesProofs` proves, for all viewers and widths:

| Theorem | What it states |
|---|---|
| `TypeCorrect` | `TypeOK` always holds |
| `OneAnswers` | `OneResponder` always holds |
| `FocusIsReal` | `NoGhostFocus` always holds |
| `OwnerIsUsed` | `OwnerIsInUse` always holds, the first half of `SizeFollowsUse` |
| `SizeIsThatOfUse` | `SizeFollowsUse` always holds if `ById` is FALSE |

The hypothesis of the last one is a fact about the code, not about the proof:
`POST /sessions/:id/resize` (`resizeById`, `session-manager.ts:642`) sets the PTY's
size without asking for an owner, so that a watched session resized this way
loses the second half. The owner is right all the same (`OwnerIsUsed`). That the
last of the focused viewers owns the size is inductive only with two more facts.
`FocusIsActive`: who has focus has an activity number, so that the heir is found by
activity and not by age. `OwnerIsLast` says that the owner comes last among the
focused in the order of activity, in the form that leaving, joining and touching
keep; that `LastOf` finds it is a lemma (`LastOfUnique`). The other lemmas say what
`Without`, `Append`, `FirstOf` and `LastOf` do to a sequence of distinct viewers,
and what each helper of the hub returns.

`TerminalPageProofs` proves, for any number of shells, lost connections, exits and
choices and every limit of the queue, with `ParametersFit` (natural numbers, and there is a
shell; TLC evaluates it for the run's values):

| Theorem | What it states |
|---|---|
| `PageIsTyped` | the module's `TypeOK` always holds, with the limit of what waits to be decompressed or replayed |
| `KeysGoWhereTheyShow` | the module's `ShownIsTyped` always holds, which is of the keys that pass `onData` |
| `DeadIsLeftAlone` | `DeadIsLeft` always holds |

The screen is right because of what is on its way to it. `FramesInOrder`: all that a
socket brings is of one shell, the session's frame comes before it and nothing but the
close after an exit. `ScreenKept`: what waits in the page's queue is of its shell, and
if the screen is still another's (`replace`), a replay with a reset is awaited and
keys are held back. `IdsKept` and `SocketKept` say that no id the page keeps is of a
dead shell, and that timers and the end of the page exclude an open socket, so
that an exit is never taken by a page that has already given up. The lemmas say what
sending, losing and taking frames do to `InOrder`.

`AutomationDispatchProofs` proves, for every number of requests, capacity, set of
limits, policies and runners:

| Theorem | What it states |
|---|---|
| `TypeCorrect` | `TypeOK` always holds |
| `LaunchIsKept` | `LaunchKept` always holds |
| `SessionFileHasOneUser` | `SessionFileExclusive` always holds: of what one daemon runs |
| `CapacityIsRespected` | the dispatcher's `ConcurrencyRespected` always holds (part "dispatch" has it for three requests) |
| `OverIsOver` | `StaysOver`: no step starts a run that is over |
| `LimitIsKept` | `LimitKept`: no step launches beyond the limit of its moment |

What is checked follows from what may happen next to each run, and that the
invariant has to say. `ByTab`: only shell runs wait for a tab, and none that the
sweep has collected. `AgentsRun`: what executes is not waiting to be claimed, and an
agent that lives is on record as running; without it a late answer of the opener
could end a run whose command is alive, for all the invariant knows. `ThreadAlone` and
`ExclusiveAlone`: a thread run is alone among the started ones, and the routes
that take the automation exclusively meet none. This is why the session file has
one user even after the policy or the runner was edited between a request and its
launch. `GoneIsIdle`: a deleted automation has no active run. `LimitSeen` and
`CountCovered`: a limit that is reached was noticed, and every counted run was
launched. Orphans of a former daemon take part in nothing, and nothing is claimed of them.

`AutomationSchedulerProofs` proves, for all automations and schedules, limits and bounds
with `ParametersFit` (numbers are naturals, the cap and the minute positive, and a
minute no longer than the shortest downtime; TLC evaluates it for the run's values):

| Theorem | What it states |
|---|---|
| `SchedulerIsTyped` | the module's `TypeOK` always holds |
| `EachDecidedOnce` | `DecidedOnce` always holds |
| `NoneIsForgotten` | `NoneForgotten` always holds |
| `NoneRunsStale` | `NoStaleRun` always holds |

`MarkDivides`: what was decided is at or below the watermark and what is left above
it. That nothing is forgotten has to be known at three moments. `WindowKept`
speaks of the tick: it has all of the newest occurrences above the watermark to
decide, or `Cap` later ones, unless a write failed for the automation.
`BelowMark` speaks of what a tick passed over: it made room for `Cap` others, some of
which may come only now (`Later`). `TakenAsDone` speaks of the end: what `lastTick`
or the heartbeat claims was decided or is excused by others that were. `Decide` is the hard step: the
watermark moves past occurrences that are not decided, and each of them must be
excused by what is left. The lemmas are about the newest `Cap` of a set of times
(`LastOnes`), what the enumeration and a tick begin with (`RecentEffect`,
`EmitsEffect`) and the timer (`NextTickIsATime`).

`SafetyPartsProofs` proves of `GitDiffCache`, for any requests and any finite set of comparisons:

| Theorem | What it states |
|---|---|
| `DiffIsTyped` | the module's `TypeOK` always holds |
| `AnswersAreFresh` | `DiffIsFresh` always holds |

What is answered is fresh because what is being built would be: `BuildsAreFresh` says
that a build whose generation is still the directory's has read nothing from before
the last invalidation, and `AskedBefore` that nobody was told of a later one.

### The other parts

Of the parts that have no proof module of their own, `SafetyPartsProofs` and
`LivenessPartsProofs` prove, each for all its constants:

| Theorem | Part | What it states |
|---|---|---|
| `FormerStartsNothing`, `Quiet` | triggers | `NothingFromFormer` always holds, and so does the action property `QuietAfterRun` |
| `RestartsServe` | daemon | `TypeOK` and `RestartServes` always hold, if the deadlines come in the order of the code's: a daemon serves, or the child of a start that was broken off takes over |
| `WaitHearsPrinted` | pane | `WaitHears` always holds: of text that is drawn at once, while the session lives |
| `SnapshotIsComplete` | hibernation | `SnapshotComplete` always holds |
| `BrowserHasOneSocket` | browser | the module's `OneSocket` always holds: a socket that was replaced is closed or was asked to close |
| `SettledRunIsGone` | agent | the module's `SettledIsGone` always holds |

* **Triggers.** `GraceKept`: the time since the last run and what is left of a grace timer
  add up to `Grace` at least, so where no timer runs the grace has passed.
  `NoneFormer`: no debounce of a folder or a session event has a cause from before an
  edit, since `Rebuild` clears it. `ArmedBefore`: a debounce that runs within the grace
  was armed before the run ended, so that what is left of it and the time since that end
  make one debounce at most.
* **Daemon.** `DaemonFits` orders the deadlines: booting and the forced exit
  together end before the bind is no longer retried, and each before the command gives
  up. `AgesKept` says that no phase outlasts its deadline, and `PortKept` that one daemon
  has the port and that who is recorded, or was read by a start's child, has had it.
  `Duty` is what a report promises for good: a daemon serves, or a start's child takes
  over and nothing else is left to stop (`Leftover`). `ChildOutlasts` couples the clocks
  of three processes: a restart's child that retries its bind is at most the time of a
  boot older than a shutdown it waits for, and the command has waited no longer than
  what still stops. So the old daemon is gone before the child gives up, or another has
  the duty. `NewlyRecorded`: when a command that found nothing on record finds something,
  the duty is done. `CommandKept` says how far the command is.
* **Pane.** Once the text was drawn at once, a read is under way that sees it: renderers
  only grow (`Grown`) while the session lives, and none is taken away under a read
  before it ends.
* **Hibernation.** `SteadyKept` says where the text of a page that stayed is at each
  moment: in its session while the runs settle (`StillThere`), ahead of the cursor, being
  read or collected during the walk (`OnItsWay`), then in the file, then in what the
  next daemon has read.
* **Browser.** Whatever attaches a socket closes the one before it or, if the hub has that,
  asks it to close; one that is attached again while it is closing is current, and when
  it is replaced it is closing still.
* **Agent.** `KnowsTheGroup`: a close in progress is right about the processes. The child
  that has exited is reaped, and SIGKILL left nothing that runs. `ClosesOnceStopped`:
  nothing is closed before the job is stopped.

The parts "git", "awake" and "relay" are asked for liveness, so only their types are
proved. For git that takes the counter: no tree has changed more often than there were
`news`, and no more frames are held (`GitInv`).

### Side by side

What the two composed runs check is proved of the composed modules, so that the
theorem and the run speak of the same definition:

| Theorem of `SafetyPartsProofs` | Property |
|---|---|
| `PartsAreTyped` | `PartsTypeOK` |
| `CapacityIsKept` | `CapacityKept` |
| `EveryOccurrenceIsKept` | `OccurrencesKept` |
| `NothingStartsFromFormer` | `NothingFromFormer` |
| `QuietFollowsRuns` | `QuietAfterRun` |
| `RestartsKeep` | `RestartKeeps` |
| `ReadsStayFresh` | `ReadsAreFresh` |

| Theorem of `LivenessPartsProofs` | Property |
|---|---|
| `PartsAreTyped` | `PartsTypeOK` |
| `ChunksStayInOrder` | `OrderKept` |
| `StallsAreWatched` | `StallIsWatched` |
| `MemoryIsBounded` | `MemoryBounded` |
| `OutputIsComplete` | `OutputComplete` |
| `OutputIsOrdered` | `OutputOrdered` |
| `SocketIsOne` | `OneSocket` |
| `KeysFollowTheScreen` | `ShownIsTyped` |
| `SettledRunsAreGone` | `SettledIsGone` |

The invariant `PartsInv` says that the part which the initial state chose has its own. A
step of `PartsNext` leaves `part` alone and is a step of that part's `Next`, a stutter
leaves the part's variables alone, and the other conjuncts have a false hypothesis. What
is assumed is what the parts assume: numbers are naturals, finite sets are finite, a
minute is no longer than the shortest downtime, the deadlines of a restart come in
their order.

Each inductive invariant, the two `PartsInv` included, was also checked by TLC on the
bounds of its run.

### What stays with TLC

Liveness under fairness and ENABLED are out of the prover's reach: `AbandonedAreReaped`,
`QueueMoves`, `LaunchSettles`, `ChunksFlow`, `OutputArrives` and the other
properties of that kind. So is induction over data, which would be needed to say
what a fold over a sequence returns. No module declares a RECURSIVE operator;
recursion over data is a fold of the community modules or a recursive function.

`LineIsTrue` is the one invariant of a run that no theorem states. What the line shows
is a function of all the bytes still on their way (`Written`, recursive over a
sequence), and that one byte more, or a chunk taken off the front, changes it as the
screen does is an induction over the sequence with an operator for its parameter.
TLC checks it for every chunking of the bounded keys; that the variables of
`LocalEcho` keep their types is proved.

## 5. Not modelled

* Byte formats, escape sequences, parsing of git's output, graphics and rendering,
  cron expressions: data without state of its own.
* Identity, secrets, preference stores, updates: each request is answered from what
  a file holds, read and replaced as a whole.
* What an agent says, its transcript and its session file's content, and processes
  that leave their group; what the extension does with the browser, kitty graphics.

What a further step could add: an abstract channel (what a viewer sees is a contiguous
piece of what the shell wrote) that `OutputDelivery` implements, and a proof that
`Written` distributes over concatenation, from which `LineIsTrue` would follow.
