---------------------------- MODULE LivenessParts ----------------------------
(***************************************************************************)
(* The parts of the system that share no step, and of which liveness is    *)
(* asked, side by side: the initial state chooses one, and the variables   *)
(* of the others stay Unused.  The delivery of output is extended, the     *)
(* other parts are instances; all have their parameters for constants.     *)
(***************************************************************************)
EXTENDS OutputDelivery

CONSTANTS
    Consumer, Renderer, MaxEmitted, MaxJoins, HighWater, LowWater, FlushSize,
    Replay, Expansion,                                  \* OutputBackpressure
    Places, Viewers, Sessions, SessionOf, FirstPlace, MaxNews, MaxVisits, \* GitMetadata
    Openers, Probe, MaxSockets, MaxAttempts,            \* BrowserControl
    MaxShells, QueueMax, MaxOut, MaxDrops, MaxActs,     \* TerminalPage
    Floors, MaxCharge, MaxEvents,                       \* KeepAwake
    Delay,                                              \* AgentRun
    Socket, NoSocket, MaxUpsets                         \* ExtensionRelay

VARIABLES
    part,
    emitted, queue, reading, settling, bytes, out, lost, batch, backlog,
    present, paused, poll, disposed, joins, tree, here, att, frames, shown, co,
    watch, missed, news, visits, state, ws, connecting, opening,
    call, step, attempt, attached, wronged, output, link, life, bar, replace,
    os, screen, gap, dead, drops, acts, prefs, world, det, guard, held,
    unheard, ungated, died, events, job, harness, leader, rest, drained, work,
    stopped, closing, aborted, worker, cur, armed, ends, peer, hub, listening, upsets

Unused == "unused"

ASSUME DeliveryFits == ParametersFit

Flow == INSTANCE OutputBackpressure WITH next <- emitted, MaxChunks <- MaxEmitted
ASSUME FlowFits == Flow!ParametersFit

Git == INSTANCE GitMetadata WITH queue <- frames
ASSUME GitFits == Git!ParametersFit

Browser == INSTANCE BrowserControl
ASSUME BrowserFits == MaxSockets \in Nat /\ MaxAttempts \in {1, 2}

Page == INSTANCE TerminalPage WITH out <- output
ASSUME PageFits == Page!ParametersFit

Awake == INSTANCE KeepAwake

Agent == INSTANCE AgentRun
ASSUME AgentFits == Delay \in Nat

Relay == INSTANCE ExtensionRelay WITH
    awake <- worker, ws <- cur, timer <- armed, sock <- ends, daemon <- listening
ASSUME RelayFits == MaxUpsets \in Nat

(* The variables that only one part has, and their value in the others.   *)
ofFlow == <<emitted, queue, reading, settling, bytes, out, lost, batch, backlog,
            present, paused, poll, disposed, joins>>
ofDelivery == <<next, flushed, burst, sync, frameOpen, since, framed, cutShort,
                attaches>>
ofGit == <<tree, here, att, frames, shown, co, watch, missed, news, visits>>
ofBrowser == <<state, ws, connecting, opening, call, step, attempt, attached,
               wronged>>
ofPage == <<output, link, life, bar, replace, os, screen, gap, dead, drops,
            acts>>
ofAwake == <<prefs, world, det, guard, held, unheard, ungated, died, events>>
ofAgent == <<job, harness, leader, rest, drained, work, stopped, closing,
             aborted>>
ofRelay == <<worker, cur, armed, ends, peer, hub, listening, upsets>>

NoFlow ==
    /\ emitted = Unused /\ queue = Unused /\ reading = Unused
    /\ settling = Unused /\ bytes = Unused /\ out = Unused /\ lost = Unused
    /\ batch = Unused /\ backlog = Unused /\ present = Unused
    /\ paused = Unused /\ poll = Unused /\ disposed = Unused /\ joins = Unused
NoDelivery ==
    /\ next = Unused /\ flushed = Unused /\ burst = Unused /\ sync = Unused
    /\ frameOpen = Unused /\ since = Unused /\ framed = Unused
    /\ cutShort = Unused /\ attaches = Unused
NoGit ==
    /\ tree = Unused /\ here = Unused /\ att = Unused /\ frames = Unused
    /\ shown = Unused /\ co = Unused /\ watch = Unused /\ missed = Unused
    /\ news = Unused /\ visits = Unused
NoBrowser ==
    /\ state = Unused /\ ws = Unused /\ connecting = Unused /\ opening = Unused
    /\ call = Unused /\ step = Unused /\ attempt = Unused /\ attached = Unused
    /\ wronged = Unused
NoPage ==
    /\ output = Unused /\ link = Unused /\ life = Unused /\ bar = Unused
    /\ replace = Unused /\ os = Unused /\ screen = Unused /\ gap = Unused
    /\ dead = Unused /\ drops = Unused /\ acts = Unused
NoAwake ==
    /\ prefs = Unused /\ world = Unused /\ det = Unused /\ guard = Unused
    /\ held = Unused /\ unheard = Unused /\ ungated = Unused /\ died = Unused /\ events = Unused
NoAgent ==
    /\ job = Unused /\ harness = Unused /\ leader = Unused /\ rest = Unused
    /\ drained = Unused /\ work = Unused /\ stopped = Unused
    /\ closing = Unused /\ aborted = Unused
NoRelay ==
    /\ worker = Unused /\ cur = Unused /\ armed = Unused /\ ends = Unused
    /\ peer = Unused /\ hub = Unused /\ listening = Unused /\ upsets = Unused

PartsInit ==
    /\ part \in {"flow", "delivery", "git", "browser", "page", "awake", "agent", "relay"}
    /\ IF part = "flow" THEN Flow!Init ELSE NoFlow
    /\ IF part = "delivery" THEN Init ELSE NoDelivery
    /\ IF part = "git" THEN Git!Init ELSE NoGit
    /\ IF part = "browser" THEN Browser!Init ELSE NoBrowser
    /\ IF part = "page" THEN Page!Init ELSE NoPage
    /\ IF part = "awake" THEN Awake!Init ELSE NoAwake
    /\ IF part = "agent" THEN Agent!Init ELSE NoAgent
    /\ IF part = "relay" THEN Relay!Init ELSE NoRelay
    /\ part \notin {"delivery", "page"} => alive = Unused /\ timer = Unused
    /\ part \notin {"delivery", "browser"} => client = Unused

(* What a step of the part leaves alone. *)
Frame ==
    /\ UNCHANGED part
    /\ part # "flow" => UNCHANGED ofFlow
    /\ part # "delivery" => UNCHANGED ofDelivery
    /\ part # "git" => UNCHANGED ofGit
    /\ part # "browser" => UNCHANGED ofBrowser
    /\ part # "page" => UNCHANGED ofPage
    /\ part # "awake" => UNCHANGED ofAwake
    /\ part # "agent" => UNCHANGED ofAgent
    /\ part # "relay" => UNCHANGED ofRelay
    /\ part \notin {"delivery", "page"} => UNCHANGED <<alive, timer>>
    /\ part \notin {"delivery", "browser"} => UNCHANGED client

PartsNext ==
    \/ part = "flow" /\ Flow!Next /\ Frame
    \/ part = "delivery" /\ Next /\ Frame
    \/ part = "git" /\ Git!Next /\ Frame
    \/ part = "browser" /\ Browser!Next /\ Frame
    \/ part = "page" /\ Page!Next /\ Frame
    \/ part = "awake" /\ Awake!Next /\ Frame
    \/ part = "agent" /\ Agent!Next /\ Frame
    \/ part = "relay" /\ Relay!Next /\ Frame

everything == <<part, ofFlow, ofDelivery, ofGit, ofBrowser, ofPage, ofAwake,
                ofAgent, ofRelay, alive, timer, client>>

(* Every part is fair to what its module is fair to.                       *)
PartsFairness ==
    /\ WF_(Flow!vars)(part = "flow" /\ Flow!TasksDone)
    /\ WF_(Flow!vars)(part = "flow" /\ Flow!BatchTimer)
    /\ WF_(Flow!vars)(part = "flow" /\ Flow!Poll)
    /\ WF_(Flow!vars)(part = "flow" /\ \E size \in 0 .. Expansion, last \in BOOLEAN :
                                        Flow!ReadDone(size, last))
    /\ \A c \in Consumer : WF_(Flow!vars)(part = "flow" /\ Flow!Take(c))
    /\ WF_vars(part = "delivery" /\ BatchTimer)
    /\ WF_vars(part = "delivery" /\ PromoteTimeout)
    /\ WF_vars(part = "delivery" /\ EncoderStep)
    /\ WF_vars(part = "delivery" /\ Detach)
    /\ \A p \in Places :
          /\ WF_(Git!vars)(part = "git" /\ Git!Notice(p))
          /\ WF_(Git!vars)(part = "git" /\ Git!Flush(p))
          /\ WF_(Git!vars)(part = "git" /\ Git!Read(p))
          /\ WF_(Git!vars)(part = "git" /\ Git!Pass(p))
    /\ \A v \in Viewers :
          /\ WF_(Git!vars)(part = "git" /\ Git!SendHeld(v))
          /\ WF_(Git!vars)(part = "git" /\ Git!GoLive(v))
    /\ \A c \in Openers \union {Probe} :
          WF_(Browser!vars)(part = "browser" /\ Browser!TimesOut(c))
    /\ WF_(Browser!vars)(part = "browser" /\ Browser!WaitEnds)
    /\ WF_(Browser!vars)(part = "browser" /\ Browser!Detected)
    /\ WF_(Browser!vars)(part = "browser" /\ Browser!OpenFails)
    /\ WF_(Page!vars)(part = "page" /\ Page!Accept)
    /\ WF_(Page!vars)(part = "page" /\ Page!Ready)
    /\ WF_(Page!vars)(part = "page" /\ Page!ReadyLate)
    /\ WF_(Page!vars)(part = "page" /\ Page!TimerFires)
    /\ WF_(Page!vars)(part = "page" /\ Page!Take)
    /\ WF_(Page!vars)(part = "page" /\ Page!Decompress)
    /\ WF_(Page!vars)(part = "page" /\ Page!Drained)
    /\ WF_(Page!vars)(part = "page" /\ \E s \in alive \union {Page!NoShell} : Page!Resume(s))
    /\ WF_(Awake!vars)(part = "awake" /\ Awake!PokeFires)
    /\ WF_(Awake!vars)(part = "awake" /\ Awake!GateTimerFires)
    /\ WF_(Awake!vars)(part = "awake" /\ Awake!BatteryTimerFires)
    /\ WF_(Awake!vars)(part = "awake" /\ Awake!PollEnds)
    /\ WF_(Awake!vars)(part = "awake" /\ Awake!CheckEnds(FALSE))
    /\ WF_(Awake!vars)(part = "awake" /\ (Awake!NextPoll \/ Awake!Walk))
    /\ WF_(Agent!vars)(part = "agent" /\ Agent!Exit)
    /\ WF_(Agent!vars)(part = "agent" /\ Agent!Close)
    /\ WF_(Agent!vars)(part = "agent" /\ Agent!SpawnFails)
    /\ WF_(Agent!vars)(part = "agent" /\ Agent!ForceKill)
    /\ WF_(Agent!vars)(part = "agent" /\ Agent!Elapse)
    /\ WF_(Agent!vars)(part = "agent" /\ Agent!Begins)
    /\ WF_(Agent!vars)(part = "agent" /\ Agent!Concludes)
    /\ WF_(Agent!vars)(part = "agent" /\ Agent!TimesOut)
    /\ WF_(Agent!vars)(part = "agent" /\ Agent!CompactTimesOut)
    /\ WF_(Relay!vars)(part = "relay" /\ Relay!Alarm)
    /\ WF_(Relay!vars)(part = "relay" /\ Relay!TimerFires)
    /\ \A s \in Socket :
          /\ WF_(Relay!vars)(part = "relay" /\ Relay!CloseEvent(s))
          /\ WF_(Relay!vars)(part = "relay" /\ Relay!Accept(s))
          /\ WF_(Relay!vars)(part = "relay" /\ Relay!Refused(s))
          /\ WF_(Relay!vars)(part = "relay" /\ Relay!Hears(s))

PartsSpec == PartsInit /\ [][PartsNext]_everything /\ PartsFairness

-----------------------------------------------------------------------------
(* Properties                                                              *)

(* Every part's variables have their types. *)
PartsTypeOK ==
    CASE part = "flow" -> Flow!TypeOK
      [] part = "delivery" -> TypeOK
      [] part = "git" -> Git!TypeOK
      [] part = "browser" -> Browser!TypeOK
      [] part = "page" -> Page!TypeOK
      [] part = "awake" -> Awake!TypeOK
      [] part = "agent" -> Agent!TypeOK
      [] part = "relay" -> Relay!TypeOK

(* Chunks are output once, in their order, and none is forgotten.          *)
OrderKept == part = "flow" => Flow!OrderKept

(* While the PTY is paused, or entries wait that nobody reads, a poll is   *)
(* armed that will go on.                                                  *)
StallIsWatched == part = "flow" => Flow!StallIsWatched

(* What waits, and what a consumer is owed, stays within its bound.        *)
MemoryBounded == part = "flow" => Flow!MemoryBounded

(* In the end the PTY is not left paused and every chunk is output.        *)
ChunksFlow == <>[](part = "flow" => Flow!AllIsOut)

(* No byte is lost, repeated or reordered on its way to a viewer, unless   *)
(* input has cut into its promotion; and what is not flushed yet has its   *)
(* timer.                                                                  *)
OutputComplete == part = "delivery" => NothingLost /\ BatchIsTimed

(* A viewer can tell the replay from live output and a frame from what is  *)
(* around it, and hears of the exit last.                                  *)
OutputOrdered ==
    part = "delivery" =>
        MarkerDivides /\ FramesBracketed /\ ExitComesLast

(* What the shell writes reaches every viewer that stays connected, unless *)
(* input has cut into its promotion, and no viewer waits for ever for the  *)
(* end of its replay.                                                      *)
OutputArrives ==
    <>[](part = "delivery" =>
           /\ client.stage = "pending" => Has(client, "replay-end")
           /\ client.stage = "live" /\ client.open /\ ~cutShort
                => Shown(client) >= next)

(* Every viewer comes to show the summary of its directory, but for        *)
(* changes made while a watch was lost and after a failed pass, which wait *)
(* for the next signal.                                                    *)
SummaryConverges == \A v \in Viewers : <>[](part = "git" => Git!Informed(v))

(* The browser is never left with two sockets to the daemon: the one that  *)
(* is not current any more was asked to close.                             *)
OneSocket == part = "browser" => Browser!OneSocket

(* Opening a tab for a run always comes to an end, and so does a run of an *)
(* agent, and a compaction unless a descendant of its command holds on.    *)
LaunchesEnd ==
    <>[](/\ part = "browser" =>
               \A o \in DOMAIN step : step[o] \notin {"connecting", "calling"}
         /\ part = "agent" =>
               work = "settled" \/ (job = "compact" /\ rest = "holding"))

(* A run that was stopped leaves no process behind when it settles.        *)
SettledIsGone == part = "agent" => Agent!SettledIsGone

(* What passes the terminal's onData event goes to the shell on the        *)
(* screen, and a shell that is over is never asked for again.              *)
ShownIsTyped == part = "page" => Page!ShownIsTyped /\ Page!DeadIsLeft

(* In the end the page says that it is over or shows a shell that listens; *)
(* and the extension is connected, by one socket that both ends hold for   *)
(* the current one, while the daemon runs.                                 *)
ClientsReturn ==
    <>[](/\ part = "page" =>
               \/ life.exited /\ link.phase = "closed"
               \/ link.phase = "live" /\ link.told /\ os.on /\ ~os.suppress
         /\ part = "relay" => Relay!Connected)

(* The machine comes to be held awake exactly while it is asked for; but   *)
(* for changes nothing tells of, a lost process, and what the gate had     *)
(* kept from being held when it is turned off.                             *)
KeepAwakeConverges ==
    <>[](part = "awake" =>
           \/ unheard \/ died
           \/ ungated /\ (held => Awake!Wanted /\ ~Awake!Forbidden)
           \/ Awake!HeldAsAsked)
=============================================================================
