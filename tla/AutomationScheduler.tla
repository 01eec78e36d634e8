------------------------- MODULE AutomationScheduler -------------------------
(***************************************************************************)
(* Which occurrences of the automations' schedules are decided, run or     *)
(* skipped, by ticks that come late, fail half way or die.                 *)
(*                                                                         *)
(* Models packages/server/src/automation-scheduler.ts with                 *)
(* utils/reconcile-downtime.ts, heartbeat-store.ts, the tick listener of   *)
(* index.ts and the part of request() in automation-dispatcher.ts that     *)
(* commits the watermark of a schedule.  Time is counted in half minutes,  *)
(* fine enough for a downtime of 90 s, and never goes back.  A tick is one *)
(* handler, but every decision is a file replacement of its own: todo      *)
(* holds the decisions the tick has still to make, and a write may fail,   *)
(* or the daemon die, at each of them.                                     *)
(***************************************************************************)
EXTENDS Integers, FiniteSets, FiniteSetsExt, TLC

CONSTANTS
    Automations,  \* scheduled automations, numbered as the store lists them
    Anchor,       \* [Automations -> Nat]: the first occurrence
    Period,       \* [Automations -> Nat \ {0}]: the time between two
    RunLatest,    \* automations whose missedRunPolicy is "run-latest"
    Minute,       \* MS_PER_MINUTE
    GapMin,       \* AUTOMATION_RECONCILE_MIN_DOWNTIME_MS
    Lookback,     \* AUTOMATION_RECONCILE_LOOKBACK_MS
    Cap,          \* AUTOMATION_DOWNTIME_RECONCILE_CAP
    MaxTime,      \* bound: how far the clock goes
    MaxUpsets     \* bound: edits, failures and crashes together

VARIABLES
    now,        \* the clock
    up,         \* the daemon runs
    lastTick,   \* scheduler.lastTickAt
    nextAt,     \* when tickTimer is due
    heartbeat,  \* lastAliveAt in daemon-heartbeat.json
    mark,       \* automation.lastScheduledAt, in automations.json
    enabled,    \* automation.enabled, in automations.json
    ticking,    \* runTick() is under way
    todo,       \* decisions it has still to make
    healthy,    \* its local flag
    decisions,  \* history: how often an occurrence was decided
    ran,        \* history: the occurrences that were run
    owed,       \* history: occurrences after this are the scheduler's duty
    upsets      \* bound: edits, failures and crashes so far

(* What the proofs need of the constants. *)
ParametersFit ==
    /\ Automations \subseteq Nat /\ {Minute, Cap} \subseteq Nat \ {0}
    /\ {GapMin, Lookback, MaxTime, MaxUpsets} \subseteq Nat /\ Minute <= GapMin

memory == <<up, lastTick, nextAt>>
files == <<heartbeat, mark, enabled>>
tick == <<ticking, todo, healthy>>
history == <<decisions, ran, owed>>
vars == <<now, memory, files, tick, history, upsets>>

None == -1
Time == 0 .. MaxTime
Occurrences(a) == {t \in Time : t >= Anchor[a] /\ (t - Anchor[a]) % Period[a] = 0}

(* enumerateMissedOccurrences(): both bounds are exclusive, the newest win. *)
Recent(a, from, at) ==
    LET start == Max({from, at + 1 - Lookback})
        window == {t \in Occurrences(a) : start < t /\ t < at + 1}
    IN  {t \in window : Cardinality({u \in window : u > t}) < Cap}

Since(last, at) == IF last = None THEN at - (at % Minute) - 1 ELSE last

From(a, last, at) == Max({Since(last, at), mark[a]})

(* Mutation: every newest occurrence is run, however late. *)
EmitsStale(a, last, at) ==
    LET window == IF enabled[a] THEN Recent(a, From(a, last, at), at) ELSE {}
    IN  {[of |-> a, at |-> t, run |-> \A u \in window : u <= t] : t \in window}

(* What runTick() emits for one automation when lastTickAt = last. *)
Emits(a, last, at) ==
    LET gap == last # None /\ at - last >= GapMin
        window == IF enabled[a] THEN Recent(a, From(a, last, at), at) ELSE {}
        Runs(t) == /\ \A u \in window : u <= t
                   /\ ~gap \/ a \in RunLatest \/ at - t < Minute
    IN  {[of |-> a, at |-> t, run |-> Runs(t)] : t \in window}

(* scheduleNextTick(): the next minute, or an occurrence before it. *)
NextTick(wanted) ==
    Min({now - (now % Minute) + Minute} \cup
        {o \in UNION {Occurrences(a) : a \in wanted} : o > now})

Enabled == {a \in Automations : enabled[a]}

(* runTick() starts, with lastTickAt = last. *)
Begin(last) ==
    /\ lastTick' = last
    /\ todo' = UNION {Emits(a, last, now) : a \in Automations}
    /\ ticking' = TRUE /\ healthy' = TRUE

(* The decision of the loops of runTick() that is next. *)
Turn(d) ==
    /\ d \in todo
    /\ \A e \in todo : d.of < e.of \/ (d.of = e.of /\ d.at <= e.at)

(* Before its first healthy tick a scheduler that found no heartbeat counts *)
(* from the minute of the tick.                                             *)
Owed(a, last) == IF last = None THEN Max({owed[a], Since(last, now)}) ELSE owed[a]

-----------------------------------------------------------------------------
(* The daemon's timer and its life *)

Advance ==
    /\ ~ticking /\ now < MaxTime
    /\ now' = now + 1
    /\ UNCHANGED <<memory, files, tick, history, upsets>>

TimerFires ==
    /\ up /\ ~ticking /\ now >= nextAt
    /\ Begin(lastTick)
    /\ owed' = [a \in Automations |-> Owed(a, lastTick)]
    /\ UNCHANGED <<now, up, nextAt, files, decisions, ran, upsets>>

(* start(heartbeatStore.read()). *)
Boot ==
    /\ ~up
    /\ up' = TRUE
    /\ Begin(heartbeat)
    /\ owed' = [a \in Automations |-> Owed(a, heartbeat)]
    /\ UNCHANGED <<now, nextAt, files, decisions, ran, upsets>>

Crash ==
    /\ up /\ upsets < MaxUpsets
    /\ upsets' = upsets + 1
    /\ up' = FALSE /\ ticking' = FALSE /\ todo' = {}
    /\ lastTick' = None
    /\ UNCHANGED <<now, nextAt, files, healthy, history>>

-----------------------------------------------------------------------------
(* The decisions of a tick *)

Decided(d) ==
    /\ decisions' = [decisions EXCEPT ![d.of][d.at] = @ + 1]
    /\ ran' = IF d.run THEN ran \cup {[of |-> d.of, at |-> d.at, when |-> now]} ELSE ran

(* Mutation: the watermark is not part of the transaction. *)
DecideUnmarked(d) ==
    /\ Turn(d)
    /\ IF d.at > mark[d.of] THEN Decided(d) ELSE UNCHANGED <<decisions, ran>>
    /\ todo' = todo \ {d}
    /\ UNCHANGED <<now, memory, files, ticking, healthy, owed, upsets>>

(* request() commits the run and its watermark in one file replacement. *)
Decide(d) ==
    /\ Turn(d)
    /\ IF d.at > mark[d.of]
       THEN mark' = [mark EXCEPT ![d.of] = d.at] /\ Decided(d)
       ELSE UNCHANGED <<mark, decisions, ran>>
    /\ todo' = todo \ {d}
    /\ UNCHANGED <<now, memory, heartbeat, enabled, ticking, healthy, owed, upsets>>

(* The write throws: the automation's other occurrences are not looked at. *)
WriteFails(d) ==
    /\ Turn(d) /\ upsets < MaxUpsets
    /\ upsets' = upsets + 1
    /\ todo' = {e \in todo : e.of # d.of}
    /\ healthy' = FALSE
    /\ UNCHANGED <<now, memory, files, ticking, history>>

(* Mutation: a tick counts as made even if a decision of it failed. *)
EndTickAlways ==
    /\ ticking /\ todo = {}
    /\ ticking' = FALSE
    /\ lastTick' = now
    /\ \/ heartbeat' = now /\ UNCHANGED upsets
       \/ upsets < MaxUpsets /\ upsets' = upsets + 1 /\ UNCHANGED heartbeat
    /\ nextAt' = NextTick(Enabled)
    /\ UNCHANGED <<now, up, mark, enabled, todo, healthy, history>>

(* The end of runTick(), the tick listener, and the timer set again.  The  *)
(* heartbeat is left alone when the draining of a queue fails.             *)
EndTick ==
    /\ ticking /\ todo = {}
    /\ ticking' = FALSE
    /\ lastTick' = IF healthy THEN now ELSE lastTick
    /\ \/ heartbeat' = (IF healthy THEN now ELSE heartbeat) /\ UNCHANGED upsets
       \/ upsets < MaxUpsets /\ upsets' = upsets + 1 /\ UNCHANGED heartbeat
    /\ nextAt' = NextTick(Enabled)
    /\ UNCHANGED <<now, up, mark, enabled, todo, healthy, history>>

-----------------------------------------------------------------------------
(* The routes *)

(* update() with enabled, and refresh(). *)
Enable(a) ==
    /\ up /\ ~ticking /\ upsets < MaxUpsets
    /\ upsets' = upsets + 1
    /\ enabled' = [enabled EXCEPT ![a] = TRUE]
    /\ mark' = [mark EXCEPT ![a] = now]
    /\ owed' = [owed EXCEPT ![a] = now]
    /\ nextAt' = NextTick(Enabled \cup {a})
    /\ UNCHANGED <<now, up, lastTick, heartbeat, tick, decisions, ran>>

Disable(a) ==
    /\ up /\ ~ticking /\ enabled[a] /\ upsets < MaxUpsets
    /\ upsets' = upsets + 1
    /\ enabled' = [enabled EXCEPT ![a] = FALSE]
    /\ nextAt' = NextTick(Enabled \ {a})
    /\ UNCHANGED <<now, up, lastTick, heartbeat, mark, tick, history>>

-----------------------------------------------------------------------------

Init ==
    /\ now = 0 /\ up = FALSE /\ lastTick = None /\ nextAt = 0
    /\ heartbeat \in {None, 0}
    /\ mark = [a \in Automations |-> 0]
    /\ enabled = [a \in Automations |-> TRUE]
    /\ ticking = FALSE /\ todo = {} /\ healthy = TRUE
    /\ decisions = [a \in Automations |-> [t \in Time |-> 0]]
    /\ ran = {}
    /\ owed = [a \in Automations |-> 0]
    /\ upsets = 0

Next ==
    \/ Advance
    \/ TimerFires
    \/ Boot
    \/ Crash
    \/ \E d \in todo : Decide(d)
    \/ \E d \in todo : WriteFails(d)
    \/ EndTick
    \/ \E a \in Automations : Enable(a)
    \/ \E a \in Automations : Disable(a)

Spec == Init /\ [][Next]_vars

-----------------------------------------------------------------------------
(* Properties *)

(* Every variable has its type. *)
TypeOK ==
    /\ now \in Time /\ up \in BOOLEAN
    /\ lastTick \in Time \cup {None} /\ heartbeat \in Time \cup {None}
    /\ nextAt \in 0 .. MaxTime + Minute
    /\ mark \in [Automations -> Time] /\ owed \in [Automations -> Time]
    /\ enabled \in [Automations -> BOOLEAN]
    /\ ticking \in BOOLEAN /\ healthy \in BOOLEAN
    /\ todo \subseteq [of : Automations, at : Time, run : BOOLEAN]
    /\ decisions \in [Automations -> [Time -> Nat]]
    /\ ran \subseteq [of : Automations, at : Time, when : Time]
    /\ upsets \in 0 .. MaxUpsets

(* An occurrence is decided once, however many ticks look at its window:   *)
(* after a failed write, after a tick whose heartbeat was not written, and *)
(* after a crash in the middle of a tick.                                  *)
DecidedOnce == \A a \in Automations, t \in Time : decisions[a][t] <= 1

(* What the scheduler takes as done, in memory or for the next boot in the *)
(* heartbeat, it has decided: every occurrence of an enabled automation    *)
(* since its last edit, but those the cap and the look-back leave out.     *)
NoneForgotten ==
    \A a \in Automations : enabled[a] =>
        \A t \in Occurrences(a) :
            owed[a] < t /\ t <= Max({IF ~ticking THEN lastTick ELSE None, heartbeat}) =>
                \/ decisions[a][t] = 1
                \/ Cardinality({u \in Occurrences(a) : u > t /\ decisions[a][u] = 1}) >= Cap
                \/ now + 1 - t >= Lookback

(* An automation whose policy skips missed runs never runs an occurrence   *)
(* as late as a downtime: not after one, nor when ticks failed for longer. *)
NoStaleRun ==
    \A r \in ran : r.of \notin RunLatest => r.when - r.at < GapMin
=============================================================================
