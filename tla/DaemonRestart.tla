--------------------------- MODULE DaemonRestart ---------------------------
(***************************************************************************)
(* One daemon after another on one port and one pid file.                  *)
(*                                                                         *)
(* Models packages/cli/src: `localterm start`, `stop` and `restart`        *)
(* (commands/start.ts, stop.ts, restart.ts), the daemon they spawn, its    *)
(* bind, its pid file (state.ts) and its shutdown on a signal              *)
(* (commands/start.ts over stop() of packages/server/src/index.ts).  The   *)
(* pid, port and host files are written and removed together and are one   *)
(* variable; every daemon asks for the same port; no service manager.      *)
(* Time passes in seconds.  What has a deadline happens before it, and     *)
(* what is polled every 100 or 200 ms happens within the second.  The pid  *)
(* of a living daemon is verified as localterm's, and a daemon handles its *)
(* signals and timers: the SIGKILL of one that is still there after five   *)
(* seconds, two after its forced exit, is left out.                        *)
(***************************************************************************)
EXTENDS Naturals

CONSTANTS
    MaxDaemons,  \* bound: daemons spawned; a daemon is its pid
    Force,       \* FORCE_EXIT_TIMEOUT_MS
    BindRetry,   \* RESTART_BIND_RETRY_MAX_MS
    ProbeWait,   \* DAEMON_PROBE_MAX_WAIT_MS
    BootTime     \* what a preflight, a bind, or ps to verify a pid takes

VARIABLES
    phase,    \* what each daemon does
    age,      \* how long it has booted, retried or been stopping
    file,     \* the pid file: a daemon, or None
    victim,   \* the pid that the runStop() of a daemon's start has read
    cli,      \* the command that runs and how it goes on
    outcome   \* how the last command ended

vars == <<phase, age, file, victim, cli, outcome>>

None == 0
Daemons == 1 .. MaxDaemons
Commands == {"start", "stop", "restart"}
Idle == [op |-> "none", step |-> "none", old |-> None, child |-> None,
         recorded |-> FALSE, waited |-> 0]

(* "starting": it listens and is recorded, and has no signal handler yet.  *)
(* "closing": it listens no more and waits for its connections to end.     *)
Alive(d) == d # None /\ phase[d] \notin {"unused", "gone"}
Listens(d) == phase[d] \in {"starting", "serving", "stopping"}
PortTaken == \E d \in Daemons : Listens(d)

-----------------------------------------------------------------------------
(* A daemon *)

(* runStartPreflight(), which a restarted daemon does without: a start's   *)
(* child gives up while a living daemon is recorded.                       *)
Preflight(d) ==
    /\ phase[d] = "boot"
    /\ phase' = [phase EXCEPT ![d] = IF Alive(file) THEN "gone" ELSE "binding"]
    /\ file' = IF Alive(file) THEN file ELSE None
    /\ age' = [age EXCEPT ![d] = 0]
    /\ UNCHANGED <<victim, cli, outcome>>

Binding == {"bootRestarted", "retrying", "binding", "rebinding"}

(* createServer() and writePid() *)
Binds(d) ==
    /\ phase[d] \in Binding /\ ~PortTaken
    /\ phase' = [phase EXCEPT ![d] = "starting"]
    /\ file' = d
    /\ age' = [age EXCEPT ![d] = 0]
    /\ UNCHANGED <<victim, cli, outcome>>

(* EADDRINUSE.  A restarted daemon retries for a time; any other stops     *)
(* what is recorded by now, with a runStop() that begins with readPid(),   *)
(* and binds once more.                                                    *)
PortInUse(d) ==
    /\ PortTaken
    /\ phase[d] \in Binding /\ (phase[d] = "retrying" => age[d] = BindRetry)
    /\ phase' = [phase EXCEPT ![d] = CASE @ = "bootRestarted" -> "retrying"
                                       [] @ = "binding" /\ file # None -> "checking"
                                       [] @ = "binding" /\ file = None -> "rebinding"
                                       [] OTHER -> "gone"]
    /\ victim' = IF phase[d] = "binding" THEN [victim EXCEPT ![d] = file] ELSE victim
    /\ age' = [age EXCEPT ![d] = 0]
    /\ UNCHANGED <<file, cli, outcome>>

(* The URLs are resolved and the handlers installed. *)
HandlesSignals(d) ==
    /\ phase[d] = "starting"
    /\ phase' = [phase EXCEPT ![d] = "serving"]
    /\ UNCHANGED <<age, file, victim, cli, outcome>>

(* SIGTERM to v: without a handler the process ends as it is, the first    *)
(* one begins the shutdown, the second ends it.  What has sent it goes on. *)
Signalled(v, sent) ==
    /\ phase' = [sent EXCEPT ![v] = IF @ = "serving" THEN "stopping" ELSE "gone"]
    /\ file' = IF phase[v] \in {"stopping", "closing"} THEN None ELSE file
    /\ age' = [age EXCEPT ![v] = 0]

(* The pid that a runStop() has read turns out to be dead: before its      *)
(* isAlive(), and the file is removed, or after, and it is left.           *)
FoundDead == file' \in {None, file}

(* The runStop() of a daemon's start: the SIGTERM, or nobody to send it to.*)
Evicts(d) ==
    /\ phase[d] = "checking"
    /\ \/ /\ Alive(victim[d])
          /\ Signalled(victim[d], [phase EXCEPT ![d] = "awaiting"])
       \/ /\ ~Alive(victim[d])
          /\ phase' = [phase EXCEPT ![d] = "rebinding"]
          /\ age' = [age EXCEPT ![d] = 0]
          /\ FoundDead
    /\ UNCHANGED <<victim, cli, outcome>>

(* Its end, clearPid(), once its victim is dead. *)
Evicted(d) ==
    /\ phase[d] = "awaiting" /\ ~Alive(victim[d])
    /\ phase' = [phase EXCEPT ![d] = "rebinding"]
    /\ age' = [age EXCEPT ![d] = 0]
    /\ file' = None
    /\ UNCHANGED <<victim, cli, outcome>>

(* stop() has saved the sessions and closes the listening socket. *)
Closes(d) ==
    /\ phase[d] = "stopping"
    /\ phase' = [phase EXCEPT ![d] = "closing"]
    /\ UNCHANGED <<age, file, victim, cli, outcome>>

(* Mutation: nothing ends a stop() that takes too long. *)
OverdueOnceClosed(d) == phase[d] = "closing" /\ age[d] >= Force

(* The forceExit timer is due. *)
Overdue(d) == phase[d] \in {"stopping", "closing"} /\ age[d] >= Force

(* stop() has ended, or the time for it: clearPid() and exit. *)
Exits(d) ==
    /\ phase[d] = "closing" \/ Overdue(d)
    /\ phase' = [phase EXCEPT ![d] = "gone"]
    /\ file' = None
    /\ UNCHANGED <<age, victim, cli, outcome>>

-----------------------------------------------------------------------------
(* A command *)

Ends(result) ==
    /\ cli' = Idle
    /\ outcome' = [op |-> cli.op, result |-> result]

Spawned(d, op) ==
    /\ phase[d] = "unused" /\ \A e \in Daemons : e < d => phase[e] # "unused"
    /\ phase' = [phase EXCEPT ![d] = IF op = "restart" THEN "bootRestarted" ELSE "boot"]

(* runStartAsDaemon(): the preflight refuses while a daemon is recorded.   *)
Start ==
    /\ cli = Idle
    /\ IF Alive(file)
       THEN /\ outcome' = [op |-> "start", result |-> "running"]
            /\ UNCHANGED <<phase, file, cli>>
       ELSE /\ file' = None /\ UNCHANGED outcome
            /\ \E d \in Daemons :
                  /\ Spawned(d, "start")
                  /\ cli' = [Idle EXCEPT !.op = "start", !.step = "probing", !.child = d]
    /\ UNCHANGED <<age, victim>>

Restart ==
    /\ cli = Idle
    /\ \E d \in Daemons :
          /\ Spawned(d, "restart")
          /\ cli' = [Idle EXCEPT !.op = "restart", !.old = file, !.child = d,
                                 !.recorded = file # None,
                                 !.step = IF file = None THEN "probing" ELSE "verifying"]
    /\ UNCHANGED <<age, file, victim, outcome>>

Stop ==
    /\ cli = Idle
    /\ IF file # None
       THEN /\ cli' = [Idle EXCEPT !.op = "stop", !.step = "verifying", !.old = file]
            /\ UNCHANGED outcome
       ELSE /\ UNCHANGED cli
            /\ outcome' = [op |-> "stop", result |-> "ok"]
    /\ UNCHANGED <<phase, age, file, victim>>

Probes == cli' = [cli EXCEPT !.step = "probing", !.waited = 0] /\ UNCHANGED outcome

(* verifyPidIsLocalterm(), then SIGTERM.  A stop has no isAlive() after    *)
(* readPid() until then; a restart never removes the file.                 *)
Verified ==
    /\ cli.step = "verifying"
    /\ \/ /\ Alive(cli.old)
          /\ Signalled(cli.old, phase)
          /\ cli' = [cli EXCEPT !.step = "waiting", !.waited = 0]
          /\ UNCHANGED outcome
       \/ /\ ~Alive(cli.old)
          /\ IF cli.op = "stop" THEN FoundDead /\ Ends("ok")
                                ELSE Probes /\ UNCHANGED file
          /\ UNCHANGED <<phase, age>>
    /\ UNCHANGED victim

(* The old daemon is gone: a stop ends with clearPid(). *)
Waited ==
    /\ cli.step = "waiting" /\ ~Alive(cli.old)
    /\ IF cli.op = "stop" THEN file' = None /\ Ends("ok")
                          ELSE Probes /\ UNCHANGED file
    /\ UNCHANGED <<phase, age, victim>>

(* pollForDaemonReady(): a port file that was not there before, or the     *)
(* pid of the child and a healthy answer, count as ready.                  *)
Ready ==
    /\ file # None
    /\ ~cli.recorded \/ (file = cli.child /\ Listens(cli.child))
Probe ==
    /\ cli.step = "probing"
    /\ \/ ~Alive(cli.child) /\ Ends("died")
       \/ Alive(cli.child) /\ Ready /\ Ends("ok")
       \/ Alive(cli.child) /\ ~Ready /\ cli.waited = ProbeWait /\ Ends("timeout")
    /\ UNCHANGED <<phase, age, file, victim>>

(* The command is broken off; what it spawned or signalled goes on. *)
Interrupt ==
    /\ cli # Idle
    /\ Ends("interrupted")
    /\ UNCHANGED <<phase, age, file, victim>>

-----------------------------------------------------------------------------

Booting == {"boot", "bootRestarted", "binding", "checking", "rebinding"}
Timed == Booting \cup {"retrying", "stopping", "closing"}

(* What does not wait for the next second. *)
Due ==
    \/ \E d \in Daemons :
          \/ phase[d] \in Booting /\ age[d] = BootTime
          \/ phase[d] = "awaiting" /\ ~Alive(victim[d])
          \/ phase[d] = "retrying" /\ (~PortTaken \/ age[d] = BindRetry)
          \/ Overdue(d)
    \/ cli.step = "verifying" /\ cli.waited = BootTime
    \/ cli.step = "waiting" /\ ~Alive(cli.old)
    \/ cli.step = "probing" /\ (~Alive(cli.child) \/ Ready \/ cli.waited = ProbeWait)

Second ==
    /\ ~Due
    /\ cli # Idle \/ \E d \in Daemons : phase[d] \in Timed
    /\ age' = [d \in Daemons |-> IF phase[d] \in Timed THEN age[d] + 1 ELSE 0]
    /\ cli' = IF cli = Idle THEN cli ELSE [cli EXCEPT !.waited = @ + 1]
    /\ UNCHANGED <<phase, file, victim, outcome>>

Init ==
    /\ phase = [d \in Daemons |-> "unused"]
    /\ age = [d \in Daemons |-> 0]
    /\ victim = [d \in Daemons |-> None]
    /\ file = None /\ cli = Idle
    /\ outcome = [op |-> "none", result |-> "none"]

Next ==
    \/ \E d \in Daemons : Preflight(d)
    \/ \E d \in Daemons : Binds(d)
    \/ \E d \in Daemons : PortInUse(d)
    \/ \E d \in Daemons : Evicts(d)
    \/ \E d \in Daemons : Evicted(d)
    \/ \E d \in Daemons : HandlesSignals(d)
    \/ \E d \in Daemons : Closes(d)
    \/ \E d \in Daemons : Exits(d)
    \/ Start
    \/ Restart
    \/ Stop
    \/ Verified
    \/ Waited
    \/ Probe
    \/ Interrupt
    \/ Second

Spec == Init /\ [][Next]_vars

-----------------------------------------------------------------------------
(* Properties *)

(* Every variable has its type. *)
TypeOK ==
    /\ phase \in [Daemons -> Timed \cup {"unused", "awaiting", "starting", "serving",
                                         "gone"}]
    /\ age \in [Daemons -> 0 .. BindRetry]
    /\ file \in Daemons \cup {None} /\ victim \in [Daemons -> Daemons \cup {None}]
    /\ cli.op \in Commands \cup {"none"} /\ {cli.old, cli.child} \subseteq Daemons \cup {None}
    /\ cli.waited \in 0 .. ProbeWait
    /\ outcome.op \in Commands \cup {"none"}

Serves == \E d \in Daemons : phase[d] \in {"starting", "serving"}

(* A start's child has signalled the daemon it takes over from, or found   *)
(* it dead, and has its second bind ahead.                                 *)
TakesOver == \E d \in Daemons : phase[d] \in {"awaiting", "rebinding"}

(* A restart that is not broken off leaves a daemon that serves, also when *)
(* the old one hangs in its shutdown and whatever was broken off before:   *)
(* the old daemon exits before the new one stops trying to bind.  And no   *)
(* command reports a daemon that is not there.  The one exception is the   *)
(* child of a start that was broken off: when its port turns out to be     *)
(* taken it stops the daemon that was reported, and then nobody serves     *)
(* until its own second bind.                                              *)
RestartServes ==
    /\ cli = Idle
    /\ \/ outcome.op = "restart" /\ outcome.result # "interrupted"
       \/ outcome.op = "start" /\ outcome.result = "ok"
    => Serves \/ TakesOver

(* errors.ts has a command that gave up waiting say that its daemon did    *)
(* not bind a port: none serves then, with or without a pid file.          *)
TimeoutIsTrue ==
    cli = Idle /\ outcome.op = "restart" /\ outcome.result = "timeout" => ~Serves
=============================================================================
