------------------------------ MODULE AgentRun ------------------------------
(***************************************************************************)
(* The process an agent runs in, and how the daemon gets rid of it.        *)
(*                                                                         *)
(* Models packages/server/src/agent-runner.ts with pi-rpc-client.ts and    *)
(* launchAgentRun() of index.ts: one run or one compaction, by pi or by a  *)
(* command of the user's, from its spawn until its promise settles.  The   *)
(* child leads a process group if it is a run; what it starts stays in the *)
(* group, may outlive it, and may hold its pipes.  A process ends when it  *)
(* likes: SIGTERM and the end of its input ask, and only SIGKILL makes it. *)
(* Time counts for the forced kill; the other deadlines, like the end of   *)
(* what the agent has to say, may come at any moment.  The transcript and  *)
(* the result are left out.                                                *)
(***************************************************************************)
EXTENDS Naturals

CONSTANT Delay  \* AUTOMATION_AGENT_FORCE_KILL_DELAY_MS

VARIABLES
    job,      \* "run" or "compact"
    harness,  \* "pi" or "custom"
    leader,   \* the child: "none", "failed", "runs", "dead", or "reaped" by Node
    rest,     \* its descendants: "none", "quiet", or "holding" its pipes
    drained,  \* the child's "close" event has come
    work,     \* the job: "waits", "works", "closes" or "settled"
    stopped,  \* closeChildProcess() was called
    closing,  \* closeChildProcess(): its flags, and what its timer has left
    aborted   \* request.signal.aborted

process == <<leader, rest, drained>>
request == <<job, harness, aborted>>
vars == <<job, harness, process, work, stopped, closing, aborted>>

Off == Delay + 1
NotClosing == [on |-> FALSE, exited |-> FALSE, forced |-> FALSE, left |-> Off]

HasExited == leader = "reaped"

(* groupExists(): a dead leader nobody has waited for still counts. *)
Grouped == job = "run"
GroupExists == Grouped /\ (leader \in {"runs", "dead"} \/ rest # "none")

(* finish(), and who awaits it. *)
Finish ==
    /\ closing' = NotClosing
    /\ work' = IF work = "closes" THEN "settled" ELSE work

(* closeChildProcess(); the job waits for its end, but for a compaction by *)
(* pi, which does not.                                                     *)
BeginClose(waits) ==
    /\ stopped' = TRUE
    /\ IF HasExited /\ ~GroupExists
       THEN closing' = NotClosing /\ work' = "settled"
       ELSE /\ closing' = [on |-> TRUE, exited |-> HasExited, forced |-> FALSE,
                           left |-> Delay]
            /\ work' = IF waits THEN "closes" ELSE "settled"

(* Mutation: the end of the shell is taken for the end of its group. *)
OnExitOfLeader(exists) ==
    IF closing.on THEN Finish ELSE UNCHANGED <<closing, work>>

(* onExit(), on "exit" and on "close": the group may live on. *)
OnExit(exists) ==
    IF closing.on /\ (closing.forced \/ ~exists) THEN Finish
    ELSE /\ closing' = [closing EXCEPT !.exited = @ \/ closing.on]
         /\ UNCHANGED work

-----------------------------------------------------------------------------
(* The processes *)

Forks ==
    /\ leader = "runs" /\ rest = "none"
    /\ rest' \in {"quiet", "holding"}
    /\ UNCHANGED <<request, leader, drained, work, stopped, closing>>

RestEnds ==
    /\ rest # "none" /\ rest' = "none"
    /\ UNCHANGED <<request, leader, drained, work, stopped, closing>>

LeaderEnds ==
    /\ leader = "runs" /\ leader' = "dead"
    /\ UNCHANGED <<request, rest, drained, work, stopped, closing>>

-----------------------------------------------------------------------------
(* Node's events *)

(* The child's "exit" event: Node has waited for it. *)
Exit ==
    /\ leader = "dead" /\ leader' = "reaped"
    /\ OnExit(Grouped /\ rest # "none")
    /\ UNCHANGED <<request, rest, drained, stopped>>

(* The child's "close" event: its pipes are closed too.  A command that    *)
(* nobody stops has come to its exit code.                                 *)
Close ==
    /\ leader = "reaped" /\ rest # "holding" /\ ~drained
    /\ drained' = TRUE
    /\ IF harness = "custom" /\ work = "works"
       THEN work' = "settled" /\ UNCHANGED closing
       ELSE OnExit(GroupExists)
    /\ UNCHANGED <<request, leader, rest, stopped>>

(* The child's "error" event: it could not be spawned. *)
SpawnFails ==
    /\ leader = "failed" /\ work \in {"works", "closes"}
    /\ IF closing.on THEN Finish ELSE work' = "settled" /\ UNCHANGED closing
    /\ UNCHANGED <<request, process, stopped>>

(* Mutation: after SIGKILL the last event is waited for, come or not. *)
ForcedWaits ==
    /\ closing' = [closing EXCEPT !.forced = TRUE, !.left = Off]
    /\ UNCHANGED work

(* Who is reaped already is not waited for. *)
Forced == IF closing.exited \/ HasExited THEN Finish
          ELSE /\ closing' = [closing EXCEPT !.forced = TRUE, !.left = Off]
               /\ UNCHANGED work

(* Mutation: the forced kill is for the child alone. *)
ForceKillLeader ==
    /\ closing.on /\ closing.left = 0
    /\ leader' = IF leader = "runs" THEN "dead" ELSE leader
    /\ Forced
    /\ UNCHANGED <<request, rest, drained, stopped>>

(* forceKillTimer: SIGKILL for the group, or the child if it has none. *)
ForceKill ==
    /\ closing.on /\ closing.left = 0
    /\ leader' = IF leader = "runs" THEN "dead" ELSE leader
    /\ rest' = IF Grouped THEN "none" ELSE rest
    /\ Forced
    /\ UNCHANGED <<request, drained, stopped>>

Elapse ==
    /\ closing.left \in 1 .. Delay
    /\ closing' = [closing EXCEPT !.left = @ - 1]
    /\ UNCHANGED <<request, process, work, stopped>>

-----------------------------------------------------------------------------
(* The job *)

(* The secrets are there: runAgent() spawns the child, unless it is too    *)
(* late for that.                                                          *)
Begins ==
    /\ work = "waits"
    /\ IF aborted THEN work' = "settled" /\ UNCHANGED leader
       ELSE work' = "works" /\ leader' \in {"runs", "failed"}
    /\ UNCHANGED <<request, rest, drained, stopped, closing>>

(* There is nothing to spawn: no pi on the PATH, or no compact command. *)
Refuses ==
    /\ work = "waits" /\ ~aborted /\ (harness = "pi" \/ job = "compact")
    /\ work' = "settled"
    /\ UNCHANGED <<request, process, stopped, closing>>

(* The loop of runPi() or compactPi() has come to its end: by what the     *)
(* agent said, by a closed client, a rejected command or the deadline.     *)
Concludes ==
    /\ harness = "pi" /\ work = "works" /\ leader # "failed"
    /\ BeginClose(job = "run")
    /\ UNCHANGED <<request, process>>

(* The time of a command of the user's is over: stop(). *)
TimesOut ==
    /\ harness = "custom" /\ job = "run" /\ work = "works" /\ leader # "failed"
    /\ BeginClose(TRUE)
    /\ UNCHANGED <<request, process>>

(* A compaction's command is killed, and its "close" awaited; what it has  *)
(* started is not killed with it.                                          *)
CompactTimesOut ==
    /\ harness = "custom" /\ job = "compact" /\ work = "works" /\ leader = "runs"
    /\ leader' = "dead"
    /\ UNCHANGED <<request, rest, drained, work, stopped, closing>>

(* controller.abort() by stop(), with the listener of the harness; who is  *)
(* closing already goes on with that.                                      *)
Abort ==
    /\ job = "run" /\ ~aborted /\ work # "settled"
    /\ aborted' = TRUE
    /\ IF work = "works" THEN BeginClose(TRUE)
       ELSE UNCHANGED <<work, stopped, closing>>
    /\ UNCHANGED <<job, harness, process>>

-----------------------------------------------------------------------------

Init ==
    /\ job \in {"run", "compact"} /\ harness \in {"pi", "custom"}
    /\ leader = "none" /\ rest = "none" /\ drained = FALSE
    /\ work = "waits" /\ stopped = FALSE /\ closing = NotClosing /\ aborted = FALSE

Next ==
    \/ Forks
    \/ RestEnds
    \/ LeaderEnds
    \/ Exit
    \/ Close
    \/ SpawnFails
    \/ ForceKill
    \/ Elapse
    \/ Begins
    \/ Refuses
    \/ Concludes
    \/ TimesOut
    \/ CompactTimesOut
    \/ Abort

(* Node delivers its events and its timers fire; no process need ever end. *)
Fairness ==
    /\ WF_vars(Exit) /\ WF_vars(Close) /\ WF_vars(SpawnFails)
    /\ WF_vars(ForceKill) /\ WF_vars(Elapse) /\ WF_vars(Begins)
    /\ WF_vars(Concludes) /\ WF_vars(TimesOut) /\ WF_vars(CompactTimesOut)

Spec == Init /\ [][Next]_vars /\ Fairness

-----------------------------------------------------------------------------
(* Properties *)

(* Every variable has its type. *)
TypeOK ==
    /\ job \in {"run", "compact"} /\ harness \in {"pi", "custom"}
    /\ leader \in {"none", "failed", "runs", "dead", "reaped"}
    /\ rest \in {"none", "quiet", "holding"}
    /\ work \in {"waits", "works", "closes", "settled"}
    /\ closing \in [on : BOOLEAN, exited : BOOLEAN, forced : BOOLEAN, left : 0 .. Off]
    /\ {drained, stopped, aborted} \subseteq BOOLEAN

(* When a run has settled that was stopped, as every run of pi's is in the *)
(* end, nothing of its process group is left: the thread's next run, which *)
(* takes the same session file, does not meet it, not even when the shell  *)
(* ends on SIGTERM and what it has started does not.                       *)
SettledIsGone == job = "run" /\ work = "settled" /\ stopped => ~GroupExists

(* Every run settles, whatever its processes do with SIGTERM, the end of   *)
(* their input and their pipes; and so does every compaction but one whose *)
(* descendant keeps a pipe open, since compactCustom() awaits "close".     *)
JobSettles == <>[](work = "settled" \/ (job = "compact" /\ rest = "holding"))
=============================================================================
