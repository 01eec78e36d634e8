-------------------------- MODULE OutputBackpressure --------------------------
(***************************************************************************)
(* Flow control of one session's output                                    *)
(* (packages/server/src/session-output-coordinator.ts): the queue that     *)
(* keeps chunks in order while referenced kitty files are read, and the    *)
(* pausing of the PTY while that queue, the capture renderer or a viewer   *)
(* is backed up.  Nothing but a poll resumes the PTY, and a queue that     *)
(* stalls because of a consumer is continued by the same poll, so a lost   *)
(* wakeup would freeze the terminal.                                       *)
(*                                                                         *)
(* Sizes are in units of which HighWater make a backlog and LowWater are   *)
(* the level at which the PTY goes on.  Pending viewers do not count; a    *)
(* viewer comes when its promotion sends it the replay and what was held.  *)
(***************************************************************************)
EXTENDS Integers, Sequences, FiniteSets

CONSTANTS
    Consumer,   \* the live viewers and the capture renderer
    Renderer,   \* the renderer among them, which is fed before the batch
    MaxChunks,  \* bound: chunks the PTY emits
    MaxJoins,   \* bound: arrivals of consumers
    HighWater,  \* WS_OUTBOUND_PAUSE_HIGH_WATER_BYTES
    LowWater,   \* WS_OUTBOUND_RESUME_LOW_WATER_BYTES
    FlushSize,  \* OUTPUT_BATCH_FLUSH_BYTES
    Replay,     \* what a promotion may send at once
    Expansion   \* what a chunk may expand to

(* What the constants are. *)
ParametersFit ==
    /\ {MaxChunks, MaxJoins, HighWater, LowWater, FlushSize, Replay,
        Expansion} \subseteq Nat \ {0}
    /\ LowWater < HighWater /\ Renderer \in Consumer

VARIABLES
    next,     \* the last chunk the PTY emitted
    queue,    \* queue.pending: the chunks, in order
    reading,  \* the active entry whose files are being read, 0 for none
    settling, \* the active entry that was output and awaits its tasks
    bytes,    \* queue.bytes: one unit per queued or active chunk
    out,      \* history: the chunks that were output
    lost,     \* history: the chunks whose expansion failed
    batch,    \* the size of outputBatch
    backlog,  \* what each consumer has yet to take
    present,  \* the consumers that are attached
    paused,   \* session.isPaused
    poll,     \* drainPollTimer is armed
    disposed, \* the session was torn down
    joins     \* bound: arrivals so far

entries == <<queue, reading, settling, bytes>>
load == <<batch, backlog>>
flow == <<paused, poll>>
vars == <<next, entries, out, lost, load, present, flow, disposed, joins>>

Active == reading # 0 \/ settling # 0

-----------------------------------------------------------------------------
(* Pausing.                                                                *)

(* Mutation: only the renderer is looked at. *)
BackloggedRenderer(b) == b[Renderer] >= HighWater

(* downstreamBacklogged; those that are gone have no backlog. *)
Backlogged(b) == \E c \in Consumer : b[c] >= HighWater

(* maybePauseForBacklog, which pause() and ensureDrainPoll() end. *)
MaybePause(n, b) ==
    LET over == n >= HighWater \/ Backlogged(b)
    IN  /\ paused' = (paused \/ over)
        /\ poll' = (poll \/ over)

(* Mutation: a stalled queue leaves the pausing to somebody else. *)
DrainUnwatched(q, n, b) ==
    IF q = <<>> \/ Backlogged(b)
    THEN /\ queue' = q /\ reading' = 0
         /\ UNCHANGED flow
    ELSE /\ queue' = Tail(q) /\ reading' = Head(q)
         /\ UNCHANGED flow

(* drainOutputQueue of an inactive queue q: the next entry is read unless  *)
(* a consumer is backed up, in which case the PTY is paused and polled.    *)
(* It is n, the charge, that pauses it when a chunk is admitted; when an   *)
(* entry is settled the charge is below HighWater.                         *)
Drain(q, n, b) ==
    CASE q # <<>> /\ Backlogged(b) ->
           queue' = q /\ reading' = 0 /\ MaybePause(n, b)
      [] q # <<>> /\ ~Backlogged(b) ->
           queue' = Tail(q) /\ reading' = Head(q) /\ MaybePause(n, b)
      [] OTHER -> queue' = q /\ reading' = 0 /\ UNCHANGED flow

-----------------------------------------------------------------------------
(* Output.                                                                 *)

(* processScannedOutput of size units: the renderer takes them at once,    *)
(* the viewers when the batch is flushed: because it is full, or because   *)
(* a synchronized update ends.                                             *)
Deliver(n, size, ends) ==
    LET flushes == batch + size >= FlushSize \/ (ends /\ size > 0)
        fed == [backlog EXCEPT ![Renderer] =
                  IF Renderer \in present THEN @ + size ELSE @]
    IN  /\ batch' = IF flushes THEN 0 ELSE batch + size
        /\ backlog' = [c \in Consumer |->
             IF flushes /\ c \in present \ {Renderer}
             THEN fed[c] + batch + size ELSE fed[c]]
        /\ MaybePause(n, backlog')

(* Mutation: a chunk without files does not wait for the queue. *)
OvertakesQueue(hasFile) == hasFile

(* A chunk goes through the queue if it references files or if others are  *)
(* still there.                                                            *)
Queues(hasFile) == hasFile \/ Active \/ queue # <<>>

(* onSessionOutput without a queue. *)
PlainChunk(ends) ==
    /\ ~disposed /\ ~paused /\ next < MaxChunks /\ ~Queues(FALSE)
    /\ next' = next + 1
    /\ out' = Append(out, next')
    /\ Deliver(bytes, 1, ends)
    /\ UNCHANGED <<entries, lost, present, disposed, joins>>

(* onSessionOutput through the queue: charged on admission, the PTY paused *)
(* if that is too much, and the queue drained unless an entry is active.   *)
QueuedChunk(hasFile) ==
    /\ ~disposed /\ ~paused /\ next < MaxChunks /\ Queues(hasFile)
    /\ next' = next + 1
    /\ bytes' = bytes + 1
    /\ IF Active THEN /\ queue' = Append(queue, next')
                      /\ MaybePause(bytes', backlog)
                      /\ UNCHANGED reading
       ELSE Drain(Append(queue, next'), bytes', backlog)
    /\ UNCHANGED <<settling, out, lost, load, present, disposed, joins>>

(* The files of the active entry were read: it is output. *)
ReadDone(size, ends) ==
    /\ ~disposed /\ reading # 0
    /\ out' = Append(out, reading)
    /\ settling' = reading /\ reading' = 0
    /\ Deliver(bytes, size, ends)
    /\ UNCHANGED <<next, queue, bytes, lost, present, disposed, joins>>

(* Mutation: the entry's charge is not returned. *)
SettleCharged(n) == /\ bytes' = bytes
                    /\ settling' = 0
                    /\ Drain(queue, bytes', backlog)

(* The finally of drainOutputQueue. *)
Settle(n) == /\ bytes' = bytes - 1
             /\ settling' = 0
             /\ Drain(queue, bytes', backlog)

(* The probes and frames of the entry that was output are done. *)
TasksDone ==
    /\ ~disposed /\ settling # 0
    /\ Settle(settling)
    /\ UNCHANGED <<next, out, lost, load, present, disposed, joins>>

(* Expanding the active entry fails: it is reported and dropped. *)
ReadFails ==
    /\ ~disposed /\ reading # 0
    /\ lost' = lost \cup {reading}
    /\ Settle(reading)
    /\ UNCHANGED <<next, out, load, present, disposed, joins>>

(* The timer of scheduleOutputBatchFlush. *)
BatchTimer ==
    /\ ~disposed /\ batch > 0
    /\ batch' = 0
    /\ backlog' = [c \in Consumer |-> IF c \in present \ {Renderer}
                                      THEN backlog[c] + batch ELSE backlog[c]]
    /\ MaybePause(bytes, backlog')
    /\ UNCHANGED <<next, entries, out, lost, present, disposed, joins>>

-----------------------------------------------------------------------------
(* The poll, the consumers and the end.                                    *)

(* The queue as the poll leaves it, and the levels it then looks at. *)
AllLow == bytes <= LowWater /\ \A c \in Consumer : backlog[c] <= LowWater

(* Mutation: the poll only watches the levels. *)
PollWatching ==
    /\ poll
    /\ paused' = (paused /\ ~AllLow)
    /\ poll' = paused'
    /\ UNCHANGED <<next, entries, out, lost, load, present, disposed, joins>>

(* The interval of ensureDrainPoll: drain the queue, then resume the PTY   *)
(* if all is low.                                                          *)
Poll ==
    /\ poll
    /\ IF paused /\ ~Active /\ queue # <<>> /\ ~Backlogged(backlog)
       THEN queue' = Tail(queue) /\ reading' = Head(queue)
       ELSE UNCHANGED <<queue, reading>>
    /\ paused' = (paused /\ ~AllLow)
    /\ poll' = paused'
    /\ UNCHANGED <<next, settling, bytes, out, lost, load, present, disposed,
                   joins>>

(* A viewer is promoted, or a renderer is attached and fed the replay. *)
Join(c, size) ==
    /\ ~disposed /\ c \notin present /\ joins < MaxJoins
    /\ present' = present \cup {c}
    /\ backlog' = [backlog EXCEPT ![c] = size]
    /\ joins' = joins + 1
    /\ UNCHANGED <<next, entries, out, lost, batch, flow, disposed>>

Leave(c) ==
    /\ c \in present
    /\ present' = present \ {c}
    /\ backlog' = [backlog EXCEPT ![c] = 0]
    /\ UNCHANGED <<next, entries, out, lost, batch, flow, disposed, joins>>

(* The socket's buffer or the parser of the renderer advances. *)
Take(c) ==
    /\ backlog[c] > 0
    /\ backlog' = [backlog EXCEPT ![c] = @ - 1]
    /\ UNCHANGED <<next, entries, out, lost, batch, present, flow, disposed,
                   joins>>

(* disposeSession: the queue, the batch and both timers go; an active      *)
(* entry finds the queue disposed and changes nothing.                     *)
Dispose ==
    /\ ~disposed /\ disposed' = TRUE
    /\ queue' = <<>> /\ reading' = 0 /\ settling' = 0 /\ bytes' = 0
    /\ batch' = 0 /\ poll' = FALSE
    /\ present' = {} /\ backlog' = [c \in Consumer |-> 0]
    /\ UNCHANGED <<next, out, lost, paused, joins>>

Init ==
    /\ next = 0 /\ queue = <<>> /\ reading = 0 /\ settling = 0 /\ bytes = 0
    /\ out = <<>> /\ lost = {} /\ batch = 0 /\ present = {}
    /\ backlog = [c \in Consumer |-> 0] /\ paused = FALSE /\ poll = FALSE
    /\ disposed = FALSE /\ joins = 0

Next ==
    \/ \E ends \in BOOLEAN : PlainChunk(ends)
    \/ \E hasFile \in BOOLEAN : QueuedChunk(hasFile)
    \/ \E size \in 0 .. Expansion, ends \in BOOLEAN : ReadDone(size, ends)
    \/ TasksDone
    \/ ReadFails
    \/ BatchTimer
    \/ Poll
    \/ \E c \in Consumer : \/ \E size \in 0 .. Replay : Join(c, size)
                           \/ Leave(c)
                           \/ Take(c)
    \/ Dispose

Spec == Init /\ [][Next]_vars

(* Reads and tasks complete, timers fire, and consumers take what they are *)
(* given: one that stalls for ever stalls the session with it until it is  *)
(* closed.                                                                 *)
Fairness ==
    /\ WF_vars(TasksDone) /\ WF_vars(BatchTimer) /\ WF_vars(Poll)
    /\ WF_vars(\E size \in 0 .. Expansion, ends \in BOOLEAN :
                 ReadDone(size, ends))
    /\ \A c \in Consumer : WF_vars(Take(c))

FairSpec == Spec /\ Fairness

-----------------------------------------------------------------------------
(* Correctness.                                                            *)

(* Every variable has its type, and the charge of the queue is the number  *)
(* of the chunks that are in it.                                           *)
TypeOK ==
    /\ next \in 0 .. MaxChunks /\ joins \in 0 .. MaxJoins
    /\ {reading, settling} \subseteq 0 .. next /\ 0 \in {reading, settling}
    /\ queue \in Seq(1 .. next) /\ out \in Seq(1 .. next)
    /\ lost \subseteq 1 .. next
    /\ batch \in 0 .. FlushSize - 1
    /\ backlog \in [Consumer -> Nat] /\ present \subseteq Consumer
    /\ {paused, poll, disposed} \subseteq BOOLEAN
    /\ bytes = Len(queue) + (IF Active THEN 1 ELSE 0)

(* Output keeps its order whatever the file reads are doing: a chunk is    *)
(* output once, after all the chunks before it, and until the session ends *)
(* a chunk that was neither output nor reported is in the queue.           *)
OrderKept ==
    /\ \A i \in 1 .. Len(out) - 1 : out[i] < out[i + 1]
    /\ disposed \/ 1 .. next = lost \cup {out[i] : i \in DOMAIN out}
                                \cup {queue[i] : i \in DOMAIN queue}
                                \cup ({reading} \ {0})

(* No wakeup is lost: while the PTY is paused, or entries wait and none is *)
(* being read, the poll that will go on with them is armed.                *)
StallIsWatched ==
    ~disposed /\ (paused \/ (queue # <<>> /\ ~Active)) => poll /\ paused

(* What a consumer is to take, the viewers' batch included, and how much    *)
(* that may be when an expansion starts.                                   *)
Owed(c) == backlog[c] + (IF c = Renderer THEN 0 ELSE batch)
Most == (IF Replay < HighWater THEN HighWater - 1 ELSE Replay) + FlushSize - 1

(* Memory is bounded although expansions are large: at most HighWater      *)
(* chunks wait, and no consumer is owed more than the level at which the   *)
(* output stops (or its replay), a batch and one expansion.                *)
MemoryBounded ==
    /\ bytes <= HighWater
    /\ \A c \in Consumer : Owed(c) <= Most + Expansion

(* Whatever the order of reads, polls and consumers: in the end the PTY is  *)
(* not left paused, and every chunk it emitted was output, unless it could *)
(* not be expanded or the session ended first.                             *)
AllIsOut ==
    disposed \/ (~paused /\ 1 .. next \subseteq lost \cup {out[i] : i \in DOMAIN out})
ChunksFlow == <>[]AllIsOut
=============================================================================
