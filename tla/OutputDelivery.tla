--------------------------- MODULE OutputDelivery ---------------------------
(***************************************************************************)
(* The way of PTY output from the shell to one viewer: batching and atomic *)
(* frames (packages/server/src/session-output-coordinator.ts), the pending *)
(* hold, the scrollback replay and the promotion to live fan-out           *)
(* (session-client-hub.ts), and the per-client compressor whose flushes    *)
(* are asynchronous (session-output-transport.ts).  Viewers do not share   *)
(* state on this path, so one viewer, attaching several times, suffices.   *)
(*                                                                         *)
(* Output is a sequence of numbered chunks; a flushed batch is one message *)
(* with the first and last chunk it carries.  promote() awaits nothing but *)
(* microtasks unless the mode is "br-ctx", so in the other modes ("raw"    *)
(* here stands for null, gzip and br) it is one action: the messages of a  *)
(* socket are taken to come one in a turn of the event loop.  In "ctx" it  *)
(* is cut at every await of the encoder, where any other handler may run.  *)
(***************************************************************************)
EXTENDS Integers, Sequences, FiniteSets

CONSTANTS
    MaxChunks,       \* bound: chunks the shell writes
    MaxAttaches,     \* bound: times the viewer attaches
    FlushChunks,     \* OUTPUT_BATCH_FLUSH_BYTES, in chunks
    RingChunks,      \* the scrollback ring, in chunks
    PendingChunks,   \* WS_PENDING_CLIENT_MAX_BYTES, in chunks
    PendingControls  \* WS_PENDING_CLIENT_MAX_CONTROL_MESSAGES

VARIABLES
    alive,     \* the shell runs and the session is in the table
    next,      \* the last chunk the shell wrote
    flushed,   \* the last chunk handed to the transport; the rest is the batch
    burst,     \* idle, burst, or stream: outputBurstStartedAtMs and IsStream
    sync,      \* synchronizedOutputEndDetector.isActive()
    timer,     \* outputBatchTimer is armed
    frameOpen, \* atomicOutputFrameOpen
    client,    \* the ManagedClient record, its encoder and its running promote
    since,     \* history: the last chunk flushed before the viewer attached
    framed,    \* history: the chunks flushed inside an atomic frame
    cutShort,  \* history: input arrived while this viewer's promotion ran
    attaches   \* bound: attachments so far

(* What the constants are. *)
ParametersFit ==
    /\ {MaxChunks, MaxAttaches, RingChunks, PendingChunks} \subseteq Nat
    /\ {FlushChunks, PendingControls} \subseteq Nat \ {0}

session == <<alive, next, flushed, burst, sync, timer, frameOpen>>
vars == <<session, client, since, framed, cutShort, attaches>>

-----------------------------------------------------------------------------
(* Messages and the viewer's record.                                       *)

Note(kind) == [kind |-> kind, from |-> 0, to |-> 0]
Output(m, n) == [kind |-> "output", from |-> m, to |-> n]
ReplayFrame(n) == [kind |-> "replay", from |-> n, to |-> n]

Message == [kind : {"output", "replay", "output-frame-start",
                    "output-frame-end", "compress", "replay-end", "exit",
                    "killed"},
            from : 0 .. MaxChunks, to : 0 .. MaxChunks]

(* open: the socket is OPEN.  wire: what it was sent.  waiting: the auto-    *)
(* promote timer is armed.  encoding: the FIFO of the encoder.  promoting:  *)
(* a promote() is suspended at an await; todo is the replay it has still to *)
(* send, marked that it has sent replay-end, taken how far it has read the  *)
(* pending queue.                                                           *)
NoViewer == [stage |-> "absent", open |-> FALSE, wire |-> <<>>,
             overflowed |-> FALSE, waiting |-> FALSE, mode |-> "raw",
             queue |-> <<>>, encoding |-> <<>>, promoting |-> FALSE,
             todo |-> <<>>, marked |-> FALSE, taken |-> 0]

(* safeSend and sendOutputBytes: a socket that is not OPEN is sent nothing. *)
Send(c, messages) == IF c.open THEN [c EXCEPT !.wire = @ \o messages] ELSE c

ChunksIn(q) == {n \in 1 .. MaxChunks :
                  \E i \in DOMAIN q : /\ q[i].kind = "output"
                                      /\ n \in q[i].from .. q[i].to}
BoundariesIn(q) == {i \in DOMAIN q : q[i].kind # "output"}

Fits(q) == /\ Cardinality(ChunksIn(q)) <= PendingChunks
           /\ Cardinality(BoundariesIn(q)) <= PendingControls

(* Mutation: an overflowing viewer loses its queue but keeps its socket. *)
OverflowKept(c) == [c EXCEPT !.overflowed = TRUE, !.queue = <<>>]

Overflow(c) == [c EXCEPT !.overflowed = TRUE, !.queue = <<>>, !.open = FALSE]

(* Queued for a pending viewer; after an overflow the rest is skipped. *)
Hold(c, messages) ==
    IF c.overflowed \/ messages = <<>> THEN c
    ELSE IF Fits(c.queue \o messages)
         THEN [c EXCEPT !.queue = @ \o messages]
         ELSE Overflow(c)

(* Mutation: a frame boundary is sent past the compressor. *)
BroadcastOvertaking(c, messages) ==
    CASE c.stage = "pending" -> Hold(c, messages)
      [] c.stage = "live" /\ c.mode = "ctx" ->
           [Send(c, SelectSeq(messages, LAMBDA m : m.kind # "output"))
              EXCEPT !.encoding =
                @ \o SelectSeq(messages, LAMBDA m : m.kind = "output")]
      [] c.stage = "live" /\ c.mode = "raw" -> Send(c, messages)
      [] OTHER -> c

(* broadcastBytes and broadcastAtomicOutputFrameBoundary. *)
Broadcast(c, messages) ==
    CASE c.stage = "pending" -> Hold(c, messages)
      [] c.stage = "live" /\ c.mode = "ctx" ->
           [c EXCEPT !.encoding = @ \o messages]
      [] c.stage = "live" /\ c.mode = "raw" -> Send(c, messages)
      [] OTHER -> c

-----------------------------------------------------------------------------
(* The coordinator: batches, bursts and atomic frames.                     *)

(* What a flush up to chunk n broadcasts. *)
Flush(opens, closes, n) ==
    (IF opens /\ ~frameOpen THEN <<Note("output-frame-start")>> ELSE <<>>)
    \o (IF flushed < n THEN <<Output(flushed + 1, n)>> ELSE <<>>)
    \o (IF closes /\ (opens \/ frameOpen)
          THEN <<Note("output-frame-end")>> ELSE <<>>)

(* The same flush as it leaves the coordinator. *)
Flushed(opens, closes, n) ==
    /\ flushed' = n
    /\ frameOpen' = ((frameOpen \/ opens) /\ ~closes)
    /\ framed' = IF opens \/ frameOpen THEN framed \cup (flushed + 1 .. n)
                 ELSE framed

Full(n) == n - flushed >= FlushChunks

(* A chunk that ends a synchronized update is flushed with the batch. *)
EndOfUpdate ==
    LET opens == burst # "stream" /\ Full(next')
    IN  /\ client' = Broadcast(client, Flush(opens, TRUE, next'))
        /\ Flushed(opens, TRUE, next')
        /\ burst' = "idle"
        /\ timer' = FALSE

(* A full batch goes out at once, in a frame unless the burst has become a *)
(* stream; long: it has lasted OUTPUT_STREAM_THRESHOLD_MS.                 *)
FullBatch(long) ==
    LET stream == burst = "stream" \/ (~sync' /\ long)
    IN  /\ long => burst # "idle"
        /\ client' = Broadcast(client, Flush(~stream, stream, next'))
        /\ Flushed(~stream, stream, next')
        /\ burst' = IF stream THEN "stream" ELSE "burst"
        /\ timer' = TRUE

SmallBatch ==
    /\ burst' = IF burst = "idle" THEN "burst" ELSE burst
    /\ timer' = TRUE
    /\ UNCHANGED <<client, flushed, frameOpen, framed>>

(* onSessionOutput of a chunk without kitty file references: the detector  *)
(* may see the start or the end of a synchronized update in it.            *)
Chunk(ended, long) ==
    /\ alive /\ next < MaxChunks
    /\ next' = next + 1
    /\ sync' \in BOOLEAN /\ (sync /\ ~ended => sync')
    /\ CASE ended -> EndOfUpdate /\ ~long
         [] ~ended /\ Full(next') -> FullBatch(long)
         [] OTHER -> SmallBatch /\ ~long
    /\ UNCHANGED <<alive, since, cutShort, attaches>>

(* Mutation: the idle timer flushes but leaves the frame open. *)
BatchTimerOpen ==
    /\ alive /\ timer
    /\ client' = Broadcast(client, Flush(FALSE, FALSE, next))
    /\ flushed' = next
    /\ timer' = FALSE
    /\ burst' = IF sync THEN "stream" ELSE "idle"
    /\ UNCHANGED <<alive, next, sync, frameOpen, since, framed, cutShort,
                   attaches>>

(* Mutation: the timer of scheduleOutputBatchFlush keeps the batch. *)
BatchTimerLost ==
    /\ alive /\ timer
    /\ flushed' = next
    /\ timer' = FALSE
    /\ burst' = IF sync THEN "stream" ELSE "idle"
    /\ UNCHANGED <<alive, next, sync, frameOpen, client, since, framed,
                   cutShort, attaches>>

(* The timer of scheduleOutputBatchFlush: the burst went idle, or the      *)
(* synchronized update ran into its safety timeout.                        *)
BatchTimer ==
    /\ alive /\ timer
    /\ client' = Broadcast(client, Flush(FALSE, TRUE, next))
    /\ Flushed(FALSE, TRUE, next)
    /\ timer' = FALSE
    /\ burst' = IF sync THEN "stream" ELSE "idle"
    /\ UNCHANGED <<alive, next, sync, since, cutShort, attaches>>

-----------------------------------------------------------------------------
(* The viewer: attach, promotion, detach.                                  *)

Attach ==
    /\ alive /\ client.stage = "absent" /\ attaches < MaxAttaches
    /\ client' = [NoViewer EXCEPT
                    !.stage = "pending", !.open = TRUE, !.waiting = TRUE,
                    !.queue = IF frameOpen
                              THEN <<Note("output-frame-start")>> ELSE <<>>]
    /\ since' = flushed /\ cutShort' = FALSE
    /\ attaches' = attaches + 1
    /\ UNCHANGED <<session, framed>>

(* Mutation: the pending queue outlives the promotion. *)
GoLiveKept(c) == [c EXCEPT !.stage = "live"]

GoLive(c) == [c EXCEPT !.stage = "live", !.queue = <<>>]
EndPromote(c) == [c EXCEPT !.promoting = FALSE, !.todo = <<>>,
                           !.marked = FALSE, !.taken = 0]

(* Mutation: replay-end is only sent after a replay. *)
FinishUnmarked(c, todo) ==
    LET replayed == Send(c, todo)
    IN  IF c.overflowed THEN replayed
        ELSE GoLive(Send(replayed,
               (IF todo = <<>> THEN <<>> ELSE <<Note("replay-end")>>) \o c.queue))

(* A promotion of which no await yields: the replay, replay-end, and what  *)
(* was held back.                                                          *)
Finish(c, todo) ==
    LET replayed == Send(c, todo)
    IN  IF c.overflowed THEN replayed
        ELSE GoLive(Send(replayed, <<Note("replay-end")>> \o c.queue))

(* A context-takeover promotion up to its next await of the encoder. *)
Advance(c) ==
    LET d == IF c.marked THEN c
             ELSE [Send(c, <<Note("replay-end")>>) EXCEPT !.marked = TRUE]
    IN  CASE c.todo # <<>> ->
               [c EXCEPT !.encoding = <<Head(c.todo)>>, !.todo = Tail(@)]
          [] c.todo = <<>> /\ ~c.marked /\ c.overflowed -> EndPromote(c)
          [] OTHER ->
               IF d.taken < Len(d.queue)
               THEN [d EXCEPT !.encoding = <<d.queue[d.taken + 1]>>,
                              !.taken = @ + 1]
               ELSE EndPromote(GoLive(d))

(* session.snapshotScrollback(): it holds the unflushed batch too. *)
Snapshot == LET first == IF next > RingChunks THEN next - RingChunks ELSE 0
            IN  [i \in 1 .. next - first |-> ReplayFrame(first + i)]

(* promote(): guards, timer, mode, a fresh encoder, the announcement. *)
CanPromote == client.stage = "pending" /\ ~client.overflowed
Announced(mode) ==
    Send([client EXCEPT !.waiting = FALSE, !.mode = mode, !.encoding = <<>>],
         <<Note("compress")>>)

(* A promotion that awaits no encoder; cutShort is up to the caller. *)
PromoteRaw(todo) ==
    /\ CanPromote
    /\ client' = Finish(Announced("raw"), todo)
    /\ UNCHANGED <<session, since, framed, attaches>>

PromoteCtx(todo) ==
    /\ CanPromote
    /\ client' = Advance([Announced("ctx") EXCEPT !.promoting = TRUE,
                                                  !.todo = todo])
    /\ UNCHANGED <<session, since, framed, attaches>>

(* {type: "ready"}, once per attachment (use-terminal-runtime.ts). *)
Ready(mode, replay) ==
    LET todo == IF replay THEN Snapshot ELSE <<>>
    IN  /\ ~client.promoting
        /\ IF mode = "ctx" THEN PromoteCtx(todo) ELSE PromoteRaw(todo)
        /\ UNCHANGED cutShort

(* Mutation: the auto-promote timer gives up on a viewer that is owed output. *)
PromoteTimeoutIdle ==
    client.waiting /\ client.queue = <<>> /\ PromoteRaw(<<>>)
    /\ UNCHANGED cutShort

PromoteTimeout == client.waiting /\ PromoteRaw(<<>>) /\ UNCHANGED cutShort

(* All the ways in which two rows of messages are sent in turns. *)
Interleavings(s, t) ==
    LET n == Len(s) + Len(t)
    IN  {[i \in 1 .. n |-> IF i \in S THEN s[Cardinality(S \cap (1 .. i))]
                          ELSE t[Cardinality((1 .. i) \ S)]] :
             S \in {S \in SUBSET (1 .. n) : Cardinality(S) = Len(s)}}

(* What the promotion that awaits the encoder has still to send.           *)
Rest == client.todo \o (IF client.marked THEN <<>> ELSE <<Note("replay-end")>>)
                    \o SubSeq(client.queue, client.taken + 1, Len(client.queue))

(* A second promotion finds the first one suspended.  It drops the         *)
(* encoder, whose close rejects what the first one awaits, and both send   *)
(* on in the mode of the second, by turns in the microtasks: the second    *)
(* reads the queue from its start, the first from where it was.  Who is at *)
(* its end empties the queue, which ends the other; the replay and its     *)
(* replay-end do not look at it.                                           *)
PromoteAgain ==
    LET all == client.queue
    IN  /\ CanPromote
        /\ \E n \in 0 .. Len(all), k \in Len(client.todo) .. Len(Rest) :
              /\ client.marked \/ k > Len(client.todo)
              /\ n = Len(all) \/ (n > 0 /\ k = Len(Rest))
              /\ \E both \in Interleavings(SubSeq(Rest, 1, k), SubSeq(all, 1, n)) :
                    /\ n > 0 => both[1] = all[1]
                    /\ client' = EndPromote(GoLive(Send(Announced("raw"),
                                     <<Note("replay-end")>> \o both)))
        /\ UNCHANGED <<session, since, framed, attaches>>

(* writeInput of a viewer that is still pending, also while the promotion  *)
(* that its ready has started awaits the encoder.                          *)
Input ==
    /\ IF client.promoting THEN PromoteAgain ELSE PromoteRaw(<<>>)
    /\ cutShort' = (cutShort \/ client.promoting)

(* The oldest task of the encoder's FIFO completes, and the promotion that *)
(* awaits it runs on.                                                      *)
EncoderStep ==
    /\ client.encoding # <<>>
    /\ LET d == Send([client EXCEPT !.encoding = Tail(@)],
                     <<Head(client.encoding)>>)
       IN  client' = IF d.promoting THEN Advance(d) ELSE d
    /\ UNCHANGED <<session, since, framed, cutShort, attaches>>

(* The socket closes: the peer, the network, or a send that found more     *)
(* than WS_BACKPRESSURE_THRESHOLD_BYTES buffered.                          *)
SocketCloses ==
    /\ client.open
    /\ client' = [client EXCEPT !.open = FALSE]
    /\ UNCHANGED <<session, since, framed, cutShort, attaches>>

(* onClose or onError: detach and releaseClient.  What a suspended         *)
(* promotion still does after it reaches a closed socket only.             *)
Detach ==
    /\ client.stage # "absent" /\ ~client.open
    /\ client' = [NoViewer EXCEPT !.wire = client.wire]
    /\ UNCHANGED <<session, since, framed, cutShort, attaches>>

-----------------------------------------------------------------------------
(* The end of the session.                                                 *)

(* clientHub.tearDown: the record is dropped and its socket closed, so that *)
(* a flush still in the encoder reaches nobody.                            *)
TornDown(c) == [NoViewer EXCEPT !.wire = c.wire, !.mode = c.mode]

(* Every viewer is told directly, whatever its stage, then closed. *)
SayExit(c, kind) ==
    IF c.stage = "absent" THEN c ELSE TornDown(Send(c, <<Note(kind)>>))

EndSession == /\ alive' = FALSE /\ timer' = FALSE /\ burst' = "idle"
              /\ UNCHANGED <<next, sync, since, cutShort, attaches>>

(* Mutation: handleExit does not finish the output burst. *)
ShellExitsEarly ==
    /\ alive
    /\ client' = SayExit(client, "exit")
    /\ UNCHANGED <<flushed, frameOpen, framed>>
    /\ EndSession

(* handleExit: finishOutputBurst, the exit message, tearDown. *)
ShellExits ==
    LET opens == burst # "stream" /\ Full(next)
    IN  /\ alive
        /\ client' = SayExit(Broadcast(client, Flush(opens, TRUE, next)),
                             "exit")
        /\ Flushed(opens, TRUE, next)
        /\ EndSession

(* kill, from a REST route: the batch is dropped. *)
Kill ==
    /\ alive
    /\ client' = SayExit(client, "killed")
    /\ flushed' = next
    /\ UNCHANGED <<frameOpen, framed>>
    /\ EndSession

Init ==
    /\ alive = TRUE /\ next = 0 /\ flushed = 0 /\ burst = "idle"
    /\ sync = FALSE /\ timer = FALSE /\ frameOpen = FALSE
    /\ client = NoViewer /\ since = 0 /\ framed = {} /\ cutShort = FALSE
    /\ attaches = 0

Next ==
    \/ \E ended, long \in BOOLEAN : Chunk(ended, long)
    \/ BatchTimer
    \/ Attach
    \/ \E mode \in {"raw", "ctx"}, replay \in BOOLEAN : Ready(mode, replay)
    \/ PromoteTimeout
    \/ Input
    \/ EncoderStep
    \/ SocketCloses
    \/ Detach
    \/ ShellExits
    \/ Kill

Spec == Init /\ [][Next]_vars

(* Timers fire, flushes complete, and a closed socket is reported.         *)
Fairness == /\ WF_vars(BatchTimer) /\ WF_vars(PromoteTimeout)
            /\ WF_vars(EncoderStep) /\ WF_vars(Detach)

FairSpec == Spec /\ Fairness

-----------------------------------------------------------------------------
(* Correctness.                                                            *)

(* The positions of the messages of some kinds, and which of them come one *)
(* after another without a gap or a repetition.                            *)
Of(s, kinds) == {i \in DOMAIN s : s[i].kind \in kinds}
Consecutive(s, kind) ==
    \A i, j \in Of(s, {kind}) :
        i < j /\ (\A k \in Of(s, {kind}) : k <= i \/ j <= k) => s[j].from = s[i].to + 1

(* A frame is open before position n. *)
InFrame(s, n) ==
    \E b \in Of(s, {"output-frame-start"}) :
        b < n /\ \A e \in Of(s, {"output-frame-end"}) : e < b \/ n <= e

Has(c, kind) == Of(c.wire, {kind}) # {}
Shown(c) == LET outputs == Of(c.wire, {"output"})
            IN  IF outputs = {} THEN since
                ELSE c.wire[CHOOSE i \in outputs : \A j \in outputs : j <= i].to

(* Every variable has its type, the viewer's queue is only used while it   *)
(* is pending and within the limits of session-output-transport.ts.        *)
TypeOK ==
    /\ {alive, sync, timer, frameOpen, cutShort} \subseteq BOOLEAN
    /\ next \in 0 .. MaxChunks /\ flushed \in 0 .. next
    /\ since \in 0 .. flushed /\ framed \subseteq 1 .. flushed
    /\ attaches \in 0 .. MaxAttaches
    /\ burst \in {"idle", "burst", "stream"}
    /\ client.stage \in {"absent", "pending", "live"}
    /\ {client.open, client.overflowed, client.waiting, client.promoting,
        client.marked} \subseteq BOOLEAN
    /\ client.mode \in {"raw", "ctx"}
    /\ {client.wire, client.queue, client.encoding, client.todo}
         \subseteq Seq(Message)
    /\ client.stage # "pending" => client.queue = <<>>
    /\ Fits(client.queue)

(* No byte is lost, repeated or reordered on its way to a viewer: what it  *)
(* is sent live continues from the moment it attached without a gap, and   *)
(* a replay reaches up to that moment at least.  The pending hold, both    *)
(* promotions, the encoder FIFO and every flush take part.  After input    *)
(* that cuts into a running promotion nothing is promised until the viewer *)
(* attaches again: the two then send by turns, see PromoteAgain.           *)
NothingLost ==
    LET w == client.wire
        fanOut == Of(w, {"output"})
        replay == Of(w, {"replay"})
    IN  cutShort \/
        /\ Consecutive(w, "output") /\ Consecutive(w, "replay")
        /\ \A i \in fanOut : (\A j \in fanOut : i <= j) => w[i].from = since + 1
        /\ replay # {} /\ Has(client, "replay-end")
             => \E i \in replay : w[i].to >= since

(* "recent output instead of a blank screen, with no live frame            *)
(* interleaving between replay and the buffered fan-out"                   *)
(* (session-client-hub.ts 162-164): once anything else was sent, no replay *)
(* follows.                                                                *)
ReplayComesFirst ==
    LET w == client.wire
    IN  \A i, j \in DOMAIN w :
          w[i].kind = "replay" /\ w[j].kind \in
              {"output", "output-frame-start", "output-frame-end",
               "replay-end"} => i < j

(* replay-end divides what a viewer is sent: the buffered and live output  *)
(* comes after it, no viewer is live without it, and, unless input has cut *)
(* into the promotion, it comes once and the replay is all before it.      *)
MarkerDivides ==
    LET marks == Of(client.wire, {"replay-end"})
    IN  /\ cutShort \/ (ReplayComesFirst /\ \A i, j \in marks : i = j)
        /\ \A i \in Of(client.wire, {"output", "output-frame-start", "output-frame-end"}) :
             \E m \in marks : m < i
        /\ client.stage = "live" /\ client.open => marks # {}

(* The boundaries of atomic frames alternate and hold exactly the output   *)
(* that was flushed inside a frame, for a viewer that joined in the middle *)
(* of one too; and a live viewer with nothing left in its encoder is in a  *)
(* frame exactly when the session is.  Otherwise its terminal would hold   *)
(* back a screen for ever or show a torn one.  (A promotion that input has *)
(* cut into may repeat a boundary.)                                        *)
FramesBracketed ==
    LET w == client.wire
    IN  cutShort \/
        /\ \A i \in Of(w, {"output-frame-start"}) : ~InFrame(w, i)
        /\ \A i \in Of(w, {"output-frame-end"}) : InFrame(w, i)
        /\ \A i \in Of(w, {"output"}) :
             InFrame(w, i) <=> w[i].from .. w[i].to \subseteq framed
        /\ client.stage = "live" /\ client.open /\ client.encoding = <<>>
             => (frameOpen <=> InFrame(w, Len(w) + 1))

(* Output is never stranded in the coordinator: while a batch is unflushed *)
(* or a frame is open, the timer that will flush and close is armed.       *)
BatchIsTimed == alive /\ (flushed < next \/ frameOpen) => timer

(* The exit message is the last thing a viewer hears, and a viewer without *)
(* the asynchronous compressor has been shown all the output by then and   *)
(* is not left inside a frame, unless input has cut into its promotion.    *)
ExitComesLast ==
    \A i \in Of(client.wire, {"exit", "killed"}) :
      /\ i = Len(client.wire)
      /\ client.wire[i].kind = "exit" /\ client.mode = "raw"
         /\ Has(client, "replay-end") /\ ~cutShort
           => Shown(client) = next /\ ~InFrame(client.wire, i)

(* No viewer waits for ever on its suppressed-replay window: in the end it *)
(* is sent replay-end, even if it never says ready, or it is cut off       *)
(* (session-client-hub.ts 166-174).                                        *)
PromotionEnds == <>[](client.stage = "pending" => Has(client, "replay-end"))

(* What the shell writes reaches the live viewer that stays connected,     *)
(* whatever the burst, the frames and the encoder are doing, unless input  *)
(* has cut into its promotion.                                             *)
OutputReaches ==
    <>[](client.stage = "live" /\ client.open /\ ~cutShort => Shown(client) >= next)
=============================================================================
