----------------------------- MODULE PaneCapture -----------------------------
(***************************************************************************)
(* The headless terminal that capture-pane and wait read a session's       *)
(* screen from.                                                            *)
(*                                                                         *)
(* Models capturePane(), waitFor() and ensureCaptureRenderer() of          *)
(* packages/server/src/session-command-executor.ts, the queue of           *)
(* capture-renderer.ts, and what session-output-coordinator.ts feeds them, *)
(* for one session and one waiting request.  A renderer is made by the     *)
(* first request that needs one; others come while it still parses the     *)
(* scrollback, and so does output.  Output is a row of chunks, of which    *)
(* one holds the text that is waited for.                                  *)
(***************************************************************************)
EXTENDS Integers, Sequences, FiniteSets

CONSTANTS
    Target,       \* the chunk that holds the text
    MaxChunks,    \* bound: chunks the shell prints
    MaxRenderers  \* bound: renderers made

VARIABLES
    alive,     \* the shell runs
    out,       \* chunks in the session's scrollback
    fed,       \* the chunks the coordinator has processed, up to this one
    panes,     \* what each renderer made so far was given
    current,   \* managed.captureRenderer, or None
    tests,     \* reads under way: of whom, on which renderer, whether that is
               \* primed, and the chunks whose parse they await
    waiting,   \* waitFor(): "no", "waits", "matched", "over"
    heard      \* history: the text was printed, and drawn at once, during the wait

vars == <<alive, out, fed, panes, current, tests, waiting, heard>>

None == 0

Renderers == DOMAIN panes

(* ensureCaptureRenderer(): the session's, whose pending writes flush()    *)
(* awaits, or a new one, written the scrollback, whose parse the caller    *)
(* awaits first.  It joins the reads that are under way.                   *)
Read(of, renderer, shown, reads) ==
    IF renderer # None
    THEN /\ tests' = reads \union {[of |-> of, on |-> renderer, primed |-> TRUE,
                                    sees |-> shown[renderer]]}
         /\ panes' = shown
    ELSE /\ Len(panes) < MaxRenderers
         /\ tests' = reads \union {[of |-> of, on |-> Len(panes) + 1, primed |-> FALSE,
                                    sees |-> 1..out']}
         /\ panes' = Append(shown, 1..out')

(* The renderers once the current one is given a chunk.                    *)
Shown(chunk) ==
    IF current = None THEN panes ELSE [panes EXCEPT ![current] = @ \union {chunk}]

(* tearDown() disposes of the current renderer: of what it was written,    *)
(* the chunks after the last parsed one are lost, and those who await      *)
(* their parse read the pane without them.                                 *)
Disposed(last) ==
    IF current = None THEN panes ELSE [panes EXCEPT ![current] = {c \in @ : c <= last}]

Curtailed(last) == {[t EXCEPT !.sees = @ \intersect Disposed(last)[t.on]] : t \in tests}

-----------------------------------------------------------------------------

(* Mutation: a listener that starts no test while another one is running.  *)
OutputCoalesced ==
    /\ alive /\ out < MaxChunks /\ fed = out
    /\ out' = out + 1 /\ fed' = out'
    /\ IF waiting = "waits" /\ \A t \in tests : t.of # "wait"
       THEN Read("wait", current, Shown(out'), tests)
       ELSE panes' = Shown(out') /\ UNCHANGED tests
    /\ heard' = (heard \/ (waiting = "waits" /\ out' = Target))
    /\ UNCHANGED <<alive, current, waiting>>

(* A chunk that waits for no file: onSessionOutput() feeds the renderer,   *)
(* and then the waiter's listener starts a test of its own.                *)
Output ==
    /\ alive /\ out < MaxChunks /\ fed = out
    /\ out' = out + 1 /\ fed' = out'
    /\ IF waiting = "waits" THEN Read("wait", current, Shown(out'), tests)
       ELSE panes' = Shown(out') /\ UNCHANGED tests
    /\ heard' = (heard \/ (waiting = "waits" /\ out' = Target))
    /\ UNCHANGED <<alive, current, waiting>>

(* A chunk that names a file, or follows one, is processed after the read: *)
(* the waiter is told, and tests, now; the renderer gets it later.         *)
OutputQueued ==
    /\ alive /\ out < MaxChunks
    /\ out' = out + 1
    /\ IF waiting = "waits" THEN Read("wait", current, panes, tests) ELSE UNCHANGED <<panes, tests>>
    /\ UNCHANGED <<alive, fed, current, waiting, heard>>

(* drainOutputQueue(): the file was read.  The renderer gets the chunk;    *)
(* who waits is not told again, and may have tested the pane without it.   *)
Feed ==
    /\ alive /\ fed < out
    /\ fed' = fed + 1
    /\ panes' = Shown(fed')
    /\ UNCHANGED <<alive, out, current, tests, waiting, heard>>

(* capturePane() of a request, one at a time. *)
Capture ==
    /\ alive /\ out' = out
    /\ \A t \in tests : t.of # "capture"
    /\ Read("capture", current, panes, tests)
    /\ UNCHANGED <<alive, fed, current, waiting, heard>>

(* waitFor(): the pane is tested once, and then at every output. *)
Wait ==
    /\ alive /\ waiting = "no" /\ out' = out
    /\ waiting' = "waits"
    /\ Read("wait", current, panes, tests)
    /\ UNCHANGED <<alive, fed, current, heard>>

(* The scrollback is parsed: the renderer becomes the session's, whatever  *)
(* other one became so meanwhile; its pending writes are awaited next.     *)
Primed(t) ==
    /\ ~t.primed
    /\ current' = t.on
    /\ tests' = (tests \ {t}) \union {[t EXCEPT !.primed = TRUE, !.sees = panes[t.on]]}
    /\ UNCHANGED <<alive, out, fed, panes, waiting, heard>>

(* The awaited writes are parsed, later ones may be: the pane is read.     *)
(* Who waited for the text takes the current pane as the snapshot.         *)
Test(t) ==
    /\ t.primed
    /\ tests' = tests \ {t}
    /\ \E parsed \in {t.sees, panes[t.on]} :
           waiting' = IF t.of = "wait" /\ waiting = "waits" /\ Target \in parsed
                      THEN "matched" ELSE waiting
    /\ UNCHANGED <<alive, out, fed, panes, current, heard>>

(* finalize(false) of the timeout: the pane is read for the snapshot. *)
Timeout ==
    /\ waiting = "waits" /\ out' = out
    /\ waiting' = "over"
    /\ Read("snapshot", current, panes, tests)
    /\ UNCHANGED <<alive, fed, current, heard>>

(* handleExit(): the renderer is disposed of; the wait hears of the exit   *)
(* after that, and reads its snapshot from one more.                       *)
Exit ==
    /\ alive /\ out' = out
    /\ alive' = FALSE
    /\ current' = None
    /\ \E last \in 0..MaxChunks :
           IF waiting = "waits"
           THEN /\ waiting' = "over"
                /\ Read("snapshot", None, Disposed(last), Curtailed(last))
           ELSE /\ panes' = Disposed(last) /\ tests' = Curtailed(last)
                /\ UNCHANGED waiting
    /\ UNCHANGED <<fed, heard>>

(* kill(): the same, but the listeners are removed before the shell exits, *)
(* so that a wait goes on, with the reads it has, until its timeout.       *)
Kill ==
    /\ alive
    /\ alive' = FALSE
    /\ current' = None
    /\ \E last \in 0..MaxChunks :
           panes' = Disposed(last) /\ tests' = Curtailed(last)
    /\ UNCHANGED <<out, fed, waiting, heard>>

Init ==
    /\ alive = TRUE /\ out = 0 /\ fed = 0
    /\ panes = <<>> /\ current = None /\ tests = {}
    /\ waiting = "no" /\ heard = FALSE

Next ==
    \/ Output
    \/ OutputQueued
    \/ Feed
    \/ Capture
    \/ Wait
    \/ \E t \in tests : Primed(t)
    \/ \E t \in tests : Test(t)
    \/ Timeout
    \/ Exit
    \/ Kill

Spec == Init /\ [][Next]_vars

-----------------------------------------------------------------------------
(* Properties *)

TypeOK ==
    /\ alive \in BOOLEAN /\ heard \in BOOLEAN
    /\ out \in 0..MaxChunks /\ fed \in 0..out
    /\ panes \in Seq(SUBSET (1..MaxChunks)) /\ Len(panes) <= MaxRenderers
    /\ current \in Renderers \union {None}
    /\ \A t \in tests :
           /\ t.of \in {"wait", "capture", "snapshot"} /\ t.primed \in BOOLEAN
           /\ t.on \in Renderers /\ t.sees \subseteq panes[t.on]
    /\ waiting \in {"no", "waits", "matched", "over"}

(* A request that waits for a text has a read under way that will see it,  *)
(* once it is printed during the wait in a chunk that is drawn at once,    *)
(* whatever other requests make, prime and replace renderers meanwhile.    *)
(* Of a text drawn after a file was read nothing is promised (Feed), nor   *)
(* once the session is killed (Kill).                                      *)
WaitHears ==
    alive /\ waiting = "waits" /\ heard => \E t \in tests : t.of = "wait" /\ Target \in t.sees

(* docs/cli.md:42 says that wait blocks "until the pane matches": while    *)
(* the pane that captures are read from holds the text, who waits for it   *)
(* has a test under way.  Feed draws a text without one.                   *)
WaitEndsOnMatch ==
    alive /\ waiting = "waits" /\ current # None /\ Target \in panes[current]
        => \E t \in tests : t.of = "wait"
=============================================================================
