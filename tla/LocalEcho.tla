------------------------------ MODULE LocalEcho -----------------------------
(***************************************************************************)
(* Keys that are shown before the shell echoes them.                       *)
(*                                                                         *)
(* Models the class LocalEcho of apps/terminal/src/lib/local-echo.ts as    *)
(* use-terminal-runtime.ts calls it: handleInput(), reconcile(), flush(),  *)
(* its watchdog and its switch, on the line of a shell and of a terminal   *)
(* that behave as those of the tests do (simulated-shell.ts and            *)
(* terminal-model.ts).  Keys and output are on their way for any time, and *)
(* output is cut into chunks anywhere.  Times are choices: whether a key   *)
(* begins a burst, whether the estimate is stale and the link slow.  The   *)
(* line does not reach the margin.                                         *)
(***************************************************************************)
EXTENDS Naturals, SequencesExt

CONSTANTS
    Char,
    Lines,        \* what may be on the line already
    PendingMax,   \* LOCAL_ECHO_PENDING_MAX_CHARS
    MaxKeys       \* bound: keys pressed

VARIABLES
    shell,    \* kind, the line and the cursor in it
    wire,     \* keys on their way to the shell
    out,      \* its output on its way back, and of what kind of key
    screen,   \* the cells after the prompt, and the cursor
    enabled,
    pending,
    suspended,
    probe,    \* sent: probeSendMs is set; flying: probeInFlight
    slow,     \* emaRttMs is above LOCAL_ECHO_THRESHOLD_MS
    cooling,  \* before cooldownUntilMs
    timer,    \* timeoutHandle
    strayed,  \* a suspension ended before the control it was for was echoed
    keys

link == <<shell, wire, out>>
estimate == <<probe, slow>>
(* What the proofs need of the constants. *)
ParametersFit ==
    /\ MaxKeys \in Nat /\ \A l \in Lines : l \in Seq(Range(l))
    /\ Char \cap {"back", "left", "right"} = {}

(* What a line is made of. *)
Letter == Char \union UNION {Range(l) : l \in Lines}

vars == <<link, screen, enabled, pending, suspended, estimate, cooling, timer,
          strayed, keys>>

Times(n, x) == [i \in 1 .. n |-> x]

-----------------------------------------------------------------------------
(* The terminal *)

Blank == <<" ", FALSE>>
Empty == [cells |-> [c \in 0 .. MaxKeys + 3 |-> Blank], at |-> 0]

Put(s, char, faint) ==
    [s EXCEPT !.cells[s.at] = <<char, faint>>, !.at = @ + 1]

(* Backspace stops at the prompt, CURSOR_FORWARD leaves the cell.          *)
Write(s, x) ==
    CASE x = "bs" -> [s EXCEPT !.at = IF @ = 0 THEN 0 ELSE @ - 1]
      [] x = "forward" -> [s EXCEPT !.at = @ + 1]
      [] x = "reprint" -> Empty
      [] OTHER -> Put(s, x, FALSE)

Written(s, bytes) ==
    LET after[i \in 0 .. Len(bytes)] ==
          IF i = 0 THEN s ELSE Write(after[i - 1], bytes[i])
    IN  after[Len(bytes)]

(* The faint span is overwritten by spaces; it ends before the cursor.     *)
Erasure(n) == Times(n, "bs") \o Times(n, " ") \o Times(n, "bs")

-----------------------------------------------------------------------------
(* The shell *)

Edited(k) ==
    LET l == shell.line c == shell.cursor IN
    CASE k \in Char -> [shell EXCEPT !.line = InsertAt(l, c + 1, k), !.cursor = c + 1]
      [] k = "back" /\ c > 0 -> [shell EXCEPT !.line = RemoveAt(l, c), !.cursor = c - 1]
      [] k = "left" /\ c > 0 -> [shell EXCEPT !.cursor = c - 1]
      [] k = "right" /\ c < Len(l) -> [shell EXCEPT !.cursor = c + 1]
      [] OTHER -> shell

(* The output by which the terminal comes to show the edited line.         *)
Echo(k) ==
    LET new == Edited(k)
        tail == SubSeq(new.line, new.cursor + 1, Len(new.line))
        home == Times(Len(tail), "bs")
    IN  CASE new = shell \/ shell.kind = "silent" -> <<>>
          [] k = "left" -> <<"bs">>
          [] k = "right" -> <<"forward">>
          [] shell.kind = "highlight" -> <<"reprint">> \o new.line \o home
          [] k = "back" -> <<"bs">> \o tail \o <<" ", "bs">> \o home
          [] OTHER -> <<k>> \o tail \o home

ShellReads ==
    /\ wire # <<>>
    /\ shell' = Edited(Head(wire)) /\ wire' = Tail(wire)
    /\ LET echo == Echo(Head(wire)) IN
       out' = out \o [i \in DOMAIN echo |-> <<echo[i], Head(wire) \in Char>>]
    /\ UNCHANGED <<screen, enabled, pending, suspended, estimate, cooling, timer,
                   strayed, keys>>

(* A key that moves the cursor has not been echoed.                        *)
ControlOut ==
    \/ \E i \in DOMAIN wire : wire[i] \notin Char
    \/ \E i \in DOMAIN out : ~out[i][2]

-----------------------------------------------------------------------------
(* handleInput() *)

(* A stale estimate, or none, is renewed at the start of a burst.          *)
Probes(burst, stale) == burst /\ stale

(* Mutation: cursor keys do not suspend. *)
SuspendsNever(k) == FALSE

(* A control suspends the predictions until the next burst, or until       *)
(* something is erased or confirmed.                                       *)
Suspends(k) == k \notin Char

(* isSafeState(): no program in the foreground, and no other buffer.       *)
Input(k, burst, stale, safe) ==
    LET held == suspended /\ ~burst
        flying == probe.flying /\ ~burst
        predicted == /\ k \in Char /\ safe /\ ~held /\ ~cooling
                     /\ Len(pending) < PendingMax
                     /\ Probes(burst, stale) \/ flying \/ slow
        probes == predicted /\ Probes(burst, stale)
    IN
    /\ enabled /\ keys < MaxKeys /\ (keys = 0 => burst)
    /\ keys' = keys + 1 /\ wire' = Append(wire, k)
    /\ suspended' = (held \/ Suspends(k))
    /\ probe' = [sent |-> probe.sent \/ probes, flying |-> flying \/ probes]
    /\ pending' = IF predicted THEN Append(pending, k) ELSE pending
    /\ screen' = IF predicted THEN Put(screen, k, TRUE) ELSE screen
    /\ timer' = (timer \/ predicted)
    /\ strayed' = (suspended /\ ~held /\ ControlOut)
    /\ UNCHANGED <<shell, out, enabled, slow, cooling>>

InputAsIs(k) ==
    /\ ~enabled /\ keys < MaxKeys
    /\ keys' = keys + 1 /\ wire' = Append(wire, k)
    /\ UNCHANGED <<shell, out, screen, enabled, pending, suspended, estimate,
                   cooling, timer, strayed>>

-----------------------------------------------------------------------------
(* reconcile() *)

(* Without a prediction the output is not reconciled at all.               *)
Passes(real) ==
    /\ pending = <<>>
    /\ screen' = Written(screen, real)
    /\ UNCHANGED <<pending, suspended, estimate, timer, strayed>>

(* Mutation: the cursor stays where the confirmed part ends. *)
AdvanceNone(n) == <<>>

(* The cursor goes on over what is not confirmed. *)
Advance(n) == Times(n, "forward")

(* What is still to be confirmed when the chunk was a part of it. *)
Rest(matched) == SubSeq(pending, matched + 1, Len(pending))

Reconciles(real) ==
    LET total == Len(pending)
        matched == Len(LongestCommonPrefix({real, pending}))
        partial == matched < total /\ matched = Len(real)
        mismatch == matched < total /\ matched < Len(real)
        sampled == matched > 0 /\ probe.sent
    IN
    /\ pending # <<>>
    /\ pending' = IF partial THEN Rest(matched) ELSE <<>>
    /\ screen' = Written(screen,
          IF mismatch THEN Erasure(total) \o real
          ELSE Times(total, "bs") \o real \o Advance(total - matched))
    /\ slow' \in IF sampled THEN BOOLEAN ELSE {slow}
    /\ probe' = IF sampled \/ mismatch THEN [sent |-> FALSE, flying |-> FALSE] ELSE probe
    /\ suspended' = (suspended /\ pending' # <<>>)
    /\ strayed' = (suspended /\ ~suspended' /\ ControlOut')
    /\ timer' = (pending' # <<>>)

(* The first n of what is on its way arrive together.                      *)
Receive(n) ==
    LET real == [i \in 1 .. n |-> out[i][1]] IN
    /\ out' = SubSeq(out, n + 1, Len(out))
    /\ UNCHANGED <<shell, wire, enabled, cooling, keys>>
    /\ Passes(real) \/ Reconciles(real)

-----------------------------------------------------------------------------
(* flush() *)

Flush ==
    IF pending = <<>> THEN UNCHANGED <<screen, pending, suspended, probe, strayed>>
    ELSE /\ screen' = Written(screen, Erasure(Len(pending)))
         /\ pending' = <<>> /\ suspended' = FALSE
         /\ probe' = [sent |-> FALSE, flying |-> FALSE]
         /\ strayed' = (suspended /\ ControlOut)

Watchdog ==
    /\ timer /\ timer' = FALSE
    /\ cooling' = (cooling \/ pending # <<>>)
    /\ Flush
    /\ UNCHANGED <<link, enabled, slow, keys>>

CoolEnds ==
    /\ cooling /\ cooling' = FALSE
    /\ UNCHANGED <<link, screen, enabled, pending, suspended, estimate, timer,
                   strayed, keys>>

(* setEnabled(); the menu takes longer than an echo. *)
Enable ==
    /\ ~enabled /\ wire = <<>> /\ out = <<>> /\ enabled' = TRUE
    /\ UNCHANGED <<link, screen, pending, suspended, estimate, cooling, timer,
                   strayed, keys>>

Disable ==
    /\ enabled /\ enabled' = FALSE
    /\ Flush /\ timer' = (timer /\ pending = <<>>)
    /\ UNCHANGED <<link, slow, cooling, keys>>

-----------------------------------------------------------------------------

Init ==
    /\ \E kind \in {"plain", "highlight", "silent"}, l \in Lines :
          \E c \in 0 .. Len(l) :
             /\ shell = [kind |-> kind, line |-> l, cursor |-> c]
             /\ kind = "silent" => l = <<>>
             /\ screen = [Written(Empty, l) EXCEPT !.at = c]
    /\ wire = <<>> /\ out = <<>>
    /\ enabled = TRUE /\ pending = <<>> /\ suspended = FALSE
    /\ probe = [sent |-> FALSE, flying |-> FALSE] /\ slow = FALSE
    /\ cooling = FALSE /\ timer = FALSE /\ strayed = FALSE /\ keys = 0

Keys == Char \union {"back", "left", "right"}

(* A line that went astray is not followed further. *)
Next ==
    /\ ~strayed
    /\ \/ \E k \in Keys, burst, stale, safe \in BOOLEAN : Input(k, burst, stale, safe)
       \/ \E k \in Keys : InputAsIs(k)
       \/ ShellReads
       \/ \E n \in 1 .. Len(out) : Receive(n)
       \/ Watchdog
       \/ CoolEnds
       \/ Enable
       \/ Disable

Spec == Init /\ [][Next]_vars

-----------------------------------------------------------------------------
(* Properties *)

(* Every variable has its type. *)
TypeOK ==
    /\ shell \in [kind : {"plain", "highlight", "silent"}, line : Seq(Letter),
                 cursor : Nat]
    /\ shell.cursor <= Len(shell.line)
    /\ wire \in Seq(Keys) /\ pending \in Seq(Char)
    /\ out \in Seq((Letter \union {" ", "bs", "forward", "reprint"}) \X BOOLEAN)
    /\ {enabled, suspended, slow, cooling, timer, strayed} \subseteq BOOLEAN
    /\ probe \in [sent : BOOLEAN, flying : BOOLEAN]
    /\ keys \in 0 .. MaxKeys

(* The terminal shows the line as the shell has it, or nothing of it.      *)
Truth ==
    IF shell.kind = "silent" THEN Empty
    ELSE [Written(Empty, shell.line) EXCEPT !.at = shell.cursor]

(* However keys, echoes and timers are interleaved and the output is cut,  *)
(* the line on the screen is the shell's once everything is echoed and     *)
(* nothing is predicted; the cursor never leaves the row, and no           *)
(* prediction is left without its watchdog.                                *)
LineIsTrue ==
    /\ screen.at \in DOMAIN screen.cells
    /\ (wire = <<>> /\ out = <<>> /\ pending = <<>> /\ ~strayed) => screen = Truth
    /\ pending # <<>> => timer
=============================================================================
