---------------------------- MODULE TerminalPage ----------------------------
(***************************************************************************)
(* One page and its connections: which shell a socket asks for, what is on *)
(* the screen while one shell replaces another, and when typing is let     *)
(* through.                                                                *)
(*                                                                         *)
(* Models apps/terminal/src/lib/terminal-runtime/                          *)
(* create-terminal-session-lifecycle.ts and create-terminal-output-        *)
(* session.ts, wired as hooks/use-terminal-runtime.ts wires them.  The     *)
(* daemon is as OutputDelivery shows it, cut down to what one socket sees: *)
(* a promotion is one step.  Every frame has a type byte and goes through  *)
(* the decompress queue.  Atomic frames, pixel frames, compression and the *)
(* batcher behind onOutput() are left out.                                 *)
(***************************************************************************)
EXTENDS Integers, Sequences, FiniteSets, Functions

CONSTANTS
    MaxShells,  \* bound: shells, numbered as their ids are minted
    QueueMax,   \* WS_OUTPUT_CLIENT_QUEUE_MAX_BYTES, in frames
    MaxOut,     \* bound: chunks of output
    MaxDrops,   \* bound: lost connections and exits
    MaxActs     \* bound: choices of the user

VARIABLES
    alive,      \* shells that run
    out,        \* [Shells -> Nat]: chunks a shell wrote
    link,       \* the page's current socket, with the daemon's end of it
    life,       \* the lifecycle's flags and ids
    bar,        \* ?sid= in the address bar
    timer,      \* reconnectTimer is set
    replace,    \* replaceTerminalSurfaceOnReplay
    os,         \* activeOutputSession
    screen,     \* whose the screen is, and its last chunk, if it is known
    gap,        \* history: output is missing in the middle of the screen
    dead,       \* history: shells whose exit the page was told
    drops, acts \* bounds

(* What the constants are. *)
ParametersFit ==
    MaxShells \in Nat \ {0} /\ {QueueMax, MaxOut, MaxDrops, MaxActs} \subseteq Nat

server == <<alive, out>>
page == <<life, bar, timer, replace>>
shown == <<screen, gap, dead>>
vars == <<server, link, page, os, shown, drops, acts>>

Shells == 1 .. MaxShells
NoShell == 0
Unknown == -1

(* phase is the daemon's: it has not accepted the socket yet, holds its    *)
(* output, sends it, or has let it go.  told: the page has the session     *)
(* frame.  ready: the page's frame of that name, on its way.               *)
Opening(sid) == [phase |-> "opening", sid |-> sid, at |-> NoShell, down |-> <<>>,
                 hold |-> <<>>, ready |-> "no", told |-> FALSE]
NoLink == [Opening(NoShell) EXCEPT !.phase = "closed"]

NewOutput == [on |-> TRUE, queue |-> <<>>, inReplay |-> FALSE, kept |-> <<>>,
              reset |-> FALSE, suppress |-> FALSE, draining |-> FALSE]
Disposed == [NewOutput EXCEPT !.on = FALSE]

Ids == Shells \cup {NoShell}
Frame == [t : {"open", "session", "output", "replay-end", "exit", "close"},
          of : Ids, from : Nat, to : Nat]
Event(t) == [t |-> t, of |-> NoShell, from |-> 0, to |-> 0]
Output(s, m, n) == [t |-> "output", of |-> s, from |-> m, to |-> n]

Started == {s \in Shells : out[s] # Unknown}

-----------------------------------------------------------------------------
(* The daemon *)

(* The upgrade: attach to the shell asked for, or spawn another. *)
Accept ==
    /\ link.phase = "opening"
    /\ \/ /\ link.sid \in alive
          /\ link' = [link EXCEPT !.phase = "pending", !.at = link.sid,
                !.down = <<Event("open"), [Event("session") EXCEPT !.of = link.sid]>>]
          /\ UNCHANGED server
       \/ \E s \in Shells \ Started :
          /\ link.sid \notin alive /\ s = Cardinality(Started) + 1
          /\ alive' = alive \cup {s} /\ out' = [out EXCEPT ![s] = 0]
          /\ link' = [link EXCEPT !.phase = "pending", !.at = s,
                !.down = <<Event("open"), [Event("session") EXCEPT !.of = s]>>]
       \/ /\ link.sid \notin alive /\ Shells = Started
          /\ link' = [link EXCEPT !.phase = "closed",
                !.down = <<Event("open"), Event("close")>>]
          /\ UNCHANGED server
    /\ UNCHANGED <<page, os, shown, drops, acts>>

Total == FoldFunction(+, 0, [s \in Started |-> out[s]])

Emit(s) ==
    LET n == out[s] + 1 IN
    /\ s \in alive /\ Total < MaxOut
    /\ out' = [out EXCEPT ![s] = n]
    /\ link' = IF link.at # s THEN link
               ELSE IF link.phase = "live"
               THEN [link EXCEPT !.down = Append(@, Output(s, n, n))]
               ELSE [link EXCEPT !.hold = Append(@, Output(s, n, n))]
    /\ UNCHANGED <<alive, page, os, shown, drops, acts>>

(* promote(): the scrollback if it is asked for, the marker, what was held. *)
Promoted(replay) ==
    LET ring == IF replay /\ out[link.at] > 0
                THEN <<Output(link.at, 1, out[link.at])>> ELSE <<>>
    IN  [link EXCEPT !.phase = "live", !.hold = <<>>, !.ready = "no",
                     !.down = @ \o ring \o <<Event("replay-end")>> \o link.hold]

Ready ==
    /\ link.ready # "no" /\ link.at # NoShell
    /\ link' = IF link.phase = "pending" THEN Promoted(link.ready = "replay")
               ELSE [link EXCEPT !.ready = "no"]
    /\ UNCHANGED <<server, page, os, shown, drops, acts>>

(* Mutation: only a page that asked for a replay is sent the marker. *)
ReadyLateUnmarked ==
    /\ link.phase = "pending"
    /\ link' = [link EXCEPT !.phase = "live", !.hold = <<>>,
                            !.down = @ \o link.hold]
    /\ UNCHANGED <<server, page, os, shown, drops, acts>>

(* The pending timeout, or a key that is pressed before the page is ready. *)
ReadyLate ==
    /\ link.phase = "pending"
    /\ link' = [Promoted(FALSE) EXCEPT !.ready = link.ready]
    /\ UNCHANGED <<server, page, os, shown, drops, acts>>

(* handleExit() and kill(). *)
Exit(s) ==
    /\ s \in alive /\ drops < MaxDrops /\ drops' = drops + 1
    /\ alive' = alive \ {s}
    /\ link' = IF link.at # s THEN link
               ELSE [link EXCEPT !.phase = "closed", !.at = NoShell, !.hold = <<>>,
                        !.down = @ \o <<[Event("exit") EXCEPT !.of = s], Event("close")>>]
    /\ UNCHANGED <<out, page, os, shown, acts>>

(* The connection is lost with what is on its way, or is never made. *)
Drop ==
    /\ link.phase # "closed" /\ drops < MaxDrops /\ drops' = drops + 1
    /\ \E k \in 0 .. Len(link.down) :
          link' = [link EXCEPT !.phase = "closed", !.at = NoShell, !.hold = <<>>,
                      !.ready = "no",
                      !.down = SubSeq(@, 1, k) \o <<Event("close")>>]
    /\ UNCHANGED <<server, page, os, shown, acts>>

-----------------------------------------------------------------------------
(* connect() *)

Requested(l) ==
    IF l.fresh THEN NoShell
    ELSE IF l.next # NoShell THEN l.next
    ELSE IF l.live # NoShell THEN l.live ELSE bar

(* Mutation: a new socket starts with the screen taken as its own. *)
ConnectForgetting(l) ==
    /\ life' = [l EXCEPT !.next = NoShell]
    /\ link' = Opening(Requested(l))
    /\ os' = NewOutput
    /\ timer' = FALSE /\ replace' = FALSE

(* prepareConnection(), a socket and an output session of its own. *)
Connect(l) ==
    /\ life' = [l EXCEPT !.next = NoShell]
    /\ link' = Opening(Requested(l))
    /\ os' = NewOutput
    /\ timer' = FALSE /\ UNCHANGED replace

TimerFires ==
    /\ timer
    /\ Connect(life)
    /\ UNCHANGED <<server, bar, shown, drops, acts>>

(* beginManualReconnect() and connect(), with the choice made before it. *)
Manually(l) ==
    /\ acts < MaxActs /\ acts' = acts + 1
    /\ Connect([l EXCEPT !.exited = FALSE, !.ever = FALSE, !.reattach = FALSE,
                         !.resuming = FALSE])
    /\ UNCHANGED <<server, bar, shown, drops>>

Reconnect == life.exited /\ Manually(life)
SwitchTo(s) ==
    /\ s \in alive /\ s # life.live
    /\ Manually([life EXCEPT !.next = s, !.fresh = FALSE])
SwitchToFresh == Manually([life EXCEPT !.next = NoShell, !.fresh = TRUE])

(* completeInitialMobileResume(): the list of sessions has come. *)
Resume(s) ==
    /\ life.resuming
    /\ Connect([life EXCEPT !.resuming = FALSE, !.next = s])
    /\ UNCHANGED <<server, bar, shown, drops, acts>>

-----------------------------------------------------------------------------
(* The socket's listeners *)

Took == [link EXCEPT !.down = Tail(@)]

Opens ==
    /\ life' = [life EXCEPT !.ever = TRUE]
    /\ link' = Took
    /\ UNCHANGED <<bar, timer, replace, os, shown>>

(* A shell the page comes to with none before it writes after what is there. *)
Owned(s) == IF screen.of = s THEN screen ELSE [of |-> s, last |-> Unknown]

(* handleSession(), beginSession() and, if a replay is wanted,             *)
(* beginReplay() with or without the reset before it.                      *)
TakesSession(s) ==
    LET prior == life.live
        replaces == replace \/ life.fresh \/ (prior # NoShell /\ s # prior)
        wants == replaces \/ prior = NoShell
    IN  /\ life' = [life EXCEPT !.live = s, !.fresh = FALSE, !.reattach = FALSE]
        /\ bar' = s
        /\ replace' = replaces
        /\ screen' = IF replaces \/ prior # NoShell THEN screen ELSE Owned(s)
        /\ os' = IF ~os.on THEN os
                 ELSE [NewOutput EXCEPT !.inReplay = wants, !.suppress = wants,
                                        !.reset = wants /\ replaces]
        /\ link' = [Took EXCEPT !.told = TRUE,
                       !.ready = IF wants THEN "replay" ELSE "plain"]
        /\ UNCHANGED <<timer, gap, dead>>

Frames(q) == Cardinality({i \in DOMAIN q : q[i].t = "output"})

(* handleBinaryMessage() and finishReplay(): a page that cannot keep up    *)
(* gives its socket up.                                                    *)
Queues(m) ==
    /\ IF os.on /\ m.t = "output" /\ Frames(os.queue) + Len(os.kept) + 1 > QueueMax
       THEN /\ os' = Disposed
            /\ link' = [link EXCEPT !.phase = "closed", !.at = NoShell, !.hold = <<>>,
                                    !.ready = "no", !.down = <<Event("close")>>]
       ELSE /\ os' = IF os.on THEN [os EXCEPT !.queue = Append(@, m)] ELSE os
            /\ link' = Took
    /\ UNCHANGED <<page, shown>>

(* Mutation: the address bar keeps the id of the shell that exited. *)
TakesExitKeepingBar(s) ==
    /\ life' = IF life.exited THEN life ELSE [life EXCEPT !.exited = TRUE, !.live = NoShell]
    /\ dead' = dead \cup {s}
    /\ link' = Took
    /\ UNCHANGED <<bar, timer, replace, os, screen, gap>>

(* markShellDead(). *)
TakesExit(s) ==
    /\ life' = IF life.exited THEN life ELSE [life EXCEPT !.exited = TRUE, !.live = NoShell]
    /\ bar' = IF life.exited THEN bar ELSE NoShell
    /\ dead' = dead \cup {s}
    /\ link' = Took
    /\ UNCHANGED <<timer, replace, os, screen, gap>>

(* handleConnectionClose(): one silent attempt to get back to the shell, a *)
(* retry until a connection was made, or the connection is lost.           *)
Closes ==
    LET silent == life.live # NoShell /\ ~life.reattach
        again == ~life.exited /\ (silent \/ ~life.ever)
    IN  /\ os' = Disposed
        /\ link' = NoLink
        /\ life' = IF life.exited \/ ~life.ever THEN life
                   ELSE [life EXCEPT !.reattach = silent, !.exited = ~silent]
        /\ timer' = again
        /\ UNCHANGED <<bar, replace, shown>>

Take ==
    /\ link.down # <<>>
    /\ LET m == Head(link.down) IN
       \/ m.t = "open" /\ Opens
       \/ m.t = "session" /\ TakesSession(m.of)
       \/ m.t \in {"output", "replay-end"} /\ Queues(m)
       \/ m.t = "exit" /\ TakesExit(m.of)
       \/ m.t = "close" /\ Closes
    /\ UNCHANGED <<server, drops, acts>>

-----------------------------------------------------------------------------
(* The output session *)

(* What the screen is, and whether something is missing, once the chunks   *)
(* of c are written after what it shows.                                   *)
Written(scr, c) == [of |-> c.of, last |-> c.to]
Misses(scr, c) == scr.of = c.of /\ scr.last # Unknown /\ c.from > scr.last + 1

(* flushReplay(): the reset and the replay as one write, typing let        *)
(* through once it is parsed.                                              *)
Flushes(rest) ==
    LET c == os.kept
        base == IF os.reset THEN [of |-> life.live, last |-> Unknown] ELSE screen
        full == os.reset \/ c # <<>>
    IN  /\ os' = [os EXCEPT !.queue = rest, !.inReplay = FALSE, !.kept = <<>>,
                     !.reset = FALSE, !.suppress = @ /\ full, !.draining = full]
        /\ screen' = IF c = <<>> THEN base ELSE Written(base, c[Len(c)])
        /\ replace' = (replace /\ ~full)
        /\ gap' = (gap \/ (c # <<>> /\ Misses(base, c[1])))

(* The head of the decompress queue is through. *)
Decompress ==
    LET m == Head(os.queue)
        rest == Tail(os.queue) IN
    /\ os.queue # <<>>
    /\ \/ /\ m.t = "output" /\ os.inReplay
          /\ os' = [os EXCEPT !.queue = rest, !.kept = Append(@, m)]
          /\ UNCHANGED <<replace, screen, gap>>
       \/ /\ m.t = "output" /\ ~os.inReplay
          /\ os' = [os EXCEPT !.queue = rest]
          /\ screen' = Written(screen, m)
          /\ gap' = (gap \/ Misses(screen, m))
          /\ UNCHANGED replace
       \/ m.t = "replay-end" /\ Flushes(rest)
    /\ UNCHANGED <<server, link, life, bar, timer, dead, drops, acts>>

(* The terminal has parsed the replay. *)
Drained ==
    /\ os.draining
    /\ os' = [os EXCEPT !.draining = FALSE, !.suppress = FALSE]
    /\ UNCHANGED <<server, link, page, shown, drops, acts>>

-----------------------------------------------------------------------------

(* A shell runs; the page is a new one, a refreshed one, or a phone's. *)
Init ==
    /\ alive = {1} /\ out = [s \in Shells |-> IF s = 1 THEN 0 ELSE Unknown]
    /\ bar \in {NoShell, 1}
    /\ \E phone \in BOOLEAN :
          /\ phone => bar = NoShell
          /\ life = [exited |-> FALSE, ever |-> FALSE, live |-> NoShell, next |-> NoShell,
                     fresh |-> FALSE, reattach |-> FALSE, resuming |-> phone]
          /\ link = IF phone THEN NoLink ELSE Opening(bar)
          /\ os = IF phone THEN Disposed ELSE NewOutput
    /\ timer = FALSE /\ replace = FALSE
    /\ screen = [of |-> NoShell, last |-> Unknown] /\ gap = FALSE /\ dead = {}
    /\ drops = 0 /\ acts = 0

Next ==
    \/ Accept
    \/ \E s \in Shells : Emit(s)
    \/ Ready
    \/ ReadyLate
    \/ \E s \in Shells : Exit(s)
    \/ Drop
    \/ TimerFires
    \/ Reconnect
    \/ \E s \in Shells : SwitchTo(s)
    \/ SwitchToFresh
    \/ \E s \in alive \cup {NoShell} : Resume(s)
    \/ Take
    \/ Decompress
    \/ Drained

(* The daemon answers, the browser delivers events and runs promises and   *)
(* timers.                                                                 *)
Fairness ==
    /\ WF_vars(Accept) /\ WF_vars(Ready) /\ WF_vars(ReadyLate)
    /\ WF_vars(TimerFires) /\ WF_vars(\E s \in alive \cup {NoShell} : Resume(s))
    /\ WF_vars(Take) /\ WF_vars(Decompress) /\ WF_vars(Drained)

Spec == Init /\ [][Next]_vars /\ Fairness

-----------------------------------------------------------------------------
(* Properties *)

Link == [phase : {"opening", "pending", "live", "closed"}, sid : Ids, at : Ids,
         down : Seq(Frame), hold : Seq(Frame),
         ready : {"no", "plain", "replay"}, told : BOOLEAN]
Life == [exited : BOOLEAN, ever : BOOLEAN, live : Ids, next : Ids,
         fresh : BOOLEAN, reattach : BOOLEAN, resuming : BOOLEAN]
OutputSession == [on : BOOLEAN, queue : Seq(Frame), inReplay : BOOLEAN, kept : Seq(Frame),
                  reset : BOOLEAN, suppress : BOOLEAN, draining : BOOLEAN]

(* Every variable has its type, and what waits to be decompressed or shown *)
(* its limit (WS_OUTPUT_CLIENT_QUEUE_MAX_BYTES).                           *)
TypeOK ==
    /\ alive \subseteq Shells /\ out \in [Shells -> Nat \cup {Unknown}]
    /\ link \in Link /\ life \in Life /\ os \in OutputSession
    /\ Frames(os.queue) + Len(os.kept) <= QueueMax
    /\ bar \in Ids /\ timer \in BOOLEAN /\ replace \in BOOLEAN
    /\ screen \in [of : Ids, last : Nat \cup {Unknown}]
    /\ gap \in BOOLEAN /\ dead \subseteq Shells
    /\ drops \in 0 .. MaxDrops /\ acts \in 0 .. MaxActs

(* The page, once it knows its session, sends what comes on a path: what   *)
(* the terminal makes of keys ("data", its onData event), or what a key    *)
(* handler or the on-screen keyboard sends by itself ("handler").          *)
Sends(path) ==
    link.told /\ ~life.exited /\ os.on /\ (path = "data" => ~os.suppress)

(* What passes the terminal's onData event goes to the shell on the        *)
(* screen: while the screen is still another's it is held back, through    *)
(* lost connections in the middle of a switch and late promotions.         *)
ShownIsTyped ==
    Sends("data") => screen.of = life.live /\ link.at \in {life.live, NoShell}

(* use-terminal-runtime.ts says that keystrokes share onData and are       *)
(* dropped with it: no key goes to a shell while the screen shows another. *)
(* The code does not keep it on the other path.                            *)
KeysWait ==
    \A path \in {"data", "handler"} :
        Sends(path) /\ link.at # NoShell => screen.of \in {NoShell, link.at}

(* A shell whose exit the page was told is never asked for again.          *)
DeadIsLeft == link.phase = "opening" => link.sid \notin dead

(* Whatever is lost, overflows, exits or is chosen, in the end the page    *)
(* says that it is over, or shows a shell and lets typing through.         *)
PageSettles ==
    <>[](\/ life.exited /\ link.phase = "closed"
         \/ link.phase = "live" /\ link.told /\ os.on /\ ~os.suppress)

(* schemas.ts says of a page that is not sent the scrollback again that no *)
(* output is lost across the gap: output follows what is on the screen.    *)
NoGap == ~gap
=============================================================================
