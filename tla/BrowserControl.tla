--------------------------- MODULE BrowserControl ---------------------------
(***************************************************************************)
(* The one socket over which the daemon controls the browser, and the tabs *)
(* it opens over it.                                                       *)
(*                                                                         *)
(* Models packages/server/src/cdp/cdp-connection.ts, cdp-client.ts and     *)
(* extension-hub.ts: the debugging socket the daemon opens, the socket the *)
(* extension opens to it, one replacing the other, half-open sockets, the  *)
(* probe of the keepalive and calls that time out.  Callers are those who  *)
(* open a tab, and the probe.  A handler and the promises it settles are   *)
(* one step.  A socket of the extension reads OPEN until its close event,  *)
(* and the hub returns it until then; one to a debugging browser does not, *)
(* and its end is one step.  Sessions of targets and their tokens are left *)
(* out.                                                                    *)
(***************************************************************************)
EXTENDS Naturals, FiniteSets

CONSTANTS
    Openers,     \* callers of openBackgroundTab()
    Probe,       \* the keepalive as a caller
    MaxSockets,  \* bound: sockets of both kinds
    MaxAttempts  \* attempts of openBackgroundTab(), two in the code

VARIABLES
    state,      \* of each socket; "silent": OPEN, and nobody there;
                \* "closing": of the extension, still OPEN, but nothing is sent
    ws,         \* connection.ws
    client,     \* client of extension-hub.ts
    connecting, \* what establish() awaits: "idle", "extension", "detection", "socket"
    opening,    \* the socket it opens
    call,       \* the socket a caller's pending call was sent on
    step,       \* how far each opener is
    attempt,    \* its attempts so far
    attached,   \* history: sockets that were current once
    wronged     \* history: sockets dropped for the failed call of another

sockets == <<state, ws, client>>
establishing == <<connecting, opening>>
callers == <<call, step, attempt>>
vars == <<sockets, establishing, callers, attached, wronged>>

Sockets == 1 .. MaxSockets
None == 0
Callers == Openers \cup {Probe}
ReadsOpen(s) == s # None /\ state[s] \in {"open", "silent", "closing"}
IsConnected == ReadsOpen(ws)
Unused == {s \in Sockets : state[s] = "unused" /\ \A r \in 1 .. s - 1 : state[r] # "unused"}
Pending == {c \in Callers : call[c] # None}
Waiting == {o \in Openers : step[o] = "connecting"}

(* close() of a socket: that of the extension only asks for it. *)
Closing(s) == IF s = client THEN "closing" ELSE "closed"

(* Mutation: the socket that is replaced stays open. *)
AttachedKeeping(s, states) == states

(* attach(): the socket that is replaced is closed. *)
Attached(s, states) ==
    [t \in Sockets |-> IF t = ws /\ t # s THEN Closing(t) ELSE states[t]]

(* connect() has resolved: who waited for it sends its call on s. *)
Connected(s) ==
    /\ call' = [c \in Callers |-> IF c \in Waiting THEN s ELSE call[c]]
    /\ step' = [o \in Openers |-> IF o \in Waiting THEN "calling" ELSE step[o]]
    /\ connecting' = "idle" /\ opening' = None
    /\ UNCHANGED attempt

(* connect() has rejected: the OS opener is used. *)
NotConnected ==
    /\ step' = [o \in Openers |-> IF o \in Waiting THEN "fallback" ELSE step[o]]
    /\ connecting' = "idle" /\ opening' = None
    /\ UNCHANGED <<call, attempt>>

(* The calls of failed are rejected, those of first before the others, and *)
(* their callers run dropStale() in turn: an opener that has an attempt    *)
(* left, and a manual connect, connect again.  The hub may still have the  *)
(* extension's socket, which is then attached again at once; it stays only *)
(* if nobody's dropStale() comes after, and without it the attempt fails.  *)
Rejected(failed, first, hub, manual) ==
    LET again == {o \in Openers \cap failed : attempt[o] < MaxAttempts}
        connects == again # {} \/ manual
        takes == connects /\ connecting = "idle" /\ hub # None
        Settle(retry, s) ==
            /\ call' = [c \in Callers |-> IF c \in again THEN s
                                         ELSE IF c \in failed THEN None ELSE call[c]]
            /\ step' = [o \in Openers |-> IF o \in again THEN retry
                                         ELSE IF o \in failed THEN "fallback" ELSE step[o]]
            /\ ws' = s
    IN  /\ attempt' = [o \in Openers |-> IF o \in again THEN attempt[o] + 1 ELSE attempt[o]]
        /\ \/ ~takes /\ Settle("connecting", None)
           \/ takes /\ failed \subseteq again /\ Cardinality(failed) < 2
                    /\ (manual => failed = {}) /\ Settle("calling", hub)
           \/ takes /\ ~manual /\ Cardinality(again) = 1 /\ again \cap first = {}
                    /\ Settle("calling", hub)
           \/ takes /\ (Cardinality(failed) > 1 \/ (manual /\ failed # {}))
                    /\ Settle("fallback", None)
        /\ connecting' = IF connects /\ connecting = "idle" /\ ~takes
                         THEN "extension" ELSE connecting
        /\ UNCHANGED opening

(* close() of the current socket, and failPending(): every pending call is *)
(* rejected, whichever socket it was sent on.                              *)
Dropped(first, manual) ==
    /\ state' = [s \in Sockets |-> IF s = ws THEN Closing(s) ELSE state[s]]
    /\ Rejected(Pending \cup first, first, client, manual)
    /\ UNCHANGED client

-----------------------------------------------------------------------------
(* Callers *)

(* openBackgroundTab(); establish() takes the hub's socket if there is one *)
(* and waits for the extension if not.                                     *)
OpenTab(o) ==
    /\ step[o] = "idle"
    /\ attempt' = [attempt EXCEPT ![o] = 1]
    /\ LET takes == ~IsConnected /\ connecting = "idle" /\ client # None
           socket == IF takes THEN client ELSE ws
       IN  /\ ws' = socket
           /\ state' = IF takes THEN Attached(socket, state) ELSE state
           /\ IF IsConnected \/ takes
              THEN /\ call' = [call EXCEPT ![o] = socket]
                   /\ step' = [step EXCEPT ![o] = "calling"]
                   /\ UNCHANGED connecting
              ELSE /\ step' = [step EXCEPT ![o] = "connecting"]
                   /\ connecting' = IF connecting = "idle" THEN "extension" ELSE connecting
                   /\ UNCHANGED call
    /\ UNCHANGED <<client, opening, attached, wronged>>

(* heartbeatTick() after a quiet window. *)
SendProbe ==
    /\ IsConnected /\ call[Probe] = None
    /\ call' = [call EXCEPT ![Probe] = ws]
    /\ UNCHANGED <<sockets, establishing, step, attempt, attached, wronged>>

(* A reply, also one that is an error, leaves the socket alone; replies on *)
(* a socket that is not current are not looked at.                         *)
Reply(c) ==
    /\ call[c] # None /\ call[c] = ws /\ state[ws] = "open"
    /\ call' = [call EXCEPT ![c] = None]
    /\ step' = [o \in Openers |-> IF o = c THEN "opened" ELSE step[o]]
    /\ UNCHANGED <<sockets, establishing, attempt, attached, wronged>>

(* Mutation: only calls on the current socket time out. *)
TimesOutCurrent(c) ==
    /\ call[c] # None /\ call[c] = ws
    /\ Dropped({c}, FALSE)
    /\ UNCHANGED <<attached, wronged>>

(* The deadline of a call, then dropStale() of its caller: it closes what  *)
(* is current by now.                                                      *)
TimesOut(c) ==
    /\ call[c] # None
    /\ wronged' = IF ws \in {None, call[c]} \/ state[ws] = "closing" THEN wronged
                  ELSE wronged \cup {ws}
    /\ Dropped({c}, FALSE)
    /\ UNCHANGED attached

(* connectCdpNow(): resetConnection() and connect(). *)
Reset ==
    /\ Dropped({}, TRUE)
    /\ UNCHANGED <<attached, wronged>>

-----------------------------------------------------------------------------
(* Sockets *)

(* setExtensionClient() and adoptExtension(). *)
ExtensionConnects(s) ==
    /\ s \in Unused
    /\ state' = LET now == Attached(s, [state EXCEPT ![s] = "open"]) IN
          [t \in Sockets |-> IF t = client THEN "closing" ELSE now[t]]
    /\ ws' = s /\ client' = s
    /\ attached' = attached \cup {s}
    /\ IF connecting = "extension" THEN Connected(s)
       ELSE UNCHANGED <<establishing, callers>>
    /\ UNCHANGED wronged

(* CDP_EXTENSION_WAIT_MS are over: the browsers that allow debugging. *)
WaitEnds ==
    /\ connecting = "extension"
    /\ connecting' = "detection"
    /\ UNCHANGED <<sockets, opening, callers, attached, wronged>>

(* No browser is left, or, before the next one is tried, the hub has a     *)
(* socket by now, or the handshake begins.                                 *)
Detected ==
    /\ connecting = "detection"
    /\ \/ NotConnected /\ UNCHANGED <<state, ws>>
       \/ client # None /\ Connected(client)
            /\ ws' = client /\ state' = Attached(client, state)
       \/ client = None /\ connecting' = "socket" /\ UNCHANGED <<ws, callers>>
            /\ \E s \in Unused : opening' = s /\ state' = [state EXCEPT ![s] = "opening"]
    /\ UNCHANGED <<client, attached, wronged>>

(* The open event attaches the socket, also over one that came meanwhile. *)
OpenSucceeds ==
    /\ connecting = "socket"
    /\ state' = Attached(opening, [state EXCEPT ![opening] = "open"])
    /\ ws' = opening
    /\ attached' = attached \cup {opening}
    /\ Connected(opening)
    /\ UNCHANGED <<client, wronged>>

(* Refused or timed out: an extension adopted meanwhile is good enough, if *)
(* not it is the turn of the next browser.                                 *)
OpenFails ==
    /\ connecting = "socket"
    /\ state' = [state EXCEPT ![opening] = "closed"]
    /\ IF IsConnected THEN Connected(ws)
       ELSE connecting' = "detection" /\ opening' = None /\ UNCHANGED callers
    /\ UNCHANGED <<ws, client, attached, wronged>>

(* The computer sleeps: the socket reads OPEN, and may even survive. *)
FallsSilent(s) ==
    /\ state[s] = "open" /\ state' = [state EXCEPT ![s] = "silent"]
    /\ UNCHANGED <<ws, client, establishing, callers, attached, wronged>>

Wakes(s) ==
    /\ state[s] = "silent" /\ state' = [state EXCEPT ![s] = "open"]
    /\ UNCHANGED <<ws, client, establishing, callers, attached, wronged>>

(* The other end closes the current socket. *)
PeerCloses ==
    /\ IsConnected /\ state[ws] # "closing"
    /\ IF ws = client
       THEN state' = [state EXCEPT ![ws] = "closing"]
            /\ UNCHANGED <<ws, client, establishing, callers>>
       ELSE Dropped({}, FALSE)
    /\ UNCHANGED <<attached, wronged>>

(* The close event of a socket of the extension: the hub forgets it, and   *)
(* its calls are rejected if it is current.                                *)
Closed(s) ==
    /\ state[s] = "closing"
    /\ state' = [state EXCEPT ![s] = "closed"]
    /\ client' = IF client = s THEN None ELSE client
    /\ IF ws = s THEN Rejected(Pending, {}, None, FALSE)
       ELSE UNCHANGED <<ws, establishing, callers>>
    /\ UNCHANGED <<attached, wronged>>

-----------------------------------------------------------------------------

Init ==
    /\ state = [s \in Sockets |-> "unused"]
    /\ ws = None /\ client = None
    /\ connecting = "idle" /\ opening = None
    /\ call = [c \in Callers |-> None]
    /\ step = [o \in Openers |-> "idle"]
    /\ attempt = [o \in Openers |-> 0]
    /\ attached = {} /\ wronged = {}

Next ==
    \/ \E o \in Openers : OpenTab(o)
    \/ SendProbe
    \/ \E c \in Callers : Reply(c)
    \/ \E c \in Callers : TimesOut(c)
    \/ Reset
    \/ \E s \in Sockets : ExtensionConnects(s)
    \/ WaitEnds
    \/ Detected
    \/ OpenSucceeds
    \/ OpenFails
    \/ \E s \in Sockets : FallsSilent(s)
    \/ \E s \in Sockets : Wakes(s)
    \/ PeerCloses
    \/ \E s \in Sockets : Closed(s)

(* Timers: the deadline of every call, of the wait and of the handshake;   *)
(* the search for browsers ends.                                           *)
Fairness ==
    /\ \A c \in Callers : WF_vars(TimesOut(c))
    /\ WF_vars(WaitEnds) /\ WF_vars(Detected) /\ WF_vars(OpenFails)

Spec == Init /\ [][Next]_vars /\ Fairness

-----------------------------------------------------------------------------
(* Properties *)

(* Every variable has its type. *)
TypeOK ==
    /\ state \in [Sockets -> {"unused", "opening", "open", "silent", "closing", "closed"}]
    /\ ws \in Sockets \cup {None} /\ client \in Sockets \cup {None}
    /\ connecting \in {"idle", "extension", "detection", "socket"}
    /\ opening \in Sockets \cup {None}
    /\ call \in [Callers -> Sockets \cup {None}]
    /\ step \in [Openers -> {"idle", "connecting", "calling", "opened", "fallback"}]
    /\ attempt \in [Openers -> 0 .. MaxAttempts]
    /\ attached \subseteq Sockets /\ wronged \subseteq Sockets

(* A socket that was current once and is not any more is closed, or was    *)
(* asked to close: whichever came first, the extension or the handshake,   *)
(* the browser is never left with two.                                     *)
OneSocket == \A s \in attached : s # ws => state[s] \in {"closing", "closed"}

(* Opening a tab always comes to an end, through lost sockets, answers on  *)
(* a socket that was replaced and connections shared with another opener.  *)
OpenersEnd ==
    \A o \in Openers :
        step[o] \in {"connecting", "calling"} ~> step[o] \in {"opened", "fallback"}

(* cdp-connection.ts calls dropStale() safe against a concurrent reconnect *)
(* that already swapped in a fresh socket: no socket is dropped because a  *)
(* call on another one failed.                                             *)
FreshSocketKept == wronged = {}

(* cdp-connection.ts says that after a probe has failed the next           *)
(* openBackgroundTab() reconnects cleanly: an opener that finds no socket  *)
(* attached does not call on one that is being closed.  The code does not  *)
(* keep it: it takes what the hub still has.                               *)
ReconnectsCleanly ==
    [][\A o \in Openers :
          ws = None /\ call'[o] # None => state'[call'[o]] # "closing"]_vars
=============================================================================
