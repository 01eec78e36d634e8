-------------------------- MODULE ExtensionRelay ---------------------------
(***************************************************************************)
(* How the browser extension keeps its socket to the daemon.               *)
(*                                                                         *)
(* Models connect(), disconnect() and scheduleReconnect() of               *)
(* packages/server/extension/sw.js with setExtensionClient() of            *)
(* src/cdp/extension-hub.ts: one service worker, which Chrome may end at   *)
(* any moment, and its alarm wakes again; a daemon that stops and starts;  *)
(* and a user who clicks the icon to connect afresh.  Either end hears     *)
(* that a socket has closed later than it does, when another may be        *)
(* current.  What is sent over the socket is BrowserControl's.             *)
(***************************************************************************)
EXTENDS Naturals

CONSTANTS
    Socket,     \* bound: sockets that one of the ends still remembers
    NoSocket,
    MaxUpsets   \* bound: clicks, drops, stops of the daemon, ends of the worker

VARIABLES
    awake,   \* the worker runs
    ws,      \* the worker's current socket
    timer,   \* reconnectTimer is armed
    sock,    \* the worker's end: "free", "connecting", "open", "over" (to be told)
    peer,    \* the daemon's end: "none", "due" (to be accepted), "open", "over"
    hub,     \* the daemon's extension client
    daemon,  \* the daemon listens
    upsets

worker == <<awake, ws, timer>>
vars == <<worker, sock, peer, hub, daemon, upsets>>

Free == {s \in Socket : sock[s] = "free" /\ peer[s] = "none"}

(* The current socket is neither closed nor closing: its readyState. *)
Current == ws # NoSocket /\ sock[ws] \in {"connecting", "open"}

(* disconnect(), which clears the timer, and the new socket of connect();  *)
(* a former socket that is on its way may still reach the daemon.          *)
Renew ==
    \E s \in Free :
        /\ \A t \in Free : s <= t
        /\ ws' = s /\ timer' = FALSE
        /\ sock' = [t \in Socket |-> IF t = s THEN "connecting"
                                     ELSE IF t = ws /\ Current THEN "over" ELSE sock[t]]
        /\ peer' = [t \in Socket |-> IF t = s THEN "due"
                                     ELSE IF t = ws /\ peer[t] = "open" THEN "over"
                                     ELSE peer[t]]

(* connect(): nothing to do while a socket is open or on its way. *)
Connect == IF Current THEN UNCHANGED <<ws, timer, sock, peer>> ELSE Renew

-----------------------------------------------------------------------------
(* The worker *)

(* chrome.action.onClicked, which wakes the worker. *)
Click ==
    /\ upsets < MaxUpsets /\ upsets' = upsets + 1
    /\ awake' = TRUE /\ Renew
    /\ UNCHANGED <<hub, daemon>>

(* The alarm, and connect() as the worker starts. *)
Alarm ==
    /\ awake' = TRUE /\ Connect
    /\ UNCHANGED <<hub, daemon, upsets>>

TimerFires ==
    /\ timer
    /\ IF Current THEN timer' = FALSE /\ UNCHANGED <<ws, sock, peer>> ELSE Renew
    /\ UNCHANGED <<awake, hub, daemon, upsets>>

(* Mutation: the end of any socket is taken for the end of the current one. *)
ClosedAny(s) == ws' = NoSocket

(* The "close" event is about the current socket only if it is that one's. *)
Closed(s) == ws' = IF ws = s THEN NoSocket ELSE ws

CloseEvent(s) ==
    /\ awake /\ sock[s] = "over"
    /\ sock' = [sock EXCEPT ![s] = "free"]
    /\ Closed(s) /\ timer' = TRUE
    /\ UNCHANGED <<awake, peer, hub, daemon, upsets>>

(* Chrome ends the worker, and its sockets with it. *)
WorkerEnds ==
    /\ awake /\ upsets < MaxUpsets /\ upsets' = upsets + 1
    /\ awake' = FALSE /\ ws' = NoSocket /\ timer' = FALSE
    /\ sock' = [s \in Socket |-> "free"]
    /\ peer' = [s \in Socket |-> IF peer[s] = "open" THEN "over" ELSE peer[s]]
    /\ UNCHANGED <<hub, daemon>>

-----------------------------------------------------------------------------
(* The daemon *)

(* onOpen() and setExtensionClient(), which closes the former client.      *)
Accept(s) ==
    /\ daemon /\ peer[s] = "due"
    /\ sock' = [t \in Socket |-> IF t = s /\ sock[t] = "connecting" THEN "open"
                                 ELSE IF t = hub /\ sock[t] = "open" THEN "over"
                                 ELSE sock[t]]
    /\ peer' = [t \in Socket |-> IF t = s THEN IF sock[t] = "connecting" THEN "open" ELSE "over"
                                 ELSE IF t = hub THEN "over" ELSE peer[t]]
    /\ hub' = s
    /\ UNCHANGED <<worker, daemon, upsets>>

(* There is nobody to connect to. *)
Refused(s) ==
    /\ ~daemon /\ peer[s] = "due"
    /\ sock' = [sock EXCEPT ![s] = IF @ = "connecting" THEN "over" ELSE @]
    /\ peer' = [peer EXCEPT ![s] = "none"]
    /\ UNCHANGED <<worker, hub, daemon, upsets>>

(* Mutation: the client is forgotten whoever has closed. *)
ForgetsAny(s) == hub' = NoSocket

(* The client is forgotten if it is the one that has closed. *)
Forgets(s) == hub' = IF hub = s THEN NoSocket ELSE hub

(* onClose(), which ingests the close. *)
Hears(s) ==
    /\ peer[s] = "over"
    /\ peer' = [peer EXCEPT ![s] = "none"]
    /\ Forgets(s)
    /\ UNCHANGED <<worker, sock, daemon, upsets>>

(* The daemon closes its client: a probe has failed, or a reset.           *)
Drop ==
    /\ hub # NoSocket /\ peer[hub] = "open"
    /\ upsets < MaxUpsets /\ upsets' = upsets + 1
    /\ sock' = [sock EXCEPT ![hub] = "over"]
    /\ peer' = [peer EXCEPT ![hub] = "over"]
    /\ UNCHANGED <<worker, hub, daemon>>

Stop ==
    /\ daemon /\ upsets < MaxUpsets /\ upsets' = upsets + 1
    /\ daemon' = FALSE /\ hub' = NoSocket
    /\ sock' = [s \in Socket |-> IF sock[s] = "open" THEN "over" ELSE sock[s]]
    /\ peer' = [s \in Socket |-> IF peer[s] = "due" THEN "due" ELSE "none"]
    /\ UNCHANGED worker

Start ==
    /\ ~daemon /\ daemon' = TRUE
    /\ UNCHANGED <<worker, sock, peer, hub, upsets>>

-----------------------------------------------------------------------------

Init ==
    /\ awake = FALSE /\ ws = NoSocket /\ timer = FALSE
    /\ sock = [s \in Socket |-> "free"] /\ peer = [s \in Socket |-> "none"]
    /\ hub = NoSocket /\ daemon \in BOOLEAN /\ upsets = 0

Next ==
    \/ Click
    \/ Alarm
    \/ TimerFires
    \/ \E s \in Socket : CloseEvent(s)
    \/ WorkerEnds
    \/ \E s \in Socket : Accept(s)
    \/ \E s \in Socket : Refused(s)
    \/ \E s \in Socket : Hears(s)
    \/ Drop
    \/ Stop
    \/ Start

(* The alarm and the timer come, the browser and the daemon's runtime tell *)
(* of sockets that end, and the daemon accepts; nothing starts the daemon. *)
Fairness ==
    /\ WF_vars(Alarm) /\ WF_vars(TimerFires)
    /\ \A s \in Socket :
          /\ WF_vars(CloseEvent(s)) /\ WF_vars(Accept(s))
          /\ WF_vars(Refused(s)) /\ WF_vars(Hears(s))

Spec == Init /\ [][Next]_vars /\ Fairness

-----------------------------------------------------------------------------
(* Properties *)

(* Every variable has its type. *)
TypeOK ==
    /\ {awake, timer, daemon} \subseteq BOOLEAN
    /\ ws \in Socket \union {NoSocket} /\ hub \in Socket \union {NoSocket}
    /\ sock \in [Socket -> {"free", "connecting", "open", "over"}]
    /\ peer \in [Socket -> {"none", "due", "open", "over"}]
    /\ upsets \in 0 .. MaxUpsets

(* While the daemon runs, the extension is connected by one socket that    *)
(* both ends hold for the current one.                                     *)
Connected == daemon => hub # NoSocket /\ hub = ws /\ peer[hub] = "open"

(* It comes to be so and stays so: neither end takes the late end of a     *)
(* former socket for that of the new one.                                  *)
RelayReturns == <>[]Connected
=============================================================================
