-------------------------- MODULE SessionLifecycle --------------------------
(***************************************************************************)
(* The table of live PTY sessions of the localterm daemon: who may attach, *)
(* when a session without viewers is parked, and what ends it.             *)
(*                                                                         *)
(* Models packages/server/src/session-manager.ts, session-lifecycle-       *)
(* policy.ts and the attach/detach half of session-client-hub.ts, driven   *)
(* by the websocket and REST routes of index.ts.  The daemon is one Node   *)
(* process: every handler, timer callback and PTY callback below runs to   *)
(* its end before the next one, so each is one action.                     *)
(*                                                                         *)
(* Time is abstracted.  A grace timer may fire at any moment after it is   *)
(* armed, output recency (SESSION_ACTIVITY_WINDOW_MS) is a flag that may   *)
(* lapse at any moment, and Date.now() is a stamp that never goes back;    *)
(* only the order of the stamps matters, to pick the session to evict.     *)
(***************************************************************************)
EXTENDS Integers, FiniteSets

CONSTANTS
    Session,       \* session ids, each used for one spawn (they are UUIDs)
    Client,        \* browser sockets
    User,          \* identities a multi-user daemon partitions sessions by
    NULL,          \* null: the operator tier, no session, no stamp
    MaxSessions,   \* MAX_CONCURRENT_SESSIONS
    MaxClock       \* bound: the last stamp Date.now() takes in the model

ASSUME SessionsAssumption == IsFiniteSet(Session) /\ NULL \notin Session
ASSUME CapacityAssumption == MaxSessions \in Nat \ {0}
ASSUME ClockAssumption == MaxClock \in Nat /\ NULL \notin Nat

VARIABLES
    status,     \* unborn, live, or what ended the session
    owner,      \* managed.owner, set at spawn
    clients,    \* managed.clients, per session
    entry,      \* wsToClient: the session a socket views
    pinned,     \* managed.pinned
    timer,      \* managed.graceTimer is armed
    parkedAt,   \* managed.parkedAt
    createdAt,  \* managed.createdAt
    recent,     \* output arrived within the activity window
    foreground, \* managed.hasForeground
    graceOn,    \* getGraceMs() is a number, not null ("never reap")
    now,        \* the last Date.now() that was read
    up          \* the daemon has not been stopped

table == <<status, owner, clients, entry>>
policy == <<pinned, timer, parkedAt, createdAt>>
activity == <<recent, foreground>>
vars == <<table, policy, activity, graceOn, now, up>>

Ended == {"reaped", "evicted", "killed", "exited", "disposed"}
Owner == User \cup {NULL}

Live == {s \in Session : status[s] = "live"}

(* Mutation: the wall clock is set back between two readings. *)
StampsSetBack == {t \in now - 1 .. now + 1 : t <= MaxClock}

(* A later reading of Date.now(); two readings may fall in the same ms. *)
Stamps == {t \in now .. now + 1 : t <= MaxClock}

(* computeState() = "ready": no recent output and no foreground program. *)
Ready(s) == ~recent[s] /\ ~foreground[s]

(* Mutation: a running command is evicted once nobody views it. *)
CanEvictRunning(s) == s \in Live /\ clients[s] = {} /\ ~pinned[s]

CanEvict(s) == s \in Live /\ clients[s] = {} /\ ~pinned[s] /\ Ready(s)

AtCapacity ==
    /\ Cardinality(Live) >= MaxSessions
    /\ \A s \in Live : ~CanEvict(s)

EvictKey(s) == IF parkedAt[s] = NULL THEN createdAt[s] ELSE parkedAt[s]

OldestDormant(s) ==
    /\ CanEvict(s)
    /\ \A t \in Live : CanEvict(t) => EvictKey(s) <= EvictKey(t)

(* Mutation: room is made one session too late. *)
RoomChoicesLate ==
    IF Cardinality(Live) <= MaxSessions
    THEN {{}}
    ELSE {{s} : s \in {x \in Live : OldestDormant(x)}}

(* The sets of sessions makeRoomForSession may tear down: none below the  *)
(* cap, the oldest dormant one at the cap.  No choice left means no room. *)
RoomChoices ==
    IF Cardinality(Live) < MaxSessions
    THEN {{}}
    ELSE {{s} : s \in {x \in Live : OldestDormant(x)}}

(* sessionFor: a live session this owner may operate on. *)
Owns(o, s) == o = NULL \/ owner[s] = o

Reset(f, D, value) == [s \in Session |-> IF s \in D THEN value ELSE f[s]]

(* Mutation: startGrace ignores the "never reap" setting. *)
ArmsTimerAlways(pin, grace) == ~pin

(* Mutation: startGrace parks a session without arming its timer. *)
ArmsTimerNever(pin, grace) == ~pin /\ ~grace

(* startGrace arms a timer unless the session is pinned or reaping is off. *)
ArmsTimer(pin, grace) == ~pin /\ grace

(* Mutation: tearDown leaves the wsToClient entries behind. *)
TornEntryKept(D) == entry

(* tearDown of the sessions in D; cause is what ended them.  Their clients *)
(* lose their entry, their timers are cancelled, the objects are dropped.  *)
TornStatus(D, cause) == Reset(status, D, cause)
TornEntry(D) == [c \in Client |-> IF entry[c] \in D THEN NULL ELSE entry[c]]

TearDown(D, cause) ==
    /\ status' = TornStatus(D, cause)
    /\ entry' = TornEntry(D)
    /\ clients' = Reset(clients, D, {})
    /\ timer' = Reset(timer, D, FALSE)
    /\ parkedAt' = Reset(parkedAt, D, NULL)
    /\ pinned' = Reset(pinned, D, FALSE)
    /\ recent' = Reset(recent, D, FALSE)
    /\ foreground' = Reset(foreground, D, FALSE)
    /\ owner' = Reset(owner, D, NULL)
    /\ createdAt' = Reset(createdAt, D, 0)

Init ==
    /\ status = [s \in Session |-> "unborn"]
    /\ owner = [s \in Session |-> NULL]
    /\ clients = [s \in Session |-> {}]
    /\ entry = [c \in Client |-> NULL]
    /\ pinned = [s \in Session |-> FALSE]
    /\ timer = [s \in Session |-> FALSE]
    /\ parkedAt = [s \in Session |-> NULL]
    /\ createdAt = [s \in Session |-> 0]
    /\ recent = [s \in Session |-> FALSE]
    /\ foreground = [s \in Session |-> FALSE]
    /\ graceOn = TRUE
    /\ now = 0
    /\ up = TRUE

(***************************************************************************)
(* Spawning.  viewers is the set of sockets attached in the same call, pin *)
(* the pinned flag it ends with; the evicted sessions D make room first.   *)
(***************************************************************************)
SpawnSession(s, o, t, D, viewers, pin) ==
    /\ status[s] = "unborn"
    /\ t \in Stamps
    /\ now' = t
    /\ status' = [TornStatus(D, "evicted") EXCEPT ![s] = "live"]
    /\ owner' = [Reset(owner, D, NULL) EXCEPT ![s] = o]
    /\ clients' = [Reset(clients, D, {}) EXCEPT ![s] = viewers]
    /\ entry' = [c \in Client |-> IF c \in viewers THEN s ELSE TornEntry(D)[c]]
    /\ pinned' = [Reset(pinned, D, FALSE) EXCEPT ![s] = pin]
    /\ timer' = [Reset(timer, D, FALSE)
                   EXCEPT ![s] = viewers = {} /\ ArmsTimer(pin, graceOn)]
    /\ parkedAt' = [Reset(parkedAt, D, NULL)
                      EXCEPT ![s] = IF viewers = {} THEN t ELSE NULL]
    /\ createdAt' = [Reset(createdAt, D, 0) EXCEPT ![s] = t]
    /\ recent' = [Reset(recent, D, FALSE) EXCEPT ![s] = TRUE]
    /\ foreground' = [Reset(foreground, D, FALSE) EXCEPT ![s] = FALSE]
    /\ UNCHANGED <<graceOn, up>>

(* A socket opens with no ?sid=, or with one that attach() refuses, and is *)
(* given a session of its own (onOpen: spawnAndAttach).                    *)
OpenFresh(c, s, o, t) ==
    /\ up
    /\ entry[c] = NULL
    /\ \E D \in RoomChoices : SpawnSession(s, o, t, D, {c}, FALSE)

(* POST /api/sessions and one-shot exec: a session with no socket. *)
SpawnDetached(s, o, t, pin) ==
    /\ up
    /\ \E D \in RoomChoices : SpawnSession(s, o, t, D, {}, pin)

(* node-pty fails after room was made: the evicted session stays gone. *)
SpawnFails ==
    /\ up
    /\ \E D \in RoomChoices : D # {} /\ TearDown(D, "evicted")
    /\ UNCHANGED <<graceOn, now, up>>

(***************************************************************************)
(* Viewers.                                                                *)
(***************************************************************************)
(* Mutation: attaching stops the timer but leaves the session parked. *)
OpenAttachParked(c, s, o) ==
    /\ up
    /\ entry[c] = NULL
    /\ s \in Live
    /\ Owns(o, s)
    /\ entry' = [entry EXCEPT ![c] = s]
    /\ clients' = [clients EXCEPT ![s] = @ \cup {c}]
    /\ timer' = [timer EXCEPT ![s] = FALSE]
    /\ UNCHANGED <<status, owner, pinned, parkedAt, createdAt, activity, graceOn, now, up>>

(* A socket opens with ?sid= of a session its identity may use. *)
OpenAttach(c, s, o) ==
    /\ up
    /\ entry[c] = NULL
    /\ s \in Live
    /\ Owns(o, s)
    /\ entry' = [entry EXCEPT ![c] = s]
    /\ clients' = [clients EXCEPT ![s] = @ \cup {c}]
    /\ timer' = [timer EXCEPT ![s] = FALSE]
    /\ parkedAt' = [parkedAt EXCEPT ![s] = NULL]
    /\ UNCHANGED <<status, owner, pinned, createdAt, activity, graceOn, now, up>>

(* The socket closes or errors: releaseSessionFromSocket. *)
Detach(c, t) ==
    /\ up
    /\ entry[c] # NULL
    /\ t \in Stamps
    /\ LET s == entry[c]
           last == clients[s] = {c}
       IN  /\ clients' = [clients EXCEPT ![s] = @ \ {c}]
           /\ parkedAt' = IF last THEN [parkedAt EXCEPT ![s] = t] ELSE parkedAt
           /\ timer' = IF last
                       THEN [timer EXCEPT ![s] = ArmsTimer(pinned[s], graceOn)]
                       ELSE timer
           /\ now' = IF last THEN t ELSE now
    /\ entry' = [entry EXCEPT ![c] = NULL]
    /\ UNCHANGED <<status, owner, pinned, createdAt, activity, graceOn, up>>

(***************************************************************************)
(* What ends a session.                                                    *)
(***************************************************************************)
(* The grace timer fires: re-armed while the shell is doing something. *)
GraceFires(s, t) ==
    /\ up
    /\ timer[s]
    /\ t \in Stamps
    /\ IF Ready(s)
       THEN TearDown({s}, "reaped") /\ UNCHANGED now
       ELSE /\ parkedAt' = [parkedAt EXCEPT ![s] = t]
            /\ timer' = [timer EXCEPT ![s] = ArmsTimer(pinned[s], graceOn)]
            /\ now' = t
            /\ UNCHANGED <<table, pinned, createdAt, activity>>
    /\ UNCHANGED <<graceOn, up>>

(* DELETE /api/sessions/:id. *)
Kill(s, o) ==
    /\ up
    /\ s \in Live
    /\ Owns(o, s)
    /\ TearDown({s}, "killed")
    /\ UNCHANGED <<graceOn, now, up>>

(* node-pty reports the shell's exit: handleExit. *)
ShellExits(s) ==
    /\ up
    /\ s \in Live
    /\ TearDown({s}, "exited")
    /\ UNCHANGED <<graceOn, now, up>>

(* stop(): disposeAll. *)
Stop ==
    /\ up
    /\ TearDown(Live, "disposed")
    /\ up' = FALSE
    /\ UNCHANGED <<graceOn, now>>

(***************************************************************************)
(* Policy changes.                                                         *)
(***************************************************************************)
(* PATCH /api/sessions/:id with pinned. *)
SetPinned(s, pin, o, t) ==
    /\ up
    /\ s \in Live
    /\ Owns(o, s)
    /\ t \in Stamps
    /\ pinned' = [pinned EXCEPT ![s] = pin]
    /\ IF clients[s] = {}
       THEN /\ timer' = [timer EXCEPT ![s] = ArmsTimer(pin, graceOn)]
            /\ parkedAt' = [parkedAt EXCEPT ![s] = t]
            /\ now' = t
       ELSE UNCHANGED <<timer, parkedAt, now>>
    /\ UNCHANGED <<table, createdAt, activity, graceOn, up>>

(* PUT /api/config with graceSeconds: the new value reaches every parked   *)
(* session at once (applyGraceSeconds: rearmGrace).                        *)
SetGrace(on, t) ==
    /\ up
    /\ t \in Stamps
    /\ now' = t
    /\ graceOn' = on
    /\ timer' = [s \in Session |->
                   IF s \in Live /\ clients[s] = {} THEN ArmsTimer(pinned[s], on)
                   ELSE timer[s]]
    /\ parkedAt' = [s \in Session |->
                      IF s \in Live /\ clients[s] = {} THEN t ELSE parkedAt[s]]
    /\ UNCHANGED <<table, pinned, createdAt, activity, up>>

(***************************************************************************)
(* The shell's activity.                                                   *)
(***************************************************************************)
Output(s) ==
    /\ up
    /\ s \in Live
    /\ recent' = [recent EXCEPT ![s] = TRUE]
    /\ UNCHANGED <<table, policy, foreground, graceOn, now, up>>

(* SESSION_ACTIVITY_WINDOW_MS passes with no output. *)
Quiet(s) ==
    /\ up
    /\ s \in Live
    /\ recent' = [recent EXCEPT ![s] = FALSE]
    /\ UNCHANGED <<table, policy, foreground, graceOn, now, up>>

(* The shell hook reports a foreground program starting or ending. *)
Foreground(s, running) ==
    /\ up
    /\ s \in Live
    /\ foreground' = [foreground EXCEPT ![s] = running]
    /\ UNCHANGED <<table, policy, recent, graceOn, now, up>>

Next ==
    \/ \E c \in Client, s \in Session, o \in Owner, t \in Stamps : OpenFresh(c, s, o, t)
    \/ \E s \in Session, o \in Owner, t \in Stamps, pin \in BOOLEAN :
            SpawnDetached(s, o, t, pin)
    \/ SpawnFails
    \/ \E c \in Client, s \in Session, o \in Owner : OpenAttach(c, s, o)
    \/ \E c \in Client, t \in Stamps : Detach(c, t)
    \/ \E s \in Session, t \in Stamps : GraceFires(s, t)
    \/ \E s \in Session, o \in Owner : Kill(s, o)
    \/ \E s \in Session : ShellExits(s)
    \/ Stop
    \/ \E s \in Session, pin \in BOOLEAN, o \in Owner, t \in Stamps :
            SetPinned(s, pin, o, t)
    \/ \E on \in BOOLEAN, t \in Stamps : SetGrace(on, t)
    \/ \E s \in Session : Output(s)
    \/ \E s \in Session : Quiet(s)
    \/ \E s \in Session, running \in BOOLEAN : Foreground(s, running)

Spec == Init /\ [][Next]_vars

(* Node runs an expired timer: an armed grace timer that is not cancelled  *)
(* fires.  Nothing else is assumed: users and shells need not act.         *)
Fairness == \A s \in Session : WF_vars(\E t \in Stamps : GraceFires(s, t))

FairSpec == Spec /\ Fairness

-----------------------------------------------------------------------------
(* The shape of the table, of the sockets' entries and of the stamps.      *)
TypeOK ==
    /\ status \in [Session -> {"unborn", "live"} \cup Ended]
    /\ owner \in [Session -> Owner]
    /\ clients \in [Session -> SUBSET Client]
    /\ entry \in [Client -> Session \cup {NULL}]
    /\ pinned \in [Session -> BOOLEAN]
    /\ timer \in [Session -> BOOLEAN]
    /\ parkedAt \in [Session -> Nat \cup {NULL}]
    /\ createdAt \in [Session -> Nat]
    /\ recent \in [Session -> BOOLEAN]
    /\ foreground \in [Session -> BOOLEAN]
    /\ graceOn \in BOOLEAN
    /\ now \in Nat
    /\ up \in BOOLEAN

(* managed.clients and wsToClient are two records of the same fact kept by *)
(* four handlers; they agree, and no socket points at a session that ended *)
(* (input from such a socket would reach a disposed PTY).                  *)
EntriesAgree ==
    /\ \A c \in Client, s \in Session : c \in clients[s] <=> entry[c] = s
    /\ \A c \in Client : entry[c] # NULL => entry[c] \in Live

(* No zombies: whatever mix of attach, detach, pin and config change led   *)
(* here, the grace timer is armed exactly for the sessions that may be     *)
(* reaped, those nobody views, that are not pinned, with reaping on.       *)
ArmedIffReapable ==
    \A s \in Session :
        timer[s] <=> s \in Live /\ clients[s] = {} /\ ~pinned[s] /\ graceOn

(* A session is parked exactly while nobody views it, so the createdAt     *)
(* fallback of the eviction key is never taken for an evictable session.   *)
ParkedIffUnwatched ==
    \A s \in Session : parkedAt[s] # NULL <=> s \in Live /\ clients[s] = {}

(* Timer, parking stamp and viewers are written by nine handlers, each of  *)
(* which sets only some of them; together they never contradict the table. *)
TimersInStep == ArmedIffReapable /\ ParkedIffUnwatched

(* The cap holds across eviction, failed spawns and every way to end.      *)
CapacityRespected == Cardinality(Live) <= MaxSessions

(* The daemon takes a session away on its own account (reap, evict) only   *)
(* when nobody views it, it is not pinned and its shell is idle; a closed  *)
(* tab never kills a running command.                                      *)
OnlyIdleTakenAway ==
    [][\A s \in Session :
         status[s] = "live" /\ status'[s] \in {"reaped", "evicted"}
           => clients[s] = {} /\ ~pinned[s] /\ Ready(s)]_vars

(* An idle session nobody views and nobody pinned does not stay forever    *)
(* while reaping is on.                                                    *)
Abandoned(s) ==
    s \in Live /\ clients[s] = {} /\ ~pinned[s] /\ Ready(s) /\ graceOn

AbandonedAreReaped == \A s \in Session : []<>(~up \/ ~Abandoned(s))

(* The registry as its users see it: every step of the table, timers and   *)
(* policy included, is one that SessionTable allows.                       *)
Busy == [s \in Session |->
           s \in Live /\ (clients[s] # {} \/ pinned[s] \/ ~Ready(s))]

Table == INSTANCE SessionTable WITH busy <- Busy

KeepsTablePromise == Table!Spec
=============================================================================
