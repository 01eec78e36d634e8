---------------------------- MODULE Hibernation ----------------------------
(***************************************************************************)
(* What a page shows after the daemon was stopped and started again.       *)
(*                                                                         *)
(* Models stop() of packages/server/src/index.ts, hibernateEntries() of    *)
(* session-manager.ts, hibernate-store.ts, and the spawn of a page's shell *)
(* with the text of the former one.  stop() waits for the agent runs and   *)
(* then for the text of each session in turn; until it has written the     *)
(* file, pages come and go, shells print and end, and new ones appear at   *)
(* the end of the table it walks.                                          *)
(*                                                                         *)
(* Sessions are numbered in the order of the table, and a number is not    *)
(* used twice.  A text is the number of lines it has, and a session that   *)
(* is restored begins with those of the former one.                        *)
(***************************************************************************)
EXTENDS Naturals, FiniteSets

CONSTANTS
    Page,         \* browser tabs
    WindowOf,     \* the windowId of a page, or NoWindow
    NoWindow,
    OwnerOf,      \* the identity a page has, or Operator
    Operator,     \* the owner null, who may see every session
    MaxSessions,  \* bound: sessions
    MaxLines,     \* bound: lines of a session
    MaxStops      \* bound: shutdowns

VARIABLES
    daemon,   \* "up", "awaiting" the agent runs, "saving", or "down"
    stops,    \* shutdowns so far
    table,    \* SessionManager.sessions
    created,  \* sessions so far
    auto,     \* those of an automation
    owner,    \* the sessions' owners
    lines,    \* their texts
    viewer,   \* the session a page is attached to, or None
    sid,      \* the session a page asks for, or None
    cursor,   \* hibernateEntries(): the session its loop has come to
    read,     \*   what it has read of that one, while the renderer parses
    entries,  \*   byKey: one record per window and tab
    file,     \* HibernateStore: the file
    startup,  \* startupHibernateEntries
    steady    \* pages that saw one session through, with its lines at the stop

Session == 1 .. MaxSessions
None == 0
Idle == [sid |-> None, lines |-> 0]

sessions == <<table, created, auto, owner, lines>>
pages == <<viewer, sid>>
saved == <<cursor, read, entries>>
vars == <<daemon, stops, sessions, pages, saved, file, startup, steady>>

Clients(s) == {p \in Page : viewer[p] = s}
Serving == daemon # "down"

(* sessionFor(), isAttachable: the operator may attach to every session. *)
MayAttach(p, s) == s \in table /\ OwnerOf[p] \in {Operator, owner[s]}

(* hibernatedTabFor(): the tabs that a page would be given. *)
TabsFor(p, from) ==
    {e \in from : /\ WindowOf[p] # NoWindow
                  /\ e.owner = OwnerOf[p] /\ e.window = WindowOf[p]
                  /\ e.sid = sid[p]}

(* The page is no longer one that saw its session through. *)
Gone(p) == {w \in steady : w.page # p}

-----------------------------------------------------------------------------
(* Pages and shells *)

(* onOpen() with the id of a live session. *)
Attach(p, s) ==
    /\ Serving /\ viewer[p] = None /\ MayAttach(p, s)
    /\ viewer' = [viewer EXCEPT ![p] = s]
    /\ sid' = [sid EXCEPT ![p] = s]
    /\ steady' = Gone(p)
    /\ UNCHANGED <<daemon, stops, sessions, saved, file, startup>>

(* onOpen() without one: a shell is spawned, with the text the page had    *)
(* unless the page is there for a run or with a command of its own.        *)
Spawn(p, purpose) ==
    /\ Serving /\ viewer[p] = None /\ ~MayAttach(p, sid[p])
    /\ created < MaxSessions /\ created' = created + 1
    /\ table' = table \union {created'}
    /\ auto' = IF purpose = "run" THEN auto \union {created'} ELSE auto
    /\ owner' = [owner EXCEPT ![created'] = OwnerOf[p]]
    /\ LET tabs == IF purpose = "plain" THEN TabsFor(p, startup) ELSE {}
       IN \/ tabs = {} /\ UNCHANGED lines
          \/ \E e \in tabs : lines' = [lines EXCEPT ![created'] = e.lines]
    /\ viewer' = [viewer EXCEPT ![p] = created']
    /\ sid' = [sid EXCEPT ![p] = created']
    /\ steady' = Gone(p)
    /\ UNCHANGED <<daemon, stops, saved, file, startup>>

(* detach(): the page goes, and keeps the id. *)
Detach(p) ==
    /\ viewer[p] # None
    /\ viewer' = [viewer EXCEPT ![p] = None]
    /\ steady' = Gone(p)
    /\ UNCHANGED <<daemon, stops, sessions, sid, saved, file, startup>>

Output(s) ==
    /\ s \in table /\ lines[s] < MaxLines
    /\ lines' = [lines EXCEPT ![s] = @ + 1]
    /\ UNCHANGED <<daemon, stops, table, created, auto, owner, pages, saved,
                   file, startup, steady>>

(* The shell ends, or the session is killed or evicted: tearDown(). *)
TearDown(s) ==
    /\ s \in table /\ table' = table \ {s}
    /\ auto' = auto \ {s} /\ lines' = [lines EXCEPT ![s] = 0]
    /\ viewer' = [p \in Page |-> IF viewer[p] = s THEN None ELSE viewer[p]]
    /\ steady' = {w \in steady : viewer[w.page] # s}
    /\ UNCHANGED <<daemon, stops, created, owner, sid, saved, file, startup>>

-----------------------------------------------------------------------------
(* The shutdown *)

(* stop(), up to its first await. *)
Stop ==
    /\ daemon = "up" /\ stops < MaxStops
    /\ daemon' = "awaiting" /\ stops' = stops + 1
    /\ steady' = {[page |-> p, lines |-> lines[viewer[p]]] :
                     p \in {q \in Page : viewer[q] \notin auto \union {None}}}
    /\ UNCHANGED <<sessions, pages, saved, file, startup>>

(* The agent runs have settled: hibernateEntries(). *)
RunsSettled ==
    /\ daemon = "awaiting" /\ daemon' = "saving"
    /\ cursor' = None /\ read' = Idle /\ entries' = {}
    /\ UNCHANGED <<stops, sessions, pages, file, startup, steady>>

Ahead == {s \in table : s > cursor}

(* The loop comes to its next session. *)
Visit ==
    /\ daemon = "saving" /\ read = Idle
    /\ \E s \in Ahead :
          /\ \A t \in Ahead : s <= t
          /\ cursor' = s
          /\ read' = IF s \in auto \/ Clients(s) = {} THEN Idle
                     ELSE [sid |-> s, lines |-> lines[s]]
    /\ UNCHANGED <<daemon, stops, sessions, pages, entries, file, startup, steady>>

(* The tab of a session for a page that watches it. *)
Entry(p) == [owner |-> owner[read.sid], window |-> WindowOf[p],
             sid |-> read.sid, lines |-> read.lines]

(* Mutation: the entries are kept by window alone, as the first one's.     *)
KeyedByWindow(p) ==
    LET same == {e \in entries : e.window = WindowOf[p]}
    IN [Entry(p) EXCEPT !.owner = IF same = {} THEN @ ELSE (CHOOSE e \in same : TRUE).owner]

(* The renderer is done: one entry per owner and window. *)
Tab(p) == Entry(p)

Collect ==
    /\ daemon = "saving" /\ read # Idle
    /\ entries' = entries \union
          {Tab(p) : p \in {q \in Clients(read.sid) : WindowOf[q] # NoWindow}}
    /\ read' = Idle
    /\ UNCHANGED <<daemon, stops, sessions, pages, cursor, file, startup, steady>>

(* The process is gone, and with it every session. *)
Down ==
    /\ daemon' = "down"
    /\ table' = {} /\ auto' = {} /\ lines' = [s \in Session |-> 0]
    /\ viewer' = [p \in Page |-> None]
    /\ cursor' = None /\ read' = Idle /\ entries' = {} /\ startup' = {}
    /\ UNCHANGED <<stops, created, owner, sid>>

(* Mutation: the last session is not waited for. *)
WriteEarly ==
    /\ daemon = "saving" /\ Ahead = {}
    /\ file' = entries
    /\ Down /\ UNCHANGED steady

(* write(), with what of stop() follows it. *)
Write ==
    /\ daemon = "saving" /\ read = Idle /\ Ahead = {}
    /\ file' = entries
    /\ Down /\ UNCHANGED steady

(* A second signal, the deadline for stop(), or a failure of it. *)
ForceExit ==
    /\ daemon \in {"awaiting", "saving"}
    /\ steady' = {}
    /\ Down /\ UNCHANGED file

Start ==
    /\ daemon = "down" /\ daemon' = "up"
    /\ startup' = file
    /\ UNCHANGED <<stops, sessions, pages, saved, file, steady>>

-----------------------------------------------------------------------------

Init ==
    /\ daemon = "up" /\ stops = 0
    /\ table = {} /\ created = 0 /\ auto = {}
    /\ owner = [s \in Session |-> Operator] /\ lines = [s \in Session |-> 0]
    /\ viewer = [p \in Page |-> None] /\ sid = [p \in Page |-> None]
    /\ cursor = None /\ read = Idle /\ entries = {}
    /\ file = {} /\ startup = {} /\ steady = {}

Next ==
    \/ \E p \in Page, s \in Session : Attach(p, s)
    \/ \E p \in Page, purpose \in {"plain", "run", "command"} : Spawn(p, purpose)
    \/ \E p \in Page : Detach(p)
    \/ \E s \in Session : Output(s)
    \/ \E s \in Session : TearDown(s)
    \/ Stop
    \/ RunsSettled
    \/ Visit
    \/ Collect
    \/ Write
    \/ ForceExit
    \/ Start

Spec == Init /\ [][Next]_vars

-----------------------------------------------------------------------------
(* Properties *)

(* Every variable has its type. *)
TypeOK ==
    LET Owners == {OwnerOf[p] : p \in Page} \union {Operator}
        Entries == [owner : Owners, window : {WindowOf[p] : p \in Page},
                    sid : Session, lines : 0 .. MaxLines]
    IN /\ daemon \in {"up", "awaiting", "saving", "down"}
       /\ stops \in 0 .. MaxStops /\ created \in 0 .. MaxSessions
       /\ table \subseteq 1 .. created /\ auto \subseteq 1 .. created
       /\ owner \in [Session -> Owners] /\ lines \in [Session -> 0 .. MaxLines]
       /\ viewer \in [Page -> table \union {None}]
       /\ sid \in [Page -> 0 .. created]
       /\ cursor \in Session \union {None}
       /\ read \in [sid : Session, lines : 0 .. MaxLines] \union {Idle}
       /\ entries \subseteq Entries /\ file \subseteq Entries
       /\ startup \subseteq Entries
       /\ steady \subseteq [page : Page, lines : 0 .. MaxLines]

(* A page that watched one session of its owner's from stop() to the end   *)
(* of a shutdown that was not broken off finds its text in the snapshot,   *)
(* as it was at the stop or with what was printed since: until it comes    *)
(* back, or the next stop.  Sessions that end under the loop, and viewers  *)
(* that come and go during its awaits, take nothing away from the others.  *)
SnapshotComplete ==
    daemon \in {"down", "up"} =>
        \A w \in steady :
            WindowOf[w.page] # NoWindow /\ owner[sid[w.page]] = OwnerOf[w.page] =>
                \E e \in TabsFor(w.page, IF daemon = "down" THEN file ELSE startup) :
                    e.lines >= w.lines
=============================================================================
