----------------------------- MODULE ViewerRoles -----------------------------
(***************************************************************************)
(* Which of the viewers of one session does what                           *)
(* (packages/server/src/session-client-hub.ts): the resize owner, whose    *)
(* dimensions the PTY has; the terminal responder, whose emulator answers  *)
(* the queries of the application; the focus the application is told of;   *)
(* and the effective size the viewers are told of to mask dead columns.    *)
(*                                                                         *)
(* A size is the number of columns, 0 before the viewer has reported any.  *)
(* The activity sequence numbers, all distinct except for the initial one, *)
(* are kept as the order of the viewers that have one.                     *)
(***************************************************************************)
EXTENDS Integers, Sequences, FiniteSets, SequencesExt

CONSTANTS
    Viewer,  \* the viewers
    Width,   \* the column counts they report
    ById,    \* TRUE: POST /sessions/:id/resize hits a session being watched
    NULL

ASSUME ConstantsAssumption ==
    /\ Width \subseteq Nat \ {0} /\ ById \in BOOLEAN
    /\ NULL \notin Viewer \cup Width /\ NULL \notin BOOLEAN

VARIABLES
    alive,      \* the session is in the table
    order,      \* managed.clients: the viewers in insertion order
    recent,     \* the viewers with an activity sequence, latest last
    live,       \* the viewers that are not pending any more
    size,       \* the columns each viewer last reported
    focused,    \* the viewers with focus
    responders, \* the viewers with the terminalResponder flag
    owner,      \* managed.resizeOwner
    grid,       \* the sizes: pty, of the PTY (NULL: as spawned); shared and
                \* multi, ptySizeCols and ptySizeWasMultiViewer; told, in the
                \* last pty-size frame of each viewer
    reporting,  \* the application has focus reporting (mode 1004) on
    signal      \* hub.focusSignal: NULL, or the focus last recorded

who == <<order, recent, live>>
roles == <<responders, owner>>
vars == <<alive, who, size, focused, roles, grid, reporting, signal>>

Viewers == ToSet(order)

-----------------------------------------------------------------------------
(* The helpers of the hub.                                                 *)

(* The first, and the last, of those in a sequence that are among some.    *)
FirstOf(s, among) == s[Min({i \in DOMAIN s : s[i] \in among})]
LastOf(s, among) == s[Max({i \in DOMAIN s : s[i] \in among})]

(* A sequence of distinct viewers without c. *)
Without(s, c) ==
    LET at == CHOOSE i \in DOMAIN s : s[i] = c
    IN  IF c \notin ToSet(s) THEN s
        ELSE [i \in 1 .. Len(s) - 1 |-> IF i < at THEN s[i] ELSE s[i + 1]]

(* Mutation: age decides, not activity. *)
LatestByAge(among) == IF among = {} THEN NULL ELSE FirstOf(order, among)

(* latestClientByActivity: the latest of them; if none was ever active, the *)
(* one that attached first.                                                 *)
LatestByActivity(among) ==
    LET active == among \cap ToSet(recent)
    IN  CASE active # {} -> LastOf(recent, active)
          [] active = {} /\ among # {} -> FirstOf(order, among)
          [] OTHER -> NULL

Touched(c) == Append(Without(recent, c), c)

(* Mutation: the size is only looked at while several viewers watch. *)
RecomputeShared(s, o, sizes) ==
    IF o = NULL \/ (o # NULL /\ sizes[o] = 0)
       \/ (Len(s) = 1 /\ grid.shared # NULL)
    THEN grid
    ELSE [pty |-> sizes[o], shared |-> sizes[o], multi |-> Len(s) > 1,
          told |-> grid.told]

(* recomputeResize, for the viewers s and the owner o. *)
Recompute(s, o, sizes) ==
    LET cols == sizes[o]
        says == IF Len(s) > 1 THEN grid.shared # cols ELSE grid.multi
    IN  IF o = NULL \/ (o # NULL /\ cols = 0) THEN grid
        ELSE [pty |-> cols, shared |-> cols, multi |-> Len(s) > 1,
              told |-> [c \in Viewer |-> IF says /\ c \in ToSet(s) THEN cols
                                         ELSE grid.told[c]]]

(* promoteResizeOwner *)
PromoteOwner(c) ==
    /\ recent' = Touched(c)
    /\ owner' = c
    /\ grid' = IF owner = c THEN grid ELSE Recompute(order, c, size)

(* Mutation: the out-edge is never recorded. *)
FocusSignalIn(on, f) == IF on THEN signal = TRUE \/ f # {} ELSE NULL

(* syncFocusReporting: the signal of the focused viewers f. *)
FocusSignal(on, f) == IF on THEN f # {} ELSE NULL

(* Mutation: the viewer that leaves is still among the candidates. *)
EnsuredStale(s, flags, preferred) ==
    CASE flags \cap ToSet(s) # {} -> flags
      [] flags \cap ToSet(s) = {} /\ preferred # NULL -> {preferred}
      [] OTHER -> IF live = {} THEN {FirstOf(order, Viewers)} ELSE {FirstOf(order, live)}

(* ensureTerminalResponder among s: if nobody has the flag, the preferred  *)
(* viewer, else the first live one, else the first.                        *)
Ensured(s, flags, preferred) ==
    LET ready == live \cap ToSet(s)
        candidates == IF ready # {} THEN ready ELSE ToSet(s)
    IN  CASE flags \cap ToSet(s) # {} -> flags
          [] flags \cap ToSet(s) = {} /\ preferred # NULL -> {preferred}
          [] OTHER -> IF s = <<>> THEN {} ELSE {FirstOf(s, candidates)}

(* Mutation: the others keep the flag. *)
AssignedToo(c) == responders \cup {c}

(* assignTerminalResponder *)
Assigned(c) == {c}

-----------------------------------------------------------------------------
(* The operations of the hub.                                              *)

(* attach: if others are watching, the joiner is told the effective size.  *)
Attach(c) ==
    LET s == Append(order, c)
        sized == Recompute(s, owner, size)
    IN  /\ alive /\ c \notin Viewers
        /\ order' = s
        /\ IF owner = NULL
           THEN /\ recent' = Touched(c)
                /\ owner' = c
                /\ grid' = grid
           ELSE /\ grid' = [sized EXCEPT !.told[c] = sized.shared]
                /\ UNCHANGED <<recent, owner>>
        /\ signal' = FocusSignal(reporting, focused)
        /\ UNCHANGED <<alive, live, size, focused, responders, reporting>>

(* promote() of a viewer that is pending: {type: "ready"} or the timer.    *)
(* The viewer is live when it is done, unless it awaits the encoder (and   *)
(* is live after a later step) or the viewer has overflowed.               *)
Promote(c) ==
    /\ c \in Viewers \ live
    /\ responders' = Ensured(order, responders, c)
    /\ live' \in {live, live \cup {c}}
    /\ UNCHANGED <<alive, order, recent, size, focused, owner, grid,
                   reporting, signal>>

(* writeInput: a promotion, and every role to the viewer that types; the   *)
(* focus is not synced.                                                    *)
Input(c) ==
    /\ c \in Viewers
    /\ live' \in {live, live \cup {c}}
    /\ focused' = focused \cup {c}
    /\ PromoteOwner(c)
    /\ responders' = Assigned(c)
    /\ UNCHANGED <<alive, order, size, reporting, signal>>

(* setClientFocus(true) *)
GainFocus(c) ==
    /\ c \in Viewers
    /\ focused' = focused \cup {c}
    /\ PromoteOwner(c)
    /\ signal' = FocusSignal(reporting, focused')
    /\ UNCHANGED <<alive, order, live, size, responders, reporting>>

(* setClientFocus(false): an owner hands over to a focused viewer, if any. *)
LoseFocus(c) ==
    LET heir == LatestByActivity(focused \ {c})
    IN  /\ c \in Viewers
        /\ focused' = focused \ {c}
        /\ IF owner = c /\ heir # NULL THEN PromoteOwner(heir)
           ELSE UNCHANGED <<recent, owner, grid>>
        /\ signal' = FocusSignal(reporting, focused')
        /\ UNCHANGED <<alive, order, live, size, responders, reporting>>

(* resize *)
Resize(c, cols) ==
    /\ c \in Viewers
    /\ size' = [size EXCEPT ![c] = cols]
    /\ grid' = IF owner = c THEN Recompute(order, c, size') ELSE grid
    /\ UNCHANGED <<alive, who, focused, roles, reporting, signal>>

(* resizeById, meant for sessions that nobody watches. *)
ResizeById(cols) ==
    /\ alive /\ (order # <<>> => ById)
    /\ grid' = [grid EXCEPT !.pty = cols]
    /\ UNCHANGED <<alive, who, size, focused, roles, reporting, signal>>

(* detach: the roles of the leaving viewer go to one that stays, the       *)
(* latest focused one before any other.                                    *)
Detach(c) ==
    LET s == Without(order, c)
        left == focused \ {c}
        heir == IF left # {} THEN LatestByActivity(left)
                ELSE LatestByActivity(Viewers \ {c})
        sized == Recompute(s, IF owner = c THEN heir ELSE owner, size)
    IN  /\ c \in Viewers
        /\ order' = s
        /\ recent' = Without(recent, c)
        /\ live' = live \ {c}
        /\ size' = [size EXCEPT ![c] = 0]
        /\ focused' = left
        /\ owner' = IF owner = c THEN heir ELSE owner
        /\ responders' = IF c \in responders
                         THEN Ensured(s, responders \ {c}, NULL) ELSE responders
        /\ grid' = [sized EXCEPT !.told[c] = NULL]
        /\ signal' = FocusSignal(reporting, left)
        /\ UNCHANGED <<alive, reporting>>

(* The application turns focus reporting on or off. *)
ToggleReporting ==
    /\ alive
    /\ reporting' = ~reporting
    /\ signal' = FocusSignal(reporting', focused)
    /\ UNCHANGED <<alive, who, size, focused, roles, grid>>

(* tearDown: every viewer is dropped; the focus signal dies with the       *)
(* session record.                                                         *)
SessionEnds ==
    /\ alive /\ alive' = FALSE
    /\ order' = <<>> /\ recent' = <<>> /\ focused' = {} /\ responders' = {}
    /\ live' = {} /\ size' = [c \in Viewer |-> 0]
    /\ owner' = NULL /\ signal' = NULL
    /\ grid' = [grid EXCEPT !.told = [c \in Viewer |-> NULL]]
    /\ UNCHANGED reporting

Init ==
    /\ alive = TRUE /\ order = <<>> /\ recent = <<>> /\ focused = {}
    /\ responders = {} /\ live = {}
    /\ size = [c \in Viewer |-> 0] /\ owner = NULL
    /\ grid = [pty |-> NULL, shared |-> NULL, multi |-> FALSE,
               told |-> [c \in Viewer |-> NULL]]
    /\ reporting = FALSE /\ signal = NULL

Next ==
    \/ \E c \in Viewer :
         \/ Attach(c) \/ Promote(c) \/ Input(c)
         \/ GainFocus(c) \/ LoseFocus(c) \/ Detach(c)
         \/ \E cols \in Width : Resize(c, cols)
    \/ \E cols \in Width : ResizeById(cols)
    \/ ToggleReporting
    \/ SessionEnds

Spec == Init /\ [][Next]_vars

-----------------------------------------------------------------------------
(* Correctness.                                                            *)

(* The records of the viewers exist exactly while they are attached, and   *)
(* every variable has its type.                                            *)
TypeOK ==
    /\ {alive, reporting} \subseteq BOOLEAN
    /\ order \in Seq(Viewer) /\ IsInjective(order)
    /\ recent \in Seq(Viewers) /\ IsInjective(recent)
    /\ UNION {live, focused, responders} \subseteq Viewers
    /\ owner \in Viewers \cup {NULL} /\ (owner = NULL <=> order = <<>>)
    /\ size \in [Viewer -> Width \cup {0}]
    /\ \A c \in Viewer \ Viewers :
         size[c] = 0 /\ grid.told[c] = NULL
    /\ grid \in [pty : Width \cup {NULL}, shared : Width \cup {NULL}, multi : BOOLEAN,
                told : [Viewer -> Width \cup {NULL}]]
    /\ signal \in BOOLEAN \cup {NULL} /\ (signal = NULL <=> ~reporting \/ ~alive)

(* The queries of the application are answered by one viewer: never by two *)
(* (the replies would reach the PTY twice), and by somebody as soon as a   *)
(* viewer is live (an application that waits for its reply would hang),    *)
(* whichever viewers come, type and go.                                    *)
OneResponder ==
    /\ Cardinality(responders) <= 1
    /\ live # {} => responders # {}

(* The size of the PTY follows the viewer that is used: while any viewer   *)
(* has focus, the owner is the focused one that was active last.           *)
OwnerIsInUse ==
    focused # {} => /\ owner \in focused
                    /\ owner = LastOf(recent, focused)

(* The PTY has the columns of its owner as soon as they are known, through *)
(* every handoff, resize, join and departure.                              *)
PtyFollowsOwner ==
    owner # NULL /\ size[owner] # 0 => grid.pty = size[owner]

(* A program is laid out for the screen that is used: the two rules above  *)
(* in one, since a handoff must keep both at once.                         *)
SizeFollowsUse == OwnerIsInUse /\ PtyFollowsOwner

(* The application is not left believing that somebody looks at it: the    *)
(* focus it was told of is that of a viewer that is still attached.        *)
NoGhostFocus == signal = TRUE => focused # {}

(* "When a peer detaches and leaves one viewer, a final pty-size clears    *)
(* any mask the peer had imposed" (session-manager.ts 200-201): the grid   *)
(* of a lone viewer, which its page clamps to the size it was last told    *)
(* (install-terminal-scrollbar.ts 77-78), has the columns of the PTY.      *)
LoneViewerIsUnmasked ==
    \A c \in Viewers :
      Len(order) = 1 /\ size[c] # 0 /\ grid.told[c] # NULL
        => grid.pty <= grid.told[c]
=============================================================================
