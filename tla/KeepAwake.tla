------------------------------ MODULE KeepAwake ------------------------------
(***************************************************************************)
(* When the daemon holds the machine awake.                                *)
(*                                                                         *)
(* Models packages/server/src/caffeinate-manager.ts with                   *)
(* caffeinate-automatic-detector.ts (a program, its output or a second     *)
(* viewer wants the machine awake), caffeinate-battery-guard.ts (a low     *)
(* battery forbids it) and caffeinate-controller.ts (the process that      *)
(* holds the assertion), on a supported platform and with a session in the *)
(* table.  The mouse jiggler follows the controller and is left out, so    *)
(* are the delays of the battery checks, which the timers' order covers.   *)
(***************************************************************************)
EXTENDS Naturals

CONSTANTS
    Floors,     \* batteryThreshold settings, NoFloor among them
    MaxCharge,  \* charges are 1 .. MaxCharge
    MaxEvents   \* bound: changes of the settings and of the world

VARIABLES
    prefs,   \* caffeinate.json: mode, activityGate, peerKeepAwake, batteryThreshold
    world,   \* the trigger that runs, output in the last 5 s, a second
             \* viewer, the charge of a battery that is in use
    det,     \* CaffeinateAutomaticDetector
    guard,   \* CaffeinateBatteryGuard
    held,    \* controller.active
    unheard, \* history: a change since the last poll that nothing told of
    ungated, \* history: the gate was turned off and no poll has begun since
    died,    \* history: the process was lost and not needed again since
    events   \* bound: changes so far

vars == <<prefs, world, det, guard, held, unheard, ungated, died, events>>

NoFloor == 0
Modes == {"off", "on", "automatic"}

(* "hooked": the shell's hook names it.  "child": only a ps walk finds it. *)
Programs == {"none", "hooked", "child"}

Want(p, d) == p.mode = "on" \/ (p.mode = "automatic" /\ d.auto)

-----------------------------------------------------------------------------
(* CaffeinateBatteryGuard *)

(* runBatteryCheck(): callers during a check share it, and its floor. *)
Checking(p, d, g) ==
    IF g.checking THEN g
    ELSE IF p.floor = NoFloor \/ ~Want(p, d) THEN [g EXCEPT !.timer = FALSE]
    ELSE [g EXCEPT !.checking = TRUE, !.against = p.floor]

(* Mutation: a check is armed only while the assertion is held. *)
ScheduledIfHeld(p, d, g) ==
    IF Want(p, d) /\ p.floor # NoFloor
    THEN IF g.timer \/ g.low THEN g
         ELSE IF g.probed THEN [g EXCEPT !.timer = TRUE] ELSE Checking(p, d, g)
    ELSE [g EXCEPT !.timer = FALSE]

(* scheduleBatteryCheck(), or clearBatteryTimer() when nothing is wanted. *)
Scheduled(p, d, g) ==
    IF Want(p, d) /\ p.floor # NoFloor
    THEN IF g.timer THEN g
         ELSE IF g.probed THEN [g EXCEPT !.timer = TRUE] ELSE Checking(p, d, g)
    ELSE [g EXCEPT !.timer = FALSE]

(* recompute() of the manager, with shouldActivate() and setActive(). *)
Recompute(p, d, g) ==
    /\ guard' = Scheduled(p, d, g)
    /\ held' = (Want(p, d) /\ (p.floor = NoFloor \/ (g.probed /\ ~g.low)))
    /\ died' = FALSE

-----------------------------------------------------------------------------
(* CaffeinateAutomaticDetector *)

(* The end of pollAuto(): what the program, its output and the viewers     *)
(* amount to, and whether the end of the output is waited for.             *)
Concluded(p, w, d, program) ==
    LET byProgram == program /\ (~p.gate \/ w.recent)
        byPeer == p.peers /\ w.peer
    IN  [d EXCEPT !.auto = byProgram \/ byPeer, !.peer = byPeer,
                  !.gateTimer = ~byPeer /\ (@ \/ (p.gate /\ byProgram))]

(* The next poll, if one was asked for meanwhile. *)
After(d) == [d EXCEPT !.poll = IF d.queued THEN "walking" ELSE "no",
                      !.queued = FALSE, !.misled = FALSE]

Conclude(p, w, d, g, program) ==
    LET done == Concluded(p, w, d, program) IN
    /\ det' = After(done)
    /\ Recompute(p, done, g)

(* A poll sees the world as it is when it looks. *)
Noticed == unheard' = FALSE /\ ungated' = FALSE

(* Mutation: what is asked for during a poll is taken as answered by it. *)
AskedDropped(d) ==
    IF d.poll # "no" THEN d ELSE [d EXCEPT !.poll = "walking"]

(* One poll at a time, and one more for all that came meanwhile. *)
Asked(d) ==
    IF d.poll # "no" THEN [d EXCEPT !.queued = TRUE] ELSE [d EXCEPT !.poll = "walking"]

(* pollAuto(), for guard g and assertion h: a program the hook names needs *)
(* no walk, and so no await.                                               *)
Poll(p, w, d, g, h) ==
    IF p.mode = "automatic" /\ d.poll = "no" /\ w.program = "hooked"
    THEN Conclude(p, w, d, g, TRUE) /\ Noticed
    ELSE /\ det' = IF p.mode = "automatic" THEN Asked(d) ELSE d
         /\ guard' = g /\ held' = h
         /\ UNCHANGED <<unheard, ungated, died>>

(* poke() *)
Poked(d) == IF prefs.mode = "automatic" THEN [d EXCEPT !.poke = TRUE] ELSE d

PokeFires ==
    /\ det.poke
    /\ Poll(prefs, world, [det EXCEPT !.poke = FALSE], guard, held)
    /\ UNCHANGED <<prefs, world, events>>

GateTimerFires ==
    /\ det.gateTimer
    /\ Poll(prefs, world, [det EXCEPT !.gateTimer = FALSE], guard, held)
    /\ UNCHANGED <<prefs, world, events>>

(* A poll that was queued starts like any other. *)
NextPoll ==
    /\ det.poll = "walking" /\ world.program = "hooked" /\ prefs.mode = "automatic"
    /\ Conclude(prefs, world, det, guard, TRUE) /\ Noticed
    /\ UNCHANGED <<prefs, world, events>>

(* The walk of the process tree sees what runs, but knows the triggers of  *)
(* the start of the poll.                                                  *)
Walk ==
    /\ det.poll = "walking"
    /\ \E seen \in BOOLEAN :
          /\ seen = (world.program # "none") \/ det.misled
          /\ det' = [det EXCEPT !.poll = "walked", !.seen = seen]
    /\ Noticed
    /\ UNCHANGED <<prefs, world, guard, held, died, events>>

(* What it saw is judged by the settings, output and viewers of a later    *)
(* time; nothing is, if the mode is another by then.                       *)
PollEnds ==
    /\ det.poll = "walked"
    /\ IF prefs.mode = "automatic"
       THEN Conclude(prefs, world, det, guard, det.seen)
       ELSE /\ det' = [det EXCEPT !.poll = "no", !.queued = FALSE, !.misled = FALSE]
            /\ UNCHANGED <<guard, held, died>>
    /\ UNCHANGED <<prefs, world, unheard, ungated, events>>

-----------------------------------------------------------------------------
(* The battery and the process *)

BatteryTimerFires ==
    /\ guard.timer
    /\ guard' = Checking(prefs, det, [guard EXCEPT !.timer = FALSE])
    /\ UNCHANGED <<prefs, world, det, held, unheard, ungated, died, events>>

(* The probe has answered, or failed, which forbids nothing. *)
CheckEnds(failed) ==
    LET low == ~failed /\ world.charge <= guard.against
        g == [guard EXCEPT !.checking = FALSE, !.probed = TRUE, !.low = low]
    IN  /\ guard.checking
        /\ failed => events < MaxEvents
        /\ events' = events + (IF failed THEN 1 ELSE 0)
        /\ Recompute(prefs, det, g)
        /\ UNCHANGED <<prefs, world, det, unheard, ungated>>

Occurs == events < MaxEvents /\ events' = events + 1

(* onExit() of a process nobody stopped. *)
ProcessDies ==
    /\ Occurs /\ held
    /\ held' = FALSE /\ died' = TRUE
    /\ UNCHANGED <<prefs, world, det, guard, unheard, ungated>>

-----------------------------------------------------------------------------
(* The settings *)

(* setMode(): leaving automatic forgets what was detected. *)
SetMode(m) ==
    LET p == [prefs EXCEPT !.mode = m]
        d == IF m = "automatic" THEN det
             ELSE [det EXCEPT !.auto = FALSE, !.peer = FALSE, !.gateTimer = FALSE]
        g == Scheduled(p, d, guard)
    IN  /\ Occurs /\ prefs' = p
        /\ IF m = "automatic"
           THEN Poll(p, world, d, g, Want(p, d) /\ (p.floor = NoFloor \/ (guard.probed /\ ~guard.low)))
           ELSE det' = d /\ Recompute(p, d, guard) /\ UNCHANGED <<unheard, ungated>>
        /\ UNCHANGED world

(* setCommands(): what runs becomes a trigger, or is none any more. *)
SetCommands(k) ==
    LET w == [world EXCEPT !.program = k] IN
    /\ Occurs /\ k # world.program
    /\ world' = w
    /\ Poll(prefs, w, [det EXCEPT !.misled = det.poll = "walking"], guard, held)
    /\ UNCHANGED prefs

(* setActivityGate() *)
GateOn ==
    LET p == [prefs EXCEPT !.gate = TRUE] IN
    /\ Occurs /\ ~prefs.gate /\ prefs' = p
    /\ Poll(p, world, det, guard, held)
    /\ UNCHANGED world

GateOff ==
    LET p == [prefs EXCEPT !.gate = FALSE]
        d == [det EXCEPT !.gateTimer = FALSE]
    IN  /\ Occurs /\ prefs.gate /\ prefs' = p
        /\ det' = d
        /\ Recompute(p, d, guard)
        /\ ungated' = (ungated \/ det.poll = "no")
        /\ UNCHANGED <<world, unheard>>

(* setPeerKeepAwake() *)
SetPeers(on) ==
    LET p == [prefs EXCEPT !.peers = on] IN
    /\ Occurs /\ prefs' = p
    /\ Poll(p, world, det, guard, held)
    /\ UNCHANGED world

(* setBatteryThreshold() and thresholdChanged(). *)
SetFloor(f) ==
    LET p == [prefs EXCEPT !.floor = f]
        g == [guard EXCEPT !.timer = FALSE]
    IN  /\ Occurs /\ prefs' = p
        /\ IF f = NoFloor
           THEN Recompute(p, det, [g EXCEPT !.low = FALSE])
           ELSE /\ guard' = IF Want(p, det) THEN Checking(p, det, g) ELSE g
                /\ UNCHANGED <<held, died>>
        /\ UNCHANGED <<world, det, unheard, ungated>>

-----------------------------------------------------------------------------
(* The world *)

(* The foreground program of a session changes: onSessionActivity().  A    *)
(* child of another program comes and goes without anybody being told.     *)
ProgramChanges(k) ==
    /\ Occurs /\ k # world.program
    /\ world' = [world EXCEPT !.program = k]
    /\ IF "hooked" \in {k, world.program}
       THEN det' = Poked(det) /\ UNCHANGED unheard
       ELSE unheard' = TRUE /\ UNCHANGED det
    /\ UNCHANGED <<prefs, guard, held, ungated, died>>

(* A second viewer comes or goes. *)
PeerChanges ==
    /\ Occurs
    /\ world' = [world EXCEPT !.peer = ~@]
    /\ det' = Poked(det)
    /\ UNCHANGED <<prefs, guard, held, unheard, ungated, died>>

(* noteOutputActivity() *)
Output ==
    /\ Occurs
    /\ world' = [world EXCEPT !.recent = TRUE]
    /\ det' = IF prefs.mode # "automatic" \/ ~prefs.gate THEN det
              ELSE IF ~det.auto THEN Poked(det)
              ELSE IF det.peer THEN det ELSE [det EXCEPT !.gateTimer = TRUE]
    /\ UNCHANGED <<prefs, guard, held, unheard, ungated, died>>

(* Five seconds without output: nobody is told. *)
Silence ==
    /\ Occurs /\ world.recent
    /\ world' = [world EXCEPT !.recent = FALSE]
    /\ UNCHANGED <<prefs, det, guard, held, unheard, ungated, died>>

ChargeChanges(c) ==
    /\ Occurs /\ c # world.charge
    /\ world' = [world EXCEPT !.charge = c]
    /\ UNCHANGED <<prefs, det, guard, held, unheard, ungated, died>>

-----------------------------------------------------------------------------

(* The constructor has polled: nothing runs yet. *)
Init ==
    /\ \E m \in {"on", "automatic"}, f \in Floors :
          prefs = [mode |-> m, gate |-> TRUE, peers |-> TRUE, floor |-> f]
    /\ \E c \in 1 .. MaxCharge :
          world = [program |-> "none", recent |-> FALSE, peer |-> FALSE, charge |-> c]
    /\ det = [auto |-> FALSE, peer |-> FALSE, poke |-> FALSE, gateTimer |-> FALSE,
              poll |-> "no", queued |-> FALSE, misled |-> FALSE, seen |-> FALSE]
    /\ LET checking == prefs.mode = "on" /\ prefs.floor # NoFloor IN
       /\ guard = [low |-> FALSE, probed |-> FALSE, timer |-> FALSE,
                   checking |-> checking, against |-> prefs.floor]
       /\ held = (prefs.mode = "on" /\ ~checking)
    /\ unheard = FALSE /\ ungated = FALSE /\ died = FALSE /\ events = 0

Next ==
    \/ PokeFires
    \/ GateTimerFires
    \/ NextPoll
    \/ Walk
    \/ PollEnds
    \/ BatteryTimerFires
    \/ \E failed \in BOOLEAN : CheckEnds(failed)
    \/ ProcessDies
    \/ \E m \in Modes : SetMode(m)
    \/ \E k \in Programs : SetCommands(k)
    \/ GateOn
    \/ GateOff
    \/ \E on \in BOOLEAN : SetPeers(on)
    \/ \E f \in Floors : SetFloor(f)
    \/ \E k \in Programs : ProgramChanges(k)
    \/ PeerChanges
    \/ Output
    \/ Silence
    \/ \E c \in 1 .. MaxCharge : ChargeChanges(c)

(* Timers, ps and the battery probe come to an end by themselves. *)
Fairness ==
    /\ WF_vars(PokeFires) /\ WF_vars(GateTimerFires) /\ WF_vars(BatteryTimerFires)
    /\ WF_vars(NextPoll \/ Walk) /\ WF_vars(PollEnds)
    /\ WF_vars(CheckEnds(FALSE))

Spec == Init /\ [][Next]_vars /\ Fairness

-----------------------------------------------------------------------------
(* Properties *)

(* Every variable has its type. *)
TypeOK ==
    /\ prefs \in [mode : Modes, gate : BOOLEAN, peers : BOOLEAN, floor : Floors]
    /\ world \in [program : Programs, recent : BOOLEAN, peer : BOOLEAN,
                  charge : 1 .. MaxCharge]
    /\ det \in [auto : BOOLEAN, peer : BOOLEAN, poke : BOOLEAN, gateTimer : BOOLEAN,
                poll : {"no", "walking", "walked"}, queued : BOOLEAN, misled : BOOLEAN,
                seen : BOOLEAN]
    /\ guard \in [low : BOOLEAN, probed : BOOLEAN, timer : BOOLEAN, checking : BOOLEAN,
                  against : Floors]
    /\ {held, unheard, ungated, died} \subseteq BOOLEAN

Wanted ==
    \/ prefs.mode = "on"
    \/ /\ prefs.mode = "automatic"
       /\ \/ world.program # "none" /\ (~prefs.gate \/ world.recent)
          \/ prefs.peers /\ world.peer
Forbidden == prefs.floor # NoFloor /\ world.charge <= prefs.floor

HeldAsAsked == held <=> Wanted /\ ~Forbidden

(* The machine comes to be held awake exactly while the settings ask for   *)
(* it and the battery allows it, whatever changes during a ps walk or a    *)
(* battery check; but for a change nothing told of and a process that      *)
(* died, which wait for the next event, and for the gate: turning it off   *)
(* does not look again (SettingsCount), so what it had kept from being     *)
(* held waits as well, while nothing is held that nobody asks for.         *)
KeepAwakeConverges ==
    <>[]( \/ unheard \/ died
          \/ ungated /\ (held => Wanted /\ ~Forbidden)
          \/ HeldAsAsked )

(* Every setting counts, the gate among them: turning it off "will drop    *)
(* the output check from the condition" (caffeinate-automatic-detector.ts, *)
(* lines 108 to 110).  The detection it recomputes with is that of the     *)
(* last poll, which made the check.                                        *)
SettingsCount == <>[](unheard \/ died \/ HeldAsAsked)
=============================================================================
