----------------------- MODULE SessionLifecycleProofs -----------------------
(***************************************************************************)
(* Proofs about SessionLifecycle, for every set of sessions, sockets and   *)
(* identities and every capacity.  The inductive invariant is the          *)
(* conjunction of the invariants the runs check: the grace timer is        *)
(* armed exactly for the reapable sessions, which needs that the two       *)
(* records of who views a session agree.                                   *)
(***************************************************************************)
EXTENDS SessionLifecycle, FiniteSetTheorems, TLAPS

(* The part of the invariant that the table and the policy state decide. *)
Coupled == EntriesAgree /\ ArmedIffReapable /\ ParkedIffUnwatched

IInv == TypeOK /\ Coupled /\ CapacityRespected

(* The steps of the daemon as seen by the proofs: what each does to the    *)
(* conjuncts of the invariant depends only on these.                       *)
LEMMA LiveFinite == ASSUME NEW D, D \subseteq Session PROVE IsFiniteSet(D)
BY SessionsAssumption, FS_Subset

LEMMA RoomIsDormant ==
  ASSUME TypeOK, NEW D \in RoomChoices
  PROVE  /\ D \subseteq Live
         /\ \A s \in D : CanEvict(s)
         /\ Cardinality(Live) < MaxSessions => D = {}
         /\ Cardinality(Live) >= MaxSessions => \E s \in Live : D = {s}
<1>0. Cardinality(Live) \in Nat
  BY LiveFinite, FS_CardinalityType DEF Live
<1>1. CASE Cardinality(Live) < MaxSessions
  BY <1>0, <1>1, CapacityAssumption DEF RoomChoices
<1>2. CASE ~(Cardinality(Live) < MaxSessions)
  BY <1>0, <1>2, CapacityAssumption DEF RoomChoices, OldestDormant
<1> QED BY <1>1, <1>2

LEMMA InitIInv == Init => IInv
<1> SUFFICES ASSUME Init PROVE IInv
  OBVIOUS
<1>1. TypeOK
  BY DEF Init, TypeOK, Owner, Ended
<1>2. Live = {}
  BY DEF Init, Live
<1>3. Coupled
  BY <1>2, SessionsAssumption
  DEF Init, Coupled, EntriesAgree, ArmedIffReapable, ParkedIffUnwatched
<1>4. CapacityRespected
  BY <1>2, FS_EmptySet, CapacityAssumption DEF CapacityRespected
<1> QED BY <1>1, <1>3, <1>4 DEF IInv

(* Tearing down live sessions keeps the invariant. *)
LEMMA TearDownIInv ==
  ASSUME IInv, NEW D \in SUBSET Live, NEW cause \in Ended,
         TearDown(D, cause), now' = now, graceOn' = graceOn, up' \in BOOLEAN
  PROVE  IInv'
<1> USE SessionsAssumption, ClockAssumption
<1>0. Live' = Live \ D
  BY DEF TearDown, Live, TornStatus, Reset, Ended
<1>1. TypeOK'
  BY DEF IInv, TypeOK, TearDown, TornStatus, TornEntry, Reset, Ended, Owner
<1>2. EntriesAgree'
  BY <1>0 DEF IInv, Coupled, TypeOK, EntriesAgree, TearDown, TornEntry, Reset
<1>3. ArmedIffReapable'
  BY <1>0 DEF IInv, Coupled, TypeOK, ArmedIffReapable, TearDown, Reset
<1>4. ParkedIffUnwatched'
  BY <1>0 DEF IInv, Coupled, TypeOK, ParkedIffUnwatched, TearDown, Reset
<1>5. CapacityRespected'
  <2>1. Cardinality(Live \ D) <= Cardinality(Live)
    BY LiveFinite, FS_Subset DEF Live
  <2>2. Cardinality(Live) \in Nat /\ Cardinality(Live \ D) \in Nat
    BY LiveFinite, FS_CardinalityType DEF Live
  <2> QED
    BY <1>0, <2>1, <2>2, CapacityAssumption DEF IInv, CapacityRespected
<1> QED BY <1>1, <1>2, <1>3, <1>4, <1>5 DEF IInv, Coupled

(* Spawning after making room keeps the invariant. *)
LEMMA SpawnIInv ==
  ASSUME IInv, NEW s \in Session, NEW o \in Owner, NEW t \in Stamps,
         NEW D \in RoomChoices, NEW viewers \in SUBSET Client,
         NEW pin \in BOOLEAN, \A c \in viewers : entry[c] = NULL,
         SpawnSession(s, o, t, D, viewers, pin)
  PROVE  IInv'
<1> USE SessionsAssumption, ClockAssumption
<1>a. /\ D \subseteq Live
      /\ Cardinality(Live) < MaxSessions => D = {}
      /\ Cardinality(Live) >= MaxSessions => \E x \in Live : D = {x}
  BY RoomIsDormant DEF IInv
<1>b. s \notin Live /\ t \in Nat
  BY DEF SpawnSession, Live, Stamps, IInv, TypeOK
<1>c. Live' = (Live \ D) \cup {s}
  BY <1>a DEF SpawnSession, Live, TornStatus, Reset, Ended, IInv, TypeOK
<1>d. \A x \in Session :
        /\ clients'[x] = IF x = s THEN viewers
                         ELSE IF x \in D THEN {} ELSE clients[x]
        /\ pinned'[x] = IF x = s THEN pin
                        ELSE IF x \in D THEN FALSE ELSE pinned[x]
        /\ timer'[x] = IF x = s THEN viewers = {} /\ ~pin /\ graceOn
                       ELSE IF x \in D THEN FALSE ELSE timer[x]
        /\ parkedAt'[x] = IF x = s THEN (IF viewers = {} THEN t ELSE NULL)
                          ELSE IF x \in D THEN NULL ELSE parkedAt[x]
  BY DEF SpawnSession, Reset, ArmsTimer
<1>1. TypeOK'
  <2>1. status' \in [Session -> {"unborn", "live"} \cup Ended]
    BY DEF IInv, TypeOK, SpawnSession, TornStatus, Reset, Ended
  <2>2. owner' \in [Session -> Owner]
    BY DEF IInv, TypeOK, SpawnSession, Reset, Owner
  <2>3. clients' \in [Session -> SUBSET Client]
    BY DEF IInv, TypeOK, SpawnSession, Reset
  <2>4. entry' \in [Client -> Session \cup {NULL}]
    BY DEF IInv, TypeOK, SpawnSession, TornEntry
  <2>5. pinned' \in [Session -> BOOLEAN] /\ timer' \in [Session -> BOOLEAN]
    BY DEF IInv, TypeOK, SpawnSession, Reset, ArmsTimer
  <2>6. parkedAt' \in [Session -> Nat \cup {NULL}]
    BY <1>b DEF IInv, TypeOK, SpawnSession, Reset
  <2>7. createdAt' \in [Session -> Nat]
    BY <1>b DEF IInv, TypeOK, SpawnSession, Reset
  <2>8. recent' \in [Session -> BOOLEAN] /\ foreground' \in [Session -> BOOLEAN]
    BY DEF IInv, TypeOK, SpawnSession, Reset
  <2>9. graceOn' \in BOOLEAN /\ now' \in Nat /\ up' \in BOOLEAN
    BY <1>b DEF IInv, TypeOK, SpawnSession
  <2> QED
    BY <2>1, <2>2, <2>3, <2>4, <2>5, <2>6, <2>7, <2>8, <2>9 DEF TypeOK
<1>2. EntriesAgree'
  <2>1. \A c \in Client :
          entry'[c] = IF c \in viewers THEN s
                      ELSE IF entry[c] \in D THEN NULL ELSE entry[c]
    BY DEF SpawnSession, TornEntry
  <2>2. \A c \in Client, x \in Session : c \in clients[x] => x \in Live
    BY DEF IInv, Coupled, EntriesAgree, Live
  <2>3. ASSUME NEW c \in Client, NEW x \in Session
        PROVE  c \in clients'[x] <=> entry'[c] = x
    <3>1. c \in clients[x] <=> entry[c] = x
      BY DEF IInv, Coupled, EntriesAgree
    <3>2. CASE c \in viewers
      <4>1. entry[c] = NULL /\ entry'[c] = s
        BY <2>1, <3>2
      <4>2. c \notin clients[x]
        BY <3>1, <4>1
      <4> QED BY <1>d, <3>2, <4>1, <4>2
    <3>3. CASE c \notin viewers
      <4>1. entry'[c] = IF entry[c] \in D THEN NULL ELSE entry[c]
        BY <2>1, <3>3
      <4>2. CASE x = s
        <5>1. clients'[x] = viewers
          BY <1>d, <4>2
        <5>2. entry[c] # x
          BY <1>b, <2>2, <3>1, <4>2
        <5>3. entry'[c] # x
          BY <4>1, <5>2
        <5> QED BY <3>3, <5>1, <5>3
      <4>3. CASE x # s /\ x \in D
        <5>1. clients'[x] = {}
          BY <1>d, <4>3
        <5>2. entry'[c] # x
          BY <4>1, <4>3
        <5> QED BY <5>1, <5>2
      <4>4. CASE x # s /\ x \notin D
        BY <1>d, <3>1, <4>1, <4>4, ZenonT(60)
      <4> QED BY <4>2, <4>3, <4>4
    <3> QED BY <3>2, <3>3
  <2>4. ASSUME NEW c \in Client, entry'[c] # NULL
        PROVE  entry'[c] \in Live'
    <3>1. entry[c] # NULL => entry[c] \in Live
      BY DEF IInv, Coupled, EntriesAgree
    <3> QED BY <1>c, <2>1, <2>4, <3>1
  <2> QED BY <2>3, <2>4 DEF EntriesAgree
<1>3. ArmedIffReapable'
  <2>1. graceOn' = graceOn
    BY DEF SpawnSession
  <2>2. ASSUME NEW x \in Session
        PROVE  timer'[x] <=> x \in Live' /\ clients'[x] = {} /\ ~pinned'[x] /\ graceOn
    <3>1. timer[x] <=> x \in Live /\ clients[x] = {} /\ ~pinned[x] /\ graceOn
      BY DEF IInv, Coupled, ArmedIffReapable
    <3>2. CASE x = s
      BY <1>c, <1>d, <3>2
    <3>3. CASE x # s /\ x \in D
      BY <1>c, <1>d, <3>3
    <3>4. CASE x # s /\ x \notin D
      BY <1>c, <1>d, <3>1, <3>4
    <3> QED BY <3>2, <3>3, <3>4
  <2> QED BY <2>1, <2>2 DEF ArmedIffReapable
<1>4. ParkedIffUnwatched'
  BY <1>b, <1>c, <1>d, ZenonT(60) DEF IInv, Coupled, TypeOK, ParkedIffUnwatched
<1>5. CapacityRespected'
  <2>1. IsFiniteSet(Live) /\ Cardinality(Live) \in Nat
    BY LiveFinite, FS_CardinalityType DEF Live
  <2>2. CASE Cardinality(Live) < MaxSessions
    <3>1. Cardinality(Live \cup {s}) = Cardinality(Live) + 1
      BY <2>1, <1>b, FS_AddElement
    <3>2. Live' = Live \cup {s}
      BY <1>a, <1>c, <2>2
    <3> QED
      BY <2>1, <2>2, <3>1, <3>2, CapacityAssumption DEF CapacityRespected
  <2>3. CASE Cardinality(Live) >= MaxSessions
    <3>1. PICK x \in Live : D = {x}
      BY <1>a, <2>3
    <3>2. Cardinality(Live \ {x}) = Cardinality(Live) - 1 /\ IsFiniteSet(Live \ {x})
      BY <2>1, FS_RemoveElement
    <3>3. Cardinality((Live \ {x}) \cup {s}) = Cardinality(Live \ {x}) + 1
      BY <3>2, <1>b, FS_AddElement
    <3> QED
      BY <1>c, <2>1, <3>1, <3>2, <3>3, CapacityAssumption DEF CapacityRespected, IInv
  <2> QED BY <2>1, <2>2, <2>3, CapacityAssumption
<1> QED BY <1>1, <1>2, <1>3, <1>4, <1>5 DEF IInv, Coupled

(* Steps that leave the set of live sessions alone. *)
LEMMA AttachIInv ==
  ASSUME IInv, NEW c \in Client, NEW s \in Session, NEW o \in Owner,
         OpenAttach(c, s, o)
  PROVE  IInv'
<1> USE SessionsAssumption, ClockAssumption DEF OpenAttach
<1>0. Live' = Live
  BY DEF Live
<1>1. TypeOK'
  BY DEF IInv, TypeOK, activity
<1>2. EntriesAgree'
  BY <1>0 DEF IInv, Coupled, TypeOK, EntriesAgree
<1>3. ArmedIffReapable'
  BY <1>0 DEF IInv, Coupled, TypeOK, ArmedIffReapable
<1>4. ParkedIffUnwatched'
  BY <1>0 DEF IInv, Coupled, TypeOK, ParkedIffUnwatched
<1>5. CapacityRespected'
  BY <1>0 DEF IInv, CapacityRespected
<1> QED BY <1>1, <1>2, <1>3, <1>4, <1>5 DEF IInv, Coupled

LEMMA DetachIInv ==
  ASSUME IInv, NEW c \in Client, NEW t \in Stamps, Detach(c, t)
  PROVE  IInv'
<1> USE SessionsAssumption, ClockAssumption
<1> DEFINE s == entry[c]
           last == clients[s] = {c}
<1>0. Live' = Live
  BY DEF Live, Detach
<1>a. s \in Live /\ s \in Session /\ c \in clients[s] /\ t \in Nat
  BY DEF Detach, IInv, Coupled, EntriesAgree, TypeOK, Stamps, Live
<1>b. \A x \in Session :
        /\ clients'[x] = IF x = s THEN clients[x] \ {c} ELSE clients[x]
        /\ timer'[x] = IF x = s /\ last THEN ~pinned[x] /\ graceOn ELSE timer[x]
        /\ parkedAt'[x] = IF x = s /\ last THEN t ELSE parkedAt[x]
  BY <1>a DEF Detach, IInv, TypeOK, ArmsTimer
<1>c. \A x \in Session : clients'[x] = {} <=> (IF x = s THEN last ELSE clients[x] = {})
  BY <1>a, <1>b
<1>1. TypeOK'
  BY <1>a DEF IInv, TypeOK, Detach, ArmsTimer, activity
<1>2. EntriesAgree'
  BY <1>0, <1>a, <1>b DEF IInv, Coupled, TypeOK, EntriesAgree, Detach
<1>d. clients[s] # {} /\ timer[s] = FALSE /\ parkedAt[s] = NULL
  BY <1>a DEF IInv, Coupled, TypeOK, ArmedIffReapable, ParkedIffUnwatched
<1>3. ArmedIffReapable'
  <2> SUFFICES ASSUME NEW x \in Session
               PROVE  timer'[x] <=> x \in Live /\ clients'[x] = {} /\ ~pinned[x] /\ graceOn
    BY <1>0 DEF ArmedIffReapable, Detach
  <2>1. CASE x = s /\ last
    BY <2>1, <1>a, <1>b, <1>c
  <2>3. CASE x = s /\ ~last
    BY <2>3, <1>a, <1>b, <1>c, <1>d
  <2>2. CASE x # s
    BY <2>2, <1>b, <1>c DEF IInv, Coupled, ArmedIffReapable
  <2> QED BY <2>1, <2>2, <2>3
<1>4. ParkedIffUnwatched'
  <2> SUFFICES ASSUME NEW x \in Session
               PROVE  parkedAt'[x] # NULL <=> x \in Live /\ clients'[x] = {}
    BY <1>0 DEF ParkedIffUnwatched
  <2>1. CASE x = s /\ last
    <3>1. parkedAt'[x] = t /\ clients'[x] = {}
      BY <2>1, <1>a, <1>b
    <3> QED BY <2>1, <3>1, <1>a
  <2>3. CASE x = s /\ ~last
    BY <2>3, <1>a, <1>b, <1>c, <1>d
  <2>2. CASE x # s
    BY <2>2, <1>b, <1>c DEF IInv, Coupled, ParkedIffUnwatched
  <2> QED BY <2>1, <2>2, <2>3
<1>5. CapacityRespected'
  BY <1>0 DEF IInv, CapacityRespected
<1> QED BY <1>1, <1>2, <1>3, <1>4, <1>5 DEF IInv, Coupled

(* A busy shell's grace timer is only armed again. *)
LEMMA RearmIInv ==
  ASSUME IInv, NEW s \in Session, NEW t \in Stamps, timer[s],
         parkedAt' = [parkedAt EXCEPT ![s] = t],
         timer' = [timer EXCEPT ![s] = ArmsTimer(pinned[s], graceOn)],
         now' = t, UNCHANGED <<table, pinned, createdAt, activity, graceOn, up>>
  PROVE  IInv'
<1> USE SessionsAssumption, ClockAssumption
<1>0. Live' = Live
  BY DEF Live, table
<1>1. TypeOK'
  BY DEF IInv, TypeOK, Stamps, table, activity, ArmsTimer
<1>2. EntriesAgree'
  BY <1>0 DEF IInv, Coupled, EntriesAgree, table
<1>3. ArmedIffReapable'
  BY <1>0 DEF IInv, Coupled, TypeOK, ArmedIffReapable, ArmsTimer, table
<1>4. ParkedIffUnwatched'
  BY <1>0 DEF IInv, Coupled, TypeOK, ArmedIffReapable, ParkedIffUnwatched, table, Stamps
<1>5. CapacityRespected'
  BY <1>0 DEF IInv, CapacityRespected
<1> QED BY <1>1, <1>2, <1>3, <1>4, <1>5 DEF IInv, Coupled

LEMMA SetPinnedIInv ==
  ASSUME IInv, NEW s \in Session, NEW pin \in BOOLEAN, NEW o \in Owner,
         NEW t \in Stamps, SetPinned(s, pin, o, t)
  PROVE  IInv'
<1> USE SessionsAssumption, ClockAssumption
<1>0. Live' = Live /\ s \in Live
  BY DEF Live, SetPinned, table
<1>1. TypeOK'
  <2>1. t \in Nat
    BY DEF Stamps, IInv, TypeOK
  <2>2. pinned' \in [Session -> BOOLEAN] /\ timer' \in [Session -> BOOLEAN]
    BY DEF IInv, TypeOK, SetPinned, ArmsTimer
  <2>3. parkedAt' \in [Session -> Nat \cup {NULL}] /\ now' \in Nat
    BY <2>1 DEF IInv, TypeOK, SetPinned
  <2> QED
    BY <2>2, <2>3 DEF IInv, TypeOK, SetPinned, table, activity
<1>2. EntriesAgree'
  BY <1>0 DEF IInv, Coupled, EntriesAgree, SetPinned, table
<1>3. ArmedIffReapable'
  BY <1>0 DEF IInv, Coupled, TypeOK, ArmedIffReapable, ArmsTimer, SetPinned, table
<1>4. ParkedIffUnwatched'
  BY <1>0 DEF IInv, Coupled, TypeOK, ParkedIffUnwatched, SetPinned, table, Stamps
<1>5. CapacityRespected'
  BY <1>0 DEF IInv, CapacityRespected
<1> QED BY <1>1, <1>2, <1>3, <1>4, <1>5 DEF IInv, Coupled

LEMMA SetGraceIInv ==
  ASSUME IInv, NEW on \in BOOLEAN, NEW t \in Stamps, SetGrace(on, t)
  PROVE  IInv'
<1> USE SessionsAssumption, ClockAssumption
<1>0. Live' = Live
  BY DEF Live, SetGrace, table
<1>1. TypeOK'
  <2>1. t \in Nat
    BY DEF Stamps, IInv, TypeOK
  <2>2. timer' \in [Session -> BOOLEAN]
    BY DEF IInv, TypeOK, SetGrace, ArmsTimer
  <2>3. parkedAt' \in [Session -> Nat \cup {NULL}] /\ now' \in Nat
    BY <2>1 DEF IInv, TypeOK, SetGrace
  <2> QED
    BY <2>2, <2>3 DEF IInv, TypeOK, SetGrace, table, activity
<1>2. EntriesAgree'
  BY <1>0 DEF IInv, Coupled, EntriesAgree, SetGrace, table
<1>3. ArmedIffReapable'
  BY <1>0 DEF IInv, Coupled, TypeOK, ArmedIffReapable, ArmsTimer, SetGrace, table
<1>4. ParkedIffUnwatched'
  BY <1>0 DEF IInv, Coupled, TypeOK, ParkedIffUnwatched, SetGrace, table, Stamps
<1>5. CapacityRespected'
  BY <1>0 DEF IInv, CapacityRespected
<1> QED BY <1>1, <1>2, <1>3, <1>4, <1>5 DEF IInv, Coupled

(* The shell's activity does not touch what the invariant speaks of. *)
LEMMA ActivityIInv ==
  ASSUME IInv, recent' \in [Session -> BOOLEAN], foreground' \in [Session -> BOOLEAN],
         UNCHANGED <<table, policy, graceOn, now, up>>
  PROVE  IInv'
<1>0. Live' = Live
  BY DEF Live, table
<1> QED
  BY <1>0 DEF IInv, Coupled, TypeOK, EntriesAgree, ArmedIffReapable,
              ParkedIffUnwatched, CapacityRespected, table, policy

LEMMA NextIInv == IInv /\ [Next]_vars => IInv'
<1> SUFFICES ASSUME IInv, [Next]_vars PROVE IInv'
  OBVIOUS
<1>1. CASE \E c \in Client, s \in Session, o \in Owner, t \in Stamps : OpenFresh(c, s, o, t)
  <2>1. PICK c \in Client, s \in Session, o \in Owner, t \in Stamps : OpenFresh(c, s, o, t)
    BY <1>1
  <2>2. PICK D \in RoomChoices : SpawnSession(s, o, t, D, {c}, FALSE)
    BY <2>1 DEF OpenFresh
  <2>3. {c} \in SUBSET Client /\ \A x \in {c} : entry[x] = NULL
    BY <2>1 DEF OpenFresh
  <2> QED BY <2>2, <2>3, SpawnIInv
<1>2. CASE \E s \in Session, o \in Owner, t \in Stamps, pin \in BOOLEAN :
              SpawnDetached(s, o, t, pin)
  <2>1. PICK s \in Session, o \in Owner, t \in Stamps, pin \in BOOLEAN :
              SpawnDetached(s, o, t, pin)
    BY <1>2
  <2>2. PICK D \in RoomChoices : SpawnSession(s, o, t, D, {}, pin)
    BY <2>1 DEF SpawnDetached
  <2> QED BY <2>2, SpawnIInv
<1>3. CASE SpawnFails
  <2>1. PICK D \in RoomChoices : TearDown(D, "evicted")
    BY <1>3 DEF SpawnFails
  <2>2. D \subseteq Live
    BY RoomIsDormant DEF IInv
  <2> QED BY <1>3, <2>1, <2>2, TearDownIInv DEF SpawnFails, IInv, TypeOK, Ended
<1>4. CASE \E c \in Client, s \in Session, o \in Owner : OpenAttach(c, s, o)
  BY <1>4, AttachIInv
<1>5. CASE \E c \in Client, t \in Stamps : Detach(c, t)
  BY <1>5, DetachIInv
<1>6. CASE \E s \in Session, t \in Stamps : GraceFires(s, t)
  <2>1. PICK s \in Session, t \in Stamps : GraceFires(s, t)
    BY <1>6
  <2>2. s \in Live
    BY <2>1 DEF GraceFires, IInv, Coupled, ArmedIffReapable
  <2>3. CASE Ready(s)
    BY <2>1, <2>2, <2>3, TearDownIInv DEF GraceFires, IInv, TypeOK, Ended
  <2>4. CASE ~Ready(s)
    BY <2>1, <2>4, RearmIInv DEF GraceFires
  <2> QED BY <2>3, <2>4
<1>7. CASE \E s \in Session, o \in Owner : Kill(s, o)
  BY <1>7, TearDownIInv DEF Kill, IInv, TypeOK, Ended
<1>8. CASE \E s \in Session : ShellExits(s)
  BY <1>8, TearDownIInv DEF ShellExits, IInv, TypeOK, Ended
<1>9. CASE Stop
  BY <1>9, TearDownIInv DEF Stop, Ended
<1>10. CASE \E s \in Session, pin \in BOOLEAN, o \in Owner, t \in Stamps :
               SetPinned(s, pin, o, t)
  BY <1>10, SetPinnedIInv
<1>11. CASE \E on \in BOOLEAN, t \in Stamps : SetGrace(on, t)
  BY <1>11, SetGraceIInv
<1>12. CASE \E s \in Session : Output(s)
  BY <1>12, ActivityIInv DEF Output, IInv, TypeOK
<1>13. CASE \E s \in Session : Quiet(s)
  BY <1>13, ActivityIInv DEF Quiet, IInv, TypeOK
<1>14. CASE \E s \in Session, running \in BOOLEAN : Foreground(s, running)
  BY <1>14, ActivityIInv DEF Foreground, IInv, TypeOK
<1>15. CASE UNCHANGED vars
  BY <1>15, ActivityIInv DEF vars, activity, IInv, TypeOK
<1> QED
  BY <1>1, <1>2, <1>3, <1>4, <1>5, <1>6, <1>7, <1>8, <1>9, <1>10, <1>11, <1>12,
     <1>13, <1>14, <1>15 DEF Next

LEMMA Invariance == Spec => []IInv
BY InitIInv, NextIInv, PTL DEF Spec

(***************************************************************************)
(* The invariants, one theorem each.                                       *)
(***************************************************************************)
(* Every variable keeps its type. *)
THEOREM TypeCorrect == Spec => []TypeOK
BY Invariance, PTL DEF IInv

(* managed.clients and wsToClient never disagree, and no socket is left    *)
(* pointing at a session that ended.                                       *)
THEOREM EntriesAlwaysAgree == Spec => []EntriesAgree
BY Invariance, PTL DEF IInv, Coupled

(* A grace timer is armed exactly for the sessions that may be reaped. *)
THEOREM ArmedExactlyWhenReapable == Spec => []ArmedIffReapable
BY Invariance, PTL DEF IInv, Coupled

(* A session is parked exactly while nobody views it. *)
THEOREM ParkedExactlyWhenUnwatched == Spec => []ParkedIffUnwatched
BY Invariance, PTL DEF IInv, Coupled

(* Timers and parking stamps agree with the viewers, the pins and the     *)
(* setting, whatever order the handlers run in.                            *)
THEOREM TimersStayInStep == Spec => []TimersInStep
BY ArmedExactlyWhenReapable, ParkedExactlyWhenUnwatched, PTL DEF TimersInStep

(* No sequence of spawns and evictions exceeds the cap. *)
THEOREM NeverAboveCapacity == Spec => []CapacityRespected
BY Invariance, PTL DEF IInv

(***************************************************************************)
(* What the daemon takes away.  A fired timer says nothing of viewers or   *)
(* pins; that the session is unviewed and unpinned is the invariant's.     *)
(***************************************************************************)
LEMMA TearDownEffect ==
  ASSUME TypeOK, NEW D \in SUBSET Session, NEW cause, TearDown(D, cause),
         NEW s \in Session
  PROVE  status'[s] = IF s \in D THEN cause ELSE status[s]
BY DEF TearDown, TornStatus, Reset

LEMMA TakenAwayIsIdle ==
  ASSUME IInv, [Next]_vars, NEW s \in Session,
         status[s] = "live", status'[s] \in {"reaped", "evicted"}
  PROVE  clients[s] = {} /\ ~pinned[s] /\ Ready(s)
<1> USE DEF IInv
<1>1. CASE \E c \in Client, x \in Session, o \in Owner, t \in Stamps : OpenFresh(c, x, o, t)
  <2>1. PICK c \in Client, x \in Session, o \in Owner, t \in Stamps : OpenFresh(c, x, o, t)
    BY <1>1
  <2>2. PICK D \in RoomChoices : SpawnSession(x, o, t, D, {c}, FALSE)
    BY <2>1 DEF OpenFresh
  <2>3. s \in D
    BY <2>2 DEF SpawnSession, TornStatus, Reset, TypeOK
  <2> QED BY <2>3, RoomIsDormant DEF CanEvict
<1>2. CASE \E x \in Session, o \in Owner, t \in Stamps, pin \in BOOLEAN :
              SpawnDetached(x, o, t, pin)
  <2>1. PICK x \in Session, o \in Owner, t \in Stamps, pin \in BOOLEAN :
              SpawnDetached(x, o, t, pin)
    BY <1>2
  <2>2. PICK D \in RoomChoices : SpawnSession(x, o, t, D, {}, pin)
    BY <2>1 DEF SpawnDetached
  <2>3. s \in D
    BY <2>2 DEF SpawnSession, TornStatus, Reset, TypeOK
  <2> QED BY <2>3, RoomIsDormant DEF CanEvict
<1>3. CASE SpawnFails
  <2>1. PICK D \in RoomChoices : TearDown(D, "evicted")
    BY <1>3 DEF SpawnFails
  <2>2. D \subseteq Session /\ \A x \in D : CanEvict(x)
    BY RoomIsDormant DEF Live
  <2>3. s \in D
    BY <2>1, <2>2, TearDownEffect
  <2> QED BY <2>2, <2>3 DEF CanEvict
<1>4. CASE \E x \in Session, t \in Stamps : GraceFires(x, t)
  <2>1. PICK x \in Session, t \in Stamps : GraceFires(x, t)
    BY <1>4
  <2>2. CASE Ready(x)
    <3>1. s = x
      BY <2>1, <2>2, TearDownEffect DEF GraceFires
    <3> QED BY <2>1, <2>2, <3>1 DEF GraceFires, Coupled, ArmedIffReapable
  <2>3. CASE ~Ready(x)
    BY <2>1, <2>3 DEF GraceFires, table
  <2> QED BY <2>2, <2>3
<1>5. CASE \/ \E x \in Session, o \in Owner : Kill(x, o)
           \/ \E x \in Session : ShellExits(x)
           \/ Stop
  <2>1. PICK D \in SUBSET Session, cause \in {"killed", "exited", "disposed"} :
          TearDown(D, cause)
    BY <1>5 DEF Kill, ShellExits, Stop, Live
  <2> QED BY <2>1, TearDownEffect
<1>6. CASE \/ \E c \in Client, x \in Session, o \in Owner : OpenAttach(c, x, o)
           \/ \E c \in Client, t \in Stamps : Detach(c, t)
           \/ \E x \in Session, pin \in BOOLEAN, o \in Owner, t \in Stamps :
                 SetPinned(x, pin, o, t)
           \/ \E on \in BOOLEAN, t \in Stamps : SetGrace(on, t)
           \/ \E x \in Session : Output(x)
           \/ \E x \in Session : Quiet(x)
           \/ \E x \in Session, running \in BOOLEAN : Foreground(x, running)
           \/ UNCHANGED vars
  BY <1>6 DEF OpenAttach, Detach, SetPinned, SetGrace, Output, Quiet, Foreground,
              vars, table
<1> QED BY <1>1, <1>2, <1>3, <1>4, <1>5, <1>6 DEF Next

(* Only a session that is idle, unviewed and unpinned is ever reaped or    *)
(* evicted: a closed tab never kills a running command.                    *)
THEOREM OnlyIdleIsTakenAway == Spec => OnlyIdleTakenAway
<1>1. IInv /\ [Next]_vars =>
        [\A s \in Session :
           status[s] = "live" /\ status'[s] \in {"reaped", "evicted"}
             => clients[s] = {} /\ ~pinned[s] /\ Ready(s)]_vars
  BY TakenAwayIsIdle
<1> QED BY <1>1, Invariance, PTL DEF Spec, OnlyIdleTakenAway

(***************************************************************************)
(* The detailed table implements the abstract one.                         *)
(***************************************************************************)
LEMMA BusyTyped == TypeOK => Busy \in [Session -> BOOLEAN]
BY DEF Busy, TypeOK

LEMMA NotBusy ==
  ASSUME NEW s \in Session, CanEvict(s) PROVE Busy[s] = FALSE
BY DEF Busy, CanEvict

LEMMA SpawnStarts ==
  ASSUME IInv, NEW s \in Session, NEW o \in Owner, NEW t \in Stamps,
         NEW D \in RoomChoices, NEW viewers \in SUBSET Client,
         NEW pin \in BOOLEAN, SpawnSession(s, o, t, D, viewers, pin)
  PROVE  Table!Start(s, D)
<1> USE DEF IInv
<1>a. /\ D \subseteq Live /\ \A x \in D : CanEvict(x)
      /\ Cardinality(Live) < MaxSessions => D = {}
      /\ Cardinality(Live) >= MaxSessions => \E x \in Live : D = {x}
  BY RoomIsDormant
<1>b. D \subseteq Session /\ s \notin Live /\ s \notin D
  BY <1>a DEF Live, SpawnSession
<1>c. Live = Table!LiveNow
  BY DEF Live, Table!LiveNow
<1>d. Cardinality(Live) \in Nat /\ Cardinality(Live) <= MaxSessions
  BY LiveFinite, FS_CardinalityType DEF Live, CapacityRespected
<1>1. \A x \in D : ~Busy[x]
  BY <1>a, <1>b, NotBusy
<1>2. /\ Cardinality(Live) - Cardinality(D) < MaxSessions
      /\ D # {} => Cardinality(Live) = MaxSessions /\ Cardinality(D) = 1
  <2>1. CASE Cardinality(Live) < MaxSessions
    <3>1. D = {} /\ Cardinality(D) = 0
      BY <1>a, <2>1, FS_EmptySet
    <3> QED BY <1>d, <2>1, <3>1, CapacityAssumption
  <2>2. CASE ~(Cardinality(Live) < MaxSessions)
    <3>1. PICK x \in Live : D = {x}
      BY <1>a, <1>d, <2>2, CapacityAssumption
    <3>2. Cardinality(D) = 1
      BY <3>1, FS_Singleton
    <3> QED BY <1>d, <2>2, <3>2, CapacityAssumption
  <2> QED BY <2>1, <2>2
<1>3. status' = [x \in Session |->
                   IF x = s THEN "live" ELSE IF x \in D THEN "evicted" ELSE status[x]]
  BY <1>b DEF SpawnSession, TornStatus, Reset
<1>4. Busy' = [x \in Session |->
                 IF x = s THEN Busy'[s] ELSE IF x \in D THEN FALSE ELSE Busy[x]]
  <2>1. ASSUME NEW x \in Session, x # s
        PROVE  Busy'[x] = IF x \in D THEN FALSE ELSE Busy[x]
    <3>1. x \in Live' <=> x \in Live /\ x \notin D
      BY <1>3, <2>1 DEF Live
    <3>2. CASE x \in D
      BY <3>1, <3>2 DEF Busy
    <3>3. CASE x \notin D
      <4>1. /\ clients'[x] = clients[x] /\ pinned'[x] = pinned[x]
            /\ Ready(x)' <=> Ready(x)
        BY <1>b, <2>1, <3>3 DEF SpawnSession, Reset, Ready, TypeOK
      <4> QED BY <3>1, <3>3, <4>1 DEF Busy
    <3> QED BY <3>2, <3>3
  <2> QED BY <2>1 DEF Busy
<1>5. Busy'[s] \in BOOLEAN
  BY DEF Busy
<1>6. \E b \in BOOLEAN :
        Busy' = [x \in Session |->
                   IF x = s THEN b ELSE IF x \in D THEN FALSE ELSE Busy[x]]
  BY <1>4, <1>5
<1>7. status[s] = "unborn"
  BY DEF SpawnSession
<1>8. D \subseteq Table!LiveNow
  BY <1>a, <1>c
<1>9. /\ Cardinality(Table!LiveNow) - Cardinality(D) < MaxSessions
      /\ D # {} => Cardinality(Table!LiveNow) = MaxSessions /\ Cardinality(D) = 1
  BY <1>c, <1>2
<1> QED
  BY <1>1, <1>3, <1>6, <1>7, <1>8, <1>9 DEF Table!Start, Cardinality, Table!Cardinality

(* One torn-down session is one that ends in the abstract table. *)
LEMMA TearDownEnds ==
  ASSUME IInv, NEW s \in Live, NEW causes, NEW cause \in causes, cause \in Ended,
         TearDown({s}, cause)
  PROVE  Table!End(s, causes)
<1> USE DEF IInv
<1>1. s \in Session /\ s \in Table!LiveNow
  BY DEF Live, Table!LiveNow
<1>2. status' = [status EXCEPT ![s] = cause]
  BY DEF TearDown, TornStatus, Reset, TypeOK
<1>3. Busy' = [Busy EXCEPT ![s] = FALSE]
  <2>1. ASSUME NEW x \in Session, x # s PROVE Busy'[x] = Busy[x]
    BY <1>2, <2>1 DEF Busy, Live, TearDown, Reset, Ready, TypeOK
  <2>2. Busy'[s] = FALSE
    BY <1>1, <1>2 DEF Busy, Live, Ended, TypeOK
  <2> QED BY <2>1, <2>2 DEF Busy
<1> QED BY <1>1, <1>2, <1>3 DEF Table!End

(* A step that ends and starts nothing only changes what is busy. *)
LEMMA ChangeMaps ==
  ASSUME IInv, IInv', status' = status PROVE Table!Change
<1>1. \A s \in Session : s \notin Live => Busy'[s] = Busy[s]
  BY DEF Busy, Live
<1> QED
  BY <1>1, BusyTyped DEF IInv, Table!Change, Table!LiveNow, Live, Busy

LEMMA StepMaps ==
  ASSUME IInv, IInv', [Next]_vars PROVE [Table!Next]_<<status, Busy>>
<1> USE DEF IInv
<1>1. CASE \E c \in Client, s \in Session, o \in Owner, t \in Stamps : OpenFresh(c, s, o, t)
  <2>1. PICK c \in Client, s \in Session, o \in Owner, t \in Stamps : OpenFresh(c, s, o, t)
    BY <1>1
  <2>2. PICK D \in RoomChoices : SpawnSession(s, o, t, D, {c}, FALSE)
    BY <2>1 DEF OpenFresh
  <2>3. Table!Start(s, D) /\ D \in SUBSET Session
    BY <2>2, SpawnStarts, RoomIsDormant DEF Live
  <2> QED BY <2>3 DEF Table!Next
<1>2. CASE \E s \in Session, o \in Owner, t \in Stamps, pin \in BOOLEAN :
              SpawnDetached(s, o, t, pin)
  <2>1. PICK s \in Session, o \in Owner, t \in Stamps, pin \in BOOLEAN :
              SpawnDetached(s, o, t, pin)
    BY <1>2
  <2>2. PICK D \in RoomChoices : SpawnSession(s, o, t, D, {}, pin)
    BY <2>1 DEF SpawnDetached
  <2>3. Table!Start(s, D) /\ D \in SUBSET Session
    BY <2>2, SpawnStarts, RoomIsDormant DEF Live
  <2> QED BY <2>3 DEF Table!Next
<1>3. CASE SpawnFails
  <2>1. PICK D \in RoomChoices : D # {} /\ TearDown(D, "evicted")
    BY <1>3 DEF SpawnFails
  <2>2. Cardinality(Live) \in Nat
    BY LiveFinite, FS_CardinalityType DEF Live
  <2>3. PICK x \in Live : D = {x}
    BY <2>1, <2>2, RoomIsDormant, CapacityAssumption
  <2>4. x \in Session /\ ~Busy[x]
    BY <2>3, RoomIsDormant, NotBusy DEF Live
  <2>5. Table!TakeAway(x)
    BY <2>1, <2>3, <2>4, TearDownEnds DEF Table!TakeAway, Ended
  <2> QED BY <2>4, <2>5 DEF Table!Next
<1>4. CASE \E s \in Session, t \in Stamps : GraceFires(s, t)
  <2>1. PICK s \in Session, t \in Stamps : GraceFires(s, t)
    BY <1>4
  <2>2. s \in Live /\ clients[s] = {} /\ ~pinned[s]
    BY <2>1 DEF GraceFires, Coupled, ArmedIffReapable
  <2>3. CASE Ready(s)
    <3>1. ~Busy[s]
      BY <2>2, <2>3 DEF Busy
    <3>2. Table!TakeAway(s)
      BY <2>1, <2>2, <2>3, <3>1, TearDownEnds DEF GraceFires, Table!TakeAway, Ended
    <3> QED BY <3>2 DEF Table!Next
  <2>4. CASE ~Ready(s)
    BY <2>1, <2>4, ChangeMaps DEF GraceFires, table, Table!Next
  <2> QED BY <2>3, <2>4
<1>5. CASE \E s \in Session, o \in Owner : Kill(s, o)
  <2>1. PICK s \in Session : s \in Live /\ TearDown({s}, "killed")
    BY <1>5 DEF Kill
  <2> QED BY <2>1, TearDownEnds DEF Table!Next, Table!UserEnds, Ended
<1>6. CASE \E s \in Session : ShellExits(s)
  <2>1. PICK s \in Session : s \in Live /\ TearDown({s}, "exited")
    BY <1>6 DEF ShellExits
  <2> QED BY <2>1, TearDownEnds DEF Table!Next, Table!UserEnds, Ended
<1>7. CASE Stop
  <2>1. status' = [s \in Session |-> IF s \in Live THEN "disposed" ELSE status[s]]
    BY <1>7 DEF Stop, TearDown, TornStatus, Reset
  <2>2. Busy' = [s \in Session |-> FALSE]
    BY <2>1 DEF Busy, Live
  <2> QED
    BY <2>1, <2>2 DEF Table!Next, Table!Shutdown, Table!LiveNow, Live
<1>8. CASE \/ \E c \in Client, x \in Session, o \in Owner : OpenAttach(c, x, o)
           \/ \E c \in Client, t \in Stamps : Detach(c, t)
           \/ \E x \in Session, pin \in BOOLEAN, o \in Owner, t \in Stamps :
                 SetPinned(x, pin, o, t)
           \/ \E on \in BOOLEAN, t \in Stamps : SetGrace(on, t)
           \/ \E x \in Session : Output(x)
           \/ \E x \in Session : Quiet(x)
           \/ \E x \in Session, running \in BOOLEAN : Foreground(x, running)
           \/ UNCHANGED vars
  <2>1. status' = status
    BY <1>8 DEF OpenAttach, Detach, SetPinned, SetGrace, Output, Quiet, Foreground,
                vars, table
  <2> QED BY <2>1, ChangeMaps DEF Table!Next
<1> QED BY <1>1, <1>2, <1>3, <1>4, <1>5, <1>6, <1>7, <1>8 DEF Next

(* Whatever the timers, sockets, pins and settings do, the registry keeps  *)
(* the abstract table's promise.                                           *)
THEOREM ImplementsTable == Spec => KeepsTablePromise
<1>1. Init => Table!Init
  BY DEF Init, Table!Init, Busy, Live
<1>2. IInv /\ IInv' /\ [Next]_vars => [Table!Next]_<<status, Busy>>
  BY StepMaps
<1> QED
  BY <1>1, <1>2, Invariance, PTL DEF Spec, KeepsTablePromise, Table!Spec
=============================================================================
