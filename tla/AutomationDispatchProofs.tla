---------------------- MODULE AutomationDispatchProofs ----------------------
(***************************************************************************)
(* Proofs about AutomationDispatch, for every number of requests, capacity *)
(* and choice of settings: launches are on record once, a session file has *)
(* one user, and neither the capacity nor a run limit is exceeded.         *)
(***************************************************************************)
EXTENDS AutomationDispatch, FiniteSetTheorems, TLAPS

(* What is being opened or executed has been launched. *)
Begun == \A r \in opening \cup executing : launches[r] = 1

(* Only shell runs wait for a tab, and not when the sweep has them.        *)
ByTab ==
    /\ \A r \in pending \cup opening : kind[r] = "shell"
    /\ pending \cap expired = {}

(* What executes has been claimed if it waited for a tab, and an agent is  *)
(* on record as running for as long as it is alive.                        *)
AgentsRun ==
    \A r \in executing :
        status[r] # "launched" /\ (kind[r] # "shell" => status[r] = "running")

(* An automation with work is not deleted. *)
GoneIsIdle == ~exists => Active = {}

(* A run that uses the session file of the thread is the only one started. *)
ThreadAlone == \A q \in Started : kind[q] = "thread" => Started = {q}

(* The routes that hold the automation meet no run and keep others away.   *)
ExclusiveAlone == exclusive => Started = {} /\ draining = {}

(* A reached limit has been noticed. *)
LimitSeen == Reached(count, limit) => finished

(* A counted run was launched, so that there are no more than requests. *)
Counted == {r \in Run : launches[r] = 1}
CountCovered == count <= Cardinality(Counted)

(* The parts from Begun on are what the others need to be kept: who may    *)
(* still end a run is told by where it waits, whether it may be launched   *)
(* by what has started, and whether it is counted by the limit as it was   *)
(* when it was last edited.                                                *)
IInv ==
    /\ TypeOK /\ LaunchedOnce /\ LaunchedIsClaimable /\ ConcurrencyRespected
    /\ Begun /\ ByTab /\ AgentsRun /\ GoneIsIdle
    /\ ThreadAlone /\ ExclusiveAlone /\ LimitSeen /\ CountCovered

-----------------------------------------------------------------------------
(* Lemmas *)

LEMMA RunsAreFinite ==
  ASSUME NEW S, S \subseteq Run
  PROVE  IsFiniteSet(S) /\ Cardinality(S) \in Nat /\ Cardinality(S) <= MaxRuns
<1>1. IsFiniteSet(Run) /\ Cardinality(Run) = MaxRuns
  BY RunsAssumption, FS_Interval DEF Run
<1> QED BY <1>1, FS_Subset, FS_CardinalityType

(* Nothing that ends a run can break what is said of those that started.   *)
LEMMA StartedShrinks ==
  ASSUME IInv, Started' \subseteq Started, \A q \in Started : kind'[q] = kind[q]
  PROVE  ThreadAlone' /\ ConcurrencyRespected'
<1>1. ThreadAlone'
  BY DEF IInv, ThreadAlone
<1>2. /\ IsFiniteSet(Started) /\ Cardinality(Started) \in Nat
      /\ Cardinality(Started') \in Nat
  BY RunsAreFinite DEF Started
<1>3. Cardinality(Started') <= Cardinality(Started)
  BY <1>2, FS_Subset
<1>4. ConcurrencyRespected'
  BY <1>2, <1>3, ConcurrencyAssumption DEF IInv, ConcurrencyRespected
<1> QED BY <1>1, <1>4

(* Only Launch, Reset and Patch touch what the limit is compared with. *)
LEMMA LimitUntouched ==
  ASSUME IInv, UNCHANGED <<budget, limit, launches>>
  PROVE  LimitSeen' /\ CountCovered'
BY DEF IInv, LimitSeen, Reached, CountCovered, Counted, budget

LEMMA InitIInv == Init => IInv
<1> SUFFICES ASSUME Init PROVE IInv
  OBVIOUS
<1>1. TypeOK
  <2>1. count \in 0 .. MaxRuns /\ upsets \in 0 .. MaxUpsets
    BY RunsAssumption, UpsetsAssumption DEF Init
  <2>2. /\ status \in [Run -> Status] /\ automatic \in [Run -> BOOLEAN]
        /\ kind \in [Run -> {"shell", "fresh", "thread"}]
        /\ launches \in [Run -> Nat]
    BY DEF Init, Status
  <2>3. {exists, enabled, finished, exclusive} \subseteq BOOLEAN
    BY DEF Init
  <2> QED BY <2>1, <2>2, <2>3 DEF Init, TypeOK
<1>0. LaunchedOnce /\ LaunchedIsClaimable
  BY DEF Init, LaunchedOnce, LaunchedIsClaimable
<1>2. Started = {} /\ Active = {}
  BY DEF Init, Started, Active, IsActive
<1>3. ConcurrencyRespected
  BY <1>2, FS_EmptySet, ConcurrencyAssumption DEF ConcurrencyRespected
<1>4. Begun /\ ByTab /\ AgentsRun /\ GoneIsIdle /\ ThreadAlone /\ ExclusiveAlone
  BY <1>2 DEF Init, Begun, ByTab, AgentsRun, GoneIsIdle, ThreadAlone, ExclusiveAlone
<1>5. LimitSeen
  BY LimitsAssumption DEF Init, LimitSeen, Reached
<1>6. CountCovered
  BY RunsAreFinite DEF Init, CountCovered, Counted
<1> QED BY <1>0, <1>1, <1>3, <1>4, <1>5, <1>6 DEF IInv

-----------------------------------------------------------------------------
(* Requests *)

LEMMA RequestIInv ==
  ASSUME IInv, NEW r \in Run, NEW auto \in BOOLEAN, NEW missed \in BOOLEAN,
         Request(r, auto, missed)
  PROVE  IInv'
<1> USE DEF IInv
<1>1. /\ \A q \in Run : status'[q] \in {"none", "queued", "skipped"}
                        \/ status'[q] = status[q]
      /\ \A q \in Run : status'[q] # status[q] => status[q] \in {"none", "queued"}
      /\ \A q \in Run : q # r => kind'[q] = kind[q]
      /\ status \in [Run -> Status] /\ DOMAIN status' = Run
  BY DEF Request, TypeOK, record
<1>2. TypeOK'
  <2>1. runner \in {"shell", "fresh", "thread"}
    BY RunnersAssumption DEF TypeOK
  <2>2. status' \in [Run -> Status] /\ kind' \in [Run -> {"shell", "fresh", "thread"}]
    BY <2>1 DEF Request, TypeOK, Status, Over, record
  <2>3. draining' \subseteq {q \in Run : status'[q] = "queued"}
    BY DEF Request, Visits
  <2> QED BY <2>2, <2>3 DEF Request, TypeOK, settings, budget, tabs
<1>3. LaunchedOnce' /\ LaunchedIsClaimable'
  BY <1>1 DEF Request, LaunchedOnce, LaunchedIsClaimable, tabs, Idle
<1>4. Begun' /\ ByTab' /\ AgentsRun'
  <2>1. launches[r] = 0 /\ r \notin opening \cup executing \cup pending
    BY DEF Request, LaunchedOnce, LaunchedIsClaimable, Begun
  <2>2. UNCHANGED <<pending, opening, expired, executing, launches>>
    BY DEF Request, tabs
  <2>3. pending \cup opening \cup executing \subseteq Run
    BY DEF TypeOK
  <2>4. \A q \in executing : status'[q] = status[q]
    BY <1>1, <2>1, <2>3 DEF LaunchedOnce, Begun
  <2> QED BY <1>1, <2>1, <2>2, <2>3, <2>4 DEF Begun, ByTab, AgentsRun
<1>5. GoneIsIdle'
  BY DEF Request, GoneIsIdle, settings
<1>6. Started' = Started /\ \A q \in Started : kind'[q] = kind[q]
  BY <1>1 DEF Request, Started
<1>7. ThreadAlone' /\ ConcurrencyRespected'
  BY <1>6, StartedShrinks
<1>8. ExclusiveAlone'
  BY <1>6 DEF Request, ExclusiveAlone, Visits
<1>9. LimitSeen' /\ CountCovered'
  BY LimitUntouched DEF Request, settings
<1> QED BY <1>2, <1>3, <1>4, <1>5, <1>7, <1>8, <1>9

(* What was queued is over or passed over: nothing has started.            *)
LEMMA QueueIInv ==
  ASSUME IInv, NEW r \in Run, Cancel(r) \/ Discard(r) \/ PassOver(r)
  PROVE  IInv'
<1> USE DEF IInv
<1>1. /\ status[r] = "queued" /\ status' \in {status, With(r, "cancelled")}
      /\ draining' \subseteq {q \in draining : status'[q] = "queued"}
      /\ UNCHANGED <<settings, orphans, budget, record, exclusive, expired, tabs, executing,
                     launches>>
      /\ upsets' = upsets
  BY DEF Cancel, Discard, PassOver, Turn, With, TypeOK, memory, Idle, record
<1>2. TypeOK'
  BY <1>1 DEF TypeOK, With, Status, Over, settings, budget, record, tabs
<1>3. LaunchedOnce' /\ LaunchedIsClaimable'
  BY <1>1 DEF TypeOK, With, LaunchedOnce, LaunchedIsClaimable, tabs
<1>4. Begun' /\ ByTab' /\ AgentsRun'
  BY <1>1 DEF TypeOK, With, Begun, ByTab, AgentsRun, tabs, record
<1>5. GoneIsIdle'
  BY <1>1 DEF TypeOK, With, GoneIsIdle, Active, IsActive, settings
<1>6. Started' \subseteq Started
  BY <1>1 DEF TypeOK, With, Started
<1>7. ThreadAlone' /\ ConcurrencyRespected'
  BY <1>1, <1>6, StartedShrinks DEF record
<1>8. ExclusiveAlone'
  BY <1>1, <1>6 DEF ExclusiveAlone
<1>9. LimitSeen' /\ CountCovered'
  BY <1>1, LimitUntouched DEF settings
<1> QED BY <1>2, <1>3, <1>4, <1>5, <1>7, <1>8, <1>9

(* The writes that neither start nor end a run. *)
LEMMA WriteFailsIInv == ASSUME IInv, WriteFails PROVE IInv'
<1> USE DEF IInv
<1>1. /\ UNCHANGED <<settings, orphans, budget, status, record, exclusive, expired, tabs,
                     executing, launches>>
      /\ draining' = {} /\ upsets < MaxUpsets /\ upsets' = upsets + 1
  BY DEF WriteFails, Upset
<1>2. TypeOK'
  BY <1>1, UpsetsAssumption DEF TypeOK, settings, budget, record, tabs
<1>3. Started' = Started
  BY <1>1 DEF Started
<1>4. ThreadAlone' /\ ConcurrencyRespected'
  BY <1>1, <1>3, StartedShrinks DEF record
<1>5. LaunchedOnce' /\ LaunchedIsClaimable' /\ Begun' /\ ByTab' /\ AgentsRun' /\ GoneIsIdle'
  BY <1>1 DEF LaunchedOnce, LaunchedIsClaimable, Begun, ByTab, AgentsRun, GoneIsIdle,
              Active, IsActive, settings, record, tabs
<1>6. ExclusiveAlone'
  BY <1>1, <1>3 DEF ExclusiveAlone
<1>7. LimitSeen' /\ CountCovered'
  BY <1>1, LimitUntouched DEF settings
<1> QED BY <1>2, <1>4, <1>5, <1>6, <1>7

-----------------------------------------------------------------------------
(* Launching *)

(* One more run has started: it found room, and nobody in its way.         *)
LEMMA LaunchIInv == ASSUME IInv, NEW r \in Run, Launch(r) PROVE IInv'
<1> USE DEF IInv
<1>1. /\ status[r] = "queued" /\ r \in draining /\ launches[r] = 0
      /\ ~Unwanted(r) /\ ~Blocked(r)
      /\ draining' = draining \ {r}
      /\ launches' = [launches EXCEPT ![r] = 1]
      /\ UNCHANGED <<settings, orphans, record, exclusive, expired, upsets>>
  <2>1. r \in draining /\ status[r] = "queued"
    BY DEF Launch, Turn, TypeOK
  <2>2. launches[r] = 0
    BY <2>1 DEF LaunchedOnce
  <2>3. launches' = [launches EXCEPT ![r] = 1]
    BY <2>2 DEF Launch
  <2> QED BY <2>1, <2>2, <2>3 DEF Launch
<1>2. /\ status' = With(r, IF kind[r] = "shell" THEN "launched" ELSE "running")
      /\ IF kind[r] = "shell"
         THEN pending' = pending \cup {r} /\ opening' = opening \cup {r}
              /\ executing' = executing
         ELSE executing' = executing \cup {r} /\ pending' = pending /\ opening' = opening
  BY DEF Launch, tabs
<1>3. /\ count' = IF automatic[r] THEN count + 1 ELSE count
      /\ finished' = (finished \/ Reached(count', limit))
  BY DEF Launch
<1>4. Counted' = Counted \cup {r} /\ r \notin Counted
  BY <1>1 DEF Counted, TypeOK
<1>5. CountCovered'
  <2>1. Cardinality(Counted') = Cardinality(Counted) + 1
    BY <1>4, RunsAreFinite, FS_AddElement DEF Counted
  <2>2. Cardinality(Counted) \in Nat /\ count \in Nat
    BY RunsAreFinite DEF Counted, TypeOK
  <2> QED BY <1>3, <2>1, <2>2 DEF CountCovered
<1>6. LimitSeen'
  BY <1>1, <1>3 DEF LimitSeen, settings
<1>7. TypeOK'
  <2>1. count' \in 0 .. MaxRuns
    <3>1. Cardinality(Counted') \in Nat /\ Cardinality(Counted') <= MaxRuns
      BY RunsAreFinite DEF Counted
    <3>2. count' \in Nat
      BY <1>3 DEF TypeOK
    <3> QED BY <1>5, <3>1, <3>2, RunsAssumption DEF CountCovered
  <2>2. finished' \in BOOLEAN
    BY <1>3 DEF TypeOK, Reached
  <2>3. status' \in [Run -> Status] /\ launches' \in [Run -> Nat]
    BY <1>1, <1>2 DEF TypeOK, With, Status
  <2>4. draining' \subseteq {q \in Run : status'[q] = "queued"}
    BY <1>1, <1>2 DEF TypeOK, With
  <2>5. pending' \cup opening' \cup executing' \subseteq Run
    BY <1>2 DEF TypeOK
  <2> QED BY <1>1, <2>1, <2>2, <2>3, <2>4, <2>5 DEF TypeOK, settings, record
<1>8. LaunchedOnce'
  BY <1>1, <1>2 DEF LaunchedOnce, TypeOK, With
<1>9. LaunchedIsClaimable'
  BY <1>1, <1>2 DEF LaunchedIsClaimable, TypeOK, With
<1>10. Begun' /\ ByTab' /\ AgentsRun'
  BY <1>1, <1>2 DEF Begun, ByTab, AgentsRun, LaunchedIsClaimable, TypeOK, With, record
<1>11. GoneIsIdle'
  BY <1>1 DEF GoneIsIdle, Active, IsActive, settings
<1>12. Started' = Started \cup {r}
  BY <1>2 DEF Started, With, TypeOK
<1>13. Cardinality(Started) < MaxConcurrent
  BY <1>1, RunsAreFinite, ConcurrencyAssumption DEF Blocked, Started
<1>14. ConcurrencyRespected'
  <2>1. Cardinality(Started') <= Cardinality(Started) + 1 /\ Cardinality(Started) \in Nat
    BY <1>12, RunsAreFinite, FS_AddElement DEF Started
  <2>2. Cardinality(Started') \in Nat
    BY RunsAreFinite DEF Started
  <2> QED BY <1>13, <2>1, <2>2, ConcurrencyAssumption DEF ConcurrencyRespected
<1>15. Started # {} => \A q \in Started' : kind[q] # "thread"
  BY <1>1, <1>12 DEF Blocked, SharesThread
<1>16. ThreadAlone'
  BY <1>1, <1>12, <1>15 DEF ThreadAlone, record
<1>17. ExclusiveAlone'
  BY <1>1 DEF ExclusiveAlone
<1> QED BY <1>5, <1>6, <1>7, <1>8, <1>9, <1>10, <1>11, <1>14, <1>16, <1>17

-----------------------------------------------------------------------------
(* The life of a launched run *)

(* A run that ends leaves the started ones, and what waits is unchanged.   *)
LEMMA EndKeeps ==
  ASSUME IInv, NEW r \in Run, NEW s \in {"ended", "failed"}, IsActive(r),
         launches[r] = 1, EndAndDrain(r, s),
         UNCHANGED <<settings, orphans, budget, record, launches>>
  PROVE  /\ status' \in [Run -> Status] /\ draining' \subseteq {q \in Run : status'[q] = "queued"}
         /\ LaunchedOnce' /\ GoneIsIdle' /\ ThreadAlone' /\ ConcurrencyRespected'
         /\ ExclusiveAlone' /\ LimitSeen' /\ CountCovered'
<1> USE DEF IInv
<1>1. status' = With(r, s) /\ draining' = Visits(status') /\ exclusive' = exclusive
  BY DEF EndAndDrain
<1>2. status' \in [Run -> Status] /\ draining' \subseteq {q \in Run : status'[q] = "queued"}
  BY <1>1 DEF TypeOK, With, Visits, Status, Over
<1>3. LaunchedOnce'
  BY <1>1 DEF TypeOK, With, LaunchedOnce
<1>4. GoneIsIdle'
  BY <1>1 DEF TypeOK, With, GoneIsIdle, Active, IsActive, settings
<1>5. Started' \subseteq Started
  BY <1>1 DEF TypeOK, With, Started
<1>6. ThreadAlone' /\ ConcurrencyRespected'
  BY <1>5, StartedShrinks DEF record
<1>7. ExclusiveAlone'
  BY <1>1, <1>5 DEF ExclusiveAlone, Visits
<1>8. LimitSeen' /\ CountCovered'
  BY LimitUntouched DEF settings
<1> QED BY <1>2, <1>3, <1>4, <1>6, <1>7, <1>8

LEMMA ClaimIInv == ASSUME IInv, NEW r \in Run, Claim(r) PROVE IInv'
<1> USE DEF IInv
<1>1. /\ Idle /\ r \in pending /\ pending' = pending \ {r} /\ opening' = opening
      /\ UNCHANGED <<settings, orphans, budget, record, launches, upsets>>
  BY DEF Claim
<1>2. status[r] = "launched" /\ launches[r] = 1 /\ kind[r] = "shell" /\ IsActive(r)
  BY <1>1 DEF LaunchedIsClaimable, LaunchedOnce, ByTab, IsActive
<1>3. CASE status' = With(r, "running") /\ executing' = executing \cup {r}
           /\ UNCHANGED memory
  <2>1. TypeOK'
    BY <1>1, <1>2, <1>3 DEF TypeOK, With, Status, settings, budget, record, memory
  <2>2. LaunchedOnce' /\ LaunchedIsClaimable'
    BY <1>1, <1>2, <1>3 DEF TypeOK, With, LaunchedOnce, LaunchedIsClaimable, memory, Idle
  <2>3. Begun' /\ ByTab' /\ AgentsRun'
    BY <1>1, <1>2, <1>3 DEF TypeOK, With, Begun, ByTab, AgentsRun, record, memory
  <2>4. GoneIsIdle'
    BY <1>1, <1>2, <1>3 DEF TypeOK, With, GoneIsIdle, Active, IsActive, settings
  <2>5. Started' = Started
    BY <1>2, <1>3 DEF TypeOK, With, Started
  <2>6. ThreadAlone' /\ ConcurrencyRespected'
    BY <1>1, <2>5, StartedShrinks DEF record
  <2>7. ExclusiveAlone'
    BY <1>3, <2>5 DEF ExclusiveAlone, memory
  <2>8. LimitSeen' /\ CountCovered'
    BY <1>1, LimitUntouched DEF settings
  <2> QED BY <2>1, <2>2, <2>3, <2>4, <2>6, <2>7, <2>8
<1>4. CASE EndAndDrain(r, "failed") /\ UNCHANGED executing
  <2>1. /\ status' \in [Run -> Status] /\ draining' \subseteq {q \in Run : status'[q] = "queued"}
        /\ LaunchedOnce' /\ GoneIsIdle' /\ ThreadAlone' /\ ConcurrencyRespected'
        /\ ExclusiveAlone' /\ LimitSeen' /\ CountCovered'
    BY <1>1, <1>2, <1>4, EndKeeps
  <2>2. status' = With(r, "failed") /\ expired' = expired /\ exclusive' = exclusive
    BY <1>4 DEF EndAndDrain
  <2>3. TypeOK'
    BY <1>1, <1>4, <2>1, <2>2 DEF TypeOK, settings, budget, record
  <2>4. LaunchedIsClaimable'
    BY <1>1, <2>2 DEF TypeOK, With, LaunchedIsClaimable, Idle
  <2>5. Begun' /\ ByTab' /\ AgentsRun'
    BY <1>1, <1>2, <1>4, <2>2 DEF TypeOK, With, Begun, ByTab, AgentsRun, record
  <2> QED BY <2>1, <2>3, <2>4, <2>5
<1> QED BY <1>3, <1>4 DEF Claim

(* The tab has opened, or the command's shell is gone without a word.      *)
LEMMA QuietIInv ==
  ASSUME IInv, NEW r \in Run, OpenSettles(r) \/ ShellDies(r)
  PROVE  IInv'
<1> USE DEF IInv
<1>1. /\ UNCHANGED <<settings, orphans, budget, status, record, memory, pending, launches, upsets>>
      /\ opening' \subseteq opening /\ executing' \subseteq executing
  BY DEF OpenSettles, ShellDies, tabs
<1>2. TypeOK'
  BY <1>1 DEF TypeOK, settings, budget, record, memory
<1>3. Started' = Started
  BY <1>1 DEF Started
<1>4. ThreadAlone' /\ ConcurrencyRespected'
  BY <1>1, <1>3, StartedShrinks DEF record
<1>5. /\ LaunchedOnce' /\ LaunchedIsClaimable' /\ Begun' /\ ByTab' /\ AgentsRun'
      /\ GoneIsIdle'
  BY <1>1 DEF LaunchedOnce, LaunchedIsClaimable, Begun, ByTab, AgentsRun, GoneIsIdle,
              Active, IsActive, settings, record, memory
<1>6. ExclusiveAlone'
  BY <1>1, <1>3 DEF ExclusiveAlone, memory
<1>7. LimitSeen' /\ CountCovered'
  BY <1>1, LimitUntouched DEF settings
<1> QED BY <1>2, <1>4, <1>5, <1>6, <1>7

LEMMA OpenFailsIInv == ASSUME IInv, NEW r \in Run, OpenFails(r) PROVE IInv'
<1> USE DEF IInv
<1>1. /\ Idle /\ r \in opening
      /\ opening' = opening \ {r} /\ pending' = pending \ {r}
      /\ UNCHANGED <<settings, orphans, budget, record, executing, launches, upsets>>
  BY DEF OpenFails
<1>2. launches[r] = 1 /\ kind[r] = "shell"
  BY <1>1 DEF Begun, ByTab
<1>3. CASE exists /\ IsActive(r)
  <2>1. EndAndDrain(r, "failed")
    BY <1>3 DEF OpenFails
  <2>2. /\ status' \in [Run -> Status] /\ draining' \subseteq {q \in Run : status'[q] = "queued"}
        /\ LaunchedOnce' /\ GoneIsIdle' /\ ThreadAlone' /\ ConcurrencyRespected'
        /\ ExclusiveAlone' /\ LimitSeen' /\ CountCovered'
    BY <1>1, <1>2, <1>3, <2>1, EndKeeps
  <2>3. status' = With(r, "failed") /\ expired' = expired /\ exclusive' = exclusive
    BY <2>1 DEF EndAndDrain
  <2>4. TypeOK'
    BY <1>1, <2>2, <2>3 DEF TypeOK, settings, budget, record
  <2>5. LaunchedIsClaimable'
    BY <1>1, <2>3 DEF TypeOK, With, LaunchedIsClaimable, Idle
  <2>6. Begun' /\ ByTab' /\ AgentsRun'
    BY <1>1, <1>2, <2>3 DEF TypeOK, With, Begun, ByTab, AgentsRun, record
  <2> QED BY <2>2, <2>4, <2>5, <2>6
<1>4. CASE ~(exists /\ IsActive(r))
  <2>1. UNCHANGED <<status, memory>>
    BY <1>4 DEF OpenFails
  <2>2. r \notin pending
    BY <1>1, <1>4 DEF LaunchedIsClaimable, IsActive, GoneIsIdle, Active
  <2>3. pending' = pending
    BY <1>1, <2>2
  <2>4. TypeOK'
    BY <1>1, <2>1, <2>3 DEF TypeOK, settings, budget, record, memory
  <2>5. Started' = Started
    BY <2>1 DEF Started
  <2>6. ThreadAlone' /\ ConcurrencyRespected'
    BY <1>1, <2>5, StartedShrinks DEF record
  <2>7. /\ LaunchedOnce' /\ LaunchedIsClaimable' /\ Begun' /\ ByTab' /\ AgentsRun'
        /\ GoneIsIdle'
    BY <1>1, <2>1, <2>3 DEF LaunchedOnce, LaunchedIsClaimable, Begun, ByTab, AgentsRun,
                            GoneIsIdle, Active, IsActive, settings, record, memory
  <2>8. ExclusiveAlone'
    BY <2>1, <2>5 DEF ExclusiveAlone, memory
  <2>9. LimitSeen' /\ CountCovered'
    BY <1>1, LimitUntouched DEF settings
  <2> QED BY <2>4, <2>6, <2>7, <2>8, <2>9
<1> QED BY <1>3, <1>4

(* The command or the agent comes to its end and is reported.              *)
LEMMA EndsIInv ==
  ASSUME IInv, NEW r \in Run, CommandEnds(r) \/ AgentEnds(r)
  PROVE  IInv'
<1> USE DEF IInv
<1>1. /\ Idle /\ r \in executing /\ executing' = executing \ {r}
      /\ UNCHANGED <<settings, orphans, budget, record, tabs, launches, upsets>>
      /\ launches[r] = 1 /\ status[r] # "launched"
  BY DEF CommandEnds, AgentEnds, Begun, AgentsRun
<1>2. PICK s \in {"ended", "failed"} :
         IF exists THEN EndAndDrain(r, s) ELSE UNCHANGED <<status, memory>>
  <2>1. CASE CommandEnds(r)
    BY <2>1 DEF CommandEnds
  <2>2. CASE AgentEnds(r)
    <3>1. status[r] = "running"
      BY <2>2 DEF AgentEnds, AgentsRun
    <3>2. exists
      BY <3>1 DEF GoneIsIdle, Active, IsActive
    <3> QED BY <2>2, <3>2 DEF AgentEnds
  <2> QED BY <2>1, <2>2
<1>3. /\ status' \in {status, With(r, s)} /\ (exists \/ status' = status)
      /\ draining' \subseteq {q \in Run : status'[q] = "queued"}
      /\ UNCHANGED <<exclusive, expired>> /\ (exclusive => draining' = {})
  BY <1>1, <1>2 DEF EndAndDrain, Visits, memory, Idle
<1>4. status[r] \notin {"none", "queued", "skipped", "cancelled"}
  BY <1>1 DEF LaunchedOnce
<1>5. TypeOK'
  BY <1>1, <1>3 DEF TypeOK, With, Status, Over, settings, budget, record, tabs
<1>6. LaunchedOnce'
  BY <1>1, <1>3, <1>4 DEF TypeOK, With, LaunchedOnce
<1>7. LaunchedIsClaimable'
  BY <1>1, <1>3 DEF TypeOK, With, LaunchedIsClaimable, tabs
<1>8. Begun' /\ ByTab' /\ AgentsRun'
  BY <1>1, <1>3 DEF TypeOK, With, Begun, ByTab, AgentsRun, tabs, record
<1>9. GoneIsIdle'
  BY <1>1, <1>3 DEF GoneIsIdle, Active, IsActive, settings
<1>10. Started' \subseteq Started
  BY <1>3 DEF TypeOK, With, Started
<1>11. ThreadAlone' /\ ConcurrencyRespected'
  BY <1>1, <1>10, StartedShrinks DEF record
<1>12. ExclusiveAlone'
  BY <1>3, <1>10 DEF ExclusiveAlone
<1>13. LimitSeen' /\ CountCovered'
  BY <1>1, LimitUntouched DEF settings
<1> QED BY <1>5, <1>6, <1>7, <1>8, <1>9, <1>11, <1>12, <1>13

-----------------------------------------------------------------------------
(* The minute tick *)

LEMMA TickIInv ==
  ASSUME IInv, NEW late \in SUBSET pending, Tick(late)
  PROVE  IInv'
<1> USE DEF IInv
<1>1. /\ Idle /\ draining' = Visits(status) /\ expired' = late
      /\ pending' = pending \ late
      /\ UNCHANGED <<settings, orphans, budget, status, record, exclusive, opening, executing,
                     launches, upsets>>
  BY DEF Tick
<1>2. TypeOK'
  BY <1>1 DEF TypeOK, Visits, settings, budget, record
<1>3. Started' = Started
  BY <1>1 DEF Started
<1>4. ThreadAlone' /\ ConcurrencyRespected'
  BY <1>1, <1>3, StartedShrinks DEF record
<1>5. LaunchedOnce' /\ LaunchedIsClaimable'
  BY <1>1 DEF LaunchedOnce, LaunchedIsClaimable, Idle
<1>6. Begun' /\ ByTab' /\ AgentsRun' /\ GoneIsIdle'
  BY <1>1 DEF Begun, ByTab, AgentsRun, GoneIsIdle, Active, IsActive, settings, record
<1>7. ExclusiveAlone'
  BY <1>1, <1>3 DEF ExclusiveAlone, Visits
<1>8. LimitSeen' /\ CountCovered'
  BY <1>1, LimitUntouched DEF settings
<1> QED BY <1>2, <1>4, <1>5, <1>6, <1>7, <1>8

LEMMA ExpireIInv == ASSUME IInv, NEW r \in Run, Expire(r) PROVE IInv'
<1> USE DEF IInv
<1>1. /\ draining = {} /\ r \in expired /\ expired' = expired \ {r}
      /\ UNCHANGED <<settings, orphans, budget, record, exclusive, tabs, executing, launches,
                     upsets>>
  BY DEF Expire
<1>2. status[r] = "launched"
  BY <1>1 DEF LaunchedIsClaimable
<1>3. status' = With(r, "missed") /\ draining' = Visits(status')
  BY <1>2 DEF Expire
<1>4. TypeOK'
  BY <1>1, <1>3 DEF TypeOK, With, Visits, Status, Over, settings, budget, record, tabs
<1>5. LaunchedOnce'
  BY <1>1, <1>2, <1>3 DEF TypeOK, With, LaunchedOnce
<1>6. LaunchedIsClaimable'
  BY <1>1, <1>3 DEF ByTab, TypeOK, With, LaunchedIsClaimable, tabs
<1>7. Begun' /\ ByTab' /\ AgentsRun'
  BY <1>1, <1>2, <1>3 DEF TypeOK, With, Begun, ByTab, AgentsRun, tabs, record
<1>8. GoneIsIdle'
  BY <1>1, <1>2, <1>3 DEF TypeOK, With, GoneIsIdle, Active, IsActive, settings
<1>9. Started' \subseteq Started
  BY <1>3 DEF TypeOK, With, Started
<1>10. ThreadAlone' /\ ConcurrencyRespected'
  BY <1>1, <1>9, StartedShrinks DEF record
<1>11. ExclusiveAlone'
  BY <1>1, <1>3, <1>9 DEF ExclusiveAlone, Visits
<1>12. LimitSeen' /\ CountCovered'
  BY <1>1, LimitUntouched DEF settings
<1> QED BY <1>4, <1>5, <1>6, <1>7, <1>8, <1>10, <1>11, <1>12

-----------------------------------------------------------------------------
(* The user *)

LEMMA PatchIInv ==
  ASSUME IInv, NEW on \in BOOLEAN, NEW max \in Limits, NEW pol \in Policies,
         NEW run \in Runners, Patch(on, max, pol, run)
  PROVE  IInv'
<1> USE DEF IInv
<1>1. /\ enabled' = on /\ limit' = max /\ policy' = pol /\ runner' = run
      /\ finished' = (finished \/ Reached(count, max))
      /\ draining' = Visits(status) /\ upsets < MaxUpsets /\ upsets' = upsets + 1
      /\ UNCHANGED <<orphans, exists, count, status, record, exclusive, expired, tabs, executing,
                     launches>>
  BY DEF Patch, Upset
<1>2. TypeOK'
  <2>1. upsets' \in 0 .. MaxUpsets /\ finished' \in BOOLEAN
    BY <1>1, UpsetsAssumption DEF TypeOK, Reached
  <2> QED BY <1>1, <2>1 DEF TypeOK, Visits, record, tabs
<1>3. Started' = Started
  BY <1>1 DEF Started
<1>4. ThreadAlone' /\ ConcurrencyRespected'
  BY <1>1, <1>3, StartedShrinks DEF record
<1>5. LaunchedOnce' /\ LaunchedIsClaimable'
  BY <1>1 DEF LaunchedOnce, LaunchedIsClaimable, tabs
<1>6. Begun' /\ ByTab' /\ AgentsRun' /\ GoneIsIdle'
  BY <1>1 DEF Begun, ByTab, AgentsRun, GoneIsIdle, Active, IsActive, record, tabs
<1>7. ExclusiveAlone'
  BY <1>1, <1>3 DEF ExclusiveAlone, Visits
<1>8. LimitSeen' /\ CountCovered'
  BY <1>1 DEF LimitSeen, CountCovered, Counted, Reached
<1> QED BY <1>2, <1>4, <1>5, <1>6, <1>7, <1>8

LEMMA ResetIInv == ASSUME IInv, Reset PROVE IInv'
<1> USE DEF IInv
<1>1. /\ count' = 0 /\ finished' = FALSE /\ enabled' = TRUE
      /\ upsets < MaxUpsets /\ upsets' = upsets + 1
      /\ UNCHANGED <<orphans, exists, limit, policy, runner, status, record, memory, tabs,
                     executing, launches>>
  BY DEF Reset, Upset
<1>2. TypeOK'
  <2>1. count' \in 0 .. MaxRuns /\ upsets' \in 0 .. MaxUpsets
    BY <1>1, UpsetsAssumption, RunsAssumption DEF TypeOK
  <2> QED BY <1>1, <2>1 DEF TypeOK, record, memory, tabs
<1>3. Started' = Started
  BY <1>1 DEF Started
<1>4. ThreadAlone' /\ ConcurrencyRespected'
  BY <1>1, <1>3, StartedShrinks DEF record
<1>5. LaunchedOnce' /\ LaunchedIsClaimable'
  BY <1>1 DEF LaunchedOnce, LaunchedIsClaimable, memory, tabs
<1>6. Begun' /\ ByTab' /\ AgentsRun' /\ GoneIsIdle'
  BY <1>1 DEF Begun, ByTab, AgentsRun, GoneIsIdle, Active, IsActive, record, tabs,
             memory
<1>7. ExclusiveAlone'
  BY <1>1, <1>3 DEF ExclusiveAlone, memory
<1>8. LimitSeen'
  BY <1>1, LimitsAssumption DEF LimitSeen, Reached, TypeOK
<1>9. CountCovered'
  BY <1>1, RunsAreFinite DEF CountCovered, Counted
<1> QED BY <1>2, <1>4, <1>5, <1>6, <1>7, <1>8, <1>9

(* The maintenance routes and the deletion find nobody, and only           *)
(* maintenance keeps others away.                                          *)
LEMMA RoutesIInv ==
  ASSUME IInv, AcquireExclusive \/ ReleaseExclusive \/ Remove
  PROVE  IInv'
<1> USE DEF IInv
<1>1. /\ UNCHANGED <<orphans, enabled, limit, policy, runner, budget, status, record, expired,
                     tabs, executing, launches, upsets>>
      /\ exists' \in {exists, FALSE} /\ (exists' = exists \/ Active = {})
      /\ exclusive' \in BOOLEAN
      /\ draining' \subseteq {r \in Run : status[r] = "queued"}
      /\ exclusive' => draining' = {} /\ (exclusive \/ Active = {})
  BY DEF AcquireExclusive, ReleaseExclusive, Remove, settings, memory, Idle, Busy, TypeOK
<1>2. TypeOK'
  BY <1>1 DEF TypeOK, budget, record, tabs
<1>3. Started' = Started /\ (Active = {} => Started = {})
  BY <1>1 DEF Started, Active, IsActive
<1>4. ThreadAlone' /\ ConcurrencyRespected'
  BY <1>1, <1>3, StartedShrinks DEF record
<1>5. LaunchedOnce' /\ LaunchedIsClaimable'
  BY <1>1 DEF LaunchedOnce, LaunchedIsClaimable, tabs
<1>6. Begun' /\ ByTab' /\ AgentsRun' /\ GoneIsIdle'
  BY <1>1 DEF Begun, ByTab, AgentsRun, GoneIsIdle, Active, IsActive, record, tabs
<1>7. ExclusiveAlone'
  BY <1>1, <1>3 DEF ExclusiveAlone
<1>8. LimitSeen' /\ CountCovered'
  BY <1>1, LimitUntouched
<1> QED BY <1>2, <1>4, <1>5, <1>6, <1>7, <1>8

(* A restart interrupts what had started and drains what was only queued.  *)
LEMMA RestartIInv == ASSUME IInv, NEW left, Restart(left) PROVE IInv'
<1> USE DEF IInv
<1>1. /\ upsets < MaxUpsets /\ upsets' = upsets + 1 /\ exclusive' = FALSE
      /\ expired' = {} /\ pending' = {} /\ opening' = {} /\ executing' = {}
      /\ draining' \subseteq {r \in Run : status'[r] = "queued"}
      /\ UNCHANGED <<settings, budget, record, launches>>
      /\ orphans' \subseteq 0 .. MaxRuns
  <2>1. left \subseteq 0 .. MaxRuns
    <3>1. left \subseteq Run \cup {0}
      BY DEF Restart, Survivors, TypeOK
    <3> QED BY <3>1, RunsAssumption DEF Run
  <2> QED BY <2>1 DEF Restart, Upset, TypeOK
<1>2. status' = [r \in Run |-> Recovered(status[r])]
  <2>1. ~exists => \A r \in Run : Recovered(status[r]) = status[r]
    BY DEF GoneIsIdle, Active, IsActive, Recovered
  <2> QED BY <2>1 DEF Restart, TypeOK
<1>3. TypeOK'
  <2>1. status' \in [Run -> Status]
    BY <1>2 DEF TypeOK, Recovered, Status, Over
  <2>2. upsets' \in 0 .. MaxUpsets
    BY <1>1, UpsetsAssumption DEF TypeOK
  <2> QED BY <1>1, <2>1, <2>2 DEF TypeOK, settings, budget, record
<1>4. LaunchedOnce' /\ LaunchedIsClaimable'
  BY <1>1, <1>2 DEF LaunchedOnce, LaunchedIsClaimable, Recovered
<1>5. Begun' /\ ByTab' /\ AgentsRun'
  BY <1>1 DEF Begun, ByTab, AgentsRun
<1>6. GoneIsIdle'
  BY <1>1, <1>2 DEF GoneIsIdle, Active, IsActive, Recovered, settings
<1>7. Started' = {}
  BY <1>2 DEF Started, Recovered
<1>8. ThreadAlone' /\ ConcurrencyRespected'
  BY <1>1, <1>7, StartedShrinks DEF record
<1>9. ExclusiveAlone'
  BY <1>1 DEF ExclusiveAlone
<1>10. LimitSeen' /\ CountCovered'
  BY <1>1, LimitUntouched DEF settings
<1> QED BY <1>3, <1>4, <1>5, <1>6, <1>8, <1>9, <1>10

(* The end of what a former daemon left changes nothing else.              *)
LEMMA OrphanEndsIInv == ASSUME IInv, NEW p, OrphanEnds(p) PROVE IInv'
<1>1. /\ UNCHANGED <<settings, budget, status, record, memory, tabs, executing, launches,
                      upsets>>
      /\ orphans' \subseteq orphans
  BY DEF OrphanEnds
<1> QED
  BY <1>1 DEF IInv, TypeOK, LaunchedOnce, LaunchedIsClaimable, ConcurrencyRespected,
              Begun, ByTab, AgentsRun, GoneIsIdle, ThreadAlone, ExclusiveAlone, LimitSeen,
              CountCovered, Counted, Started, Active, IsActive, settings, budget,
              record, memory, tabs

-----------------------------------------------------------------------------
(* The theorems *)

LEMMA NextIInv == ASSUME IInv, [Next]_vars PROVE IInv'
<1>1. CASE \E r \in Run : \E auto, missed \in BOOLEAN : Request(r, auto, missed)
  BY <1>1, RequestIInv
<1>2. CASE \E r \in Run : Cancel(r)
  BY <1>2, QueueIInv
<1>3. CASE DrainStep
  BY <1>3, QueueIInv, LaunchIInv DEF DrainStep
<1>4. CASE WriteFails
  BY <1>4, WriteFailsIInv
<1>5. CASE \E r \in Run : Claim(r) \/ OpenSettles(r) \/ OpenFails(r)
  BY <1>5, ClaimIInv, QuietIInv, OpenFailsIInv
<1>6. CASE \E r \in Run : CommandEnds(r) \/ ShellDies(r) \/ AgentEnds(r)
  BY <1>6, EndsIInv, QuietIInv
<1>7. CASE \E late \in SUBSET pending : Tick(late)
  BY <1>7, TickIInv
<1>8. CASE \E r \in Run : Expire(r)
  BY <1>8, ExpireIInv
<1>9. CASE \E on \in BOOLEAN, max \in Limits, pol \in Policies, run \in Runners :
              Patch(on, max, pol, run)
  BY <1>9, PatchIInv
<1>10. CASE Reset
  BY <1>10, ResetIInv
<1>11. CASE AcquireExclusive \/ ReleaseExclusive \/ Remove
  BY <1>11, RoutesIInv
<1>12. CASE \E left \in SUBSET Survivors : Restart(left)
  BY <1>12, RestartIInv
<1>14. CASE \E p \in orphans : OrphanEnds(p)
  BY <1>14, OrphanEndsIInv
<1>13. CASE UNCHANGED vars
  BY <1>13 DEF IInv, TypeOK, LaunchedOnce, LaunchedIsClaimable, ConcurrencyRespected,
               Begun, ByTab, AgentsRun, GoneIsIdle, ThreadAlone, ExclusiveAlone, LimitSeen,
               CountCovered, Counted, Started, Active, IsActive, vars, settings, budget,
               record, memory, tabs
<1> QED BY <1>1, <1>2, <1>3, <1>4, <1>5, <1>6, <1>7, <1>8, <1>9, <1>10, <1>11, <1>12,
           <1>13, <1>14 DEF Next

LEMMA Invariance == Spec => []IInv
BY InitIInv, NextIInv, PTL DEF Spec

(* Every variable keeps its type, for any number of requests and settings. *)
THEOREM TypeCorrect == Spec => []TypeOK
BY Invariance, PTL DEF IInv

(* A run is handed to launch once if the history says that it started, and *)
(* never if it does not; and what waits for its tab can still be ended -   *)
(* through failed writes, restarts and every order of opener and tab.      *)
THEOREM LaunchIsKept == Spec => []LaunchKept
BY Invariance, PTL DEF IInv, LaunchKept

(* A daemon never has two agents on one session file, nor an agent and the *)
(* maintenance route: what the thread runs were allowed when they were     *)
(* launched holds after every edit of runner and policy.                   *)
THEOREM SessionFileHasOneUser == Spec => []SessionFileExclusive
<1>1. IInv => SessionFileExclusive
  <2> SUFFICES ASSUME IInv PROVE SessionFileExclusive
    OBVIOUS
  <2> DEFINE agents == {r \in executing : kind[r] = "thread"}
  <2>1. agents \subseteq Started
    BY DEF IInv, AgentsRun, TypeOK, Started
  <2>2. agents # {} => exists /\ ~exclusive
    BY <2>1 DEF IInv, GoneIsIdle, ExclusiveAlone, Started, Active, IsActive
  <2>3. agents = {} \/ \E r : agents = {r}
    BY <2>1 DEF IInv, ThreadAlone
  <2>4. Cardinality(agents) <= 1
    <3>1. CASE agents = {}
      BY <3>1, FS_EmptySet
    <3>2. CASE \E r : agents = {r}
      <4>1. PICK r : agents = {r}
        BY <3>2
      <4>2. Cardinality({r}) = 1
        BY FS_Singleton
      <4> QED BY <4>1, <4>2
    <3> QED BY <2>3, <3>1, <3>2
  <2> QED BY <2>2, <2>4 DEF SessionFileExclusive
<1> QED BY <1>1, Invariance, PTL

(* The capacity holds for the runs of every policy together, also those    *)
(* queued before an edit or a restart.                                     *)
THEOREM CapacityIsRespected == Spec => []ConcurrencyRespected
BY Invariance, PTL DEF IInv

(* A step that changes the status of a run that is over tells another end  *)
(* of it: a command that is reported after its launch was given up.        *)
LEMMA OverStep ==
  ASSUME IInv, [Next]_vars, NEW r \in Run, status[r] \in Over
  PROVE  status'[r] \in Over
<1>1. status \in [Run -> Status] /\ status[r] \notin {"none", "queued", "launched", "running"}
  BY DEF IInv, TypeOK, Over
<1>2. CASE \E q \in Run : \E auto, missed \in BOOLEAN : Request(q, auto, missed)
  BY <1>1, <1>2 DEF Request
<1>3. CASE \E q \in Run : Cancel(q) \/ Discard(q) \/ PassOver(q)
  BY <1>1, <1>3 DEF Cancel, Discard, PassOver, With, Over
<1>4. CASE \E q \in Run : Launch(q)
  BY <1>1, <1>4 DEF Launch, Turn, With, IInv, TypeOK
<1>5. CASE \E q \in Run : Claim(q)
  <2>1. PICK q \in Run : Claim(q)
    BY <1>5
  <2>2. status[q] = "launched"
    BY <2>1 DEF Claim, IInv, LaunchedIsClaimable
  <2> QED BY <1>1, <2>1, <2>2 DEF Claim, EndAndDrain, With
<1>6. CASE \E q \in Run : OpenFails(q) \/ CommandEnds(q) \/ AgentEnds(q)
  BY <1>1, <1>6 DEF OpenFails, CommandEnds, AgentEnds, EndAndDrain, With, Over
<1>7. CASE \E q \in Run : Expire(q)
  BY <1>1, <1>7 DEF Expire, With, Over
<1>8. CASE \E left \in SUBSET Survivors : Restart(left)
  BY <1>1, <1>8 DEF Restart, Recovered
<1>9. CASE UNCHANGED status
  BY <1>9
<1>10. WriteFails \/ Reset \/ AcquireExclusive \/ ReleaseExclusive \/ Remove
         \/ (\E q \in Run : OpenSettles(q) \/ ShellDies(q))
         \/ (\E late \in SUBSET pending : Tick(late))
         \/ (\E on \in BOOLEAN, max \in Limits, pol \in Policies, run \in Runners :
                 Patch(on, max, pol, run))
         \/ (\E p \in orphans : OrphanEnds(p))
         \/ UNCHANGED vars => UNCHANGED status
  BY DEF WriteFails, Reset, AcquireExclusive, ReleaseExclusive, Remove, OpenSettles,
         ShellDies, Tick, Patch, OrphanEnds, vars
<1> QED
  BY <1>2, <1>3, <1>4, <1>5, <1>6, <1>7, <1>8, <1>9, <1>10 DEF Next, DrainStep

(* No late tab, answer, sweep or recovery brings back a run that is over.  *)
THEOREM OverIsOver == Spec => StaysOver
<1>1. IInv /\ [Next]_vars =>
        [\A r \in Run : status[r] \in Over => status'[r] \in Over]_vars
  BY OverStep
<1> QED BY <1>1, Invariance, PTL DEF Spec, StaysOver

(* Only a launch counts, and only one that is automatic and wanted.        *)
LEMMA CountStep ==
  ASSUME IInv, [Next]_vars, count' > count
  PROVE  limit = 0 \/ count' <= limit
<1>1. count \in Nat /\ limit \in Nat
  BY LimitsAssumption DEF IInv, TypeOK
<1>2. CASE \E r \in Run : Launch(r)
  <2>1. PICK r \in Run : Launch(r)
    BY <1>2
  <2>2. automatic[r] /\ count' = count + 1
    BY <1>1, <2>1 DEF Launch
  <2>3. ~finished
    BY <2>1, <2>2 DEF Launch, Unwanted
  <2> QED BY <1>1, <2>2, <2>3 DEF IInv, LimitSeen, Reached
<1>3. CASE Reset
  BY <1>1, <1>3 DEF Reset
<1>4. CASE UNCHANGED count
  BY <1>1, <1>4
<1>5. (\E r \in Run : \E auto, missed \in BOOLEAN : Request(r, auto, missed))
      \/ (\E r \in Run : Cancel(r) \/ Discard(r) \/ PassOver(r) \/ Claim(r)
                          \/ OpenSettles(r) \/ OpenFails(r) \/ CommandEnds(r)
                          \/ ShellDies(r) \/ AgentEnds(r) \/ Expire(r))
      \/ (\E late \in SUBSET pending : Tick(late))
      \/ (\E on \in BOOLEAN, max \in Limits, pol \in Policies, run \in Runners :
             Patch(on, max, pol, run))
      \/ WriteFails \/ AcquireExclusive \/ ReleaseExclusive \/ Remove
      \/ (\E left \in SUBSET Survivors : Restart(left)) \/ (\E p \in orphans : OrphanEnds(p))
      \/ UNCHANGED vars => UNCHANGED count
  BY DEF Request, Cancel, Discard, PassOver, Claim, OpenSettles, OpenFails, CommandEnds,
         ShellDies, AgentEnds, Expire, Tick, Patch, WriteFails, AcquireExclusive,
         ReleaseExclusive, Remove, Restart, OrphanEnds, vars, budget
<1> QED
  BY <1>2, <1>3, <1>4, <1>5 DEF Next, DrainStep

(* No launch is counted beyond the limit as it is when it is made.         *)
THEOREM LimitIsKept == Spec => LimitKept
<1>1. IInv /\ [Next]_vars => [count' > count => limit = 0 \/ count' <= limit]_vars
  BY CountStep
<1> QED BY <1>1, Invariance, PTL DEF Spec, LimitKept

=============================================================================
