------------------------- MODULE RunEffectsRefinement -------------------------
(***************************************************************************)
(* RunEffects implements OnceOnlyWork, for every set of runs, tasks and     *)
(* intents and every bound on crashes and attempts: each step of the        *)
(* detailed specification is a step of the abstract one or a stutter.       *)
(***************************************************************************)
EXTENDS RunEffectsProofs

\* The abstract variables as state functions of RunEffects.
PhaseBar == [r \in Runs |-> PhaseOf(effect[r])]
DoneBar == {b \in Builds : workspace[b] = "applied"}
Bars == <<PhaseBar, dispatched, DoneBar>>

\* A step that leaves effects, dispatch counts and workspaces alone stutters.
LEMMA StutterBars ==
    ASSUME UNCHANGED <<effect, dispatched, workspace>>
    PROVE  UNCHANGED Bars
BY DEF Bars, PhaseBar, DoneBar

\* So does a step that only prepares an effect,
LEMMA PrepareBars ==
    ASSUME TypeOK, NEW r \in Runs, effect[r] \in {"absent", "prepared"},
           effect' = [effect EXCEPT ![r] = "prepared"],
           UNCHANGED <<dispatched, workspace>>
    PROVE  UNCHANGED Bars
<1>1. ASSUME NEW x \in Runs PROVE PhaseOf(effect[x])' = PhaseOf(effect[x])
  BY DEF TypeOK, EffectStates, PhaseOf
<1>2. PhaseBar' = PhaseBar
  BY <1>1 DEF PhaseBar
<1> QED BY <1>2 DEF Bars, DoneBar

\* or that changes files of a workspace without completing the change set.
LEMMA WorkspaceBars ==
    ASSUME TypeOK, NEW b \in Builds, workspace[b] # "applied",
           NEW w \in {"untouched", "partial"},
           workspace' = [workspace EXCEPT ![b] = w],
           UNCHANGED <<effect, dispatched>>
    PROVE  UNCHANGED Bars
<1>1. DoneBar' = DoneBar
  BY DEF TypeOK, DoneBar
<1> QED BY <1>1 DEF Bars, PhaseBar

\* Marking a prepared effect as executing starts the work.
LEMMA StartBars ==
    ASSUME TypeOK, NEW r \in Runs, effect[r] = "prepared",
           effect' = [effect EXCEPT ![r] = "executing"],
           dispatched' = [dispatched EXCEPT ![r] = @ + 1],
           UNCHANGED workspace
    PROVE  Promise!Next
<1>1. PhaseBar[r] = "waiting"
  BY DEF PhaseBar, PhaseOf
<1>2. ASSUME NEW x \in Runs
      PROVE  PhaseOf(effect[x])' = IF x = r THEN "open" ELSE PhaseOf(effect[x])
  BY DEF TypeOK, EffectStates, PhaseOf
<1>3. PhaseBar' = [PhaseBar EXCEPT ![r] = "open"]
  BY <1>2 DEF PhaseBar
<1>4. DoneBar' = DoneBar
  BY DEF DoneBar
<1>5. Promise!StartWork(r)
  BY <1>1, <1>3, <1>4 DEF Promise!StartWork, PhaseBar, DoneBar
<1> QED BY <1>5 DEF Promise!Next

\* A build whose last file is written is carried out.
LEMMA CarryOutBars ==
    ASSUME TypeOK, NEW b \in Builds, effect[b] = "executing",
           workspace' = [workspace EXCEPT ![b] = "applied"],
           UNCHANGED <<effect, dispatched>>
    PROVE  Promise!Next
<1>0. b \in Runs
  BY DEF Runs
<1>1. PhaseBar[b] = "open" /\ PhaseBar' = PhaseBar
  BY <1>0 DEF PhaseBar, PhaseOf
<1>2. DoneBar' = DoneBar \cup {b}
  BY DEF TypeOK, DoneBar
<1>3. Promise!CarryOut(b)
  BY <1>1, <1>2 DEF Promise!CarryOut, PhaseBar, DoneBar
<1> QED BY <1>0, <1>3 DEF Promise!Next

\* Closing an executing effect records the outcome, which for a build agrees
\* with its workspace.
LEMMA RecordBars ==
    ASSUME TypeOK, NEW r \in Runs, effect[r] = "executing",
           NEW e \in Completed,
           effect' = [effect EXCEPT ![r] = e],
           r \in Builds => (e = "completed_success" <=> workspace[r] = "applied"),
           UNCHANGED <<dispatched, workspace>>
    PROVE  Promise!Next
<1> DEFINE o == PhaseOf(e)
<1>1. o \in Promise!Outcomes /\ (o = "success" <=> e = "completed_success")
  BY DEF Completed, PhaseOf, Promise!Outcomes
<1>2. PhaseBar[r] = "open"
  BY DEF PhaseBar, PhaseOf
<1>3. ASSUME NEW x \in Runs
      PROVE  PhaseOf(effect[x])' = IF x = r THEN o ELSE PhaseOf(effect[x])
  BY DEF TypeOK, EffectStates, Completed, PhaseOf
<1> HIDE DEF o
<1>4. PhaseBar' = [PhaseBar EXCEPT ![r] = o]
  BY <1>3 DEF PhaseBar
<1>5. DoneBar' = DoneBar /\ (r \in Builds => (o = "success" <=> r \in DoneBar))
  BY <1>1 DEF DoneBar
<1>6. Promise!Record(r, o)
  BY <1>2, <1>4, <1>5 DEF Promise!Record, PhaseBar, DoneBar
<1> QED BY <1>1, <1>6 DEF Promise!Next

--------------------------------------------------------------------------------

\* Every step of ApplyApprovedBuild maps to an abstract step or a stutter.
LEMMA BuildImplements ==
    ASSUME IInv, NEW r \in Builds, BuildStep(r)
    PROVE  Promise!Next \/ UNCHANGED Bars
<1>0. TypeOK /\ RunOK(r) /\ BuildOK(r) /\ r \in Runs
  BY DEF IInv, Runs
<1>1. ASSUME NEW i \in Intents, NEW t \in Tasks, PrepareBuild(r, i, t)
      PROVE  UNCHANGED Bars
  <2>1. CASE effect[r] = "absent"
    <3>1. /\ effect' = [effect EXCEPT ![r] = "prepared"]
          /\ UNCHANGED <<dispatched, workspace>>
      BY <1>1, <2>1 DEF PrepareBuild, Dispatchable
    <3> QED BY <1>0, <2>1, <3>1, PrepareBars
  <2>2. CASE effect[r] # "absent"
    BY <1>1, <2>2, StutterBars DEF PrepareBuild
  <2> QED BY <2>1, <2>2
<1>2. CASE MarkBuildExecuting(r)
  <2>1. effect[r] = "prepared"
    BY <1>0, <1>2 DEF MarkBuildExecuting, Step, BuildOK
  <2>2. /\ effect' = [effect EXCEPT ![r] = "executing"]
        /\ dispatched' = [dispatched EXCEPT ![r] = @ + 1]
        /\ UNCHANGED workspace
    BY <1>2, <2>1 DEF MarkBuildExecuting
  <2> QED BY <1>0, <2>1, <2>2, StartBars
<1>3. CASE TouchWorkspace(r)
  <2>1. /\ workspace[r] # "applied"
        /\ workspace' = [workspace EXCEPT ![r] = "partial"]
        /\ UNCHANGED <<effect, dispatched>>
    BY <1>3 DEF TouchWorkspace
  <2> QED BY <1>0, <2>1, WorkspaceBars
<1>4. CASE ApplySucceeds(r)
  <2>1. effect[r] = "executing"
    BY <1>0, <1>4 DEF ApplySucceeds, Step, BuildOK
  <2> QED BY <1>0, <1>4, <2>1, CarryOutBars DEF ApplySucceeds
<1>5. CASE ApplyFails(r)
  <2>1. workspace[r] # "applied"
    BY <1>0, <1>5 DEF ApplyFails, Step, BuildOK
  <2>2. CASE workspace' = [workspace EXCEPT ![r] = "untouched"]
    BY <1>0, <1>5, <2>1, <2>2, WorkspaceBars DEF ApplyFails
  <2>3. CASE UNCHANGED workspace
    BY <1>5, <2>3, StutterBars DEF ApplyFails
  <2> QED BY <1>5, <2>2, <2>3 DEF ApplyFails
<1>6. CASE CompleteBuildEffect(r)
  <2> DEFINE e == IF pc[r] = "audited" THEN "completed_success" ELSE "completed_failure"
  <2>1. /\ effect[r] = "executing"
        /\ e = "completed_success" <=> workspace[r] = "applied"
    BY <1>0, <1>6 DEF CompleteBuildEffect, BuildOK
  <2>2. effect' = [effect EXCEPT ![r] = e] /\ UNCHANGED <<dispatched, workspace>>
    BY <1>0, <1>6, <2>1 DEF CompleteBuildEffect, TypeOK
  <2>3. e \in Completed
    BY DEF Completed
  <2> HIDE DEF e
  <2> QED BY <1>0, <2>1, <2>2, <2>3, RecordBars
<1>7. CASE UNCHANGED <<effect, dispatched, workspace>>
  BY <1>7, StutterBars
<1> QED
  BY <1>1, <1>2, <1>3, <1>4, <1>5, <1>6, <1>7
     DEF BuildStep, AcquireBuildLease, SaveSnapshot, AuditApplied,
         CloseBuildStatus, ReleaseBuildLease, AbortBuild, RefuseBuild, vars,
         durable, history

\* So does every step of an agent task.
LEMMA AgentImplements ==
    ASSUME IInv, NEW r \in Agents, AgentStep(r)
    PROVE  Promise!Next \/ UNCHANGED Bars
<1>0. TypeOK /\ AgentOK(r) /\ r \in Runs /\ r \notin Builds
  BY RunEffectsAssumption DEF IInv, Runs
<1>1. CASE PrepareAgent(r)
  <2>1. effect[r] = "absent"
    BY <1>0, <1>1 DEF PrepareAgent, Step, AgentOK
  <2> QED BY <1>0, <1>1, <2>1, PrepareBars DEF PrepareAgent, AgentFrame
<1>2. CASE MarkAgentExecuting(r)
  <2>1. effect[r] = "prepared"
    BY <1>0, <1>2 DEF MarkAgentExecuting, Step, AgentOK
  <2>2. /\ effect' = [effect EXCEPT ![r] = "executing"]
        /\ dispatched' = [dispatched EXCEPT ![r] = @ + 1]
        /\ UNCHANGED workspace
    BY <1>2, <2>1 DEF MarkAgentExecuting, AgentFrame
  <2> QED BY <1>0, <2>1, <2>2, StartBars
<1>3. CASE CompleteAgentEffect(r)
  <2> DEFINE e == IF result[r] = "ok" THEN "completed_success" ELSE "completed_failure"
  <2>1. effect[r] = "executing"
    BY <1>0, <1>3 DEF CompleteAgentEffect, Step, AgentOK
  <2>2. effect' = [effect EXCEPT ![r] = e] /\ UNCHANGED <<dispatched, workspace>>
    BY <1>0, <1>3, <2>1 DEF CompleteAgentEffect, AgentFrame, TypeOK
  <2>3. e \in Completed
    BY DEF Completed
  <2> HIDE DEF e
  <2> QED BY <1>0, <2>1, <2>2, <2>3, RecordBars
<1>4. CASE UNCHANGED <<effect, dispatched, workspace>>
  BY <1>4, StutterBars
<1> QED
  BY <1>1, <1>2, <1>3, <1>4
     DEF AgentStep, StartTask, PassGate, RefuseAgent, AcquireAgentLease,
         ReportCompleted, ContinueAgent, ReturnAgent, CaptureFinal,
         ReleaseAgentLease, SkipComplete, RemoveActive, NotifyEnd, AgentFrame

\* The sweep of a start loses track of the open work, and a verified
\* reconciliation confirms what is unknown; the other steps stutter.
LEMMA RecoveryImplements ==
    ASSUME IInv, RecoveryStep
    PROVE  Promise!Next \/ UNCHANGED Bars
<1>0. TypeOK /\ LoopOK /\ SnapshotIsApplied /\ \A r \in Runs : RunOK(r)
  BY DEF IInv
<1>1. CASE Sweep
  <2>1. ASSUME NEW x \in Runs
        PROVE  PhaseOf(effect[x])' = IF PhaseOf(effect[x]) = "open" THEN "unknown"
                                     ELSE PhaseOf(effect[x])
    BY <1>0, <1>1 DEF Sweep, Open, TypeOK, EffectStates, PhaseOf
  <2>2. PhaseBar' = [r \in Runs |-> IF PhaseBar[r] = "open" THEN "unknown" ELSE PhaseBar[r]]
    BY <2>1 DEF PhaseBar
  <2>3. UNCHANGED <<dispatched, DoneBar>>
    BY <1>1 DEF Sweep, history, DoneBar
  <2>4. Promise!LoseTrack
    BY <2>2, <2>3 DEF Promise!LoseTrack, PhaseBar, DoneBar
  <2> QED BY <2>4 DEF Promise!Next
<1>2. CASE Reconcile
  <2>1. /\ cur.run \in Runs /\ reconciled[cur.run] = "none"
        /\ effect[cur.run] = "unknown"
    BY <1>0, <1>2 DEF Reconcile, TypeOK, LoopOK, RunOK
  <2>2. UNCHANGED <<dispatched, workspace>>
    BY <1>2 DEF Reconcile, RecoverFrame, history
  <2>3. CASE ~Verified(cur.run)
    <3>1. effect' = effect
      BY <1>0, <1>2, <2>3 DEF Reconcile, TypeOK
    <3> QED BY <2>2, <3>1, StutterBars
  <2>4. CASE Verified(cur.run)
    <3>1. cur.run \in Builds => workspace[cur.run] = "applied"
      BY <1>0, <2>4, RunEffectsAssumption DEF Verified, SnapshotIsApplied
    <3>2. effect' = [effect EXCEPT ![cur.run] = "completed_success"]
      BY <1>0, <1>2, <2>1, <2>4 DEF Reconcile, TypeOK
    <3>3. PhaseBar[cur.run] = "unknown"
      BY <2>1 DEF PhaseBar, PhaseOf
    <3>4. ASSUME NEW x \in Runs
          PROVE  PhaseOf(effect[x])' = IF x = cur.run THEN "success" ELSE PhaseOf(effect[x])
      BY <1>0, <2>1, <3>2 DEF TypeOK, EffectStates, PhaseOf
    <3>5. PhaseBar' = [PhaseBar EXCEPT ![cur.run] = "success"]
      BY <2>1, <3>4 DEF PhaseBar
    <3>6. DoneBar' = DoneBar /\ (cur.run \in Builds => cur.run \in DoneBar)
      BY <2>2, <3>1 DEF DoneBar
    <3>7. Promise!Confirm(cur.run)
      BY <2>2, <3>3, <3>5, <3>6 DEF Promise!Confirm, PhaseBar, DoneBar
    <3> QED BY <2>1, <3>7 DEF Promise!Next
  <2> QED BY <2>3, <2>4
<1>3. CASE UNCHANGED <<effect, dispatched, workspace>>
  BY <1>3, StutterBars
<1> QED
  BY <1>1, <1>2, <1>3
     DEF RecoveryStep, BeginRecovering, BeginReconciling, UpdateRunStatus,
         AppendRecoveryEvents, DecideRecovery, GoUp, durable, history,
         RecoverFrame

\* The durable run effects implement OnceOnlyWork: the write-ahead record, the
\* lease, the heartbeat and the startup pass keep its promise through every
\* crash, retry and abort.
THEOREM Implements == Spec => KeepsPromise
<1>1. Init => Promise!Init
  <2> SUFFICES ASSUME Init PROVE Promise!Init
    OBVIOUS
  <2>1. [r \in Runs |-> PhaseOf(effect[r])] = [r \in Runs |-> "waiting"]
    BY DEF Init, PhaseOf
  <2>2. {b \in Builds : workspace[b] = "applied"} = {}
    BY DEF Init
  <2> QED BY <2>1, <2>2 DEF Init, Promise!Init
<1>2. IInv /\ [Next]_vars => [Promise!Next]_Bars
  <2> SUFFICES ASSUME IInv, [Next]_vars PROVE Promise!Next \/ UNCHANGED Bars
    OBVIOUS
  <2>1. CASE \E r \in Runs : Heartbeat(r) \/ LeaseExpires(r)
    BY <2>1, StutterBars DEF Heartbeat, LeaseExpires, durable, history
  <2>2. CASE JournalEvent \/ Crash \/ Start \/ UNCHANGED vars
    BY <2>2, StutterBars DEF JournalEvent, Crash, Start, vars, durable, history
  <2> QED
    BY <2>1, <2>2, BuildImplements, AgentImplements, RecoveryImplements DEF Next
<1>3. [Promise!Next]_Bars => [Promise!Next]_<<PhaseBar, dispatched, DoneBar>>
  BY DEF Bars
<1> QED BY <1>1, <1>2, <1>3, Invariance, PTL
        DEF Spec, KeepsPromise, Promise!Spec, PhaseBar, DoneBar

===============================================================================
