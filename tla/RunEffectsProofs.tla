-------------------------- MODULE RunEffectsProofs --------------------------
(***************************************************************************)
(* Theorems about RunEffects, for every set of runs, tasks and intents and  *)
(* every bound on crashes and attempts.                                     *)
(***************************************************************************)
EXTENDS RunEffects, TLAPS

USE DEF Runs

\* A step of a build command keeps every variable in its type.
LEMMA TypeBuild ==
    ASSUME TypeOK, NEW r \in Builds, BuildStep(r)
    PROVE  TypeOK'
<1> USE DEF TypeOK, EffectStates, RecoveryStates, TerminalEvents,
            CheckpointStates, BuildPCs, AgentPCs, BuildFrame, Step, Goto,
            taskDb, recoveryDb, buildDb, startup
<1>1. ASSUME NEW i \in Intents, NEW t \in Tasks, PrepareBuild(r, i, t)
      PROVE  TypeOK'
  <2>1. CASE effect[r] = "absent"
    <3>1. /\ effect' = [effect EXCEPT ![r] = "prepared"]
          /\ intent' = [intent EXCEPT ![r] = i]
          /\ task' = [task EXCEPT ![r] = t]
          /\ status' = [status EXCEPT ![r] = "running"]
      BY <1>1, <2>1 DEF PrepareBuild, Dispatchable
    <3> QED BY <1>1, <3>1 DEF PrepareBuild, Dispatchable
  <2>2. CASE effect[r] # "absent"
    BY <1>1, <2>2 DEF PrepareBuild, Dispatchable
  <2> QED BY <2>1, <2>2
<1>2. CASE AcquireBuildLease(r)
  BY <1>2 DEF AcquireBuildLease
<1>3. CASE MarkBuildExecuting(r)
  BY <1>3 DEF MarkBuildExecuting
<1>4. CASE TouchWorkspace(r)
  BY <1>4 DEF TouchWorkspace
<1>5. CASE ApplySucceeds(r)
  BY <1>5 DEF ApplySucceeds
<1>6. CASE ApplyFails(r)
  <2>1. CASE UNCHANGED workspace
    BY <1>6, <2>1 DEF ApplyFails
  <2>2. CASE workspace' = [workspace EXCEPT ![r] = "untouched"]
    BY <1>6, <2>2 DEF ApplyFails
  <2> QED BY <1>6, <2>1, <2>2 DEF ApplyFails
<1>7. CASE SaveSnapshot(r)
  BY <1>7 DEF SaveSnapshot
<1>8. CASE AuditApplied(r)
  BY <1>8 DEF AuditApplied
<1>9. CASE CompleteBuildEffect(r)
  BY <1>9 DEF CompleteBuildEffect
<1>10. CASE CloseBuildStatus(r)
  BY <1>10 DEF CloseBuildStatus
<1>11. CASE ReleaseBuildLease(r)
  BY <1>11 DEF ReleaseBuildLease
<1>12. CASE AbortBuild(r)
  BY <1>12 DEF AbortBuild
<1>13. CASE RefuseBuild(r)
  BY <1>13 DEF RefuseBuild, vars, durable, volatile, history
<1> QED
  BY <1>1, <1>2, <1>3, <1>4, <1>5, <1>6, <1>7, <1>8, <1>9, <1>10, <1>11,
     <1>12, <1>13 DEF BuildStep

\* So does a step of an agent task,
LEMMA TypeAgent ==
    ASSUME TypeOK, NEW r \in Agents, AgentStep(r)
    PROVE  TypeOK'
<1> USE DEF TypeOK, EffectStates, RecoveryStates, TerminalEvents,
            CheckpointStates, BuildPCs, AgentPCs, AgentFrame, Step, Goto,
            taskDb, recoveryDb, buildDb, startup
<1>1. ASSUME NEW t \in Tasks, StartTask(r, t)
      PROVE  TypeOK'
  BY <1>1 DEF StartTask
<1>2. CASE PassGate(r)
  BY <1>2 DEF PassGate, Capture
<1>3. CASE RefuseAgent(r)
  BY <1>3 DEF RefuseAgent
<1>4. CASE PrepareAgent(r)
  BY <1>4 DEF PrepareAgent
<1>5. CASE AcquireAgentLease(r)
  BY <1>5 DEF AcquireAgentLease
<1>6. CASE MarkAgentExecuting(r)
  BY <1>6 DEF MarkAgentExecuting
<1>7. CASE ReportCompleted(r)
  BY <1>7 DEF ReportCompleted, Emit
<1>8. CASE ContinueAgent(r)
  BY <1>8 DEF ContinueAgent
<1>9. ASSUME NEW res \in {"ok", "err", "cancelled"}, ReturnAgent(r, res)
      PROVE  TypeOK'
  BY <1>9 DEF ReturnAgent
<1>10. CASE CaptureFinal(r)
  <2>1. CASE Capture(task[r], FinalCheckpoint(r)) /\ UNCHANGED result
    BY <1>10, <2>1 DEF CaptureFinal, Capture, FinalCheckpoint
  <2>2. CASE /\ result' = [result EXCEPT ![r] = IF @ = "ok" THEN "err" ELSE @]
             /\ UNCHANGED taskDb
    BY <1>10, <2>2 DEF CaptureFinal
  <2> QED BY <1>10, <2>1, <2>2 DEF CaptureFinal
<1>11. CASE CompleteAgentEffect(r)
  BY <1>11 DEF CompleteAgentEffect
<1>12. CASE ReleaseAgentLease(r)
  BY <1>12 DEF ReleaseAgentLease
<1>13. CASE SkipComplete(r)
  BY <1>13 DEF SkipComplete
<1>14. CASE RemoveActive(r)
  BY <1>14 DEF RemoveActive
<1>15. CASE NotifyEnd(r)
  <2>1. CASE UNCHANGED queue
    BY <1>15, <2>1 DEF NotifyEnd
  <2>2. CASE Emit(r, IF result[r] = "cancelled" THEN "stopped" ELSE "failed")
    <3>1. queue' \in Seq([task : Tasks \cup {Nothing}, event : TerminalEvents])
      BY <2>2 DEF Emit
    <3> QED BY <1>15, <3>1 DEF NotifyEnd
  <2> QED BY <1>15, <2>1, <2>2 DEF NotifyEnd
<1> QED
  BY <1>1, <1>2, <1>3, <1>4, <1>5, <1>6, <1>7, <1>8,
     <1>9, <1>10, <1>11, <1>12, <1>13, <1>14, <1>15 DEF AgentStep

\* a heartbeat, an expiring lease, the journal writer, a crash or a start,
LEMMA TypeEnvironment ==
    ASSUME TypeOK,
           \/ \E r \in Runs : Heartbeat(r) \/ LeaseExpires(r)
           \/ JournalEvent \/ Crash \/ Start
    PROVE  TypeOK'
<1> USE DEF TypeOK, EffectStates, RecoveryStates, TerminalEvents,
            CheckpointStates, BuildPCs, AgentPCs, taskDb, recoveryDb, buildDb,
            startup, durable, volatile, history
<1>1. ASSUME NEW r \in Runs, Heartbeat(r) PROVE TypeOK'
  BY <1>1 DEF Heartbeat
<1>2. ASSUME NEW r \in Runs, LeaseExpires(r) PROVE TypeOK'
  BY <1>2 DEF LeaseExpires
<1>3. CASE JournalEvent
  <2> DEFINE E == [task : Tasks \cup {Nothing}, event : TerminalEvents]
  <2>1. queue \in Seq(E) /\ queue # <<>>
    BY <1>3 DEF JournalEvent
  <2>2. Head(queue) \in E /\ Tail(queue) \in Seq(E)
    <3> HIDE DEF E, TypeOK
    <3> QED BY <2>1
  <2> QED BY <1>3, <2>2 DEF JournalEvent
<1>4. CASE Crash
  BY <1>4 DEF Crash, NoRecord
<1>5. CASE Start
  BY <1>5 DEF Start
<1> QED BY <1>1, <1>2, <1>3, <1>4, <1>5

\* and a step of the startup pass.
LEMMA TypeRecovery ==
    ASSUME TypeOK, RecoveryStep
    PROVE  TypeOK'
<1> USE DEF TypeOK, EffectStates, RecoveryStates, RecoveryDecided,
            TerminalEvents, CheckpointStates, BuildPCs, AgentPCs, taskDb,
            recoveryDb, buildDb, startup, durable, volatile, history,
            RecoverFrame, Advance, ValidTransition
<1>1. CASE Sweep
  BY <1>1 DEF Sweep, Open, SweptLease, SweptStatus
<1>2. ASSUME NEW r \in Runs, BeginRecovering(r) PROVE TypeOK'
  BY <1>2 DEF BeginRecovering
<1>3. CASE BeginReconciling
  BY <1>3 DEF BeginReconciling
<1>4. CASE Reconcile
  <2>1. Verified(cur.run) \in BOOLEAN
    BY DEF Verified
  <2> HIDE DEF Verified
  <2> QED BY <1>4, <2>1 DEF Reconcile
<1>5. CASE UpdateRunStatus
  BY <1>5 DEF UpdateRunStatus, StatusAfterVerdict
<1>6. CASE AppendRecoveryEvents
  BY <1>6 DEF AppendRecoveryEvents
<1>7. CASE DecideRecovery
  BY <1>7 DEF DecideRecovery, NoRecord
<1>8. CASE GoUp
  BY <1>8 DEF GoUp
<1> QED
  BY <1>1, <1>2, <1>3, <1>4, <1>5, <1>6, <1>7, <1>8 DEF RecoveryStep

\* Every reachable state of RunEffects is well typed, whatever the runs, the
\* tasks and the bounds are.
THEOREM TypeCorrect == Spec => []TypeOK
<1>1. Init => TypeOK
  BY DEF Init, TypeOK, EffectStates, RecoveryStates, TerminalEvents,
         CheckpointStates, BuildPCs, AgentPCs, NoRecord
<1>2. TypeOK /\ [Next]_vars => TypeOK'
  <2> SUFFICES ASSUME TypeOK, [Next]_vars PROVE TypeOK'
    OBVIOUS
  <2>1. CASE UNCHANGED vars
    BY <2>1 DEF TypeOK, vars, durable, volatile, history
  <2> QED
    BY <2>1, TypeBuild, TypeAgent, TypeEnvironment, TypeRecovery DEF Next
<1> QED BY <1>1, <1>2, PTL DEF Spec

-----------------------------------------------------------------------------
(***************************************************************************)
(* The inductive invariant.  A step of one run leaves the rows of the other *)
(* runs alone, so only the run that moves has to be looked at.              *)
(***************************************************************************)
Row(x) == <<effect[x], lease[x], reconciled[x], recovery[x], pc[x],
            hbFailed[x], dispatched[x]>>
BuildRow(x) == <<status[x], workspace[x]>>

\* Every row of snapshots names the build that saved it.
LEMMA SnapshotRun ==
    ASSUME TypeOK
    PROVE  \A n \in DOMAIN snapshots : snapshots[n].run \in Builds
<1> DEFINE S == [id : Intents \cup {Nothing}, run : Builds]
<1>1. snapshots \in Seq(S)
  BY DEF TypeOK
<1>2. ASSUME NEW n \in DOMAIN snapshots PROVE snapshots[n] \in S
  <2> HIDE DEF S
  <2> QED BY <1>1
<1> QED BY <1>2

\* The parts of the invariant survive a step that leaves their rows alone.
LEMMA FrameRun ==
    ASSUME NEW x \in Runs, RunOK(x), UNCHANGED <<Row(x), boot>>
    PROVE  RunOK(x)'
BY DEF RunOK, Row

\* BuildOK reads the rows of one build, and audited only ever grows.
LEMMA FrameBuild ==
    ASSUME NEW x \in Builds, BuildOK(x), UNCHANGED <<Row(x), BuildRow(x)>>,
           x \in audited => x \in audited'
    PROVE  BuildOK(x)'
BY DEF BuildOK, Row, BuildRow

\* AgentOK reads the position and the effect of one agent run.
LEMMA FrameAgent ==
    ASSUME NEW x \in Agents, AgentOK(x), UNCHANGED Row(x)
    PROVE  AgentOK(x)'
BY DEF AgentOK, Row

\* A step of the build command r, seen from the invariant.
LEMMA BuildMoves ==
    ASSUME IInv, TypeOK', NEW r \in Builds, boot = "up",
           UNCHANGED startup,
           \A x \in Runs \ {r} : UNCHANGED Row(x),
           \A x \in Builds \ {r} : UNCHANGED BuildRow(x),
           audited \subseteq audited',
           RunOK(r)', BuildOK(r)', SnapshotIsApplied'
    PROVE  IInv'
<1>1. ASSUME NEW x \in Runs PROVE RunOK(x)'
  BY FrameRun DEF IInv, startup
<1>2. ASSUME NEW x \in Builds PROVE BuildOK(x)'
  BY FrameBuild DEF IInv
<1>3. ASSUME NEW x \in Agents PROVE AgentOK(x)'
  <2>1. x # r
    BY RunEffectsAssumption
  <2> QED BY <2>1, FrameAgent DEF IInv
<1>4. LoopOK'
  BY DEF IInv, LoopOK, startup
<1> QED BY <1>1, <1>2, <1>3, <1>4 DEF IInv

\* A step of the agent task r, seen from the invariant.
LEMMA AgentMoves ==
    ASSUME IInv, TypeOK', NEW r \in Agents, boot = "up",
           UNCHANGED <<startup, status, workspace, audited, snapshots>>,
           \A x \in Runs \ {r} : UNCHANGED Row(x),
           RunOK(r)', AgentOK(r)'
    PROVE  IInv'
<1>1. ASSUME NEW x \in Runs PROVE RunOK(x)'
  BY FrameRun DEF IInv, startup
<1>2. ASSUME NEW x \in Builds PROVE BuildOK(x)'
  <2>1. x # r
    BY RunEffectsAssumption
  <2> QED BY <2>1, FrameBuild DEF IInv, BuildRow
<1>3. ASSUME NEW x \in Agents PROVE AgentOK(x)'
  BY FrameAgent DEF IInv
<1>4. LoopOK'
  BY DEF IInv, LoopOK, startup
<1>5. SnapshotIsApplied'
  BY DEF IInv, SnapshotIsApplied
<1> QED BY <1>1, <1>2, <1>3, <1>4, <1>5 DEF IInv

\* Every step of ApplyApprovedBuild preserves the invariant.
LEMMA BuildPreserves ==
    ASSUME IInv, NEW r \in Builds, BuildStep(r)
    PROVE  IInv'
<1> USE DEF BuildFrame, Step, Goto, taskDb, recoveryDb, buildDb, startup
<1>0. /\ TypeOK /\ RunOK(r) /\ BuildOK(r) /\ SnapshotIsApplied
      /\ TypeOK'
  BY TypeBuild DEF IInv
<1>1. ASSUME NEW i \in Intents, NEW t \in Tasks, PrepareBuild(r, i, t)
      PROVE  IInv'
  <2>1. /\ boot = "up" /\ UNCHANGED startup /\ audited \subseteq audited'
        /\ \A x \in Runs \ {r} : UNCHANGED Row(x)
        /\ \A x \in Builds \ {r} : UNCHANGED BuildRow(x)
    BY <1>0, <1>1 DEF PrepareBuild, Dispatchable, TypeOK, Row, BuildRow
  <2>2. RunOK(r)'
    BY <1>0, <1>1 DEF PrepareBuild, Dispatchable, TypeOK, RunOK, BuildOK
  <2>3. BuildOK(r)'
    BY <1>0, <1>1 DEF PrepareBuild, Dispatchable, TypeOK, RunOK, BuildOK, BuildPCs
  <2>4. SnapshotIsApplied'
    BY <1>0, <1>1 DEF PrepareBuild, Dispatchable, TypeOK, SnapshotIsApplied, BuildOK
  <2> QED BY <1>0, <2>1, <2>2, <2>3, <2>4, BuildMoves
<1>2. CASE AcquireBuildLease(r)
  <2>1. /\ boot = "up" /\ UNCHANGED startup /\ audited \subseteq audited'
        /\ \A x \in Runs \ {r} : UNCHANGED Row(x)
        /\ \A x \in Builds \ {r} : UNCHANGED BuildRow(x)
    BY <1>0, <1>2 DEF AcquireBuildLease, TypeOK, Row, BuildRow
  <2>2. RunOK(r)'
    BY <1>0, <1>2 DEF AcquireBuildLease, TypeOK, RunOK, BuildOK
  <2>3. BuildOK(r)'
    BY <1>0, <1>2 DEF AcquireBuildLease, TypeOK, RunOK, BuildOK, BuildPCs
  <2>4. SnapshotIsApplied'
    BY <1>0, <1>2 DEF AcquireBuildLease, TypeOK, SnapshotIsApplied, BuildOK
  <2> QED BY <1>0, <2>1, <2>2, <2>3, <2>4, BuildMoves
<1>3. CASE MarkBuildExecuting(r)
  <2>1. /\ boot = "up" /\ UNCHANGED startup /\ audited \subseteq audited'
        /\ \A x \in Runs \ {r} : UNCHANGED Row(x)
        /\ \A x \in Builds \ {r} : UNCHANGED BuildRow(x)
    BY <1>0, <1>3 DEF MarkBuildExecuting, TypeOK, Row, BuildRow
  <2>2. RunOK(r)'
    BY <1>0, <1>3 DEF MarkBuildExecuting, TypeOK, RunOK, BuildOK
  <2>3. BuildOK(r)'
    BY <1>0, <1>3 DEF MarkBuildExecuting, TypeOK, RunOK, BuildOK, BuildPCs
  <2>4. SnapshotIsApplied'
    BY <1>0, <1>3 DEF MarkBuildExecuting, TypeOK, SnapshotIsApplied, BuildOK
  <2> QED BY <1>0, <2>1, <2>2, <2>3, <2>4, BuildMoves
<1>4. CASE TouchWorkspace(r)
  <2>1. /\ boot = "up" /\ UNCHANGED startup /\ audited \subseteq audited'
        /\ \A x \in Runs \ {r} : UNCHANGED Row(x)
        /\ \A x \in Builds \ {r} : UNCHANGED BuildRow(x)
    BY <1>0, <1>4 DEF TouchWorkspace, TypeOK, Row, BuildRow
  <2>2. RunOK(r)'
    BY <1>0, <1>4 DEF TouchWorkspace, TypeOK, RunOK, BuildOK
  <2>3. BuildOK(r)'
    BY <1>0, <1>4 DEF TouchWorkspace, TypeOK, RunOK, BuildOK, BuildPCs
  <2>4. SnapshotIsApplied'
    BY <1>0, <1>4 DEF TouchWorkspace, TypeOK, SnapshotIsApplied, BuildOK
  <2> QED BY <1>0, <2>1, <2>2, <2>3, <2>4, BuildMoves
<1>5. CASE ApplySucceeds(r)
  <2>1. /\ boot = "up" /\ UNCHANGED startup /\ audited \subseteq audited'
        /\ \A x \in Runs \ {r} : UNCHANGED Row(x)
        /\ \A x \in Builds \ {r} : UNCHANGED BuildRow(x)
    BY <1>0, <1>5 DEF ApplySucceeds, TypeOK, Row, BuildRow
  <2>2. RunOK(r)'
    BY <1>0, <1>5 DEF ApplySucceeds, TypeOK, RunOK, BuildOK
  <2>3. BuildOK(r)'
    BY <1>0, <1>5 DEF ApplySucceeds, TypeOK, RunOK, BuildOK, BuildPCs
  <2>4. SnapshotIsApplied'
    BY <1>0, <1>5 DEF ApplySucceeds, TypeOK, SnapshotIsApplied, BuildOK
  <2> QED BY <1>0, <2>1, <2>2, <2>3, <2>4, BuildMoves
<1>6. CASE ApplyFails(r)
  <2>1. /\ boot = "up" /\ UNCHANGED startup /\ audited \subseteq audited'
        /\ \A x \in Runs \ {r} : UNCHANGED Row(x)
        /\ \A x \in Builds \ {r} : UNCHANGED BuildRow(x)
    BY <1>0, <1>6 DEF ApplyFails, TypeOK, Row, BuildRow
  <2>2. RunOK(r)'
    BY <1>0, <1>6 DEF ApplyFails, TypeOK, RunOK, BuildOK
  <2>3. BuildOK(r)'
    BY <1>0, <1>6 DEF ApplyFails, TypeOK, RunOK, BuildOK, BuildPCs
  <2>4. SnapshotIsApplied'
    <3>1. workspace[r] # "applied" /\ UNCHANGED snapshots
      BY <1>0, <1>6 DEF ApplyFails, BuildOK
    <3>2. \A n \in DOMAIN snapshots : snapshots[n].run \in Builds \ {r}
      BY <1>0, <3>1, SnapshotRun DEF SnapshotIsApplied
    <3>3. \A x \in Builds \ {r} : workspace'[x] = workspace[x]
      BY <2>1 DEF BuildRow
    <3> QED BY <1>0, <3>1, <3>2, <3>3 DEF SnapshotIsApplied
  <2> QED BY <1>0, <2>1, <2>2, <2>3, <2>4, BuildMoves
<1>7. CASE SaveSnapshot(r)
  <2>1. /\ boot = "up" /\ UNCHANGED startup /\ audited \subseteq audited'
        /\ \A x \in Runs \ {r} : UNCHANGED Row(x)
        /\ \A x \in Builds \ {r} : UNCHANGED BuildRow(x)
    BY <1>0, <1>7 DEF SaveSnapshot, TypeOK, Row, BuildRow
  <2>2. RunOK(r)'
    BY <1>0, <1>7 DEF SaveSnapshot, TypeOK, RunOK, BuildOK
  <2>3. BuildOK(r)'
    BY <1>0, <1>7 DEF SaveSnapshot, TypeOK, RunOK, BuildOK, BuildPCs
  <2>4. SnapshotIsApplied'
    BY <1>0, <1>7 DEF SaveSnapshot, TypeOK, SnapshotIsApplied, BuildOK
  <2> QED BY <1>0, <2>1, <2>2, <2>3, <2>4, BuildMoves
<1>8. CASE AuditApplied(r)
  <2>1. /\ boot = "up" /\ UNCHANGED startup /\ audited \subseteq audited'
        /\ \A x \in Runs \ {r} : UNCHANGED Row(x)
        /\ \A x \in Builds \ {r} : UNCHANGED BuildRow(x)
    BY <1>0, <1>8 DEF AuditApplied, HeartbeatHeld, TypeOK, Row, BuildRow
  <2>2. RunOK(r)'
    BY <1>0, <1>8 DEF AuditApplied, HeartbeatHeld, TypeOK, RunOK, BuildOK
  <2>3. BuildOK(r)'
    BY <1>0, <1>8 DEF AuditApplied, HeartbeatHeld, TypeOK, RunOK, BuildOK, BuildPCs
  <2>4. SnapshotIsApplied'
    BY <1>0, <1>8 DEF AuditApplied, HeartbeatHeld, TypeOK, SnapshotIsApplied, BuildOK
  <2> QED BY <1>0, <2>1, <2>2, <2>3, <2>4, BuildMoves
<1>9. CASE CompleteBuildEffect(r)
  <2>1. /\ boot = "up" /\ UNCHANGED startup /\ audited \subseteq audited'
        /\ \A x \in Runs \ {r} : UNCHANGED Row(x)
        /\ \A x \in Builds \ {r} : UNCHANGED BuildRow(x)
    BY <1>0, <1>9 DEF CompleteBuildEffect, TypeOK, Row, BuildRow
  <2>2. RunOK(r)'
    BY <1>0, <1>9 DEF CompleteBuildEffect, TypeOK, RunOK, BuildOK
  <2>3. BuildOK(r)'
    BY <1>0, <1>9 DEF CompleteBuildEffect, TypeOK, RunOK, BuildOK, BuildPCs
  <2>4. SnapshotIsApplied'
    BY <1>0, <1>9 DEF CompleteBuildEffect, TypeOK, SnapshotIsApplied, BuildOK
  <2> QED BY <1>0, <2>1, <2>2, <2>3, <2>4, BuildMoves
<1>10. CASE CloseBuildStatus(r)
  <2>1. /\ boot = "up" /\ UNCHANGED startup /\ audited \subseteq audited'
        /\ \A x \in Runs \ {r} : UNCHANGED Row(x)
        /\ \A x \in Builds \ {r} : UNCHANGED BuildRow(x)
    BY <1>0, <1>10 DEF CloseBuildStatus, TypeOK, Row, BuildRow
  <2>2. RunOK(r)'
    BY <1>0, <1>10 DEF CloseBuildStatus, TypeOK, RunOK, BuildOK
  <2>3. BuildOK(r)'
    BY <1>0, <1>10 DEF CloseBuildStatus, TypeOK, RunOK, BuildOK, BuildPCs
  <2>4. SnapshotIsApplied'
    BY <1>0, <1>10 DEF CloseBuildStatus, TypeOK, SnapshotIsApplied, BuildOK
  <2> QED BY <1>0, <2>1, <2>2, <2>3, <2>4, BuildMoves
<1>11. CASE ReleaseBuildLease(r)
  <2>1. /\ boot = "up" /\ UNCHANGED startup /\ audited \subseteq audited'
        /\ \A x \in Runs \ {r} : UNCHANGED Row(x)
        /\ \A x \in Builds \ {r} : UNCHANGED BuildRow(x)
    BY <1>0, <1>11 DEF ReleaseBuildLease, TypeOK, Row, BuildRow
  <2>2. RunOK(r)'
    BY <1>0, <1>11 DEF ReleaseBuildLease, TypeOK, RunOK, BuildOK
  <2>3. BuildOK(r)'
    BY <1>0, <1>11 DEF ReleaseBuildLease, TypeOK, RunOK, BuildOK, BuildPCs
  <2>4. SnapshotIsApplied'
    BY <1>0, <1>11 DEF ReleaseBuildLease, TypeOK, SnapshotIsApplied, BuildOK
  <2> QED BY <1>0, <2>1, <2>2, <2>3, <2>4, BuildMoves
<1>12. CASE AbortBuild(r)
  <2>1. /\ boot = "up" /\ UNCHANGED startup /\ audited \subseteq audited'
        /\ \A x \in Runs \ {r} : UNCHANGED Row(x)
        /\ \A x \in Builds \ {r} : UNCHANGED BuildRow(x)
    BY <1>0, <1>12 DEF AbortBuild, TypeOK, Row, BuildRow
  <2>2. RunOK(r)'
    BY <1>0, <1>12 DEF AbortBuild, TypeOK, RunOK, BuildOK
  <2>3. BuildOK(r)'
    BY <1>0, <1>12 DEF AbortBuild, TypeOK, RunOK, BuildOK, BuildPCs
  <2>4. SnapshotIsApplied'
    BY <1>0, <1>12 DEF AbortBuild, TypeOK, SnapshotIsApplied, BuildOK
  <2> QED BY <1>0, <2>1, <2>2, <2>3, <2>4, BuildMoves
<1>13. CASE RefuseBuild(r)
  BY <1>13 DEF RefuseBuild, vars, durable, volatile, history, IInv, TypeOK,
     RunOK, BuildOK, AgentOK, LoopOK, SnapshotIsApplied
<1> QED
  BY <1>1, <1>2, <1>3, <1>4, <1>5, <1>6, <1>7, <1>8,
     <1>9, <1>10, <1>11, <1>12, <1>13 DEF BuildStep

\* Every step of StartTask preserves the invariant.
LEMMA AgentPreserves ==
    ASSUME IInv, NEW r \in Agents, AgentStep(r)
    PROVE  IInv'
<1> USE DEF AgentFrame, Step, Goto, taskDb, recoveryDb, buildDb, startup
<1>0. TypeOK /\ RunOK(r) /\ AgentOK(r) /\ TypeOK'
  BY TypeAgent DEF IInv
<1>1. ASSUME NEW t \in Tasks, StartTask(r, t)
      PROVE  IInv'
  <2>1. /\ boot = "up"
        /\ UNCHANGED <<startup, status, workspace, audited, snapshots>>
        /\ \A x \in Runs \ {r} : UNCHANGED Row(x)
    BY <1>0, <1>1 DEF StartTask, TypeOK, Row
  <2>2. RunOK(r)' /\ AgentOK(r)'
    BY <1>0, <1>1 DEF StartTask, TypeOK, RunOK, AgentOK, AgentPCs
  <2> QED BY <1>0, <2>1, <2>2, AgentMoves
<1>2. CASE PassGate(r)
  <2>1. /\ boot = "up"
        /\ UNCHANGED <<startup, status, workspace, audited, snapshots>>
        /\ \A x \in Runs \ {r} : UNCHANGED Row(x)
    BY <1>0, <1>2 DEF PassGate, Capture, TypeOK, Row
  <2>2. RunOK(r)' /\ AgentOK(r)'
    BY <1>0, <1>2 DEF PassGate, Capture, TypeOK, RunOK, AgentOK, AgentPCs
  <2> QED BY <1>0, <2>1, <2>2, AgentMoves
<1>3. CASE RefuseAgent(r)
  <2>1. /\ boot = "up"
        /\ UNCHANGED <<startup, status, workspace, audited, snapshots>>
        /\ \A x \in Runs \ {r} : UNCHANGED Row(x)
    BY <1>0, <1>3 DEF RefuseAgent, TypeOK, Row
  <2>2. RunOK(r)' /\ AgentOK(r)'
    BY <1>0, <1>3 DEF RefuseAgent, TypeOK, RunOK, AgentOK, AgentPCs
  <2> QED BY <1>0, <2>1, <2>2, AgentMoves
<1>4. CASE PrepareAgent(r)
  <2>1. /\ boot = "up"
        /\ UNCHANGED <<startup, status, workspace, audited, snapshots>>
        /\ \A x \in Runs \ {r} : UNCHANGED Row(x)
    BY <1>0, <1>4 DEF PrepareAgent, TypeOK, Row
  <2>2. RunOK(r)' /\ AgentOK(r)'
    BY <1>0, <1>4 DEF PrepareAgent, TypeOK, RunOK, AgentOK, AgentPCs
  <2> QED BY <1>0, <2>1, <2>2, AgentMoves
<1>5. CASE AcquireAgentLease(r)
  <2>1. /\ boot = "up"
        /\ UNCHANGED <<startup, status, workspace, audited, snapshots>>
        /\ \A x \in Runs \ {r} : UNCHANGED Row(x)
    BY <1>0, <1>5 DEF AcquireAgentLease, TypeOK, Row
  <2>2. RunOK(r)' /\ AgentOK(r)'
    BY <1>0, <1>5 DEF AcquireAgentLease, TypeOK, RunOK, AgentOK, AgentPCs
  <2> QED BY <1>0, <2>1, <2>2, AgentMoves
<1>6. CASE MarkAgentExecuting(r)
  <2>1. /\ boot = "up"
        /\ UNCHANGED <<startup, status, workspace, audited, snapshots>>
        /\ \A x \in Runs \ {r} : UNCHANGED Row(x)
    BY <1>0, <1>6 DEF MarkAgentExecuting, TypeOK, Row
  <2>2. RunOK(r)' /\ AgentOK(r)'
    BY <1>0, <1>6 DEF MarkAgentExecuting, TypeOK, RunOK, AgentOK, AgentPCs
  <2> QED BY <1>0, <2>1, <2>2, AgentMoves
<1>7. CASE ReportCompleted(r)
  <2>1. /\ boot = "up"
        /\ UNCHANGED <<startup, status, workspace, audited, snapshots>>
        /\ \A x \in Runs \ {r} : UNCHANGED Row(x)
    BY <1>0, <1>7 DEF ReportCompleted, TypeOK, Row
  <2>2. RunOK(r)' /\ AgentOK(r)'
    BY <1>0, <1>7 DEF ReportCompleted, TypeOK, RunOK, AgentOK, AgentPCs
  <2> QED BY <1>0, <2>1, <2>2, AgentMoves
<1>8. CASE ContinueAgent(r)
  <2>1. /\ boot = "up"
        /\ UNCHANGED <<startup, status, workspace, audited, snapshots>>
        /\ \A x \in Runs \ {r} : UNCHANGED Row(x)
    BY <1>0, <1>8 DEF ContinueAgent, TypeOK, Row
  <2>2. RunOK(r)' /\ AgentOK(r)'
    BY <1>0, <1>8 DEF ContinueAgent, TypeOK, RunOK, AgentOK, AgentPCs
  <2> QED BY <1>0, <2>1, <2>2, AgentMoves
<1>9. ASSUME NEW res \in {"ok", "err", "cancelled"}, ReturnAgent(r, res)
      PROVE  IInv'
  <2>1. /\ boot = "up"
        /\ UNCHANGED <<startup, status, workspace, audited, snapshots>>
        /\ \A x \in Runs \ {r} : UNCHANGED Row(x)
    BY <1>0, <1>9 DEF ReturnAgent, TypeOK, Row
  <2>2. RunOK(r)' /\ AgentOK(r)'
    BY <1>0, <1>9 DEF ReturnAgent, TypeOK, RunOK, AgentOK, AgentPCs
  <2> QED BY <1>0, <2>1, <2>2, AgentMoves
<1>10. CASE CaptureFinal(r)
  <2>1. /\ boot = "up"
        /\ UNCHANGED <<startup, status, workspace, audited, snapshots>>
        /\ \A x \in Runs \ {r} : UNCHANGED Row(x)
    BY <1>0, <1>10 DEF CaptureFinal, Capture, TypeOK, Row
  <2>2. RunOK(r)' /\ AgentOK(r)'
    BY <1>0, <1>10 DEF CaptureFinal, Capture, TypeOK, RunOK, AgentOK, AgentPCs
  <2> QED BY <1>0, <2>1, <2>2, AgentMoves
<1>11. CASE CompleteAgentEffect(r)
  <2>1. /\ boot = "up"
        /\ UNCHANGED <<startup, status, workspace, audited, snapshots>>
        /\ \A x \in Runs \ {r} : UNCHANGED Row(x)
    BY <1>0, <1>11 DEF CompleteAgentEffect, TypeOK, Row
  <2>2. RunOK(r)' /\ AgentOK(r)'
    BY <1>0, <1>11 DEF CompleteAgentEffect, TypeOK, RunOK, AgentOK, AgentPCs
  <2> QED BY <1>0, <2>1, <2>2, AgentMoves
<1>12. CASE ReleaseAgentLease(r)
  <2>1. /\ boot = "up"
        /\ UNCHANGED <<startup, status, workspace, audited, snapshots>>
        /\ \A x \in Runs \ {r} : UNCHANGED Row(x)
    BY <1>0, <1>12 DEF ReleaseAgentLease, TypeOK, Row
  <2>2. RunOK(r)' /\ AgentOK(r)'
    BY <1>0, <1>12 DEF ReleaseAgentLease, TypeOK, RunOK, AgentOK, AgentPCs
  <2> QED BY <1>0, <2>1, <2>2, AgentMoves
<1>13. CASE SkipComplete(r)
  <2>1. /\ boot = "up"
        /\ UNCHANGED <<startup, status, workspace, audited, snapshots>>
        /\ \A x \in Runs \ {r} : UNCHANGED Row(x)
    BY <1>0, <1>13 DEF SkipComplete, TypeOK, Row
  <2>2. RunOK(r)' /\ AgentOK(r)'
    BY <1>0, <1>13 DEF SkipComplete, TypeOK, RunOK, AgentOK, AgentPCs
  <2> QED BY <1>0, <2>1, <2>2, AgentMoves
<1>14. CASE RemoveActive(r)
  <2>1. /\ boot = "up"
        /\ UNCHANGED <<startup, status, workspace, audited, snapshots>>
        /\ \A x \in Runs \ {r} : UNCHANGED Row(x)
    BY <1>0, <1>14 DEF RemoveActive, TypeOK, Row
  <2>2. RunOK(r)' /\ AgentOK(r)'
    BY <1>0, <1>14 DEF RemoveActive, TypeOK, RunOK, AgentOK, AgentPCs
  <2> QED BY <1>0, <2>1, <2>2, AgentMoves
<1>15. CASE NotifyEnd(r)
  <2>1. /\ boot = "up"
        /\ UNCHANGED <<startup, status, workspace, audited, snapshots>>
        /\ \A x \in Runs \ {r} : UNCHANGED Row(x)
    BY <1>0, <1>15 DEF NotifyEnd, TypeOK, Row
  <2>2. RunOK(r)' /\ AgentOK(r)'
    BY <1>0, <1>15 DEF NotifyEnd, TypeOK, RunOK, AgentOK, AgentPCs
  <2> QED BY <1>0, <2>1, <2>2, AgentMoves
<1> QED
  BY <1>1, <1>2, <1>3, <1>4, <1>5, <1>6, <1>7, <1>8,
     <1>9, <1>10, <1>11, <1>12, <1>13, <1>14, <1>15 DEF AgentStep

\* Heartbeats, the clock, the journal, crashes and starts preserve it.
LEMMA EnvironmentPreserves ==
    ASSUME IInv,
           \/ \E r \in Runs : Heartbeat(r) \/ LeaseExpires(r)
           \/ JournalEvent \/ Crash \/ Start
    PROVE  IInv'
<1> USE DEF taskDb, recoveryDb, buildDb, startup, durable, volatile, history
<1>0. /\ TypeOK /\ TypeOK'
      /\ \A r \in Runs : RunOK(r)
      /\ \A b \in Builds : BuildOK(b)
      /\ \A a \in Agents : AgentOK(a)
      /\ LoopOK /\ SnapshotIsApplied
  BY TypeEnvironment DEF IInv
<1>1. ASSUME NEW r \in Runs, Heartbeat(r) PROVE IInv'
  <2>1. \A x \in Runs : RunOK(x)'
    <3>1. effect[r] = "executing" /\ boot = "up"
      <4>1. pc[r] \in {"working", "reported"} /\ boot = "up"
        BY <1>1 DEF Heartbeat
      <4>2. CASE r \in Builds
        <5>1. BuildOK(r) BY <1>0, <4>2
        <5> QED BY <4>1, <5>1 DEF BuildOK, BuildPCs
      <4>3. CASE r \in Agents
        <5>1. AgentOK(r) BY <1>0, <4>3
        <5> QED BY <4>1, <5>1 DEF AgentOK
      <4> QED BY <1>1, <4>2, <4>3
    <3>2. ASSUME NEW x \in Runs PROVE hbFailed'[x] => hbFailed[x] \/ x = r
      BY <1>0, <1>1 DEF Heartbeat, TypeOK
    <3>3. UNCHANGED <<effect, lease, reconciled, recovery, pc, dispatched, boot>>
      BY <1>1 DEF Heartbeat
    <3> QED BY <1>0, <3>1, <3>2, <3>3 DEF RunOK
  <2>2. \A b \in Builds : BuildOK(b)'
    BY <1>0, <1>1 DEF Heartbeat, TypeOK, BuildOK
  <2>3. \A a \in Agents : AgentOK(a)'
    BY <1>0, <1>1 DEF Heartbeat, AgentOK
  <2>4. LoopOK' /\ SnapshotIsApplied'
    BY <1>0, <1>1 DEF Heartbeat, LoopOK, SnapshotIsApplied
  <2> QED BY <1>0, <2>1, <2>2, <2>3, <2>4 DEF IInv
<1>2. ASSUME NEW r \in Runs, LeaseExpires(r) PROVE IInv'
  <2>1. \A x \in Runs : RunOK(x)'
    BY <1>0, <1>2 DEF LeaseExpires, TypeOK, RunOK
  <2>2. \A b \in Builds : BuildOK(b)'
    BY <1>0, <1>2 DEF LeaseExpires, BuildOK
  <2>3. \A a \in Agents : AgentOK(a)'
    BY <1>0, <1>2 DEF LeaseExpires, AgentOK
  <2>4. LoopOK' /\ SnapshotIsApplied'
    BY <1>0, <1>2 DEF LeaseExpires, LoopOK, SnapshotIsApplied
  <2> QED BY <1>0, <2>1, <2>2, <2>3, <2>4 DEF IInv
<1>3. CASE JournalEvent
  BY <1>0, <1>3 DEF JournalEvent, IInv, RunOK, BuildOK, AgentOK, LoopOK,
                    SnapshotIsApplied
<1>4. CASE Crash
  <2>1. \A x \in Runs : RunOK(x)'
    BY <1>0, <1>4 DEF Crash, TypeOK, RunOK
  <2>2. \A b \in Builds : BuildOK(b)'
    BY <1>0, <1>4, RunEffectsAssumption DEF Crash, TypeOK, BuildOK, BuildPCs
  <2>3. \A a \in Agents : AgentOK(a)'
    BY <1>0, <1>4 DEF Crash, TypeOK, AgentOK, AgentPCs
  <2>4. LoopOK' /\ SnapshotIsApplied'
    BY <1>0, <1>4 DEF Crash, LoopOK, NoRecord, SnapshotIsApplied
  <2> QED BY <1>0, <2>1, <2>2, <2>3, <2>4 DEF IInv
<1>5. CASE Start
  <2>1. \A x \in Runs : RunOK(x)'
    BY <1>0, <1>5 DEF Start, RunOK
  <2>2. LoopOK'
    BY <1>0, <1>5 DEF Start, LoopOK
  <2> QED BY <1>0, <1>5, <2>1, <2>2 DEF Start, IInv, BuildOK, AgentOK,
             SnapshotIsApplied
<1> QED BY <1>1, <1>2, <1>3, <1>4, <1>5

\* Every step of recover_and_reconcile_after_restart preserves it.
LEMMA RecoveryPreserves ==
    ASSUME IInv, RecoveryStep
    PROVE  IInv'
<1> USE DEF taskDb, recoveryDb, buildDb, startup, durable, volatile, history,
            RecoverFrame, Advance, ValidTransition, RecoveryDecided
<1>0. /\ TypeOK /\ TypeOK'
      /\ \A r \in Runs : RunOK(r)
      /\ \A b \in Builds : BuildOK(b)
      /\ \A a \in Agents : AgentOK(a)
      /\ LoopOK /\ SnapshotIsApplied
  BY TypeRecovery DEF IInv
<1>1. CASE Sweep
  <2>1. \A x \in Runs : RunOK(x)'
    BY <1>0, <1>1 DEF Sweep, Open, SweptLease, TypeOK, RunOK
  <2>2. \A b \in Builds : BuildOK(b)'
    BY <1>0, <1>1 DEF Sweep, Open, SweptStatus, TypeOK, BuildOK, RunOK
  <2>3. \A a \in Agents : AgentOK(a)'
    BY <1>0, <1>1 DEF Sweep, Open, TypeOK, AgentOK, RunOK
  <2>4. LoopOK'
    BY <1>0, <1>1 DEF Sweep, Open, TypeOK, LoopOK, RunOK
  <2>5. SnapshotIsApplied'
    BY <1>0, <1>1 DEF Sweep, SnapshotIsApplied
  <2> QED BY <1>0, <2>1, <2>2, <2>3, <2>4, <2>5 DEF IInv
<1>2. ASSUME NEW r \in Runs, BeginRecovering(r) PROVE IInv'
  <2>1. effect[r] = "unknown" /\ recovery[r] = "none"
    BY <1>0, <1>2 DEF BeginRecovering, LoopOK
  <2>2. \A x \in Runs : RunOK(x)'
    BY <1>0, <1>2, <2>1 DEF BeginRecovering, TypeOK, RunOK
  <2>3. \A b \in Builds : BuildOK(b)'
    BY <1>0, <1>2, <2>1 DEF BeginRecovering, TypeOK, BuildOK
  <2>4. \A a \in Agents : AgentOK(a)'
    BY <1>0, <1>2 DEF BeginRecovering, AgentOK
  <2>5. LoopOK'
    BY <1>0, <1>2, <2>1 DEF BeginRecovering, TypeOK, LoopOK
  <2>6. SnapshotIsApplied'
    BY <1>0, <1>2 DEF BeginRecovering, SnapshotIsApplied
  <2> QED BY <1>0, <2>2, <2>3, <2>4, <2>5, <2>6 DEF IInv
<1>3. CASE BeginReconciling
  <2>1. /\ cur.run \in Runs /\ recovery[cur.run] = "recovering"
        /\ reconciled[cur.run] = "none" /\ effect[cur.run] = "unknown"
    BY <1>0, <1>3 DEF BeginReconciling, TypeOK, LoopOK, RunOK
  <2>2. \A x \in Runs : RunOK(x)'
    BY <1>0, <1>3, <2>1 DEF BeginReconciling, TypeOK, RunOK
  <2>3. \A b \in Builds : BuildOK(b)'
    BY <1>0, <1>3, <2>1 DEF BeginReconciling, TypeOK, BuildOK
  <2>4. \A a \in Agents : AgentOK(a)'
    BY <1>0, <1>3 DEF BeginReconciling, AgentOK
  <2>5. LoopOK'
    BY <1>0, <1>3, <2>1 DEF BeginReconciling, TypeOK, LoopOK
  <2>6. SnapshotIsApplied'
    BY <1>0, <1>3 DEF BeginReconciling, SnapshotIsApplied
  <2> QED BY <1>0, <2>2, <2>3, <2>4, <2>5, <2>6 DEF IInv
<1>4. CASE Reconcile
  <2>1. /\ cur.run \in Runs /\ recovery[cur.run] = "reconciling"
        /\ reconciled[cur.run] = "none" /\ effect[cur.run] = "unknown"
    BY <1>0, <1>4 DEF Reconcile, TypeOK, LoopOK, RunOK
  <2>2. Verified(cur.run) /\ cur.run \in Builds => workspace[cur.run] = "applied"
    BY <1>0, RunEffectsAssumption DEF Verified, SnapshotIsApplied
  <2>3. /\ cur'.run = cur.run /\ cur'.stage = "verified"
        /\ cur'.success = Verified(cur.run)
        /\ reconciled' = [reconciled EXCEPT ![cur.run] =
              IF Verified(cur.run) THEN "reconciled_success"
              ELSE "reconciled_blocked"]
        /\ effect' = [effect EXCEPT ![cur.run] =
              IF Verified(cur.run) THEN "completed_success" ELSE "unknown"]
        /\ UNCHANGED <<lease, recovery, status, audited, snapshots, boot, todo,
                       pc, hbFailed, workspace, dispatched>>
    BY <1>0, <1>4, <2>1 DEF Reconcile, TypeOK
  <2>4. boot = "recover" /\ cur.stage = "reconciling" /\ cur.run \in todo
    BY <1>0, <1>4 DEF Reconcile, LoopOK
  <2> HIDE DEF Verified
  <2>5. \A x \in Runs : RunOK(x)'
    BY <1>0, <2>1, <2>3, <2>4 DEF TypeOK, RunOK
  <2>6. \A b \in Builds : BuildOK(b)'
    BY <1>0, <2>1, <2>2, <2>3, <2>4 DEF TypeOK, BuildOK, RunOK
  <2>7. \A a \in Agents : AgentOK(a)'
    BY <1>0, <2>1, <2>3, <2>4 DEF TypeOK, AgentOK, RunOK
  <2>8. LoopOK'
    BY <1>0, <2>1, <2>3, <2>4 DEF TypeOK, LoopOK
  <2>9. SnapshotIsApplied'
    BY <1>0, <2>3 DEF SnapshotIsApplied
  <2> QED BY <1>0, <2>5, <2>6, <2>7, <2>8, <2>9 DEF IInv
<1>5. CASE UpdateRunStatus
  <2>1. /\ cur.run \in Runs /\ recovery[cur.run] = "reconciling"
        /\ cur.success => /\ reconciled[cur.run] = "reconciled_success"
                          /\ effect[cur.run] = "completed_success"
    BY <1>0, <1>5 DEF UpdateRunStatus, TypeOK, LoopOK, RunOK
  <2>2. \A x \in Runs : RunOK(x)'
    BY <1>0, <1>5 DEF UpdateRunStatus, RunOK
  <2>3. \A b \in Builds : BuildOK(b)'
    BY <1>0, <1>5, <2>1 DEF UpdateRunStatus, StatusAfterVerdict, TypeOK, BuildOK
  <2>4. \A a \in Agents : AgentOK(a)'
    BY <1>0, <1>5 DEF UpdateRunStatus, AgentOK
  <2>5. LoopOK'
    BY <1>0, <1>5, <2>1 DEF UpdateRunStatus, StatusAfterVerdict, TypeOK, LoopOK
  <2>6. SnapshotIsApplied'
    BY <1>0, <1>5 DEF UpdateRunStatus, SnapshotIsApplied
  <2> QED BY <1>0, <2>2, <2>3, <2>4, <2>5, <2>6 DEF IInv
<1>6. CASE AppendRecoveryEvents
  <2>1. LoopOK'
    BY <1>0, <1>6 DEF AppendRecoveryEvents, TypeOK, LoopOK
  <2> QED BY <1>0, <1>6, <2>1 DEF AppendRecoveryEvents, IInv, RunOK, BuildOK,
             AgentOK, SnapshotIsApplied
<1>7. CASE DecideRecovery
  <2>1. /\ cur.run \in Runs /\ recovery[cur.run] = "reconciling"
        /\ reconciled[cur.run] = IF cur.success THEN "reconciled_success"
                                 ELSE "reconciled_blocked"
        /\ cur.success /\ cur.run \in Builds => status[cur.run] = "completed"
    BY <1>0, <1>7 DEF DecideRecovery, TypeOK, LoopOK
  <2>2. \A x \in Runs : RunOK(x)'
    BY <1>0, <1>7, <2>1 DEF DecideRecovery, TypeOK, RunOK
  <2>3. \A b \in Builds : BuildOK(b)'
    BY <1>0, <1>7, <2>1 DEF DecideRecovery, TypeOK, BuildOK
  <2>4. \A a \in Agents : AgentOK(a)'
    BY <1>0, <1>7 DEF DecideRecovery, AgentOK
  <2>5. LoopOK'
    BY <1>0, <1>7, <2>1 DEF DecideRecovery, NoRecord, TypeOK, LoopOK
  <2>6. SnapshotIsApplied'
    BY <1>0, <1>7 DEF DecideRecovery, SnapshotIsApplied
  <2> QED BY <1>0, <2>2, <2>3, <2>4, <2>5, <2>6 DEF IInv
<1>8. CASE GoUp
  <2>1. \A x \in Runs : RunOK(x)'
    BY <1>0, <1>8 DEF GoUp, RunOK
  <2>2. LoopOK'
    BY <1>0, <1>8 DEF GoUp, RecoveryDone, LoopOK
  <2> QED BY <1>0, <1>8, <2>1, <2>2 DEF GoUp, IInv, BuildOK, AgentOK,
             SnapshotIsApplied
<1> QED
  BY <1>1, <1>2, <1>3, <1>4, <1>5, <1>6, <1>7, <1>8 DEF RecoveryStep

\* The inductive invariant holds of every reachable state: the rows a worker
\* or the recovery loop has written are those its position promises.
THEOREM Invariance == Spec => []IInv
<1>1. Init => IInv
  <2> SUFFICES ASSUME Init PROVE IInv
    OBVIOUS
  <2>1. TypeOK
    BY DEF Init, TypeOK, EffectStates, RecoveryStates, TerminalEvents,
           CheckpointStates, BuildPCs, AgentPCs, NoRecord
  <2>2. \A r \in Runs : RunOK(r)
    BY DEF Init, RunOK
  <2>3. \A b \in Builds : BuildOK(b)
    BY DEF Init, BuildOK, BuildPCs
  <2>4. \A a \in Agents : AgentOK(a)
    BY DEF Init, AgentOK, AgentPCs
  <2>5. LoopOK
    BY DEF Init, LoopOK, NoRecord
  <2>6. SnapshotIsApplied
    BY DEF Init, SnapshotIsApplied
  <2> QED BY <2>1, <2>2, <2>3, <2>4, <2>5, <2>6 DEF IInv
<1>2. IInv /\ [Next]_vars => IInv'
  <2> SUFFICES ASSUME IInv, [Next]_vars PROVE IInv'
    OBVIOUS
  <2>1. CASE UNCHANGED vars
    BY <2>1 DEF IInv, TypeOK, RunOK, BuildOK, AgentOK, LoopOK,
                SnapshotIsApplied, vars, durable, volatile, history
  <2> QED
    BY <2>1, BuildPreserves, AgentPreserves, EnvironmentPreserves,
       RecoveryPreserves DEF Next
<1> QED BY <1>1, <1>2, PTL DEF Spec

\* begin_build_effect and begin_agent_run start the work of a run at most
\* once, over every retry, abort and restart.
THEOREM AtMostOnce == Spec => []DispatchedOnce
<1>1. IInv => DispatchedOnce
  BY DEF IInv, RunOK, DispatchedOnce
<1> QED BY <1>1, Invariance, PTL

\* What run_effects records of a finished build is true of the workspace,
\* whether the command or the verifier of a later start recorded it.
THEOREM TruthfulOutcome == Spec => []OutcomeMatchesWorkspace
<1>1. IInv => OutcomeMatchesWorkspace
  BY DEF IInv, BuildOK, OutcomeMatchesWorkspace
<1> QED BY <1>1, Invariance, PTL

\* A build shown as completed succeeded, and its success was audited or
\* reconciled.
THEOREM EvidencedCompletion == Spec => []CompletedHasEvidence
<1>1. IInv => CompletedHasEvidence
  BY DEF IInv, BuildOK, CompletedHasEvidence
<1> QED BY <1>1, Invariance, PTL

\* The five rows a start writes about one effect agree, wherever an earlier
\* start was interrupted.
THEOREM CoherentDecision == Spec => []DecisionMatchesOutcome
<1>1. IInv => DecisionMatchesOutcome
  BY DEF IInv, RunOK, BuildOK, DecisionMatchesOutcome
<1> QED BY <1>1, Invariance, PTL

\* The sweep of a start takes the lease away with the outcome, and nobody
\* gets it back.
THEOREM NoStaleLease == Spec => []UnknownHoldsNoLease
<1>1. IInv => UnknownHoldsNoLease
  BY DEF IInv, RunOK, UnknownHoldsNoLease
<1> QED BY <1>1, Invariance, PTL

\* A rejected heartbeat keeps the process from recording a success.
THEOREM LostLease == Spec => []LostLeaseNotSuccess
<1>1. IInv => LostLeaseNotSuccess
  BY DEF IInv, RunOK, LostLeaseNotSuccess
<1> QED BY <1>1, Invariance, PTL

\* transition_recovery never refuses a stage of the startup pass.
THEOREM RecoveryProceeds == Spec => []RecoveryNeverRefused
<1>1. IInv => RecoveryNeverRefused
  BY DEF IInv, LoopOK, RecoveryNeverRefused, ValidTransition, RecoveryDecided
<1> QED BY <1>1, Invariance, PTL

-----------------------------------------------------------------------------
\* What one step may do to the recorded outcome of run r.
FinalAt(r) ==
    /\ effect[r] \in Completed => effect'[r] = effect[r]
    /\ effect[r] = "unknown" /\ effect'[r] # "unknown" =>
          /\ effect'[r] = "completed_success"
          /\ reconciled[r] = "none"
          /\ reconciled'[r] = "reconciled_success"
    /\ reconciled[r] # "none" => reconciled'[r] = reconciled[r]

\* No step of a build command changes an outcome that is recorded.
LEMMA BuildKeepsOutcome ==
    ASSUME TypeOK, NEW b \in Builds, BuildStep(b), NEW r \in Runs
    PROVE  FinalAt(r)
<1> USE DEF FinalAt, Completed, BuildFrame, recoveryDb, TypeOK
<1>1. CASE \E i \in Intents, t \in Tasks : PrepareBuild(b, i, t)
  BY <1>1 DEF PrepareBuild, Dispatchable
<1>2. CASE MarkBuildExecuting(b)
  BY <1>2 DEF MarkBuildExecuting
<1>3. CASE CompleteBuildEffect(b)
  BY <1>3 DEF CompleteBuildEffect
<1>4. CASE UNCHANGED <<effect, reconciled>>
  BY <1>4
<1> QED
  BY <1>1, <1>2, <1>3, <1>4
     DEF BuildStep, AcquireBuildLease, TouchWorkspace, ApplySucceeds,
         ApplyFails, SaveSnapshot, AuditApplied, CloseBuildStatus,
         ReleaseBuildLease, AbortBuild, RefuseBuild, vars, durable

\* No step of an agent task changes an outcome that is recorded.
LEMMA AgentKeepsOutcome ==
    ASSUME TypeOK, \A a \in Agents : AgentOK(a),
           NEW b \in Agents, AgentStep(b), NEW r \in Runs
    PROVE  FinalAt(r)
<1> USE DEF FinalAt, Completed, AgentFrame, recoveryDb, TypeOK
<1>1. CASE PrepareAgent(b)
  <2>1. effect[b] = "absent"
    BY <1>1 DEF PrepareAgent, Step, AgentOK
  <2> QED BY <1>1, <2>1 DEF PrepareAgent
<1>2. CASE MarkAgentExecuting(b)
  BY <1>2 DEF MarkAgentExecuting
<1>3. CASE CompleteAgentEffect(b)
  BY <1>3 DEF CompleteAgentEffect
<1>4. CASE UNCHANGED <<effect, reconciled>>
  BY <1>4
<1> QED
  BY <1>1, <1>2, <1>3, <1>4
     DEF AgentStep, StartTask, PassGate, RefuseAgent, AcquireAgentLease,
         ReportCompleted, ContinueAgent, ReturnAgent, CaptureFinal,
         ReleaseAgentLease, SkipComplete, RemoveActive, NotifyEnd

\* The startup pass changes an outcome only from open to unknown, and from
\* unknown to success together with the reconciliation record.
LEMMA RecoveryKeepsOutcome ==
    ASSUME IInv, RecoveryStep, NEW r \in Runs
    PROVE  FinalAt(r)
<1> USE DEF FinalAt, Completed, RecoverFrame, recoveryDb
<1>0. TypeOK /\ LoopOK
  BY DEF IInv
<1>1. CASE Sweep
  BY <1>0, <1>1 DEF Sweep, Open, TypeOK
<1>2. CASE Reconcile
  <2>1. cur.run \in Runs
    BY <1>0, <1>2 DEF Reconcile, LoopOK, TypeOK
  <2> QED BY <1>0, <1>2, <2>1 DEF Reconcile, TypeOK
<1>3. CASE UNCHANGED <<effect, reconciled>>
  BY <1>3
<1> QED
  BY <1>1, <1>2, <1>3
     DEF RecoveryStep, BeginRecovering, BeginReconciling, UpdateRunStatus,
         AppendRecoveryEvents, DecideRecovery, GoUp, durable

\* A recorded outcome is final, and an unknown one is only ever resolved by
\* the transaction that writes its reconciliation record.
THEOREM FinalOutcome == Spec => OutcomeIsFinal
<1>1. IInv /\ [Next]_vars => [\A r \in Runs : FinalAt(r)]_vars
  <2> SUFFICES ASSUME IInv, Next, NEW r \in Runs PROVE FinalAt(r)
    OBVIOUS
  <2>1. TypeOK /\ \A a \in Agents : AgentOK(a)
    BY DEF IInv
  <2>2. CASE \E x \in Runs : Heartbeat(x) \/ LeaseExpires(x)
    BY <2>1, <2>2 DEF Heartbeat, LeaseExpires, FinalAt, durable, recoveryDb
  <2>3. CASE JournalEvent \/ Crash \/ Start
    BY <2>1, <2>3 DEF JournalEvent, Crash, Start, FinalAt, durable, recoveryDb
  <2> QED
    BY <2>1, <2>2, <2>3, BuildKeepsOutcome, AgentKeepsOutcome,
       RecoveryKeepsOutcome DEF Next
<1> QED BY <1>1, Invariance, PTL DEF Spec, OutcomeIsFinal, FinalAt

-----------------------------------------------------------------------------
(***************************************************************************)
(* The second invariant: what is known of the agent runs of one task.       *)
(***************************************************************************)
AgentRow(a) ==
    /\ pc[a] # "idle" \/ effect[a] # "absent" => task[a] \in Tasks
    /\ task[a] = Nothing => reports[a] = 0
    /\ pc[a] = "reported" \/ result[a] = "ok" => reports[a] > 0
    /\ effect[a] # "absent" \/ pc[a] = "gated" => checkpoint[task[a]] # "none"
    /\ effect[a] = "unknown" => unknownMark[task[a]]

TasksReported ==
    /\ \A t \in Tasks : terminal[t] = "completed" => Reported(t)
    /\ \A n \in DOMAIN queue : queue[n].event = "completed" => Reported(queue[n].task)

\* AgentInv by its parts.
LEMMA AgentInvParts ==
    AgentInv <=> /\ \A a \in Agents : AgentRow(a)
                 /\ TasksReported /\ AgentSuccessWasReported /\ NoBlindRetry
BY DEF AgentInv, AgentRow, TasksReported

\* A step that leaves every agent run alone, and what is recorded of tasks,
\* preserves the invariant.
LEMMA FrameAgentInv ==
    ASSUME AgentInv,
           \A a \in Agents : UNCHANGED <<pc[a], effect[a], task[a], reconciled[a]>>,
           UNCHANGED <<reports, result, terminal, checkpoint, unknownMark, queue>>
    PROVE  AgentInv'
<1>1. \A t : Reported(t)' <=> Reported(t)
  BY DEF Reported
<1>2. \A a \in Agents : AgentRow(a)'
  BY AgentInvParts DEF AgentRow
<1>3. TasksReported'
  BY <1>1, AgentInvParts DEF TasksReported
<1>4. AgentSuccessWasReported'
  BY AgentInvParts DEF AgentSuccessWasReported
<1>5. NoBlindRetry'
  BY AgentInvParts DEF NoBlindRetry
<1>6. (AgentInv <=> /\ \A a \in Agents : AgentRow(a)
                    /\ TasksReported /\ AgentSuccessWasReported /\ NoBlindRetry)'
  BY DEF AgentInv, AgentRow, TasksReported
<1> QED BY <1>2, <1>3, <1>4, <1>5, <1>6

\* A step of the agent task r, seen from the invariant.
LEMMA AgentInvMoves ==
    ASSUME TypeOK, TypeOK', AgentInv, NEW r \in Agents,
           \A a \in Agents \ {r} :
              UNCHANGED <<pc[a], effect[a], task[a], reports[a], result[a]>>,
           UNCHANGED reconciled,
           task[r] # Nothing => task'[r] = task[r],
           reports'[r] >= reports[r],
           \A t \in Tasks : checkpoint[t] # "none" => checkpoint'[t] # "none",
           \A a \in Agents \ {r} : effect[a] = "unknown" =>
               unknownMark'[task[a]] = unknownMark[task[a]],
           UNCHANGED terminal,
           queue' = queue \/ \E e \in TerminalEvents :
               /\ queue' = Append(queue, [task |-> task[r], event |-> e])
               /\ e = "completed" => reports'[r] > 0 /\ task'[r] = task[r],
           AgentRow(r)',
           effect'[r] = "unknown" => effect[r] = "unknown" /\ task'[r] = task[r],
           effect'[r] = "completed_success" =>
               reports'[r] > 0 \/ effect[r] = "completed_success",
           \/ pc'[r] \in {"idle", "gating", "notifying", "gone"}
           \/ /\ pc[r] \notin {"idle", "gating", "notifying", "gone"}
              /\ task'[r] = task[r]
           \/ \A a \in Agents : effect[a] = "unknown" => task[a] # task'[r]
    PROVE  AgentInv'
<1>0. /\ \A a \in Agents : AgentRow(a)
      /\ TasksReported /\ AgentSuccessWasReported /\ NoBlindRetry
  BY AgentInvParts
<1>1. ASSUME NEW t, \E b \in Agents : task[b] = t /\ reports[b] > 0
      PROVE  \E b \in Agents : task'[b] = t /\ reports'[b] > 0
  <2>1. PICK b \in Agents : task[b] = t /\ reports[b] > 0
    BY <1>1
  <2>2. task[b] # Nothing
    BY <1>0, <2>1 DEF AgentRow
  <2>3. task'[b] = t /\ reports'[b] > 0
    <3>1. CASE b = r
      <4>1. task'[b] = t
        BY <2>1, <2>2, <3>1
      <4>2. reports[r] \in Nat /\ reports'[r] \in Nat
        BY DEF TypeOK
      <4> QED BY <2>1, <3>1, <4>1, <4>2
    <3>2. CASE b # r
      BY <2>1, <3>2
    <3> QED BY <3>1, <3>2
  <2> QED BY <2>3
<1>2. \A a \in Agents : AgentRow(a)'
  BY <1>0 DEF AgentRow
<1>3. TasksReported'
  <2>1. \A t \in Tasks : terminal'[t] = "completed" =>
            \E b \in Agents : task'[b] = t /\ reports'[b] > 0
    BY <1>0, <1>1 DEF TasksReported, Reported
  <2>2. \A n \in DOMAIN queue' : queue'[n].event = "completed" =>
            \E b \in Agents : task'[b] = queue'[n].task /\ reports'[b] > 0
    <3>1. CASE queue' = queue
      BY <1>0, <1>1, <3>1 DEF TasksReported, Reported
    <3>2. ASSUME NEW e \in TerminalEvents,
                 queue' = Append(queue, [task |-> task[r], event |-> e]),
                 e = "completed" => reports'[r] > 0 /\ task'[r] = task[r],
                 NEW n \in DOMAIN queue', queue'[n].event = "completed"
          PROVE  \E b \in Agents : task'[b] = queue'[n].task /\ reports'[b] > 0
      <4> DEFINE E == [task : Tasks \cup {Nothing}, event : TerminalEvents]
      <4>1. queue \in Seq(E)
        BY DEF TypeOK
      <4>2. n \in 1..(Len(queue) + 1)
        BY <3>2, <4>1
      <4>3. CASE n = Len(queue) + 1
        <5>1. queue'[n] = [task |-> task[r], event |-> e]
          BY <3>2, <4>1, <4>3
        <5> QED BY <3>2, <5>1
      <4>4. CASE n # Len(queue) + 1
        <5>1. n \in DOMAIN queue /\ queue'[n] = queue[n]
          BY <3>2, <4>1, <4>2, <4>4
        <5>2. \E b \in Agents : task[b] = queue[n].task /\ reports[b] > 0
          BY <1>0, <3>2, <5>1 DEF TasksReported, Reported
        <5> QED BY <1>1, <5>1, <5>2
      <4> QED BY <4>3, <4>4
    <3> QED BY <3>1, <3>2
  <2> QED BY <2>1, <2>2 DEF TasksReported, Reported
<1>4. AgentSuccessWasReported'
  <2>1. ASSUME NEW a \in Agents, effect'[a] = "completed_success", reconciled'[a] = "none"
        PROVE  reports'[a] > 0
    <3>1. CASE a # r
      BY <1>0, <2>1, <3>1 DEF AgentSuccessWasReported
    <3>2. CASE a = r
      <4>1. CASE effect[r] = "completed_success"
        <5>1. reports[r] > 0 /\ reports[r] \in Nat /\ reports'[r] \in Nat
          BY <1>0, <2>1, <3>2, <4>1 DEF AgentSuccessWasReported, TypeOK
        <5> QED BY <3>2, <5>1
      <4>2. CASE effect[r] # "completed_success"
        BY <2>1, <3>2, <4>2
      <4> QED BY <4>1, <4>2
    <3> QED BY <3>1, <3>2
  <2>2. ASSUME NEW a \in Agents, reconciled'[a] = "reconciled_success"
        PROVE  \E b \in Agents : task'[b] = task'[a] /\ reports'[b] > 0
    <3>1. Reported(task[a])
      BY <1>0, <2>2 DEF AgentSuccessWasReported, Reported
    <3>2. task[a] # Nothing
      <4>1. PICK b \in Agents : task[b] = task[a] /\ reports[b] > 0
        BY <3>1 DEF Reported
      <4> QED BY <1>0, <4>1 DEF AgentRow
    <3>3. task'[a] = task[a]
      BY <3>2
    <3> QED BY <1>1, <3>1, <3>3 DEF Reported
  <2> QED BY <2>1, <2>2 DEF AgentSuccessWasReported
<1>5. NoBlindRetry'
  <2> SUFFICES ASSUME NEW a \in Agents, NEW b \in Agents, a # b, task'[a] = task'[b],
                      effect'[a] = "unknown"
               PROVE  pc'[b] \in {"idle", "gating", "notifying", "gone"}
    BY DEF NoBlindRetry
  <2>1. effect[a] = "unknown" /\ task'[a] = task[a]
    OBVIOUS
  <2>2. CASE b # r
    BY <1>0, <2>1, <2>2 DEF NoBlindRetry
  <2>3. CASE b = r
    BY <1>0, <2>1, <2>3 DEF NoBlindRetry
  <2> QED BY <2>2, <2>3
<1>6. (AgentInv <=> /\ \A a \in Agents : AgentRow(a)
                    /\ TasksReported /\ AgentSuccessWasReported /\ NoBlindRetry)'
  BY DEF AgentInv, AgentRow, TasksReported
<1> QED BY <1>2, <1>3, <1>4, <1>5, <1>6

\* Every step of an agent task preserves the second invariant.
LEMMA AgentInvAgents ==
    ASSUME IInv, AgentInv, NEW r \in Agents, AgentStep(r)
    PROVE  AgentInv'
<1> USE DEF AgentFrame, Step, Goto, taskDb, recoveryDb, TerminalEvents
<1>0. /\ TypeOK /\ AgentOK(r) /\ RunOK(r) /\ TypeOK'
      /\ \A a \in Agents : AgentRow(a)
      /\ TasksReported /\ AgentSuccessWasReported /\ NoBlindRetry
  BY TypeAgent, AgentInvParts DEF IInv
<1>1. ASSUME NEW t \in Tasks, StartTask(r, t) PROVE AgentInv'
  <2>1. /\ \A a \in Agents \ {r} :
              UNCHANGED <<pc[a], effect[a], task[a], reports[a], result[a]>>
        /\ task[r] = Nothing /\ pc'[r] = "gating" /\ effect'[r] = "absent"
        /\ UNCHANGED <<reconciled, reports, result, terminal, checkpoint, unknownMark, queue>>
    BY <1>0, <1>1 DEF StartTask, TypeOK
  <2>2. AgentRow(r)'
    BY <1>0, <1>1, <2>1 DEF StartTask, AgentRow, TypeOK
  <2>3. reports'[r] >= reports[r]
    BY <1>0, <2>1 DEF TypeOK
  <2> QED BY <1>0, <2>1, <2>2, <2>3, AgentInvMoves
<1>2. CASE PassGate(r)
  <2>1. /\ task[r] \in Tasks /\ effect[r] = "absent"
        /\ \A a \in Agents : effect[a] = "unknown" => task[a] # task[r]
    <3>1. task[r] \in Tasks /\ effect[r] = "absent"
      BY <1>0, <1>2 DEF PassGate, AgentRow, AgentOK
    <3>2. ASSUME NEW a \in Agents, effect[a] = "unknown" PROVE task[a] # task[r]
      BY <1>0, <1>2, <3>2 DEF PassGate, GateOpen, AgentRow
    <3> QED BY <3>1, <3>2
  <2>2. /\ \A a \in Agents \ {r} :
              UNCHANGED <<pc[a], effect[a], task[a], reports[a], result[a]>>
        /\ pc'[r] = "gated"
        /\ checkpoint' = [checkpoint EXCEPT ![task[r]] = "in_progress"]
        /\ unknownMark' = [unknownMark EXCEPT ![task[r]] = FALSE]
        /\ UNCHANGED <<effect, task, reconciled, reports, result, terminal, queue>>
    BY <1>0, <1>2 DEF PassGate, Capture, TypeOK
  <2>3. AgentRow(r)'
    BY <1>0, <2>1, <2>2 DEF AgentRow, TypeOK
  <2>4. \A t \in Tasks : checkpoint[t] # "none" => checkpoint'[t] # "none"
    BY <1>0, <2>2 DEF TypeOK
  <2>5. \A a \in Agents \ {r} : effect[a] = "unknown" =>
               unknownMark'[task[a]] = unknownMark[task[a]]
    <3> SUFFICES ASSUME NEW a \in Agents \ {r}, effect[a] = "unknown"
                 PROVE  unknownMark'[task[a]] = unknownMark[task[a]]
      OBVIOUS
    <3>1. task[a] \in Tasks
      BY <1>0 DEF AgentRow
    <3>2. task[a] # task[r] /\ unknownMark \in [Tasks -> BOOLEAN]
      BY <1>0, <2>1 DEF TypeOK
    <3> QED BY <2>2, <3>1, <3>2, Zenon
  <2>6. reports'[r] >= reports[r]
    BY <1>0, <2>2 DEF TypeOK
  <2> QED BY <1>0, <2>1, <2>2, <2>3, <2>4, <2>5, <2>6, AgentInvMoves
<1>3. CASE CaptureFinal(r)
  <2>1. /\ task[r] \in Tasks /\ effect[r] = "executing"
        /\ \A a \in Agents : effect[a] = "unknown" => task[a] # task[r]
    <3>1. task[r] \in Tasks /\ effect[r] = "executing"
      BY <1>0, <1>3 DEF CaptureFinal, AgentRow, AgentOK
    <3> QED BY <1>0, <1>3, <3>1 DEF CaptureFinal, NoBlindRetry
  <2>2. /\ \A a \in Agents \ {r} :
              UNCHANGED <<pc[a], effect[a], task[a], reports[a], result[a]>>
        /\ pc'[r] = "captured" /\ pc[r] = "finishing"
        /\ result'[r] = "ok" => result[r] = "ok"
        /\ UNCHANGED <<effect, task, reconciled, reports, terminal, queue>>
    BY <1>0, <1>3 DEF CaptureFinal, Capture, TypeOK
  <2>3. \A t \in Tasks : checkpoint[t] # "none" => checkpoint'[t] # "none"
    BY <1>0, <1>3 DEF CaptureFinal, Capture, FinalCheckpoint, TypeOK
  <2>4. AgentRow(r)'
    BY <1>0, <2>1, <2>2, <2>3 DEF AgentRow, TypeOK
  <2>5. \A a \in Agents \ {r} : effect[a] = "unknown" =>
               unknownMark'[task[a]] = unknownMark[task[a]]
    BY <1>0, <1>3, <2>1 DEF CaptureFinal, Capture, TypeOK, AgentRow
  <2>6. reports'[r] >= reports[r]
    BY <1>0, <2>2 DEF TypeOK
  <2> QED BY <1>0, <2>1, <2>2, <2>3, <2>4, <2>5, <2>6, AgentInvMoves
<1>4. ASSUME UNCHANGED <<checkpoint, unknownMark, terminal, reconciled, task>>,
             \A a \in Agents \ {r} : UNCHANGED <<pc[a], effect[a], reports[a], result[a]>>,
             reports'[r] >= reports[r],
             effect'[r] # "unknown",
             effect'[r] = "completed_success" =>
                 reports'[r] > 0 \/ effect[r] = "completed_success",
             effect'[r] # "absent" => effect[r] # "absent" \/ pc[r] = "gated",
             pc[r] # "idle", pc'[r] \notin {"idle", "gated"},
             pc'[r] = "reported" \/ result'[r] = "ok" => reports'[r] > 0,
             queue' = queue \/ \E e \in TerminalEvents :
               /\ queue' = Append(queue, [task |-> task[r], event |-> e])
               /\ e = "completed" => reports'[r] > 0,
             \/ pc'[r] \in {"notifying", "gone"}
             \/ pc[r] \notin {"gating", "notifying", "gone"}
      PROVE  AgentInv'
  <2>1. AgentRow(r)'
    <3>1. task[r] \in Tasks /\ task[r] # Nothing
      BY <1>0, <1>4, RunEffectsAssumption DEF AgentRow
    <3> QED BY <1>0, <1>4, <3>1 DEF AgentRow
  <2> QED BY <1>0, <1>4, <2>1, AgentInvMoves
<1> HIDE DEF TerminalEvents
<1>5. CASE RefuseAgent(r)
  <2>1. effect[r] # "unknown" /\ reports[r] \in Nat
    BY <1>0, <1>5 DEF RefuseAgent, AgentOK, TypeOK
  <2> QED BY <1>0, <1>4, <1>5, <2>1 DEF RefuseAgent, TypeOK
<1>6. CASE PrepareAgent(r)
  <2>1. reports[r] \in Nat /\ (result[r] = "ok" => reports[r] > 0)
    BY <1>0 DEF TypeOK, AgentRow
  <2> QED BY <1>0, <1>4, <1>6, <2>1 DEF PrepareAgent, TypeOK
<1>7. CASE AcquireAgentLease(r) \/ MarkAgentExecuting(r) \/ ContinueAgent(r)
  <2>1. /\ reports[r] \in Nat /\ (result[r] = "ok" => reports[r] > 0)
        /\ effect[r] \in {"prepared", "executing"}
    BY <1>0, <1>7 DEF TypeOK, AgentRow, AgentOK, AcquireAgentLease, MarkAgentExecuting,
                      ContinueAgent
  <2> QED BY <1>0, <1>4, <1>7, <2>1
          DEF AcquireAgentLease, MarkAgentExecuting, ContinueAgent, TypeOK
<1>8. CASE ReportCompleted(r)
  <2>1. /\ reports[r] \in Nat /\ effect[r] = "executing" /\ "completed" \in TerminalEvents
        /\ reports'[r] > 0 /\ reports'[r] >= reports[r]
    BY <1>0, <1>8 DEF TypeOK, AgentOK, ReportCompleted, TerminalEvents
  <2>2. queue' = Append(queue, [task |-> task[r], event |-> "completed"])
    BY <1>8 DEF ReportCompleted, Emit
  <2> QED BY <1>0, <1>4, <1>8, <2>1, <2>2 DEF ReportCompleted, TypeOK
<1>9. ASSUME NEW res \in {"ok", "err", "cancelled"}, ReturnAgent(r, res) PROVE AgentInv'
  <2>1. /\ reports[r] \in Nat /\ effect[r] = "executing"
        /\ res = "ok" => reports[r] > 0
    BY <1>0, <1>9 DEF TypeOK, AgentOK, AgentRow, ReturnAgent
  <2> QED BY <1>0, <1>4, <1>9, <2>1 DEF ReturnAgent, TypeOK
<1>10. CASE CompleteAgentEffect(r)
  <2>1. /\ reports[r] \in Nat /\ effect[r] = "executing"
        /\ result[r] = "ok" => reports[r] > 0
    BY <1>0, <1>10 DEF TypeOK, AgentOK, AgentRow, CompleteAgentEffect
  <2> QED BY <1>0, <1>4, <1>10, <2>1 DEF CompleteAgentEffect, TypeOK
<1>11. CASE ReleaseAgentLease(r) \/ SkipComplete(r) \/ RemoveActive(r) \/ NotifyEnd(r)
  <2>1. /\ \A a \in Agents \ {r} : UNCHANGED <<pc[a], effect[a], task[a], reports[a], result[a]>>
        /\ UNCHANGED <<effect, task, reports, result, reconciled, terminal, checkpoint, unknownMark>>
        /\ pc[r] \notin {"idle", "gated"} /\ pc'[r] \notin {"idle", "gated", "reported"}
        /\ \/ pc'[r] \in {"notifying", "gone"} \/ pc[r] \notin {"gating", "notifying", "gone"}
    BY <1>0, <1>11 DEF ReleaseAgentLease, SkipComplete, RemoveActive, NotifyEnd, TypeOK
  <2>2. queue' = queue \/ \E e \in TerminalEvents :
               /\ queue' = Append(queue, [task |-> task[r], event |-> e])
               /\ e # "completed"
    <3>1. CASE NotifyEnd(r) /\ queue' # queue
      <4>1. queue' = Append(queue, [task |-> task[r],
                       event |-> IF result[r] = "cancelled" THEN "stopped" ELSE "failed"])
        BY <3>1 DEF NotifyEnd, Emit
      <4> QED BY <4>1 DEF TerminalEvents
    <3>2. CASE ~NotifyEnd(r)
      BY <1>11, <3>2 DEF ReleaseAgentLease, SkipComplete, RemoveActive
    <3> QED BY <3>1, <3>2
  <2>3. ASSUME NEW a \in Agents PROVE AgentRow(a)'
    BY <1>0, <2>1 DEF AgentRow
  <2>4. reports'[r] >= reports[r]
    BY <1>0, <2>1 DEF TypeOK
  <2> QED BY <1>0, <2>1, <2>2, <2>3, <2>4, AgentInvMoves
<1> QED
  BY <1>1, <1>2, <1>3, <1>5, <1>6, <1>7, <1>8, <1>9, <1>10, <1>11 DEF AgentStep

\* So does the startup pass: only its sweep makes an effect unknown, when no
\* worker runs, and it marks the task in the same transaction.
LEMMA AgentInvRecovery ==
    ASSUME IInv, AgentInv, RecoveryStep
    PROVE  AgentInv'
<1> USE DEF recoveryDb, history, RecoverFrame
<1>0. /\ TypeOK /\ LoopOK /\ \A x \in Runs : RunOK(x)
      /\ \A a \in Agents : AgentRow(a)
      /\ TasksReported /\ AgentSuccessWasReported /\ NoBlindRetry
  BY AgentInvParts DEF IInv
<1>1. (AgentInv <=> /\ \A a \in Agents : AgentRow(a)
                    /\ TasksReported /\ AgentSuccessWasReported /\ NoBlindRetry)'
  BY DEF AgentInv, AgentRow, TasksReported
<1>2. CASE Sweep
  <2>1. UNCHANGED <<pc, task, reports, result, reconciled, terminal, checkpoint, queue>>
    BY <1>2 DEF Sweep
  <2>2. \A a \in Agents : AgentRow(a)'
    <3> SUFFICES ASSUME NEW a \in Agents PROVE AgentRow(a)'
      OBVIOUS
    <3>1. /\ effect'[a] = IF effect[a] = "executing" THEN "unknown" ELSE effect[a]
          /\ effect'[a] = "unknown" => task[a] \in Tasks
      BY <1>0, <1>2 DEF Sweep, Open, TypeOK, AgentRow
    <3>2. effect'[a] = "unknown" => unknownMark'[task[a]]
      BY <1>0, <1>2, <3>1 DEF Sweep, Open, AgentRow
    <3> QED BY <1>0, <2>1, <3>1, <3>2 DEF AgentRow
  <2>3. TasksReported'
    BY <1>0, <2>1 DEF TasksReported, Reported
  <2>4. AgentSuccessWasReported'
    BY <1>0, <1>2, <2>1 DEF AgentSuccessWasReported, Sweep, TypeOK
  <2>5. NoBlindRetry'
    BY <1>0, <1>2, <2>1 DEF NoBlindRetry, Sweep, RunOK
  <2> QED BY <1>1, <2>2, <2>3, <2>4, <2>5
<1>3. CASE Reconcile
  <2>1. /\ cur.run \in Runs /\ reconciled[cur.run] = "none"
        /\ effect[cur.run] = "unknown"
    BY <1>0, <1>3 DEF Reconcile, TypeOK, LoopOK, RunOK
  <2>2. UNCHANGED <<pc, task, reports, result, terminal, checkpoint, unknownMark, queue>>
    BY <1>3 DEF Reconcile
  <2>3. /\ \A a \in Agents : a # cur.run => UNCHANGED <<effect[a], reconciled[a]>>
        /\ effect'[cur.run] \in {"unknown", "completed_success"}
        /\ effect'[cur.run] = "completed_success" => reconciled'[cur.run] # "none"
        /\ reconciled'[cur.run] = "reconciled_success" => Verified(cur.run)
    BY <1>0, <1>3, <2>1 DEF Reconcile, TypeOK
  <2>4. \A a \in Agents : AgentRow(a)'
    BY <1>0, <2>1, <2>2, <2>3 DEF AgentRow
  <2>5. TasksReported'
    BY <1>0, <2>2 DEF TasksReported, Reported
  <2>6. AgentSuccessWasReported'
    <3>1. ASSUME cur.run \in Agents, Verified(cur.run)
          PROVE  \E b \in Agents : task[b] = task[cur.run] /\ reports[b] > 0
      <4>1. task[cur.run] \in Tasks /\ terminal[task[cur.run]] = "completed"
        BY <1>0, <2>1, <3>1 DEF AgentRow, Verified
      <4> QED BY <1>0, <4>1 DEF TasksReported, Reported
    <3> HIDE DEF Verified
    <3> QED BY <1>0, <2>2, <2>3, <3>1 DEF AgentSuccessWasReported
  <2>7. NoBlindRetry'
    BY <1>0, <2>1, <2>2, <2>3 DEF NoBlindRetry
  <2> QED BY <1>1, <2>4, <2>5, <2>6, <2>7
<1>4. CASE AppendRecoveryEvents
  <2>1. UNCHANGED <<effect, pc, task, reports, result, reconciled, terminal, checkpoint, queue>>
    BY <1>4 DEF AppendRecoveryEvents
  <2>2. \A t \in Tasks : unknownMark[t] => unknownMark'[t]
    BY <1>4 DEF AppendRecoveryEvents
  <2>3. \A a \in Agents : AgentRow(a)'
    BY <1>0, <2>1, <2>2 DEF AgentRow
  <2>4. TasksReported' /\ AgentSuccessWasReported' /\ NoBlindRetry'
    BY <1>0, <2>1 DEF TasksReported, Reported, AgentSuccessWasReported, NoBlindRetry
  <2> QED BY <1>1, <2>3, <2>4
<1>5. CASE UNCHANGED <<effect, pc, task, reports, result, reconciled, terminal, checkpoint,
                       unknownMark, queue>>
  BY <1>5, FrameAgentInv
<1> QED
  BY <1>2, <1>3, <1>4, <1>5
     DEF RecoveryStep, BeginRecovering, BeginReconciling, UpdateRunStatus, DecideRecovery,
         GoUp, durable

\* A heartbeat, an expiring lease and a start concern none of this; the
\* journal writer moves a reported completion from the queue to its task; a
\* crash empties the queue and leaves no worker.
LEMMA AgentInvEnvironment ==
    ASSUME IInv, AgentInv,
           \/ \E r \in Runs : Heartbeat(r) \/ LeaseExpires(r)
           \/ JournalEvent \/ Crash \/ Start
    PROVE  AgentInv'
<1> USE DEF recoveryDb, history, durable, taskDb, volatile
<1>0. /\ TypeOK /\ \A a \in Agents : AgentRow(a)
      /\ TasksReported /\ AgentSuccessWasReported /\ NoBlindRetry
      /\ \A a \in Agents : AgentOK(a)
  BY AgentInvParts DEF IInv
<1>1. (AgentInv <=> /\ \A a \in Agents : AgentRow(a)
                    /\ TasksReported /\ AgentSuccessWasReported /\ NoBlindRetry)'
  BY DEF AgentInv, AgentRow, TasksReported
<1>2. CASE (\E r \in Runs : Heartbeat(r) \/ LeaseExpires(r)) \/ Start
  BY <1>2, FrameAgentInv DEF Heartbeat, LeaseExpires, Start
<1>3. CASE JournalEvent
  <2> DEFINE E == [task : Tasks \cup {Nothing}, event : TerminalEvents]
  <2>1. queue \in Seq(E) /\ queue # <<>>
    BY <1>0, <1>3 DEF TypeOK, JournalEvent
  <2>2. /\ 1 \in DOMAIN queue /\ Head(queue) = queue[1]
        /\ \A n \in DOMAIN Tail(queue) : n + 1 \in DOMAIN queue /\ Tail(queue)[n] = queue[n + 1]
    <3> HIDE DEF E
    <3> QED BY <2>1
  <2>3. UNCHANGED <<effect, pc, task, reports, result, reconciled, checkpoint, unknownMark>>
    BY <1>3 DEF JournalEvent
  <2>4. \A t \in Tasks : terminal'[t] = "completed" => Reported(t)
    BY <1>0, <1>3, <2>2 DEF JournalEvent, TasksReported, TypeOK
  <2>5. \A n \in DOMAIN queue' : queue'[n].event = "completed" =>
            \E b \in Agents : task[b] = queue'[n].task /\ reports[b] > 0
    BY <1>0, <1>3, <2>2 DEF JournalEvent, TasksReported, Reported
  <2>6. TasksReported'
    BY <2>3, <2>4, <2>5 DEF TasksReported, Reported
  <2>7. (\A a \in Agents : AgentRow(a)') /\ AgentSuccessWasReported' /\ NoBlindRetry'
    BY <1>0, <2>3 DEF AgentRow, AgentSuccessWasReported, NoBlindRetry
  <2> QED BY <1>1, <2>6, <2>7
<1>4. CASE Crash
  <2>1. /\ UNCHANGED <<effect, task, reports, result, reconciled, terminal, checkpoint, unknownMark>>
        /\ queue' = <<>>
        /\ \A a \in Agents : pc'[a] = IF pc[a] # "idle" THEN "gone" ELSE "idle"
    BY <1>4 DEF Crash, Runs
  <2>2. \A a \in Agents : AgentRow(a)'
    BY <1>0, <2>1 DEF AgentRow
  <2>3. TasksReported'
    BY <1>0, <2>1 DEF TasksReported, Reported
  <2>4. AgentSuccessWasReported' /\ NoBlindRetry'
    BY <1>0, <2>1 DEF AgentSuccessWasReported, NoBlindRetry
  <2> QED BY <1>1, <2>2, <2>3, <2>4
<1> QED BY <1>2, <1>3, <1>4

\* The second invariant, with the first, holds of every reachable state.
THEOREM AgentInvariance == Spec => []AgentInv
<1>1. Init => AgentInv
  BY RunEffectsAssumption DEF Init, AgentInv, AgentSuccessWasReported, NoBlindRetry
<1>2. IInv /\ AgentInv /\ [Next]_vars => AgentInv'
  <2> SUFFICES ASSUME IInv, AgentInv, [Next]_vars PROVE AgentInv'
    OBVIOUS
  <2>1. CASE UNCHANGED vars
    BY <2>1, FrameAgentInv DEF vars, durable, volatile, history
  <2>2. ASSUME NEW r \in Builds, BuildStep(r) PROVE AgentInv'
    <3>1. r \notin Agents /\ TypeOK
      BY RunEffectsAssumption DEF IInv
    <3>2. /\ \A a \in Agents : UNCHANGED <<pc[a], effect[a], task[a], reconciled[a]>>
          /\ UNCHANGED <<reports, result, terminal, checkpoint, unknownMark, queue>>
      BY <2>2, <3>1 DEF BuildStep, PrepareBuild, AcquireBuildLease, MarkBuildExecuting,
         TouchWorkspace, ApplySucceeds, ApplyFails, SaveSnapshot, AuditApplied,
         CompleteBuildEffect, CloseBuildStatus, ReleaseBuildLease, AbortBuild, RefuseBuild,
         Step, Goto, BuildFrame, taskDb, recoveryDb, vars, durable, volatile, history, TypeOK
    <3> QED BY <3>2, FrameAgentInv
  <2> QED
    BY <2>1, <2>2, AgentInvAgents, AgentInvRecovery, AgentInvEnvironment DEF Next
<1> QED BY <1>1, <1>2, Invariance, PTL DEF Spec

\* complete_agent_run records a success only of a run that reported its
\* completion, and reconcile_agent_run_effect only when some run of the task did.
THEOREM ReportedSuccess == Spec => []AgentSuccessWasReported
<1>1. AgentInv => AgentSuccessWasReported
  BY DEF AgentInv
<1> QED BY <1>1, AgentInvariance, PTL

\* The checkpoint gate lets no second run of a task through while the outcome
\* of the first is unknown.
THEOREM GateBlocksRetry == Spec => []NoBlindRetry
<1>1. AgentInv => NoBlindRetry
  BY DEF AgentInv
<1> QED BY <1>1, AgentInvariance, PTL

=============================================================================
