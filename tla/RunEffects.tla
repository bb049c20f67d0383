----------------------------- MODULE RunEffects -----------------------------
(***************************************************************************)
(* Durable run effects of EvoHime Core: the write-ahead record of an       *)
(* approved build or of an agent task, the lease that guards it while it   *)
(* executes, and the startup pass that decides what became of the effects  *)
(* a crash left open.                                                      *)
(*                                                                         *)
(* Durable state is what SQLite holds.  Every action is one commit, so a   *)
(* Crash can fall between any two of them; volatile state (the position    *)
(* of each worker, its heartbeat flag, the event queue and the list of     *)
(* records the recovery loop is working through) is lost by a Crash.       *)
(*                                                                         *)
(* Coordinator commands are handled one at a time, so at most one build    *)
(* command is active; agent tasks are spawned and interleave freely.       *)
(***************************************************************************)
EXTENDS Naturals, Sequences, FiniteSets

CONSTANTS
    Builds,      \* run ids of build commands
    Agents,      \* run ids of agent tasks, each used by one StartTask
    Tasks,       \* task (work item) ids; one workspace per task id
    Intents,     \* intent hashes of approved builds
    Nothing,     \* a column that is NULL
    MaxCrashes,  \* bound on the crashes of the Core process
    MaxReports   \* bound on the attempts of one agent run

ASSUME RunEffectsAssumption ==
    /\ Builds \cap Agents = {}
    /\ Nothing \notin Tasks \cup Intents
    /\ MaxCrashes \in Nat
    /\ MaxReports \in Nat

Runs == Builds \cup Agents

VARIABLES
    effect,      \* run_effects.state / agent_run_effects.state
    intent,      \* immutable_intent_hash of a build effect
    task,        \* work item of the run
    lease,       \* run_leases row: none, live, or past lease_expires_at
    status,      \* runs.status (build runs only)
    snapshots,   \* rows of snapshots, oldest first
    audited,     \* builds with a "build.applied" audit event
    reconciled,  \* run_reconciliations row of the effect
    recovery,    \* newest run_recovery state of the run
    terminal,    \* newest journalled terminal event of a task
    checkpoint,  \* newest task checkpoint status of a task
    unknownMark, \* a run.recovery.blocked event follows that checkpoint
    pc,          \* where the worker of a run is
    hbFailed,    \* heartbeat task stored a failure
    result,      \* what the agent executor returned
    queue,       \* CoreEvents waiting for the journal writer
    boot,        \* down, sweep, recover or up
    todo,        \* records the recovery loop still has to decide
    cur,         \* the record it is deciding, with its stage and verdict
    workspace,   \* (world) what a build did to the workspace
    dispatched,  \* (history) times the run's work was started
    reports,     \* (history) times the executor reported completion
    crashes      \* crashes so far

durable  == <<effect, intent, task, lease, status, snapshots, audited,
              reconciled, recovery, terminal, checkpoint, unknownMark>>
volatile == <<pc, hbFailed, result, queue, boot, todo, cur>>
history  == <<workspace, dispatched, reports, crashes>>
vars     == <<durable, volatile, history>>

EffectStates == {"absent", "prepared", "executing", "completed_success",
                 "completed_failure", "unknown"}
Completed    == {"completed_success", "completed_failure"}
RecoveryStates  == {"none", "recovering", "reconciling", "resumable", "blocked"}
RecoveryDecided == {"resumable", "blocked"}
TerminalEvents  == {"completed", "failed", "stopped"}
CheckpointStates == {"none", "in_progress", "paused", "completed", "failed",
                     "conflicted"}

BuildPCs == {"idle", "prepared", "leased", "working", "applied", "refused",
             "snapped", "audited", "closing", "closing_failed", "releasing"}
AgentPCs == {"idle", "gating", "gated", "prepared", "leased", "working",
             "reported", "finishing", "captured", "releasing", "removing",
             "notifying", "gone"}

NoRecord == [run |-> Nothing, stage |-> "next", success |-> FALSE]

\* The snapshot id is derived from the intent hash alone.
HasSnapshotId(i) == \E n \in DOMAIN snapshots : snapshots[n].id = i

\* latest_snapshot_for_task: the newest snapshot of any run of the task.
IsLatestSnapshot(n, t) ==
    /\ n \in DOMAIN snapshots
    /\ task[snapshots[n].run] = t
    /\ \A m \in DOMAIN snapshots :
          task[snapshots[m].run] = t => m <= n

\* Mutant: any snapshot of the task, or any terminal event, counts as proof.
VerifiedByAnyRun(r) ==
    IF r \in Agents
    THEN terminal[task[r]] # "none"
    ELSE \E n \in DOMAIN snapshots : IsLatestSnapshot(n, task[r])

\* The verifier of recover_and_reconcile_after_restart.
Verified(r) ==
    IF r \in Agents
    THEN terminal[task[r]] = "completed"
    ELSE \E n \in DOMAIN snapshots :
            IsLatestSnapshot(n, task[r]) /\ snapshots[n].run = r

\* Which stage may follow which (transition_recovery).
ValidTransition(from, to) ==
    \/ from = "none" /\ to = "recovering"
    \/ from = "recovering" /\ to = "reconciling"
    \/ from = "reconciling" /\ to \in RecoveryDecided
    \/ from = to /\ from \in RecoveryDecided

Init ==
    /\ effect = [r \in Runs |-> "absent"]
    /\ intent = [r \in Builds |-> Nothing]
    /\ task = [r \in Runs |-> Nothing]
    /\ lease = [r \in Runs |-> "none"]
    /\ status = [r \in Builds |-> "absent"]
    /\ snapshots = <<>>
    /\ audited = {}
    /\ reconciled = [r \in Runs |-> "none"]
    /\ recovery = [r \in Runs |-> "none"]
    /\ terminal = [t \in Tasks |-> "none"]
    /\ checkpoint = [t \in Tasks |-> "none"]
    /\ unknownMark = [t \in Tasks |-> FALSE]
    /\ pc = [r \in Runs |-> "idle"]
    /\ hbFailed = [r \in Runs |-> FALSE]
    /\ result = [r \in Agents |-> "none"]
    /\ queue = <<>>
    /\ boot = "down"
    /\ todo = {}
    /\ cur = NoRecord
    /\ workspace = [r \in Builds |-> "untouched"]
    /\ dispatched = [r \in Runs |-> 0]
    /\ reports = [r \in Agents |-> 0]
    /\ crashes = 0

Goto(r, label) == pc' = [pc EXCEPT ![r] = label]
Step(r, from, to) == boot = "up" /\ pc[r] = from /\ Goto(r, to)

startup    == <<boot, todo, cur>>
recoveryDb == <<reconciled, recovery>>
taskDb     == <<terminal, checkpoint, unknownMark>>
buildDb    == <<intent, status, snapshots, audited>>

\* What no build command touches, and what no agent task touches.
BuildFrame == UNCHANGED <<taskDb, recoveryDb, startup, result, queue,
                          reports, crashes>>
AgentFrame == UNCHANGED <<buildDb, recoveryDb, startup, workspace, crashes>>

-----------------------------------------------------------------------------
(***************************************************************************)
(* ApplyApprovedBuild: begin_build_effect, the worker, complete_build_effect*)
(***************************************************************************)

\* Mutant: an effect of unknown outcome may be dispatched again.
DispatchableOrUnknown(r) == effect[r] \in {"prepared", "unknown"}

\* The state match of begin_build_effect and begin_agent_run.
Dispatchable(r) == effect[r] = "prepared"

\* prepare_run_effect: run, checkpoint and effect rows in one transaction,
\* each INSERT OR IGNORE.  An attempt on a run whose effect has another intent
\* or is past "prepared" is refused and changes nothing.
PrepareBuild(r, i, t) ==
    /\ \A b \in Builds : pc[b] = "idle"
    /\ Step(r, "idle", "prepared")
    /\ \/ /\ effect[r] = "absent"
          /\ effect' = [effect EXCEPT ![r] = "prepared"]
          /\ intent' = [intent EXCEPT ![r] = i]
          /\ task' = [task EXCEPT ![r] = t]
          /\ status' = [status EXCEPT ![r] = "running"]
       \/ /\ Dispatchable(r)
          /\ intent[r] = i
          /\ UNCHANGED <<effect, intent, task, status>>
    /\ UNCHANGED <<lease, snapshots, audited, hbFailed, workspace, dispatched>>
    /\ BuildFrame

\* acquire_run_lease: the lease id is a function of the run and the owner is
\* always "core", so a left-over row of an earlier attempt is renewed.
AcquireBuildLease(r) ==
    /\ Step(r, "prepared", "leased")
    /\ lease' = [lease EXCEPT ![r] = "live"]
    /\ UNCHANGED <<effect, task, buildDb, hbFailed, workspace, dispatched>>
    /\ BuildFrame

\* mark_effect_executing updates the row only WHERE state = 'prepared', and
\* begin_build_effect goes on to dispatch whatever the row says.
MarkBuildExecuting(r) ==
    /\ Step(r, "leased", "working")
    /\ effect' = [effect EXCEPT ![r] =
                     IF @ = "prepared" THEN "executing" ELSE @]
    /\ hbFailed' = [hbFailed EXCEPT ![r] = FALSE]
    /\ dispatched' = [dispatched EXCEPT ![r] = @ + 1]
    /\ UNCHANGED <<task, lease, buildDb, workspace>>
    /\ BuildFrame

\* apply_changes starts to write files.
TouchWorkspace(r) ==
    /\ Step(r, "working", "working")
    /\ workspace[r] = "untouched"
    /\ workspace' = [workspace EXCEPT ![r] = "partial"]
    /\ UNCHANGED <<effect, task, lease, buildDb, hbFailed, dispatched>>
    /\ BuildFrame

\* apply_approved_build returned Ok.
ApplySucceeds(r) ==
    /\ workspace[r] = "partial"
    /\ Step(r, "working", "applied")
    /\ workspace' = [workspace EXCEPT ![r] = "applied"]
    /\ UNCHANGED <<effect, task, lease, buildDb, hbFailed, dispatched>>
    /\ BuildFrame

\* apply_approved_build returned Err: a check refused the build before the
\* first write, or a write failed and restore_snapshot was tried (its own
\* failure is ignored, which leaves the workspace partly changed).
ApplyFails(r) ==
    /\ Step(r, "working", "refused")
    /\ \/ workspace' = [workspace EXCEPT ![r] = "untouched"]
       \/ workspace[r] = "partial" /\ UNCHANGED workspace
    /\ UNCHANGED <<effect, task, lease, buildDb, hbFailed, dispatched>>
    /\ BuildFrame

\* save_snapshot: a plain INSERT, so the id must be new.
SaveSnapshot(r) ==
    /\ ~HasSnapshotId(intent[r])
    /\ Step(r, "applied", "snapped")
    /\ snapshots' = Append(snapshots, [id |-> intent[r], run |-> r])
    /\ UNCHANGED <<effect, task, lease, intent, status, audited, hbFailed,
                   workspace, dispatched>>
    /\ BuildFrame

\* Mutant: the failure stored by the heartbeat task is not looked at.
IgnoreHeartbeat(r) == TRUE

\* heartbeat_failure is read once the snapshot is saved.
HeartbeatHeld(r) == ~hbFailed[r]

\* record_audit("build.applied"), reached only if no heartbeat failed.
AuditApplied(r) ==
    /\ HeartbeatHeld(r)
    /\ Step(r, "snapped", "audited")
    /\ audited' = audited \cup {r}
    /\ UNCHANGED <<effect, task, lease, intent, status, snapshots, hbFailed,
                   workspace, dispatched>>
    /\ BuildFrame

\* complete_run_effect, first of the three commits of complete_build_effect.
\* The worker's verdict is success exactly when it comes from "audited".
CompleteBuildEffect(r) ==
    /\ boot = "up"
    /\ pc[r] \in {"audited", "refused"}
    /\ effect' = [effect EXCEPT ![r] =
                    IF @ # "executing" THEN @
                    ELSE IF pc[r] = "audited" THEN "completed_success"
                         ELSE "completed_failure"]
    /\ Goto(r, IF pc[r] = "audited" THEN "closing" ELSE "closing_failed")
    /\ UNCHANGED <<task, lease, buildDb, hbFailed, workspace, dispatched>>
    /\ BuildFrame

\* update_run_status, unconditional.
CloseBuildStatus(r) ==
    /\ boot = "up"
    /\ pc[r] \in {"closing", "closing_failed"}
    /\ status' = [status EXCEPT ![r] =
                    IF pc[r] = "closing" THEN "completed" ELSE "failed"]
    /\ Goto(r, "releasing")
    /\ UNCHANGED <<effect, task, lease, intent, snapshots, audited, hbFailed,
                   workspace, dispatched>>
    /\ BuildFrame

\* release_run_lease
ReleaseBuildLease(r) ==
    /\ Step(r, "releasing", "idle")
    /\ lease' = [lease EXCEPT ![r] = "none"]
    /\ UNCHANGED <<effect, task, buildDb, hbFailed, workspace, dispatched>>
    /\ BuildFrame

\* Any `?` of the command: a storage error, a panicking worker, a snapshot id
\* that is taken, a failed heartbeat.  The durable rows stay as they are.
AbortBuild(r) ==
    /\ boot = "up"
    /\ pc[r] # "idle"
    /\ Goto(r, "idle")
    /\ UNCHANGED <<effect, task, lease, buildDb, hbFailed, workspace,
                   dispatched>>
    /\ BuildFrame

\* begin_build_effect on an effect that is past "prepared": an error reply.
RefuseBuild(r) ==
    /\ boot = "up"
    /\ \A b \in Builds : pc[b] = "idle"
    /\ effect[r] # "absent"
    /\ ~Dispatchable(r)
    /\ UNCHANGED vars

BuildStep(r) ==
    \/ \E i \in Intents, t \in Tasks : PrepareBuild(r, i, t)
    \/ AcquireBuildLease(r) \/ MarkBuildExecuting(r)
    \/ TouchWorkspace(r) \/ ApplySucceeds(r) \/ ApplyFails(r)
    \/ SaveSnapshot(r) \/ AuditApplied(r)
    \/ CompleteBuildEffect(r) \/ CloseBuildStatus(r) \/ ReleaseBuildLease(r)
    \/ AbortBuild(r) \/ RefuseBuild(r)

-----------------------------------------------------------------------------
(***************************************************************************)
(* StartTask: the checkpoint gate, begin_agent_run, the executor and its    *)
(* continuations, the closing checkpoint, complete_agent_run, the notice.   *)
(***************************************************************************)

\* The task id is in the coordinator's map of active tasks.
Active(t) == \E a \in Agents :
                task[a] = t /\ pc[a] \notin {"idle", "notifying", "gone"}

Emit(r, e) == queue' = Append(queue, [task |-> task[r], event |-> e])

\* StartTask takes a fresh run id; a task that is already active is ignored.
StartTask(r, t) ==
    /\ effect[r] = "absent"
    /\ task[r] = Nothing
    /\ ~Active(t)
    /\ Step(r, "idle", "gating")
    /\ task' = [task EXCEPT ![r] = t]
    /\ UNCHANGED <<effect, lease, taskDb, hbFailed, result, queue, dispatched,
                   reports>>
    /\ AgentFrame

\* Mutant: the events after the checkpoint are not replayed.
GateIgnoresEvents(t) == checkpoint[t] \in {"none", "in_progress", "paused"}

\* TaskCheckpointRuntime::recover, disposition Blocked or Terminal refuses.
GateOpen(t) ==
    /\ checkpoint[t] \in {"none", "in_progress", "paused"}
    /\ checkpoint[t] # "none" => ~unknownMark[t]

\* capture: a new newest checkpoint, whose sequence is past every event.
Capture(t, s) ==
    /\ checkpoint' = [checkpoint EXCEPT ![t] = s]
    /\ unknownMark' = [unknownMark EXCEPT ![t] = FALSE]
    /\ UNCHANGED terminal

PassGate(r) ==
    /\ Step(r, "gating", "gated")
    /\ GateOpen(task[r])
    /\ Capture(task[r], "in_progress")
    /\ UNCHANGED <<effect, task, lease, hbFailed, result, queue, dispatched,
                   reports>>
    /\ AgentFrame

\* The gate refuses, no background permit is left, or a storage call fails
\* before the run is dispatched: the task leaves the map, then TaskFailed.
RefuseAgent(r) ==
    /\ boot = "up"
    /\ pc[r] \in {"gating", "gated", "prepared", "leased"}
    /\ Goto(r, "notifying")
    /\ result' = [result EXCEPT ![r] = "err"]
    /\ UNCHANGED <<effect, task, lease, taskDb, hbFailed, queue, dispatched,
                   reports>>
    /\ AgentFrame

\* prepare_agent_run_effect
PrepareAgent(r) ==
    /\ Step(r, "gated", "prepared")
    /\ effect' = [effect EXCEPT ![r] = "prepared"]
    /\ UNCHANGED <<task, lease, taskDb, hbFailed, result, queue, dispatched,
                   reports>>
    /\ AgentFrame

AcquireAgentLease(r) ==
    /\ Step(r, "prepared", "leased")
    /\ lease' = [lease EXCEPT ![r] = "live"]
    /\ UNCHANGED <<effect, task, taskDb, hbFailed, result, queue, dispatched,
                   reports>>
    /\ AgentFrame

MarkAgentExecuting(r) ==
    /\ Step(r, "leased", "working")
    /\ effect' = [effect EXCEPT ![r] =
                     IF @ = "prepared" THEN "executing" ELSE @]
    /\ dispatched' = [dispatched EXCEPT ![r] = @ + 1]
    /\ UNCHANGED <<task, lease, taskDb, hbFailed, result, queue, reports>>
    /\ AgentFrame

\* The executor sends TaskCompleted and goes on to memory extraction.
ReportCompleted(r) ==
    /\ reports[r] < MaxReports
    /\ Step(r, "working", "reported")
    /\ Emit(r, "completed")
    /\ reports' = [reports EXCEPT ![r] = @ + 1]
    /\ UNCHANGED <<effect, task, lease, taskDb, hbFailed, result, dispatched>>
    /\ AgentFrame

\* continuation::decide said Continue: another attempt in the same run.
ContinueAgent(r) ==
    /\ Step(r, "reported", "working")
    /\ UNCHANGED <<effect, task, lease, taskDb, hbFailed, result, queue,
                   dispatched, reports>>
    /\ AgentFrame

\* The executor returns: Ok after its report; an error or a cancellation
\* before it; the task deadline at any time, the extraction included.
ReturnAgent(r, res) ==
    /\ boot = "up"
    /\ \/ pc[r] = "reported" /\ res \in {"ok", "err"}
       \/ pc[r] = "working" /\ res \in {"err", "cancelled"}
    /\ Goto(r, "finishing")
    /\ result' = [result EXCEPT ![r] = res]
    /\ UNCHANGED <<effect, task, lease, taskDb, hbFailed, queue, dispatched,
                   reports>>
    /\ AgentFrame

FinalCheckpoint(r) ==
    IF hbFailed[r] THEN "conflicted"
    ELSE IF result[r] = "ok" THEN "completed"
    ELSE IF result[r] = "cancelled" THEN "paused" ELSE "failed"

\* The closing checkpoint; if it cannot be saved an Ok becomes an error.
CaptureFinal(r) ==
    /\ Step(r, "finishing", "captured")
    /\ \/ /\ Capture(task[r], FinalCheckpoint(r))
          /\ UNCHANGED result
       \/ /\ result' = [result EXCEPT ![r] = IF @ = "ok" THEN "err" ELSE @]
          /\ UNCHANGED taskDb
    /\ UNCHANGED <<effect, task, lease, hbFailed, queue, dispatched, reports>>
    /\ AgentFrame

\* complete_agent_run: skipped when the lease was lost under an Ok result, so
\* that the next start reconciles the effect.
CompleteAgentEffect(r) ==
    /\ ~hbFailed[r] \/ result[r] # "ok"
    /\ Step(r, "captured", "releasing")
    /\ effect' = [effect EXCEPT ![r] =
                    IF @ # "executing" THEN @
                    ELSE IF result[r] = "ok" THEN "completed_success"
                         ELSE "completed_failure"]
    /\ UNCHANGED <<task, lease, taskDb, hbFailed, result, queue, dispatched,
                   reports>>
    /\ AgentFrame

ReleaseAgentLease(r) ==
    /\ Step(r, "releasing", "removing")
    /\ lease' = [lease EXCEPT ![r] = "none"]
    /\ UNCHANGED <<effect, task, taskDb, hbFailed, result, queue, dispatched,
                   reports>>
    /\ AgentFrame

\* complete_agent_run was skipped or failed; its error is ignored.
SkipComplete(r) ==
    /\ boot = "up"
    /\ pc[r] \in {"captured", "releasing"}
    /\ Goto(r, "removing")
    /\ UNCHANGED <<effect, task, lease, taskDb, hbFailed, result, queue,
                   dispatched, reports>>
    /\ AgentFrame

\* state.tasks.remove: from here on the task may be started again.
RemoveActive(r) ==
    /\ Step(r, "removing", "notifying")
    /\ UNCHANGED <<effect, task, lease, taskDb, hbFailed, result, queue,
                   dispatched, reports>>
    /\ AgentFrame

\* TaskFailed, TaskStopped or, after a clean success, nothing.
NotifyEnd(r) ==
    /\ Step(r, "notifying", "gone")
    /\ IF result[r] = "ok" /\ ~hbFailed[r]
       THEN UNCHANGED queue
       ELSE Emit(r, IF result[r] = "cancelled" THEN "stopped" ELSE "failed")
    /\ UNCHANGED <<effect, task, lease, taskDb, hbFailed, result, dispatched,
                   reports>>
    /\ AgentFrame

AgentStep(r) ==
    \/ \E t \in Tasks : StartTask(r, t)
    \/ PassGate(r) \/ RefuseAgent(r)
    \/ PrepareAgent(r) \/ AcquireAgentLease(r) \/ MarkAgentExecuting(r)
    \/ ReportCompleted(r) \/ ContinueAgent(r)
    \/ \E res \in {"ok", "err", "cancelled"} : ReturnAgent(r, res)
    \/ CaptureFinal(r) \/ CompleteAgentEffect(r) \/ ReleaseAgentLease(r)
    \/ SkipComplete(r) \/ RemoveActive(r) \/ NotifyEnd(r)

-----------------------------------------------------------------------------
(***************************************************************************)
(* The heartbeat tasks, the clock and the journal writer.                   *)
(***************************************************************************)

\* The heartbeat task runs while the work does; a rejected heartbeat is
\* remembered and ends it.
Heartbeat(r) ==
    /\ boot = "up"
    /\ pc[r] \in {"working", "reported"}
    /\ ~hbFailed[r]
    /\ lease[r] # "live"
    /\ hbFailed' = [hbFailed EXCEPT ![r] = TRUE]
    /\ UNCHANGED <<durable, pc, result, queue, startup, history>>

\* No heartbeat reached the row for 30 s (a suspended machine, a long lock).
LeaseExpires(r) ==
    /\ lease[r] = "live"
    /\ lease' = [lease EXCEPT ![r] = "expired"]
    /\ UNCHANGED <<effect, task, buildDb, recoveryDb, taskDb, volatile, history>>

\* EventJournal::record, in queue order.
JournalEvent ==
    /\ boot = "up"
    /\ queue # <<>>
    /\ terminal' = [terminal EXCEPT ![Head(queue).task] = Head(queue).event]
    /\ queue' = Tail(queue)
    /\ UNCHANGED <<effect, task, lease, buildDb, recoveryDb, checkpoint,
                   unknownMark, pc, hbFailed, result, startup, history>>

-----------------------------------------------------------------------------
(***************************************************************************)
(* Crash, start, and recover_and_reconcile_after_restart.                   *)
(***************************************************************************)

\* The Core process dies; a worker that had begun is simply gone.
Crash ==
    /\ boot # "down"
    /\ crashes < MaxCrashes
    /\ crashes' = crashes + 1
    /\ pc' = [r \in Runs |->
                IF r \in Agents /\ pc[r] # "idle" THEN "gone" ELSE "idle"]
    /\ hbFailed' = [r \in Runs |-> FALSE]
    /\ queue' = <<>>
    /\ boot' = "down"
    /\ todo' = {}
    /\ cur' = NoRecord
    /\ UNCHANGED <<durable, result, workspace, dispatched, reports>>

Start ==
    /\ boot = "down"
    /\ boot' = "sweep"
    /\ UNCHANGED <<durable, pc, hbFailed, result, queue, todo, cur, history>>

\* Mutants: the sweep also selects unknown effects, or failed ones.
OpenOrUnknown == {r \in Runs : effect[r] \in {"executing", "unknown"}}
OpenOrFailed  == {r \in Runs : effect[r] \in {"executing", "completed_failure"}}

Open == {r \in Runs : effect[r] = "executing"}

\* Mutants: the sweep leaves the lease, or the status of the run, alone.
LeaseKept(r)  == lease[r]
StatusKept(r) == status[r]

SweptLease(r)  == IF r \in Open THEN "none" ELSE lease[r]
SweptStatus(r) == IF r \in Open /\ status[r] = "running" THEN "blocked"
                  ELSE status[r]

\* recover_unknown_effects, one transaction.
Sweep ==
    /\ boot = "sweep"
    /\ effect' = [r \in Runs |-> IF r \in Open THEN "unknown" ELSE effect[r]]
    /\ lease' = [r \in Runs |-> SweptLease(r)]
    /\ status' = [r \in Builds |-> SweptStatus(r)]
    /\ unknownMark' = [t \in Tasks |->
                    unknownMark[t] \/ \E r \in Open : task[r] = t]
    /\ todo' = Open
    /\ boot' = "recover"
    /\ UNCHANGED <<task, intent, snapshots, audited, recoveryDb, terminal,
                   checkpoint, pc, hbFailed, result, queue, cur, history>>

\* transition_recovery / transition_agent_recovery
Advance(r, next) ==
    /\ ValidTransition(recovery[r], next)
    /\ recovery' = [recovery EXCEPT ![r] = next]

RecoverFrame == UNCHANGED <<task, lease, intent, snapshots, audited, terminal,
                            checkpoint, pc, hbFailed, result, queue, history>>

BeginRecovering(r) ==
    /\ boot = "recover"
    /\ cur.stage = "next"
    /\ r \in todo
    /\ Advance(r, "recovering")
    /\ cur' = [run |-> r, stage |-> "recovering", success |-> FALSE]
    /\ UNCHANGED <<effect, status, reconciled, unknownMark, boot, todo>>
    /\ RecoverFrame

BeginReconciling ==
    /\ boot = "recover"
    /\ cur.stage = "recovering"
    /\ Advance(cur.run, "reconciling")
    /\ cur' = [cur EXCEPT !.stage = "reconciling"]
    /\ UNCHANGED <<effect, status, reconciled, unknownMark, boot, todo>>
    /\ RecoverFrame

\* The verifier reads, then reconcile_run_effect / reconcile_agent_run_effect
\* in one transaction; the first record for an effect stays.
Reconcile ==
    /\ boot = "recover"
    /\ cur.stage = "reconciling"
    /\ LET r == cur.run
           ok == Verified(r)
       IN  /\ cur' = [cur EXCEPT !.stage = "verified", !.success = ok]
           /\ reconciled' = [reconciled EXCEPT ![r] =
                 IF @ # "none" THEN @
                 ELSE IF ok THEN "reconciled_success" ELSE "reconciled_blocked"]
           /\ effect' = [effect EXCEPT ![r] =
                 IF reconciled[r] = "none" /\ ok /\ @ = "unknown"
                 THEN "completed_success" ELSE @]
    /\ UNCHANGED <<status, recovery, unknownMark, boot, todo>>
    /\ RecoverFrame

\* Mutant: the status is completed whatever the verifier said.
StatusAlwaysCompleted(r) == IF r = cur.run THEN "completed" ELSE status[r]

StatusAfterVerdict(r) ==
    IF r = cur.run /\ cur.success THEN "completed" ELSE status[r]

\* update_run_status(completed) on success; an agent run has no runs row.
UpdateRunStatus ==
    /\ boot = "recover"
    /\ cur.stage = "verified"
    /\ cur' = [cur EXCEPT !.stage = "status"]
    /\ status' = [r \in Builds |-> StatusAfterVerdict(r)]
    /\ UNCHANGED <<effect, recoveryDb, unknownMark, boot, todo>>
    /\ RecoverFrame

\* run.reconciliation.completed or a second run.recovery.blocked, and the
\* audit event.
AppendRecoveryEvents ==
    /\ boot = "recover"
    /\ cur.stage = "status"
    /\ cur' = [cur EXCEPT !.stage = "noted"]
    /\ unknownMark' = [t \in Tasks |->
                    unknownMark[t] \/ (~cur.success /\ task[cur.run] = t)]
    /\ UNCHANGED <<effect, status, recoveryDb, boot, todo>>
    /\ RecoverFrame

DecideRecovery ==
    /\ boot = "recover"
    /\ cur.stage = "noted"
    /\ Advance(cur.run, IF cur.success THEN "resumable" ELSE "blocked")
    /\ todo' = todo \ {cur.run}
    /\ cur' = NoRecord
    /\ UNCHANGED <<effect, status, reconciled, unknownMark, boot>>
    /\ RecoverFrame

\* Mutant: Core serves commands between two records.
NoRecordInHand == cur.stage = "next"

RecoveryDone == cur.stage = "next" /\ todo = {}

\* The loop is over; Core goes on to serve commands.
GoUp ==
    /\ boot = "recover"
    /\ RecoveryDone
    /\ boot' = "up"
    /\ UNCHANGED <<durable, pc, hbFailed, result, queue, todo, cur, history>>

RecoveryStep ==
    \/ Sweep
    \/ \E r \in Runs : BeginRecovering(r)
    \/ BeginReconciling \/ Reconcile \/ UpdateRunStatus
    \/ AppendRecoveryEvents \/ DecideRecovery \/ GoUp

Next ==
    \/ \E r \in Builds : BuildStep(r)
    \/ \E r \in Agents : AgentStep(r)
    \/ \E r \in Runs : Heartbeat(r) \/ LeaseExpires(r)
    \/ JournalEvent
    \/ Crash \/ Start
    \/ RecoveryStep

Spec == Init /\ [][Next]_vars

\* The startup pass is straight-line code of one thread.
FairSpec == Spec /\ WF_vars(RecoveryStep) /\ WF_vars(Start)

-----------------------------------------------------------------------------
(***************************************************************************)
(* Properties                                                               *)
(***************************************************************************)

\* Every variable holds a value of the column or field it stands for.
TypeOK ==
    /\ effect \in [Runs -> EffectStates]
    /\ intent \in [Builds -> Intents \cup {Nothing}]
    /\ task \in [Runs -> Tasks \cup {Nothing}]
    /\ lease \in [Runs -> {"none", "live", "expired"}]
    /\ status \in [Builds ->
                     {"absent", "running", "blocked", "completed", "failed"}]
    /\ snapshots \in Seq([id : Intents \cup {Nothing}, run : Builds])
    /\ audited \in SUBSET Builds
    /\ reconciled \in [Runs ->
                     {"none", "reconciled_success", "reconciled_blocked"}]
    /\ recovery \in [Runs -> RecoveryStates]
    /\ terminal \in [Tasks -> TerminalEvents \cup {"none"}]
    /\ checkpoint \in [Tasks -> CheckpointStates]
    /\ unknownMark \in [Tasks -> BOOLEAN]
    /\ pc \in [Runs -> BuildPCs \cup AgentPCs]
    /\ hbFailed \in [Runs -> BOOLEAN]
    /\ result \in [Agents -> {"none", "ok", "err", "cancelled"}]
    /\ queue \in Seq([task : Tasks \cup {Nothing}, event : TerminalEvents])
    /\ boot \in {"down", "sweep", "recover", "up"}
    /\ todo \in SUBSET Runs
    /\ cur \in [run : Runs \cup {Nothing},
                stage : {"next", "recovering", "reconciling", "verified",
                         "status", "noted"},
                success : BOOLEAN]
    /\ workspace \in [Builds -> {"untouched", "partial", "applied"}]
    /\ dispatched \in [Runs -> Nat]
    /\ reports \in [Agents -> Nat]
    /\ crashes \in Nat

\* The work of a run is started at most once, over every retry of the command,
\* every abort and every restart: begin_build_effect and begin_agent_run
\* refuse an effect whose outcome is open, known or unknown.
DispatchedOnce == \A r \in Runs : dispatched[r] <= 1

\* A recorded build outcome is true of the workspace: success only after the
\* whole change set was written, failure only if it was not.
OutcomeMatchesWorkspace ==
    \A b \in Builds :
        /\ effect[b] = "completed_success" => workspace[b] = "applied"
        /\ effect[b] = "completed_failure" => workspace[b] # "applied"

\* A run shown as completed has a successful effect, and the success was
\* either audited by the command or reconciled by a start.
CompletedHasEvidence ==
    \A b \in Builds :
        status[b] = "completed" =>
            /\ effect[b] = "completed_success"
            /\ b \in audited \/ reconciled[b] = "reconciled_success"

\* The recovery decision, the reconciliation row, the effect and the run
\* status agree, however the start that wrote them was interrupted.
DecisionMatchesOutcome ==
    \A r \in Runs :
        /\ recovery[r] = "resumable" =>
              /\ reconciled[r] = "reconciled_success"
              /\ effect[r] = "completed_success"
              /\ r \in Builds => status[r] = "completed"
        /\ recovery[r] = "blocked" =>
              /\ reconciled[r] = "reconciled_blocked"
              /\ effect[r] = "unknown"
              /\ r \in Builds => status[r] = "blocked"

\* An effect of unknown outcome holds no lease, so a stale owner cannot renew
\* its way back into it.
UnknownHoldsNoLease == \A r \in Runs : effect[r] = "unknown" => lease[r] = "none"

\* A run whose heartbeat was rejected is not recorded as a success by the
\* process that lost the lease.
LostLeaseNotSuccess ==
    \A r \in Runs : hbFailed[r] => effect[r] # "completed_success"

\* An agent run recorded as a success without reconciliation had reported
\* its completion; with it, some run of the same task had.
AgentSuccessWasReported ==
    \A a \in Agents :
        /\ effect[a] = "completed_success" /\ reconciled[a] = "none" =>
              reports[a] > 0
        /\ reconciled[a] = "reconciled_success" =>
              \E b \in Agents : task[b] = task[a] /\ reports[b] > 0

\* While the outcome of one run of a task is unknown no other run of the task
\* is let past the checkpoint gate ("blind retry is forbidden").
NoBlindRetry ==
    \A a, b \in Agents :
        /\ a # b
        /\ task[a] = task[b]
        /\ effect[a] = "unknown"
        => pc[b] \in {"idle", "gating", "notifying", "gone"}

\* The startup pass never meets a transition its own state machine refuses,
\* which would make Core exit at every start.
RecoveryNeverRefused ==
    boot = "recover" =>
        /\ cur.stage = "next" =>
              \A r \in todo : ValidTransition(recovery[r], "recovering")
        /\ cur.stage = "recovering" =>
              ValidTransition(recovery[cur.run], "reconciling")
        /\ cur.stage \in {"reconciling", "verified", "status", "noted"} =>
              \A d \in RecoveryDecided : ValidTransition(recovery[cur.run], d)

\* A known outcome never changes; an unknown one becomes a success only
\* together with its reconciliation record; that record never changes.
OutcomeIsFinal ==
    [][\A r \in Runs :
          /\ effect[r] \in Completed => effect'[r] = effect[r]
          /\ effect[r] = "unknown" /\ effect'[r] # "unknown" =>
                /\ effect'[r] = "completed_success"
                /\ reconciled[r] = "none"
                /\ reconciled'[r] = "reconciled_success"
          /\ reconciled[r] # "none" => reconciled'[r] = reconciled[r]]_vars

\* Every record a start swept gets its decision, unless that start dies.
SweptIsDecided ==
    \A r \in Runs :
        (r \in todo) ~> (recovery[r] \in RecoveryDecided \/ boot = "down")

\* The columns above, read as the phases of OnceOnlyWork.
PhaseOf(e) ==
    CASE e \in {"absent", "prepared"} -> "waiting"
      [] e = "executing" -> "open"
      [] e = "unknown" -> "unknown"
      [] e = "completed_success" -> "success"
      [] e = "completed_failure" -> "failure"

Promise == INSTANCE OnceOnlyWork
    WITH Checkable <- Builds,
         phase <- [r \in Runs |-> PhaseOf(effect[r])],
         starts <- dispatched,
         done <- {b \in Builds : workspace[b] = "applied"}

\* Leases, workers, heartbeats, crashes and the startup pass together keep the
\* promise of OnceOnlyWork: every step is one of its steps or changes nothing
\* the promise speaks of.
KeepsPromise == Promise!Spec

-----------------------------------------------------------------------------
\* Statements that the code does not keep.  No run checks them; the README
\* lists them as known deviations.

\* "Each stage uses a distinct idempotency key so a crash between stages
\* replays safely": once Core serves again, every unknown effect has its
\* recovery decision.  The code does not replay the stages: the next sweep
\* selects executing effects only.
CrashBetweenStagesReplays ==
    boot = "up" =>
        \A r \in Runs : effect[r] = "unknown" => recovery[r] \in RecoveryDecided

\* "Extraction runs after the answer has already been sent, so it ... cannot
\* fail it": a run that has reported completion and is still in its extraction
\* does not end in an error.  The task deadline covers the extraction too.
ExtractionCannotFailTurn ==
    [][\A a \in Agents :
          pc[a] = "reported" /\ pc'[a] = "finishing" => result'[a] = "ok"]_vars

-----------------------------------------------------------------------------
(***************************************************************************)
(* The inductive invariant behind the safety properties: what the position  *)
(* of a worker, or of the recovery loop, says about the rows it works on.   *)
(***************************************************************************)

\* What the durable rows of one run say of each other, and that work goes on
\* and heartbeats fail only while Core serves commands.
RunOK(r) ==
    /\ effect[r] \in {"absent", "prepared"} => dispatched[r] = 0
    /\ dispatched[r] <= 1
    /\ effect[r] \in {"absent", "prepared", "executing", "completed_failure"} =>
          recovery[r] = "none" /\ reconciled[r] = "none"
    /\ recovery[r] \in {"none", "recovering"} => reconciled[r] = "none"
    /\ reconciled[r] = "reconciled_success" => effect[r] = "completed_success"
    /\ reconciled[r] = "reconciled_blocked" => effect[r] = "unknown"
    /\ reconciled[r] = "none" /\ recovery[r] # "none" => effect[r] = "unknown"
    /\ recovery[r] = "resumable" => reconciled[r] = "reconciled_success"
    /\ recovery[r] = "blocked" => reconciled[r] = "reconciled_blocked"
    /\ effect[r] = "unknown" => lease[r] = "none"
    /\ hbFailed[r] => effect[r] # "completed_success"
    /\ boot # "up" => ~hbFailed[r] /\ pc[r] \in {"idle", "gone"}

\* What the position of a build command says of its rows and its workspace.
BuildOK(b) ==
    /\ pc[b] \in BuildPCs
    /\ effect[b] = "absent" => status[b] = "absent" /\ pc[b] = "idle"
    /\ effect[b] \in {"absent", "prepared"} => workspace[b] = "untouched"
    /\ effect[b] \in {"prepared", "executing"} => status[b] = "running"
    /\ effect[b] = "unknown" => status[b] = "blocked"
    /\ effect[b] = "completed_success" => workspace[b] = "applied"
    /\ effect[b] = "completed_failure" => workspace[b] # "applied"
    /\ pc[b] \in {"prepared", "leased"} => effect[b] = "prepared"
    /\ pc[b] \in {"working", "applied", "refused", "snapped", "audited"} =>
          effect[b] = "executing"
    /\ pc[b] \in {"working", "refused"} => workspace[b] # "applied"
    /\ pc[b] \in {"applied", "snapped", "audited"} => workspace[b] = "applied"
    /\ pc[b] = "closing" => effect[b] = "completed_success"
    /\ pc[b] = "closing_failed" => effect[b] = "completed_failure"
    /\ pc[b] \in {"audited", "closing"} => b \in audited /\ ~hbFailed[b]
    /\ status[b] = "completed" =>
          /\ effect[b] = "completed_success"
          /\ b \in audited \/ reconciled[b] = "reconciled_success"
    /\ recovery[b] = "resumable" => status[b] = "completed"

\* What the position of an agent task says of its effect.
AgentOK(a) ==
    /\ pc[a] \in AgentPCs
    /\ pc[a] \in {"idle", "gating", "gated"} => effect[a] = "absent"
    /\ pc[a] \in {"prepared", "leased"} => effect[a] = "prepared"
    /\ pc[a] \in {"working", "reported", "finishing", "captured"} =>
          effect[a] = "executing"

\* The recovery loop and the rows of the record it has in hand.
LoopOK ==
    /\ boot # "recover" => todo = {} /\ cur.stage = "next"
    /\ cur.stage # "next" => cur.run \in todo
    /\ \A r \in todo :
          cur.stage = "next" \/ r # cur.run =>
             effect[r] = "unknown" /\ recovery[r] = "none"
    /\ cur.stage = "recovering" => recovery[cur.run] = "recovering"
    /\ cur.stage = "reconciling" =>
          recovery[cur.run] = "reconciling" /\ reconciled[cur.run] = "none"
    /\ cur.stage \in {"verified", "status", "noted"} =>
          /\ recovery[cur.run] = "reconciling"
          /\ reconciled[cur.run] = IF cur.success THEN "reconciled_success"
                                   ELSE "reconciled_blocked"
    /\ cur.stage \in {"status", "noted"} /\ cur.success /\ cur.run \in Builds =>
          status[cur.run] = "completed"

\* A snapshot is only ever saved of a build that was applied in full.
SnapshotIsApplied ==
    \A n \in DOMAIN snapshots : workspace[snapshots[n].run] = "applied"

IInv ==
    /\ TypeOK
    /\ \A r \in Runs : RunOK(r)
    /\ \A b \in Builds : BuildOK(b)
    /\ \A a \in Agents : AgentOK(a)
    /\ LoopOK
    /\ SnapshotIsApplied

\* Some run of the task has reported its completion.
Reported(t) == \E b \in Agents : task[b] = t /\ reports[b] > 0

\* Where a report of an agent run shows, and what the gate of a task knows:
\* a run past the gate left a checkpoint, and an unknown effect its mark.
AgentInv ==
    /\ \A a \in Agents :
          /\ pc[a] # "idle" \/ effect[a] # "absent" => task[a] \in Tasks
          /\ task[a] = Nothing => reports[a] = 0
          /\ pc[a] = "reported" \/ result[a] = "ok" => reports[a] > 0
          /\ effect[a] # "absent" \/ pc[a] = "gated" => checkpoint[task[a]] # "none"
          /\ effect[a] = "unknown" => unknownMark[task[a]]
    /\ \A t \in Tasks : terminal[t] = "completed" => Reported(t)
    /\ \A n \in DOMAIN queue : queue[n].event = "completed" => Reported(queue[n].task)
    /\ AgentSuccessWasReported
    /\ NoBlindRetry

=============================================================================
