# A TLA+ verification project for EvoHime Core

EvoHime is a desktop AI agent: a Rust process (Core) that owns every decision,
every durable row and every tool call, an Electron renderer that shows them, a
supervisor that keeps Core running, and an updater. This directory holds TLA+
models of Core's riskiest parts, the TLC configurations that check them, and
TLAPS proofs of their safety properties for every number of runs, calls and
crashes.

What makes Core hard is not one algorithm but the places where **work in the
world** (files written, a shell command executed, an answer sent) has to agree
with **rows in SQLite** although several workers interleave, a client may repeat
any command, an approval may expire at any moment, and the process may die
between any two commits. The models below are about exactly that.

## 1. Inventory

### The system

| Part | State it keeps | Operations | Hard because |
|---|---|---|---|
| Run effects (`run_effect_store`, `run_lease_store`, `snapshot_store`, `core_coordinator_build`, `core_coordinator_routing`, `core_journal_tasks`) | a write-ahead effect per run, its lease, run status, snapshots, audit events, checkpoints, recovery and reconciliation rows | apply an approved build; start, continue and finish an agent task; heartbeat; sweep and reconcile at startup | work is outside the transaction; leases expire; events arrive late; recovery can be interrupted |
| Receipt runtime (`evohime-receipts`) and its callers (terminal command, agent tool loop, operator commands) | one row per tool call, a one-shot approval intent, a signed hash chain, a guard | prepare, grant, deny, claim, start, return, complete, refuse, reconcile, close, quarantine, collect, recover | a tool must run once and only under a durable receipt; commands are replayed; the approval races its deadline and a restart |
| Execution ledger | typed events with a state per action | append with a single-outcome check, startup reconciliation | writers ignore errors; the check looks at one row |
| Receipt chain, keys, retention (`runtime_signing`, `chain`, `export`, `key_lifecycle`) | chain head per key, signed checkpoints; key file, transition table, history file, rotation journal | append, compact, verify; first start, rotate, recover, new genesis | clock steps; compaction against open actions; a rotation is twelve writes to four stores |
| Durable background execution | automation runs, waits, queue limits, schedules with cursor and revision | create, wait, cancel, poll, fire, resume | admission, metadata, wait and cursor are separate commits; polls work on snapshots |
| Workflow runtime and store | run, node and attempt rows, lease, in-memory approvals | start, drive, approve, cancel, retry, recover | drives of one process are not kept apart; a crash between the dispatch marker and the answer |
| Automations, event triggers | daily schedules, triggered runs | poll, trigger, enable, cancel | double firing across a revision; a crash between cursor and admission |
| Continuation, goals | budgets, decision rows | decide, pause, resume | a counter at its limit |
| Conversation event log | sequence and hash link | append, branch, replay | out-of-order append |
| Children and teams | child rows, retained children | spawn, report, adopt after restart | parent and child die separately |
| Memory, retrieval, research | entries, candidates, indexes | extract, confirm, supersede | mostly data processing |
| Model gateway | cooldowns, routing tables | request, retry, fall back | timeout against a late answer |
| Supervisor, updater | installed files, backup, `transaction.json`, UI pointer, health marker | prepare, copy, commit, roll back, recover | a crash or an error between any two file operations, the rollback included |
| Desktop IPC, CLI, listener, renderer | sessions | handshake, commands | I/O and presentation |

How they interact: the renderer sends protobuf commands over the IPC bridge,
which handles **one command at a time**; agent tasks are spawned and run beside
it; all of them share **one SQLite connection behind one tokio mutex**. A
command that needs the user's decision ends with a reply and is sent again; an
agent that needs it waits on a channel that the `ResolveApproval` command
wakes. Events go through a queue to a journal writer of its own. At startup
`main.rs` recovers receipts, then run effects, then the other stores, and only
then serves commands.

### What would make each modelled part correct

*Run effects.* Work is dispatched at most once per run id; a recorded outcome is
true of the workspace; a completed run has evidence; an unknown outcome is never
retried blindly; recovery decides what it swept and never contradicts itself.

*Receipts.* A tool runs at most once, only under its signed `pre_action` receipt
and, where approval is required, only after the intent was claimed; a denied
call never runs; a signed outcome is what the tool did; a call that ran and was
not signed stays visibly open; recovery never meets a state it thinks
impossible.

*Chain and keys.* A chain has no gap that a checkpoint does not explain;
retention takes nothing that an open action may need, keeps to its bounds and
happens; what the verifier calls verified is complete. Every signature is by a
key whose transition is committed; no interruption of a rotation leaves a Core
that refuses to start, and no retired key comes back.

*Background runs.* However schedules are revised, the cursor of one passes no
slot of its plan that was neither fired nor given up by policy; a daily slot
fires once; overlap policies hold; a run that has ended stays ended; due slots
are handled in the end.

*Workflow runs.* An attempt is executed once and never repeated while its answer
is unknown; a node runs only with its inputs and its approval; a run called
complete is whole; drives return and a cancel takes effect.

*Updates.* Program files end all old or all new; every change can be put back
until the update is decided; a commit is final; an interrupted update is
resolved.

The hazards behind these are listed, each at its source line, in
`PROJECT.json`; the components left out are listed there with the reason.

## 2. Modules

| Module | What it is |
|---|---|
| `RunEffects` | the effect lifecycle of builds and agent tasks, crash and startup reconciliation, with its properties and inductive invariant |
| `RunEffectsProofs` | TLAPS proofs about it |
| `OnceOnlyWork` | the abstract promise: work starts once, its outcome is recorded once and is true |
| `RunEffectsRefinement` | TLAPS proof that `RunEffects` implements `OnceOnlyWork` |
| `MCRunEffects` | TLC instance; adds symmetry of run, task and intent ids |
| `ReceiptActions` | receipt actions, approval intents, their three kinds of callers, crash and recovery, with its properties and inductive invariant |
| `ReceiptActionsProofs` | TLAPS proofs about it |
| `MCReceiptActions` | TLC instance |
| `ReceiptKeys`, `ReceiptKeysProofs`, `MCReceiptKeys` | the signing key: first start, rotation, recovery, new genesis; proofs; TLC instance |
| `ReceiptChain`, `ReceiptChainProofs`, `MCReceiptChain` | the hash chain of receipts, its retention and its verification; proofs; TLC instance |
| `BackgroundRuns`, `BackgroundRunsProofs`, `MCBackgroundRuns` | automation runs, waits, schedules and the two pollers; proofs; TLC instance |
| `WorkflowRuns`, `WorkflowRunsProofs`, `MCWorkflowRuns` | one workflow run and the drives at work on it; proofs; TLC instance |
| `UpdateTransaction`, `UpdateTransactionProofs`, `MCUpdateTransaction` | the transactional updater and the supervisor's recovery; proofs; TLC instance |

Operators whose comment starts with `Mutant:` are plausible bugs of the
definition that follows them. No specification uses them; replacing the
definition by the mutant makes TLC report the property they are paired with in
`PROJECT.json`.

### RunEffects

*State.* Durable: `effect`, `intent`, `task`, `lease`, `status`, `snapshots`,
`audited`, `reconciled`, `recovery`, `terminal`, `checkpoint`, `unknownMark`,
each a column or the newest row of a table. Volatile, lost by a crash: the
position `pc` of every worker, the heartbeat flag, the executor's result, the
event queue, and the recovery loop's list and current record. History (not in
the program): what a build did to its `workspace`, how often work was
`dispatched`, how often an agent reported completion.

*Actions.* Every action is one commit or one step between two commits.

- A build: `PrepareBuild`, `AcquireBuildLease`, `MarkBuildExecuting`,
  `TouchWorkspace`/`ApplySucceeds`/`ApplyFails`, `SaveSnapshot`, `AuditApplied`,
  `CompleteBuildEffect`, `CloseBuildStatus`, `ReleaseBuildLease`; the error
  returns are `AbortBuild` and `RefuseBuild`. `PrepareBuild` on an existing
  effect is the client's retry.
- An agent task: `StartTask`, the checkpoint gate (`PassGate`/`RefuseAgent`),
  `PrepareAgent` ... `MarkAgentExecuting`, `ReportCompleted`, `ContinueAgent`,
  `ReturnAgent` (ok, error, cancelled or timed out), `CaptureFinal`,
  `CompleteAgentEffect` or `SkipComplete`, lease release, `RemoveActive`,
  `NotifyEnd`.
- Around them: `Heartbeat`, `LeaseExpires`, `JournalEvent`, `Crash`.
- Startup: `Start`, `Sweep`, then per record `BeginRecovering`,
  `BeginReconciling`, `Reconcile`, `UpdateRunStatus`, `AppendRecoveryEvents`,
  `DecideRecovery`, and `GoUp`.

*Abstractions.* The database mutex is not explicit: steps of different runs
touch different rows, so every interleaving the mutex excludes is
over-approximated. One workspace per task id. The replay window of 256 events
that the checkpoint gate may exhaust is part of `RefuseAgent`. The snapshot id
derives from the intent hash alone, as in the code, so two runs of one intent
collide and the second fails after writing its files.

### ReceiptActions

*State.* Per action the columns of `receipt_actions` (`state`, `dispatch`,
`decision`, `pre`, `term`, `link`), its receipts on the `chain` (a sequence of
`pre`, `succeeded`, `failed`, `refused`), its approval `intent`, the guard
`phase`, the newest `ledger` state. Volatile: `pc` of each worker, the
`ResolveApproval` command in progress. Clocks: `late` (the monotonic deadline
has passed) and `oldBoot` (the intent is from an earlier OS boot, where the code
falls back on a wall clock that may say anything). World: how often the tool
`ran` and its `result`.

*Workers.* `Terminals` are calls of the IPC terminal command, `Agents` of the
agent tool loop, `Checks` of the read-only `ReconcilePendingReceiptAction`. A
worker at a position in `Holding` has the database mutex; `Free` keeps the
others out. IPC commands wait for `IpcIdle`.

*Actions.* `prepare_inner` appears as `PrepareAllow`, `PrepareApproval` and
`AgentDenied` inside the callers' actions; `ResolveApproval`, `DenyApproval` and
`LedgerDecision` are the three commits of the approval command (the waiter is
woken **before** the denial is committed, as in the code); `Grant`,
`GrantExpired`, `GrantDenied`, `Claim`, `ClaimRefused`, `ClaimError` are the
outcomes of `grant_approval` and `claim_approval_checked`; then `MarkStarted` or
`SkipMarkStarted`, `RunTool`, `ToolReturns`, `MarkReturned`, `Complete`,
`CompleteCheck`, `CompleteError`, `MarkPendingRecovery`, `LedgerOutcome`.
`Cancel` drops an agent's future; `Abort` is every other error return, at a
position that takes the mutex only once it is free.
`ClosePending` and `CloseMismatch` are the operator command that closes a
pending action,
`ApprovalGc` the background collector, `Recover` and `RecoverFails`
`recover_database` at startup.

*Abstractions.* Call hashes, previews, scopes and keys are left out; a changed
call or policy is a nondeterministic outcome of the claim. Protected envelopes,
unsigned markers, metrics, audit rows and capability bindings have no column: a
failure to write one is an `Abort` or a `Cancel` with the same receipt row. All
actions belong to one task, so `MaxPending` is the per-task limit.

*Outside the model.* Read-only agent calls that audit sampling leaves out run
without a receipt by design; `link_reconciliation` and the legacy approval
import have no caller on these paths; a database that fails `quick_check` puts
the guard into read-only recovery and is outside the model; the workflow node
that a `ResolveApproval` may also wake belongs to the workflow runtime.

### ReceiptKeys

*State.* The key file `active`, the staged key `pending`, the rotation `journal`,
the committed `table` of transitions, the exported history `file`; the process
`core` (its position and the transition it works on); the set of keys that
`signed` a receipt. `cut` is history: an operation that keeps no journal was cut
short (deviation 5 of section 3).

*Actions.* `StartFirst` and the three writes of the first key; `Start`, the
choice `Recovery` makes from journal, table and key file, and the writes of the
recovery; `Verify`, which refuses to serve unless the stores agree; `Rotate` and
its twelve steps in the code's order; `NewGenesis` and its four; `SignReceipt`.
`Crash` and `Fail` may fall between any two. Rotation and signing hold the
database lock throughout, so they do not interleave.

*Abstractions.* A key is a number, and a transition is named by its key, which
stands for its hash. Signatures are who signed. The audit file, the history
manifest, trusted roots and the storage key are left out: nothing reads them on
these paths.

### ReceiptChain

*State.* `rows` (id, key, id of the predecessor, kind, action or request, time),
the `heads` table, the active `checkpoint` per key, the `state` of each action as
far as retention reads it, the `active` key and how each key continues the one
before (`cont`), the wall clock.

*Actions.* Appends (`Prepare`, `Refuse`, `Complete`, `CompleteReconciling`,
`ClosePending`, the refusal an operator signs after the `pre_action` of an open
action, `AppendRequest`), `Quarantine`, `Retain` (one key of the six-hour pass:
`Cutoffs`, then `CompactChain`), `Rotate`, and the clock going on or being set
back. Each is one transaction. The verifier is a function, `Verdict`, of the
rows and the checkpoint, so that its answers can be compared with what happened.

*Composition.* `Rotate` here is the whole of a rotation of `ReceiptKeys`, whose
`SignerIsRecorded` is why a key is never unknown to the verifier; `Prepare`,
`Complete`, `CompleteReconciling` and `ClosePending` are the receipt half of
`PrepareAllow` and `Claim`, `Complete`, `CompleteCheck` and `ClosePending` in
`ReceiptActions`.

### BackgroundRuns

*State.* `sched`, a row per schedule: revision, enabled, cursor and plan (kind,
first slot or time of day, period, offset, grace, missed-fire and overlap
policy); `runs`, `waits`; `poll`, the rows each poller read and still has to
handle; `op`, the holder of the database mutex, where it is between two commits
and what it read. History: `since`, the daily slots fired since the time of a
schedule was last changed, and `lax`, the schedules that once allowed several
runs.

*Actions.* The commands `CreateRun`, `TriggerRun`, `Wait`, `CancelRun`,
`SaveDaily`, `SaveBackground` with its second commit `SaveSpec` (until then the
row is a daily one, `HalfSaved`), `SetEnabled`; the commits a new run consists of
(`AdmitRun` or `AdmitExisting`, `SaveMetadata`, `ScheduleWait`, `QueueRun`); the
polls (`ListSchedules`, `TakeSchedule`, `SkipOverlap`, `FireSlot`,
`AdvanceCursor`, `LastSlotDone`, `DisableOneShot`, `TakeDaily`, `SchedulesDone`,
`ResumeRun`, `CompleteWait`, `WaitsDone`); `Tick`; `Crash`. A save may change
everything of a schedule and keeps its cursor, as `upsert_schedule` does. The
slots of a plan are computed as in `background_schedule_slots` and
`DailySchedule::decide`, so that a cursor left by one plan is read by another.

*Abstractions.* Time is a number that does not go back, a day `Day` of them. A
cursor or key is the slot in the form it has in the column: a number of
milliseconds or a date with its offset. A run is named by its idempotency key.
Profiles, payloads, archives and audit rows are left out. Two schedules are taken
to have different definitions (two of one definition share the keys of their
daily slots, so that the second finds its run already there), and a client not
to use the id of a schedule as the concurrency key of its own run.

*Outside the model.* The branch of a daily slot that starts a preset
(`ipc_bridge_automation.rs:518`); the `continue` for a schedule whose definition
is missing, which no code deletes and a foreign key protects.

### WorkflowRuns

*State.* The run row, the lease, the node rows, the attempt rows, the approval
registry in memory, and per drive its position and what it holds on its stack (a
snapshot, a batch, an attempt). `granted` and `effects` are history.

*Actions.* Each step is one critical section of the journal lock in `drive`,
`drive_locked` and `execute_node`, in their order: lease, read the run, read the
nodes, cancel or block nodes, finish or set running, then per node of the batch
check, ask for approval, check the cancel flag, begin the attempt, execute,
close the attempt, settle the node. Around them `StartDrive`, `Resolve`,
`CancelWorkflow`, `LeaseExpires`, `RestartCore`.

*Abstractions.* The graph is a constant; adapters answer with any outcome of the
error taxonomy; inputs are whether they arrived; events and metrics are left out.
A required input is one edge, where the code looks at the port, which several
edges may feed. `update_node_state` refuses an output over its limit
(`workflow_store.rs:723`) and leaves the node running with a closed attempt;
outputs of the model are small.

### UpdateTransaction

*State.* The installed files, their backup and `transaction.json` on disk; the
position of the one process at work, its job and the file it is copying; whether
the product runs. `hist` remembers the installation at the last prepare, and
whether a UI pointer could not be removed since (`stuck`).

*Actions.* `StartUpdate` and `StartProduct` both begin with the recovery
(`RecoverNothing`, `RecoverInvalid`, `RecoverFinished`, `RecoverInterrupted`);
then `Prepare`, `WriteInstalling`, `RecordUi`, the copies (`CopyBegin`,
`CopyEnd`, a file being torn in between), the renderer bundle and its pointer,
the health handshake, `Commit`; the failures; the rollback file by file and the
clean-up; a crash anywhere. Where the code ignores an error the model has both
outcomes: a bundle that is removed or stays (`RemoveBundle`), a pointer that is
put back or stays (`FailPointerFails`, `RestorePointerStays`).

## 3. Runs

| Run | Instance | What it shows |
|---|---|---|
| `builds` | 2 builds, 2 intents, 1 task, 2 crashes | outcomes are true of the workspace, completed runs have evidence, a lost lease is not a success |
| `agents` | 2 runs of one task, 2 reports each, 1 crash | successes were reported; no blind retry past the checkpoint gate |
| `startup` | 1 build and 1 agent, 2 crashes, fairness | recovery decides what it swept; the refinement of `OnceOnlyWork` (work starts once, outcomes are true and final) |
| `terminal_calls` | 1 terminal call, 1 reconciliation, 2 decisions, 2 crashes | the tool runs once, under its receipt, never after a denial; rows agree with receipts; a run is accounted for; no safe mode |
| `mutex` | 1 terminal call, 1 agent call, fairness | a decided approval is acted on |
| `keys` | 5 keys, history limit 4, 3 faults, fairness | nothing strands, the history verifies, interrupted rotations complete |
| `chain` | 2 actions, closed by the tool, a reconciliation or the operator, 1 model request, 2 keys, 2 clock readings, budget 2, fairness of retention | chains stay whole and verify, evidence is kept, retention is bounded and happens |
| `background` | 1 schedule revised among 4 plans (daily, two grids, every missed-fire and overlap policy), 1 client, 3 commands, 2 revisions, 3 time units, days of 2, 1 crash | daily slots once, no slot lost, exclusive overlap policies, ended runs stay |
| `slots` | 2 schedules, 1 listed, of any of 4 kinds, 1 trigger, 2 commands, 2 time units, catch-up of 2, 1 crash, fairness | due slots are handled |
| `workflow` | 4 nodes (1 asks for approval; 3 joins on the first of 1 and 2, requires the output of 2 and has two tries; 4 goes on after 1 and handles the failure of 3), 2 drives, 1 restart | attempts, approvals, inputs, outcomes, completeness |
| `workflow_live` | 3 nodes with a failure branch, 2 drives, 1 restart, fairness | drives return, a cancel settles |
| `update` | 2 required and 1 optional component, 1 payload file, 2 renderer versions, 6 kinds of job, 2 updates, 2 breaks, fairness | atomicity of the program files and of the whole update, finality, resolution |

### Known deviations

Sentences of the repository that the code does not keep, each met while
modelling. Those with an operator name are stated in the module and TLC refutes
them when they are added to a configuration of it; no run is kept for them.

1. *Run effects.* A crash between sweep and decision leaves an unknown effect no
   later start decides (`CrashBetweenStagesReplays`). The task deadline covers
   the extraction after the answer and can fail a reported turn
   (`ExtractionCannotFailTurn`).
2. *Receipts.* A denied terminal call is closed without a signed refusal
   (`RefusedIsSigned`); deny, grant, deny gives two terminal ledger outcomes
   (`OneTerminalOutcome`); a reconciliation that failed records the old action
   as succeeded (`SucceededHasEvidence`); a failed recovery leaves the guard
   ready (`FailedRecoveryIsNotReady`). A claim moves an `awaiting_approval` row,
   which `MAX_PENDING_ACTIONS` does not count, to `prepared` without looking at
   the limit (`runtime.rs:742`); an approval that expired before the grant
   leaves its action in `awaiting_approval` for ever
   (`core_agent_execution.rs:1493`); the handler of `UnquarantineReceiptAction`
   selects eight columns and reads nine (`ipc_bridge_ambient_receipts.rs:398`),
   so it always fails.
3. *Chain.* Receipts of model requests have no action: `retention_candidates`
   counts them as deletable, `compact_chain` as blocking (`runtime.rs:1196`), so
   the retention of a key stops for ever once one lies in the prefix, and
   `RetentionHappens` has to except it. `load_closure_rows` reads their
   `action_id` as a string and drops the row without a word (`export.rs:253`),
   so a range with one between others verifies as broken, although the comment
   says that filters cannot hide a predecessor; `VerdictIsTrue` excepts it.
   The test `status < ChainStatus::Broken` (`chain.rs:281`) can never hold, so
   stale keys and an untrusted history never lower a status. After the clock is
   set back, the second append under that key and all later ones are refused
   until a rotation or a compaction (`AppendsGoOn` excepts it). A cutoff may lie
   beyond a row of an open action, against the comment at `runtime.rs:1098`;
   `compact_chain` then refuses. A compaction may separate the two receipts of
   an action; verifying rows of two keys of which the second was compacted
   reports broken, and so does a filter that starts in the middle of a chain.
   Receipts of quarantined actions may be purged.
4. *Background.* Open waits of ended runs are never closed and may fill the
   window of 256 (`DueWaitsResume`); `cancel_previous` after a crash between
   admission and cursor cancels the run of the very slot it fires
   (`NoSlotCancelsItself`); a run admitted just before a crash stays admitted and
   makes `skip_if_running` skip every later slot. Revisions keep the cursor:
   moving a daily time away and back, or changing its offset, fires the slot of
   the day again, because the cursor is compared for equality
   (`automation_scheduler.rs:124`; `DailySlotAtMostOnce` speaks of one time);
   `catch_up` counts from the cursor, so that one an earlier plan left off the new
   grid makes it fire times that are no slots and pass slots
   (`durable_background_execution_runtime.rs:139`; `NoSlotLost` excepts it); a
   one-shot or interval moved to before the cursor never fires there;
   `cancel_previous` cancels only the oldest of the runs an `allow` policy left
   (`ExclusiveWhenQueued` excepts it). A poll lists 256 schedules by id, disabled
   ones included: the 257th is never polled (`DueSlotsAreHandled` speaks of the
   listed). A daily slot that no poll saw on its own day is neither run nor
   reported as missed, and a cron schedule does not catch up.
5. *Keys.* The first key and a new genesis keep no journal: a crash or a failed
   write after their commit leaves a Core that refuses every start, although the
   key documentation describes a durable journal; a new genesis also ignores
   the journal of an unfinished rotation. The history variable `cut` marks both,
   and the properties except them.
6. *Workflow.* A comment says a pending approval is the only reason for a drive
   to find nothing to do; a failure branch whose source succeeded is another,
   and such a run parks as interrupted for good (`OnlyApprovalsHold`). A second
   drive may set a terminal node back to running (`EndedNodesStay`); likewise a
   drive with an old snapshot may find a required input missing and write
   `failed` on a node that another drive then tries, so that `OutcomesStay` and
   `DispatchedHadInputs` except nodes with a required input; a cancelled run may
   have a live attempt (`CancelledRunIsQuiet`). Approval ids are lost by
   a restart and nothing drives the runs again, although the recovery comment
   speaks of a new owner; the lease of the dead process is not cleared for
   interrupted runs, so a cancel right after a restart is recorded and its drive
   turned away; a full task pool loses the drive of a cancel or a decision.
7. *Updates.* A set with nothing but a renderer journals an empty component
   list, which recovery reads as all components and, finding no backup, removes
   them (`UnrelatedFilesKept`). An interrupted update of an optional component
   is rejected by recovery for ever (`EveryInterruptionResolves`). An error in
   the clean-up after the commit rolls back from a half deleted backup. A failed
   set without a renderer removes the UI pointer it never read. An update of a
   renderer version that is there already fails, and its rollback removes the
   bundle in use. The rollback ignores the error of removing the UI pointer
   (`lib.rs:1080`): the phase goes on to `Restored` with old program files and a
   pointer to the renderer that was just removed (`WholeUpdateAtomic` excepts the
   pointer after such an error, `Stuck`). It ignores the error of removing the
   bundle too; files of the new version that nothing points to count as rolled
   back (`Old`).

*Bounds.* A second build, or a second run of the same task, is what makes shared
evidence (snapshot ids, terminal events, checkpoints) ambiguous; a third adds
nothing new, since every table is read per run or per task. Two crashes are
needed for recovery to be interrupted and then repeated. Two decisions of one
approval give every order of grant and denial. One
terminal call suffices for the receipt safety properties, because its rows are
touched by its own worker, by commands about it and by one reconciliation, all
of which are in the instance; the theorems remove the bound, and cover agent
calls with their cancellation and their skipped `mark_started` too. Three faults
let a rotation, its recovery and a second recovery each be interrupted, and five
keys pass the history limit of four. Four or five receipts under one key are
enough for a compaction to supersede another; both bounds of retention choose
the cutoff in some state. Two drives are what it takes for every stale snapshot,
since a drive holds one at a time; the join of all sources, the join of any, the
failure edge, the required input and the approval are the ways a node waits or
is given up. Three commands are a creation, a
revision and one more, so that a plan changes while a poll holds the old one;
two revisions and three time units give a slot due under an old and a new plan, a
cursor off the new grid and, with days of two, a slot of yesterday; two schedules
and a page of one leave one out. Two breaks interrupt an update and then its recovery; two
updates let one run into the journal of the other. `MaxReports`,
`MaxResolves` and `MaxCrashes` only bound exploration: no property depends on
their values.

*Deadlock.* The runs over agents or receipts switch the check off: action and
run ids are finite, and with all of them used Core has nothing left to do in the
model. The workflow
runs do too: a run that has ended is driven no more. The other runs keep the
check.

## 4. Fairness

`RunEffects!FairSpec` assumes weak fairness of `Start` and of the recovery steps:
the startup pass is straight-line code of one thread that waits for nobody. It
does not assume that crashes stop; the property allows the start to die.

`ReceiptActions!FairSpec` assumes strong fairness of each worker's own steps: a
step that needs the mutex is enabled only while the mutex is free, and tokio's
mutex serves waiters in arrival order, so a waiting worker is not passed over
for ever. Tools are not assumed to return: `ToolReturns` has no fairness, which
is why holding the mutex across a tool (the mutant) breaks the property.

`UpdateTransaction!FairSpec`: weak fairness of the process at work and of the
user starting and stopping the product. Crashes and errors are finite, as the
property says.

`BackgroundRuns!FairSpec`: weak fairness of the holder of the mutex, which waits
for nobody, and strong fairness of each poll, because the poller is a timer loop
that queues for a fair mutex other commands keep taking.

`WorkflowRuns!FairSpec`: weak fairness of the spawn that follows the start of a
run and of each drive: the executor polls every task, and a node's adapter ends
by its timeout. Nobody is assumed to decide an approval.

`ReceiptKeys!FairSpec`: weak fairness of the startup: the supervisor starts Core
again and the startup is straight-line code. Nothing makes a rotation go on.

`ReceiptChain!FairSpec`: weak fairness of the retention of each key: the pass
takes every key and comes round every six hours, of a Core that stays up so
long. The loop sleeps before its first pass (`core_lifecycle.rs:63`), so a Core
that is always restarted sooner never retains, and nothing is claimed of it.

## 5. Proofs

All proof modules are checked to the last leaf. They assume only the named
assumptions of the modules they are about: id sets are disjoint, NULL is not an
id, `"none"` is not a schedule, the bounds are naturals, edges join different
nodes, and of plans (`BackgroundAssumption`) that a day and a period are not
zero, a time of day lies within the day, periods are at most `MaxPeriod`, the
time begins after the first day. Sets of runs, actions,
drives, jobs and files need not be finite or non-empty.

*RunEffects.* The safety properties are not inductive: that a success is true of
the workspace, say, depends on where the worker is, on who could have written
the snapshot recovery relies on, and on what the loop holds in hand. `IInv` adds,
per run, what its durable rows say of each other (`RunOK`), what the position of
a build or agent says of its rows (`BuildOK`, `AgentOK`), what the recovery loop
knows of the record in hand and of those to come (`LoopOK`), and that only
applied builds have snapshots (`SnapshotIsApplied`). There is one lemma per
actor; frame lemmas show that a step of one run leaves the others' conjuncts
alone. From `Invariance` follow `AtMostOnce`, `TruthfulOutcome`,
`EvidencedCompletion`, `CoherentDecision`, `NoStaleLease`, `LostLease` and
`RecoveryProceeds`; `FinalOutcome` is the action property.

*ReceiptActions.* Here even the type invariant is not inductive alone: recovery
adopts the status of a receipt as the state of a row, which is a state only if
the receipt is terminal. `IInv` says per action which receipts, intent and
history each row state implies (`RowOK`), that outcomes are truthful
(`OutcomeOK`), that a linked reconciliation is closed with its own receipt
(`LinkOK`), and what each worker position implies (`WorkerOK`: for example a
worker about to start the tool has a prepared row and has not run). The step
that carries the weight is `RecoverPreserves`: under `IInv` recovery never adopts
a receipt and never quarantines, which also gives `SafeModeUnreached`: the read-only mode is
unreachable by the runtime's own doing. From `Invariance` follow `TypeCorrect`,
`SignsOnce`, `ReceiptBeforeRun`, `AtMostOnce`, `NoRunAfterDenial`,
`RowsAgreeWithReceipts`, `TruthfulReceipts`, `NoLostRun`; `NeverReopened` and
`OneShotIntents` are action properties. The run `terminal_calls` has no agent, so
the agent's races (its refusal against the command's denial, a skipped
`mark_started`) are covered by these theorems and not by TLC.

*The agents' half of RunEffects.* `AgentInv` follows the evidence of a reported
turn through the places it can be in (the worker, the event queue, the terminal
event, the checkpoint) and gives `ReportedSuccess` and `GateBlocksRetry`.
`AgentSuccessWasReported` is weaker than one would like: after a reconciliation
it says that *some* run of the task reported, because recovery accepts the newest
terminal event of the task, which an earlier run may have left.

*Refinement.* `RunEffectsRefinement` maps the effect column to the phases of
`OnceOnlyWork`, dispatches to starts and applied builds to the work done;
`Implements` shows under `IInv` that each action is a step of the abstract
specification or leaves what it speaks of alone: a sweep is `LoseTrack`, a
reconciliation `Confirm`.

*UpdateTransaction.* `UpdateInv` says what the phase in the journal and the
position of the process mean for the disk: while installing, a file is old,
backed up, or was absent and is known to be; from the decision on, all are new,
or those already restored are old; a clean-up deletes only what no longer
matters. From it follow `NativeAtomic` and `BackupComplete`; `CommitIsFinal` is
the action property.

`WholeAtomic` needs the renderer too, whose bundle and pointer are changed last
and put back by other code than the program files. `WholeInv` says that the
journal either names the bundle and the pointer to return to or nothing of the
UI was touched (`UiDescribes`), and that every UI file is as it was, is one the
rollback mends, or lies in the backup of the tree (`UiJournalOK`, and
`UiProcessOK` for each position of the process). It holds of the updates that
are `Paired`: the pointer was read, the bundle is a new one, and no update of
the UI alone, which keeps no journal, came in between (`hist.loose` remembers
one). Where a removal of the pointer failed, `Stuck` takes it out of what a
rollback mends (`OldUi`), and everything else still has to be old. Deviation 7
says what happens to the others.

*WorkflowRuns.* `AttemptInv` ties each attempt row to the drives: an open attempt
belongs to one drive of this process or to none, a drive past the marker is the
only one on its attempt, and an attempt that was not answered has no successor.
It is independent of the graph, of the node states and of the lease, and that is
the point: the unique attempt key alone keeps work from being done twice.

What the node states say needs `OutcomeInv` on top of it. Node states are written
from snapshots, so an outcome is safe only because the attempts cannot yield
another one: attempts are begun in order (`Ladder`), of two drives on one node
only one is past the first try (`OneRetries`), and an outcome, on the row or in
the hand of a drive about to write it, means that the attempts are over
(`Closed`, `Reached`). The nodes a drive holds in its batch still have their
inputs, and the successful end it is about to write is true of the rows now
(`DriveOutcomes`, `Whole`), although both were computed from an older read. From
it follow `InputsAreKept`, `SuccessfulRunIsWhole` and `OutcomesAreFinal`.

*BackgroundRuns.* `BaseInv` has the types and what the pollers and the holder of
the mutex have in hand. The rest must survive that any command replaces the plan
of a row while a poll holds the old one, so it is stated of the plan in hand and
the cursor it was read with. `SlotInv` is for `NoBackgroundSlotLost`: the slots in
hand lie after the cursor, and every slot of the plan in hand between them was
given up, or is in hand, or `catch_up` began off the grid; a cursor another
command or poll has moved in the meantime fails the compare and swap. `DailyInv`
is for `DailySlotsFireOnce`: the daily poller moves the cursor before it admits
the run, so what was fired under the present time lies at or before the cursor,
and at or before what a poll read, unless the history began anew since.
`ExclusiveInv` is for `QueuedRunIsExclusive`: a schedule that was never `lax` has
at most one active run the policy knows of, none is there while the next is made
under a strict policy, and the queued run is then the only one.
`NoEndedRunReturns` is the action property.

*ReceiptKeys.* `KeyInv` orders the keys along the table. `DiskInv` says that
without `cut` the stores are in one of four situations, nothing yet (`Pristine`),
agreed (`Idle`), a staged key that is not committed (`Staged`), a committed one
that is not yet everywhere (`Committed`), and which of them each position of the
process allows. Every write moves within a situation or to the next; recovery
leads from each to `Idle`. From it follow all the theorems of the module but
`PublishedHistoryVerifies`. For that `LineInv` adds that the table is one line,
each transition signed by the key it replaces or, after a break, by itself, and
that the published file is the table or lacks its last transition, whose key has
then signed nothing unless it is the one in use (`Published`). That the walk of
the verifier accepts such a line is shown by its least counterexample, which
needs no induction theorem.

*ReceiptChain.* `ChainInv` adds to `ChainIsWhole` and `EvidenceKept` that rowids
name rows and have a greatest (an append makes a greater one, a compaction leaves
its cutoff), that a key with a checkpoint has rows left, and that times rise with
ids until the clock is set back. A compaction is shown to leave a suffix whose
first row follows what the checkpoint names; an append to follow the head. The
last conjunct makes the head the newest row, which is `AppendsGoOn`.

`VerdictInv` relates receipts to actions: the table is finite, a checkpoint names
a row that was there, an action has at most one first and one last receipt in
this order, and they agree with its state. `VerifierTellsTheTruth` shows from it
that the rows of one key are never called broken (their first row follows what
the checkpoint names, every other one its predecessor) and that a verified table
is whole: the first row of each key has no predecessor, so nothing was compacted
before it, and every action has the receipt that closed it after its first, be
it a `post_action` or the refusal of an operator.
`RetentionMeetsBounds` counts: a row that survives a pass although it is too old
would, with all rows up to it, make the number of old rows greater than the
number deleted.

*Proved, and in no run.* Some theorems are about properties the runs leave to the
prover: type correctness; `DispatchedOnce`, `OutcomeIsFinal`,
`DecisionMatchesOutcome`, `UnknownHoldsNoLease`, `RecoveryNeverRefused` of
`RunEffects`; `OneReceiptPerStep`, `ReceiptIsTruthful`, `ClosedIsFinal`,
`IntentIsOneShot` of `ReceiptActions`; `EveryChangeIsBackedUp` of
`UpdateTransaction`; `SignerIsRecorded`, `StoresAgree`, `RetiredStayRetired` of
`ReceiptKeys`. Adding them to the configuration of the module's run checks them
on its instance too.

*Only model-checked.* Liveness: `SweptIsDecided`, `DecisionIsActedOn`,
`InterruptedUpdateResolves`, `DueSlotsAreHandled`, `DriveReturns`,
`CancelSettles`, `InterruptedRotationCompletes`, `RetentionHappens`. Fairness and
ENABLED are beyond the prover. Every other property of a run is stated by a
theorem.

## 6. Not modelled, and the plan

The repository has some 275 000 lines in 778 files; the modules cover the durable
core, where correctness depends on order and on failures. A model of a tenth of
the repository would mean modelling formatting, prompts, provider wire formats
and user interface, which have no properties a model checker adds to.

Left out of the modelled parts: *updater*: download, signature and marker
checks, the agent's own `recovery.json`, its self-replacement, two processes at
work on one installation. *Run effects*: `RestoreTaskSnapshot`
(`core_coordinator_build.rs:41`), which undoes the files of a build on command
and writes an audit row only: the recorded outcome of the build then speaks of
what it did, no longer of what is there. *Background*: `dispatch_once` (no caller),
`resume_run` (no code reaches the paused state), wait conditions other than a
time, presets, archives, a clock set back. *Workflow*: adapters, validation and expansion of
graphs, capability bindings, events, batch overflow. *Keys*: the manifest,
the contents of the audit file, trusted roots, rotation and re-wrapping of the
storage key. *Chain*: the export bundle and `evohime-verify`, legacy rows.

Next, in order of importance:

1. Abstract specifications of a receipt action (one approval, one run, one
   outcome) and of a workflow node, and the proofs that `ReceiptActions` and
   `WorkflowRuns` implement them.
2. Two processes in `UpdateTransaction`: a user starts the product while a worker
   applies an update.
3. The re-wrapping of protected actions under a new storage key.
4. `ChildAgents`, `Continuation` and `Goals`: budgets at their limit, retained
   children across a restart.
5. The conversation event log; the startup reconciliation of the ledger.
6. Pure algorithms: the context-budget planner and the retry schedule of the
   model gateway, checked against reference definitions.

## 7. Running it

    tlc -workers 2 -config MCKeys.cfg MCReceiptKeys
    tlc -workers 2 -config MCWorkflow.cfg MCWorkflowRuns
    tlapm ReceiptKeysProofs.tla
    tlapm WorkflowRunsProofs.tla

`PROJECT.json` names the module and configuration of every run. A run takes less
than three minutes, a proof module between one and fifteen.
