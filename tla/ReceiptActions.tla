--------------------------- MODULE ReceiptActions ---------------------------
(***************************************************************************)
(* Signed receipts of tool calls: the receipt_actions rows, the one-shot   *)
(* approval intents, the per-action receipts on the signed chain, and the  *)
(* callers that take a call from its preparation to its terminal receipt:  *)
(* the terminal command of the IPC bridge, the agent's tool loop, and the  *)
(* operator commands that close what an interruption left open.            *)
(*                                                                         *)
(* Every action is one SQLite commit, or one step of a worker between two  *)
(* commits, so a Crash can fall between any two.  Several commits under    *)
(* one acquisition of the database mutex are kept together by Free.  IPC   *)
(* commands are handled one at a time; agent workers and the approval      *)
(* garbage collector run beside them.                                      *)
(*                                                                         *)
(* All actions belong to one task.  A receipt is represented by its kind,  *)
(* or by its status when it is a post_action receipt.                      *)
(***************************************************************************)
EXTENDS Naturals, Sequences, FiniteSets

CONSTANTS
    Terminals,   \* action ids of terminal.execute calls
    Agents,      \* action ids of agent tool calls
    Checks,      \* action ids of read-only reconciliation calls
    Nothing,     \* a column that is NULL
    MaxPending,  \* MAX_PENDING_ACTIONS
    MaxResolves, \* bound on the ResolveApproval commands for one action
    MaxCrashes   \* bound on the crashes of the Core process

ASSUME ReceiptAssumption ==
    /\ Terminals \cap Agents = {}
    /\ Terminals \cap Checks = {}
    /\ Agents \cap Checks = {}
    /\ Nothing \notin Terminals \cup Agents \cup Checks
    /\ MaxPending \in Nat
    /\ MaxResolves \in Nat
    /\ MaxCrashes \in Nat

Actions == Terminals \cup Agents \cup Checks
Ipc     == Terminals \cup Checks

VARIABLES
    state,      \* receipt_actions.state
    dispatch,   \* receipt_actions.dispatch_state
    decision,   \* receipt_actions.policy_decision
    pre,        \* pre_receipt_hash is set
    term,       \* the action whose receipt terminal_receipt_hash names
    link,       \* reconciliation_action_id
    chain,      \* receipts of the action on the chain, oldest first
    intent,     \* state of its receipt_approval_intents row
    phase,      \* receipt_runtime_guard.phase
    ledger,     \* newest state_after of the action in the execution ledger
    outcomes,   \* (history) terminal ledger rows of the action
    pc,         \* where the worker of an action is
    resolving,  \* the ResolveApproval command in progress
    target,     \* the old action a reconciliation call is about
    boot,       \* down, up, or unrecovered: up though recovery failed
    late,       \* (clock) the monotonic deadline of the intent has passed
    oldBoot,    \* (clock) the intent was created in an earlier OS boot
    ran,        \* (world) times the tool was started
    result,     \* (world) what the tool did
    resolves,   \* (history) ResolveApproval commands for the action
    crashes     \* (history) crashes so far

rows     == <<state, dispatch, decision, pre, term, link, chain>>
ledgerDb == <<ledger, outcomes>>
clocks   == <<late, oldBoot>>
world    == <<ran, result>>
bounds   == <<resolves, crashes>>
vars     == <<rows, intent, phase, ledgerDb, pc, resolving, target, boot,
              clocks, world, bounds>>

States    == {"absent", "awaiting_approval", "prepared", "pending_recovery",
              "quarantined", "succeeded", "failed", "refused"}
Closed    == {"succeeded", "failed", "refused"}
Intents   == {"none", "pending", "granted", "claimed", "denied", "expired",
              "lost", "deleted"}
LedgerTerminal == {"succeeded", "failed", "denied", "timed_out",
                   "unknown_outcome"}

\* Positions a worker reaches while it holds the database mutex; only the
\* terminal command keeps it across the claim and the mark_started commit.
Holding  == {"prepared", "granted", "timed_out", "returned_ok",
             "returned_err", "observing", "closing", "failing", "unsigned",
             "unknown"}
PCs      == Holding \cup {"idle", "waiting", "refusing", "granting",
             "claimed", "started", "called", "running", "ok", "err",
             "claim_failed", "gone"}

NoCommand == [action |-> Nothing, granted |-> FALSE, step |-> "none"]
Commands  == [action : Actions, granted : BOOLEAN, step : {"deny", "ledger"}]

\* Mutant: the terminal command runs its tool before it drops the mutex.
HoldsLockWhileRunning(a) ==
    \/ pc[a] \in Holding
    \/ a \in Terminals /\ pc[a] \in {"claimed", "started", "called", "running"}

HoldsLock(a) == \/ pc[a] \in Holding
                \/ a \in Terminals /\ pc[a] \in {"claimed", "started"}

\* The database mutex is free, or held by this worker.
Free(a) == \A b \in Actions \ {a} : ~HoldsLock(b)

\* No IPC command is being handled.
IpcIdle == /\ \A a \in Ipc : pc[a] \in {"idle", "gone"}
           /\ resolving = NoCommand

Serving == boot # "down"
Ready   == phase = "ready"

\* Where a worker is after it has replied.
End(a) == IF a \in Terminals THEN "idle" ELSE "gone"

Goto(a, label) == pc' = [pc EXCEPT ![a] = label]
At(a, label)   == Serving /\ pc[a] = label /\ Free(a)
Sign(a, kind)  == chain' = [chain EXCEPT ![a] = Append(@, kind)]

Pending == {a \in Actions : state[a] \in {"prepared", "pending_recovery"}}

Init ==
    /\ state = [a \in Actions |-> "absent"]
    /\ dispatch = [a \in Actions |-> "not_started"]
    /\ decision = [a \in Actions |-> "none"]
    /\ pre = [a \in Actions |-> FALSE]
    /\ term = [a \in Actions |-> Nothing]
    /\ link = [a \in Actions |-> Nothing]
    /\ chain = [a \in Actions |-> <<>>]
    /\ intent = [a \in Actions |-> "none"]
    /\ phase = "ready"
    /\ ledger = [a \in Actions |-> "none"]
    /\ outcomes = [a \in Actions |-> 0]
    /\ pc = [a \in Actions |-> "idle"]
    /\ resolving = NoCommand
    /\ target = [c \in Checks |-> Nothing]
    /\ boot = "down"
    /\ late = [a \in Actions |-> FALSE]
    /\ oldBoot = [a \in Actions |-> FALSE]
    /\ ran = [a \in Actions |-> 0]
    /\ result = [a \in Actions |-> "none"]
    /\ resolves = [a \in Actions |-> 0]
    /\ crashes = 0

-----------------------------------------------------------------------------
(***************************************************************************)
(* prepare_inner.  A new action id, a ready guard and room under the limit. *)
(***************************************************************************)

MayPrepare(a) ==
    /\ Ready
    /\ state[a] = "absent"
    /\ Cardinality(Pending) < MaxPending

\* PolicyDecision::Allow: the row and its pre_action receipt in one commit.
PrepareAllow(a) ==
    /\ MayPrepare(a)
    /\ state' = [state EXCEPT ![a] = "prepared"]
    /\ decision' = [decision EXCEPT ![a] = "allow"]
    /\ pre' = [pre EXCEPT ![a] = TRUE]
    /\ Sign(a, "pre")
    /\ Goto(a, "prepared")
    /\ UNCHANGED <<dispatch, term, link, intent, phase, ledgerDb, resolving,
                   boot, clocks, world, bounds>>

\* PolicyDecision::ApprovalRequired: the row and a pending intent, no receipt.
PrepareApproval(a) ==
    /\ MayPrepare(a)
    /\ state' = [state EXCEPT ![a] = "awaiting_approval"]
    /\ decision' = [decision EXCEPT ![a] = "approval_required"]
    /\ intent' = [intent EXCEPT ![a] = "pending"]
    /\ UNCHANGED <<dispatch, pre, term, link, chain, phase, ledgerDb,
                   resolving, target, boot, clocks, world, bounds>>

\* execute_terminal_with_receipt, preflight allowed.
TerminalAllowed(a) ==
    /\ At(a, "idle")
    /\ IpcIdle
    /\ PrepareAllow(a)
    /\ UNCHANGED target

\* dispatch_terminal_execute without an approval id, approval needed: the
\* command ends with the reply "approval.required".
TerminalApproval(a) ==
    /\ At(a, "idle")
    /\ IpcIdle
    /\ PrepareApproval(a)
    /\ UNCHANGED pc

\* receipt_prepare_allowed
AgentAllowed(a) ==
    /\ At(a, "idle")
    /\ PrepareAllow(a)
    /\ UNCHANGED target

\* receipt_prepare_approval, then the worker waits for the user's decision.
AgentApproval(a) ==
    /\ At(a, "idle")
    /\ PrepareApproval(a)
    /\ Goto(a, "waiting")

\* execute_tool_with_receipt, preflight denied: prepare with
\* PolicyDecision::Deny signs the refusal in the commit that adds the row.
AgentDenied(a) ==
    /\ At(a, "idle")
    /\ MayPrepare(a)
    /\ state' = [state EXCEPT ![a] = "refused"]
    /\ decision' = [decision EXCEPT ![a] = "deny"]
    /\ term' = [term EXCEPT ![a] = a]
    /\ Sign(a, "refused")
    /\ Goto(a, "gone")
    /\ UNCHANGED <<dispatch, pre, link, intent, phase, ledgerDb, resolving,
                   target, boot, clocks, world, bounds>>

\* ReconcilePendingReceiptAction, up to the prepare of its own action.
CheckAllowed(c, old) ==
    /\ At(c, "idle")
    /\ IpcIdle
    /\ state[old] = "pending_recovery"
    /\ PrepareAllow(c)
    /\ target' = [target EXCEPT ![c] = old]

-----------------------------------------------------------------------------
(***************************************************************************)
(* Approval: ResolveApproval, grant_approval, claim_approval_checked.      *)
(***************************************************************************)

\* ResolveApproval wakes a registered waiter first, then commits.
ResolveApproval(a, granted) ==
    /\ Serving
    /\ IpcIdle
    /\ intent[a] # "none"
    /\ resolves[a] < MaxResolves
    /\ resolves' = [resolves EXCEPT ![a] = @ + 1]
    /\ resolving' = [action |-> a, granted |-> granted,
                     step |-> IF granted THEN "ledger" ELSE "deny"]
    /\ pc' = [pc EXCEPT ![a] = IF @ # "waiting" THEN @
                               ELSE IF granted THEN "granting"
                               ELSE "refusing"]
    /\ UNCHANGED <<rows, intent, phase, ledgerDb, target, boot, clocks, world,
                   crashes>>

\* Mutant: an intent that was granted already can still be denied.
DeniableOrGranted(a) == Ready /\ intent[a] \in {"pending", "granted", "claimed"}

\* deny_approval changes only a pending intent.
Deniable(a) == Ready /\ intent[a] = "pending"

\* deny_approval; its error is ignored by the command.
DenyApproval ==
    LET a == resolving.action IN
    /\ resolving.step = "deny"
    /\ \A b \in Actions : ~HoldsLock(b)
    /\ resolving' = [resolving EXCEPT !.step = "ledger"]
    /\ IF Deniable(a)
       THEN /\ intent' = [intent EXCEPT ![a] = "denied"]
            /\ state' = [state EXCEPT ![a] =
                            IF @ = "awaiting_approval" THEN "refused" ELSE @]
       ELSE UNCHANGED <<intent, state>>
    /\ UNCHANGED <<dispatch, decision, pre, term, link, chain, phase,
                   ledgerDb, pc, target, boot, clocks, world, bounds>>

\* append_ledger_event: ensure_single_terminal_outcome looks at the newest
\* row.  A failed publish is logged and ignored.
Publish(a, s) ==
    \/ /\ ~(s \in LedgerTerminal /\ ledger[a] \in LedgerTerminal)
       /\ ledger' = [ledger EXCEPT ![a] = s]
       /\ outcomes' = [outcomes EXCEPT ![a] =
                          IF s \in LedgerTerminal THEN @ + 1 ELSE @]
    \/ UNCHANGED ledgerDb

\* record_ledger_approval_decision
LedgerDecision ==
    LET a == resolving.action IN
    /\ resolving.step = "ledger"
    /\ \A b \in Actions : ~HoldsLock(b)
    /\ resolving' = NoCommand
    /\ IF intent[a] = "deleted" THEN UNCHANGED ledgerDb
       ELSE Publish(a, IF resolving.granted THEN "running" ELSE "denied")
    /\ UNCHANGED <<rows, intent, phase, pc, target, boot, clocks, world,
                   bounds>>

\* receipt_refuse_approval: refuse(approval_denied), its error ignored.
AgentRefuse(a) ==
    /\ At(a, "refusing")
    /\ Goto(a, "gone")
    /\ \/ /\ Ready
          /\ state[a] = "awaiting_approval"
          /\ term[a] = Nothing
          /\ intent[a] # "deleted"
          /\ Sign(a, "refused")
          /\ state' = [state EXCEPT ![a] = "refused"]
          /\ term' = [term EXCEPT ![a] = a]
          /\ intent' = [intent EXCEPT ![a] =
                           IF @ \in {"pending", "granted"} THEN "denied"
                           ELSE @]
       \/ UNCHANGED <<state, term, chain, intent>>
    /\ UNCHANGED <<dispatch, decision, pre, link, phase, ledgerDb, resolving,
                   target, boot, clocks, world, bounds>>

\* dispatch_terminal_execute with the approval id of an earlier reply.  A
\* client may send it again at any time.
TerminalExecute(a) ==
    /\ At(a, "idle")
    /\ IpcIdle
    /\ intent[a] \notin {"none", "deleted"}
    /\ Goto(a, "granting")
    /\ UNCHANGED <<rows, intent, phase, ledgerDb, resolving, target, boot,
                   clocks, world, bounds>>

\* The deadline of grant_approval: monotonic in the boot that created the
\* intent, wall clock (which may say anything) in a later one.
Grantable(a) == /\ intent[a] = "pending"
                /\ oldBoot[a] \/ ~late[a]

Grant(a) ==
    /\ At(a, "granting")
    /\ Grantable(a)
    /\ intent' = [intent EXCEPT ![a] = "granted"]
    /\ Goto(a, "granted")
    /\ UNCHANGED <<rows, phase, ledgerDb, resolving, target, boot, clocks,
                   world, bounds>>

\* grant_approval returns approval_expired: a pending intent past its
\* deadline becomes expired, and so is reported any intent that is neither
\* pending nor denied.
GrantExpired(a) ==
    /\ At(a, "granting")
    /\ intent[a] # "denied"
    /\ \/ intent[a] # "pending"
       \/ oldBoot[a] \/ late[a]
    /\ intent' = [intent EXCEPT ![a] = IF @ = "pending" THEN "expired" ELSE @]
    /\ Goto(a, IF a \in Terminals THEN "timed_out" ELSE "claim_failed")
    /\ UNCHANGED <<rows, phase, ledgerDb, resolving, target, boot, clocks,
                   world, bounds>>

GrantDenied(a) ==
    /\ At(a, "granting")
    /\ intent[a] = "denied"
    /\ Goto(a, IF a \in Terminals THEN "idle" ELSE "claim_failed")
    /\ UNCHANGED <<rows, intent, phase, ledgerDb, resolving, target, boot,
                   clocks, world, bounds>>

\* The terminal command records an expired approval in the ledger.
LedgerTimedOut(a) ==
    /\ a \in Terminals
    /\ At(a, "timed_out")
    /\ Publish(a, "timed_out")
    /\ Goto(a, End(a))
    /\ UNCHANGED <<rows, intent, phase, resolving, target, boot, clocks, world,
                   bounds>>

\* Within one boot only the monotonic deadline counts; a claim in a later
\* boot is always expired.
ClaimExpired(a) == oldBoot[a] \/ late[a]

\* Mutant: the intent and the row are updated, the receipt is not appended.
ClaimUnsigned(a) ==
    /\ At(a, "granted")
    /\ Ready
    /\ intent[a] = "granted"
    /\ ~ClaimExpired(a)
    /\ intent' = [intent EXCEPT ![a] = "claimed"]
    /\ state' = [state EXCEPT ![a] = "prepared"]
    /\ Goto(a, "claimed")
    /\ UNCHANGED <<dispatch, decision, pre, chain, term, link, phase, ledgerDb,
                   resolving, target, boot, clocks, world, bounds>>

\* claim_approval_checked succeeds: receipt, intent and row in one commit.
Claim(a) ==
    /\ At(a, "granted")
    /\ Ready
    /\ intent[a] = "granted"
    /\ ~ClaimExpired(a)
    /\ Sign(a, "pre")
    /\ intent' = [intent EXCEPT ![a] = "claimed"]
    /\ state' = [state EXCEPT ![a] = "prepared"]
    /\ pre' = [pre EXCEPT ![a] = TRUE]
    /\ Goto(a, "claimed")
    /\ UNCHANGED <<dispatch, decision, term, link, phase, ledgerDb, resolving,
                   target, boot, clocks, world, bounds>>

\* claim_approval_checked refuses: expired or no longer granted, a changed
\* call (terminal: the client sends the call again), a changed policy (agent).
\* The refusal is signed whatever the row says.
ClaimRefused(a) ==
    /\ At(a, "granted")
    /\ Ready
    /\ intent[a] # "deleted"
    /\ Sign(a, "refused")
    /\ intent' = [intent EXCEPT ![a] =
                     IF @ \notin {"pending", "granted"} THEN @
                     ELSE IF ClaimExpired(a) THEN "expired" ELSE "lost"]
    /\ IF term[a] = Nothing
       THEN /\ state' = [state EXCEPT ![a] = "refused"]
            /\ term' = [term EXCEPT ![a] = a]
       ELSE UNCHANGED <<state, term>>
    /\ Goto(a, IF a \in Terminals THEN "idle" ELSE "claim_failed")
    /\ UNCHANGED <<dispatch, decision, pre, link, phase, ledgerDb, resolving,
                   target, boot, clocks, world, bounds>>

\* approval_binding_changed, a guard that is not ready, or a signer error:
\* the claim fails and nothing is written.
ClaimError(a) ==
    /\ At(a, "granted")
    /\ Goto(a, IF a \in Terminals THEN "idle" ELSE "claim_failed")
    /\ UNCHANGED <<rows, intent, phase, ledgerDb, resolving, target, boot,
                   clocks, world, bounds>>

-----------------------------------------------------------------------------
(***************************************************************************)
(* Dispatch and completion.                                                *)
(***************************************************************************)

\* The row condition of mark_started.
Startable(a) == Ready /\ state[a] = "prepared" /\ dispatch[a] = "not_started"

MarkStarted(a) ==
    /\ Serving /\ Free(a)
    /\ pc[a] \in {"prepared", "claimed"}
    /\ Startable(a)
    /\ dispatch' = [dispatch EXCEPT ![a] = "started"]
    /\ Goto(a, "started")
    /\ UNCHANGED <<state, decision, pre, term, link, chain, intent, phase,
                   ledgerDb, resolving, target, boot, clocks, world, bounds>>

\* An agent whose ReceiptRuntime cannot be opened at this point goes on to
\* execute the approved tool without mark_started.
SkipMarkStarted(a) ==
    /\ a \in Agents
    /\ At(a, "claimed")
    /\ Goto(a, "started")
    /\ UNCHANGED <<rows, intent, phase, ledgerDb, resolving, target, boot,
                   clocks, world, bounds>>

\* record_ledger_tool_call, terminal only; then the mutex is released.
LedgerCall(a) ==
    /\ a \in Terminals
    /\ At(a, "started")
    /\ Publish(a, "running")
    /\ Goto(a, "called")
    /\ UNCHANGED <<rows, intent, phase, resolving, target, boot, clocks, world,
                   bounds>>

\* The tool implementation is entered.
RunTool(a) ==
    /\ Serving
    /\ pc[a] = IF a \in Terminals THEN "called" ELSE "started"
    /\ ran' = [ran EXCEPT ![a] = @ + 1]
    /\ result' = [result EXCEPT ![a] = "running"]
    /\ Goto(a, "running")
    /\ UNCHANGED <<rows, intent, phase, ledgerDb, resolving, target, boot,
                   clocks, bounds>>

\* The registry answers NeedsApproval to a call that was allowed when it was
\* prepared: receipt_pending, and the tool is not run.
AgentPolicyChanged(a) ==
    /\ a \in Agents
    /\ decision[a] = "allow"
    /\ Serving
    /\ pc[a] = "started"
    /\ Goto(a, "unsigned")
    /\ Free(a)
    /\ UNCHANGED <<rows, intent, phase, ledgerDb, resolving, target, boot,
                   clocks, world, bounds>>

\* Mutant: a failed tool is tried again.
RetryOnError(a, r) ==
    /\ Serving
    /\ pc[a] = "running"
    /\ result' = [result EXCEPT ![a] = r]
    /\ Goto(a, IF r = "ok" THEN "ok"
               ELSE IF a \in Terminals THEN "called" ELSE "started")
    /\ UNCHANGED <<rows, intent, phase, ledgerDb, resolving, target, boot,
                   clocks, ran, bounds>>

\* The tool returns Ok or Err.
ToolReturns(a, r) ==
    /\ Serving
    /\ pc[a] = "running"
    /\ result' = [result EXCEPT ![a] = r]
    /\ Goto(a, r)
    /\ UNCHANGED <<rows, intent, phase, ledgerDb, resolving, target, boot,
                   clocks, ran, bounds>>

Returned(r) == IF r = "ok" THEN "returned_ok" ELSE "returned_err"

\* A failed terminal call that had an approval is not completed: it goes to
\* mark_pending_recovery(external_error) at once.
IsExternalError(a) ==
    a \in Terminals /\ decision[a] = "approval_required" /\ pc[a] = "err"

\* mark_returned.  Only the agent ignores its error; the others are left to
\* Abort.
MarkReturned(a) ==
    /\ Serving /\ Free(a)
    /\ pc[a] \in {"ok", "err"}
    /\ ~IsExternalError(a)
    /\ \/ /\ Ready /\ state[a] = "prepared" /\ dispatch[a] = "started"
          /\ dispatch' = [dispatch EXCEPT ![a] = "returned"]
       \/ /\ a \in Agents
          /\ ~(Ready /\ state[a] = "prepared" /\ dispatch[a] = "started")
          /\ UNCHANGED dispatch
    /\ Goto(a, Returned(pc[a]))
    /\ UNCHANGED <<state, decision, pre, term, link, chain, intent, phase,
                   ledgerDb, resolving, target, boot, clocks, world, bounds>>

\* The status the callers pass to complete.
StatusOf(a) == IF pc[a] = "returned_ok" THEN "succeeded" ELSE "failed"

\* The row checks of complete_inner; the caller's request is the one it
\* prepared, so its identity always matches.
Completable(a) ==
    /\ Ready
    /\ term[a] = Nothing
    /\ state[a] \in {"prepared", "pending_recovery"}
    /\ dispatch[a] \in {"started", "returned"}

\* What the caller does after a signed completion: the terminal command has
\* ledger rows to write.
AfterComplete(a) == IF a \notin Terminals THEN "gone"
                    ELSE IF pc[a] = "returned_ok" THEN "observing"
                    ELSE "failing"

\* complete
Complete(a) ==
    /\ a \notin Checks
    /\ Serving /\ Free(a)
    /\ pc[a] \in {"returned_ok", "returned_err"}
    /\ Completable(a)
    /\ Sign(a, StatusOf(a))
    /\ state' = [state EXCEPT ![a] = StatusOf(a)]
    /\ dispatch' = [dispatch EXCEPT ![a] = "returned"]
    /\ term' = [term EXCEPT ![a] = a]
    /\ Goto(a, AfterComplete(a))
    /\ UNCHANGED <<decision, pre, link, intent, phase, ledgerDb, resolving,
                   target, boot, clocks, world, bounds>>

\* The old action must still be pending recovery and unlinked.
Reconcilable(old) == state[old] = "pending_recovery" /\ link[old] = Nothing

\* complete_reconciliation: the old row becomes succeeded, whatever the
\* status of the check.
CompleteCheck(c) ==
    LET old == target[c] IN
    /\ Serving /\ Free(c)
    /\ pc[c] \in {"returned_ok", "returned_err"}
    /\ Completable(c)
    /\ Reconcilable(old)
    /\ Sign(c, StatusOf(c))
    /\ state' = [state EXCEPT ![c] = StatusOf(c), ![old] = "succeeded"]
    /\ dispatch' = [dispatch EXCEPT ![c] = "returned"]
    /\ term' = [term EXCEPT ![c] = c, ![old] = c]
    /\ link' = [link EXCEPT ![old] = c]
    /\ Goto(c, "gone")
    /\ UNCHANGED <<decision, pre, intent, phase, ledgerDb, resolving, target,
                   boot, clocks, world, bounds>>

\* complete returns an error: a row that was never dispatched is quarantined,
\* a signer or storage error changes nothing.  A successful terminal call
\* ends here; every other caller goes on to mark_pending_recovery.
CompleteError(a) ==
    /\ Serving /\ Free(a)
    /\ pc[a] \in {"returned_ok", "returned_err"}
    /\ \/ /\ Ready
          /\ term[a] = Nothing
          /\ state[a] \in {"prepared", "pending_recovery"}
          /\ dispatch[a] = "not_started"
          /\ state' = [state EXCEPT ![a] = "quarantined"]
       \/ UNCHANGED state
    /\ Goto(a, IF a \in Terminals /\ pc[a] = "returned_ok" THEN "idle"
               ELSE "unsigned")
    /\ UNCHANGED <<dispatch, decision, pre, term, link, chain, intent, phase,
                   ledgerDb, resolving, target, boot, clocks, world, bounds>>

\* mark_pending_recovery: no ready guard and no condition on the state.  Its
\* error is ignored by every caller.
MarkPendingRecovery(a) ==
    /\ Serving /\ Free(a)
    /\ pc[a] = "unsigned" \/ IsExternalError(a)
    /\ \/ /\ dispatch[a] \in {"started", "returned"}
          /\ state' = [state EXCEPT ![a] = "pending_recovery"]
       \/ UNCHANGED state
    /\ Goto(a, IF IsExternalError(a) THEN "unknown" ELSE End(a))
    /\ UNCHANGED <<dispatch, decision, pre, term, link, chain, intent, phase,
                   ledgerDb, resolving, target, boot, clocks, world, bounds>>

\* record_ledger_tool_outcome of the terminal command.
LedgerOutcome(a) ==
    /\ Serving /\ Free(a)
    /\ \/ pc[a] = "observing" /\ Publish(a, "running") /\ Goto(a, "closing")
       \/ pc[a] = "closing" /\ Publish(a, "succeeded") /\ Goto(a, End(a))
       \/ pc[a] = "failing" /\ Publish(a, "failed") /\ Goto(a, End(a))
       \/ pc[a] = "unknown" /\ Publish(a, "unknown_outcome")
                            /\ Goto(a, End(a))
    /\ UNCHANGED <<rows, intent, phase, resolving, target, boot, clocks, world,
                   bounds>>

\* Cancellation drops the agent's future while it waits for the approval, or
\* anywhere in execute_tool_with_receipt outside a commit.
Cancel(a) ==
    /\ a \in Agents
    /\ Serving
    /\ \/ pc[a] = "waiting"
       \/ decision[a] = "allow" /\ pc[a] \in {"started", "running", "ok", "err"}
    /\ Goto(a, "gone")
    /\ UNCHANGED <<rows, intent, phase, ledgerDb, resolving, target, boot,
                   clocks, world, bounds>>

\* Any other `?` of a worker: the rows stay as they are.  Except between the
\* ledger row and the tool, where the terminal command has dropped the mutex,
\* the error is one of a store call, and the mutex was taken for it.
Abort(a) ==
    /\ Serving
    /\ \/ pc[a] = "called"
       \/ pc[a] \in {"granting", "prepared", "claimed", "ok", "err"} /\ Free(a)
    /\ Goto(a, End(a))
    /\ UNCHANGED <<rows, intent, phase, ledgerDb, resolving, target, boot,
                   clocks, world, bounds>>

-----------------------------------------------------------------------------
(***************************************************************************)
(* Operator commands, garbage collection, time, crash and recovery.        *)
(***************************************************************************)

\* ClosePendingReceiptAction: refuse(recovery_pending).
ClosePending(a) ==
    /\ Serving
    /\ IpcIdle
    /\ Free(a) /\ ~HoldsLock(a)
    /\ Ready
    /\ state[a] = "pending_recovery"
    /\ term[a] = Nothing
    /\ Sign(a, "refused")
    /\ state' = [state EXCEPT ![a] = "refused"]
    /\ term' = [term EXCEPT ![a] = a]
    /\ intent' = [intent EXCEPT ![a] =
                     IF @ \in {"pending", "granted"} THEN "lost" ELSE @]
    /\ UNCHANGED <<dispatch, decision, pre, link, phase, ledgerDb, pc,
                   resolving, target, boot, clocks, world, bounds>>

\* The same command with an input that does not hash to the stored call:
\* refuse quarantines the row and returns an error.
CloseMismatch(a) ==
    /\ Serving
    /\ IpcIdle
    /\ Free(a) /\ ~HoldsLock(a)
    /\ Ready
    /\ state[a] = "pending_recovery"
    /\ term[a] = Nothing
    /\ state' = [state EXCEPT ![a] = "quarantined"]
    /\ UNCHANGED <<dispatch, decision, pre, term, link, chain, intent, phase,
                   ledgerDb, pc, resolving, target, boot, clocks, world,
                   bounds>>

\* (UnquarantineReceiptAction has no action: its handler's SELECT names eight
\* columns and reads nine, so the command fails before it changes anything.)

\* The rows approval_gc deletes once their retention has passed.
Collectable(a) ==
    /\ intent[a] \in {"expired", "lost", "claimed"}
    /\ state[a] # "pending_recovery"

ApprovalGc(a) ==
    /\ Serving
    /\ \A b \in Actions : ~HoldsLock(b)
    /\ Ready
    /\ Collectable(a)
    /\ intent' = [intent EXCEPT ![a] = "deleted"]
    /\ UNCHANGED <<rows, phase, ledgerDb, pc, resolving, target, boot, clocks,
                   world, bounds>>

\* The monotonic deadline of an open intent passes.
DeadlinePasses(a) ==
    /\ intent[a] \in {"pending", "granted"}
    /\ ~late[a]
    /\ late' = [late EXCEPT ![a] = TRUE]
    /\ UNCHANGED <<rows, intent, phase, ledgerDb, pc, resolving, target, boot,
                   oldBoot, world, bounds>>

\* The Core process dies; the machine may restart with it.
Crash ==
    /\ Serving
    /\ crashes < MaxCrashes
    /\ crashes' = crashes + 1
    /\ boot' = "down"
    /\ pc' = [a \in Actions |-> IF pc[a] = "idle" THEN "idle" ELSE End(a)]
    /\ resolving' = NoCommand
    /\ \/ oldBoot' = [a \in Actions |-> oldBoot[a] \/ intent[a] # "none"]
       \/ UNCHANGED oldBoot
    /\ UNCHANGED <<rows, intent, phase, ledgerDb, target, late, world,
                   resolves>>

\* A durable terminal receipt the row does not name (recover_database).
Unadopted(a) ==
    /\ state[a] \in {"awaiting_approval", "prepared", "pending_recovery"}
    /\ term[a] = Nothing
    /\ \E n \in DOMAIN chain[a] :
          \/ chain[a][n] \in {"succeeded", "failed"} /\ pre[a]
          \/ chain[a][n] = "refused" /\ (pre[a] \/ decision[a] # "allow")

StartedWithoutPre(a) ==
    /\ state[a] \in {"prepared", "pending_recovery"}
    /\ dispatch[a] # "not_started"
    /\ ~pre[a]

TerminalWithoutPre(a) ==
    /\ ~pre[a]
    /\ \E n \in DOMAIN chain[a] : chain[a][n] \in {"succeeded", "failed"}

\* Mutant: work a restart interrupted is closed as refused.
RecoveredAsRefused(a) ==
    IF state[a] = "prepared" /\ term[a] = Nothing THEN "refused"
    ELSE state[a]

\* The state recover_database leaves a row in.
RecoveredState(a) ==
    IF Unadopted(a) THEN chain[a][Len(chain[a])]
    ELSE IF StartedWithoutPre(a) THEN "quarantined"
    ELSE IF state[a] = "prepared" /\ pre[a] /\ term[a] = Nothing
         THEN "pending_recovery"
    ELSE state[a]

\* recover_database: one transaction.  Open intents past their deadline
\* expire (in a later boot by the wall clock, which may say anything).
Recover(expired) ==
    /\ boot = "down"
    /\ boot' = "up"
    /\ expired \subseteq {a \in Actions : intent[a] \in {"pending", "granted"}}
    /\ \A a \in Actions :
          intent[a] \in {"pending", "granted"} /\ ~oldBoot[a] =>
             (a \in expired <=> late[a])
    /\ intent' = [a \in Actions |-> IF a \in expired THEN "expired"
                                    ELSE intent[a]]
    /\ state' = [a \in Actions |-> RecoveredState(a)]
    /\ dispatch' = [a \in Actions |-> IF Unadopted(a) THEN "returned"
                                      ELSE dispatch[a]]
    /\ term' = [a \in Actions |-> IF Unadopted(a) THEN a ELSE term[a]]
    /\ phase' = IF \E a \in Actions :
                      \/ StartedWithoutPre(a) /\ ~Unadopted(a)
                      \/ TerminalWithoutPre(a)
                THEN "read_only_recovery" ELSE "ready"
    /\ UNCHANGED <<decision, pre, link, chain, ledgerDb, pc, resolving, target,
                   clocks, world, bounds>>

\* recover_database returns an error: its transaction, the guard update
\* included, is rolled back; main logs the error and starts to serve.
\* (A database that fails its integrity check is outside the model.)
RecoverFails ==
    /\ boot = "down"
    /\ boot' = "unrecovered"
    /\ UNCHANGED <<rows, intent, phase, ledgerDb, pc, resolving, target, clocks,
                   world, bounds>>

-----------------------------------------------------------------------------
\* Steps every worker takes on its own action once it is under way.
Progress(a) ==
    \/ Grant(a) \/ GrantExpired(a) \/ GrantDenied(a) \/ LedgerTimedOut(a)
    \/ Claim(a) \/ ClaimRefused(a) \/ ClaimError(a) \/ AgentRefuse(a)
    \/ MarkStarted(a) \/ SkipMarkStarted(a) \/ LedgerCall(a) \/ RunTool(a)
    \/ AgentPolicyChanged(a) \/ MarkReturned(a) \/ Complete(a)
    \/ CompleteError(a) \/ MarkPendingRecovery(a) \/ LedgerOutcome(a)
    \/ Abort(a)

WorkerStep(a) ==
    \/ Progress(a)
    \/ Cancel(a)
    \/ \E r \in {"ok", "err"} : ToolReturns(a, r)

IpcStep ==
    \/ \E a \in Terminals : \/ TerminalAllowed(a)
                            \/ TerminalApproval(a)
                            \/ TerminalExecute(a)
    \/ \E c \in Checks : \/ CompleteCheck(c)
                         \/ \E old \in Actions : CheckAllowed(c, old)
    \/ \E a \in Actions, g \in BOOLEAN : ResolveApproval(a, g)
    \/ DenyApproval \/ LedgerDecision
    \/ \E a \in Actions : \/ ClosePending(a)
                          \/ CloseMismatch(a)

AgentStep ==
    \E a \in Agents : AgentAllowed(a) \/ AgentApproval(a) \/ AgentDenied(a)

Environment ==
    \/ \E a \in Actions : ApprovalGc(a) \/ DeadlinePasses(a)
    \/ Crash
    \/ \E expired \in SUBSET Actions : Recover(expired)
    \/ RecoverFails

Next ==
    \/ \E a \in Actions : WorkerStep(a)
    \/ IpcStep
    \/ AgentStep
    \/ Environment

Spec == Init /\ [][Next]_vars

\* The database mutex is granted in arrival order, so a worker that wants it
\* is not passed over for ever: strong fairness of its own steps.
FairSpec == Spec /\ \A a \in Actions : SF_vars(Progress(a))

-----------------------------------------------------------------------------
\* Every variable has its type.
TypeOK ==
    /\ state \in [Actions -> States]
    /\ dispatch \in [Actions -> {"not_started", "started", "returned"}]
    /\ decision \in [Actions -> {"none", "allow", "approval_required", "deny"}]
    /\ pre \in [Actions -> BOOLEAN]
    /\ term \in [Actions -> Actions \cup {Nothing}]
    /\ link \in [Actions -> Checks \cup {Nothing}]
    /\ chain \in [Actions -> Seq({"pre", "succeeded", "failed", "refused"})]
    /\ intent \in [Actions -> Intents]
    /\ phase \in {"ready", "read_only_recovery"}
    /\ ledger \in [Actions -> LedgerTerminal \cup {"none", "running"}]
    /\ outcomes \in [Actions -> Nat]
    /\ pc \in [Actions -> PCs]
    /\ resolving \in {NoCommand} \cup Commands
    /\ target \in [Checks -> Actions \cup {Nothing}]
    /\ boot \in {"down", "up", "unrecovered"}
    /\ late \in [Actions -> BOOLEAN]
    /\ oldBoot \in [Actions -> BOOLEAN]
    /\ ran \in [Actions -> Nat]
    /\ result \in [Actions -> {"none", "running", "ok", "err"}]
    /\ resolves \in [Actions -> Nat]
    /\ crashes \in Nat

\* An action has at most one terminal receipt, a post_action receipt only
\* after its pre_action receipt, and never two pre_action receipts: prepare,
\* claim, complete, refuse and close never sign the same step of one action
\* twice, however they are interleaved, interrupted or repeated.
OneReceiptPerStep ==
    \A a \in Actions :
        chain[a] \in {<<>>, <<"refused">>, <<"pre">>, <<"pre", "refused">>,
                      <<"pre", "succeeded">>, <<"pre", "failed">>}

\* A tool is started only after its pre_action receipt is on the chain, and
\* under approval_required only after its intent was claimed.
RanUnderReceipt ==
    \A a \in Actions : ran[a] > 0 =>
        /\ chain[a] # <<>> /\ Head(chain[a]) = "pre"
        /\ decision[a] = "approval_required" =>
              intent[a] \in {"claimed", "deleted"}

\* The tool of one action is started at most once, whatever is replayed:
\* terminal.execute with the same approval id, a second ResolveApproval, a
\* restart in between.
RunsOnce == \A a \in Actions : ran[a] <= 1

\* A rejected intent is never promoted by a replayed execute request, so
\* the tool it was about never runs (deny_approval).
DeniedNeverRuns == \A a \in Actions : intent[a] = "denied" => ran[a] = 0

\* A row is closed as the receipts say: with its own post_action receipt, by
\* a signed refusal, by a linked reconciliation that has its own post_action
\* receipt, or by a durable denial; and it is open only while it has no
\* terminal receipt.
StateMatchesReceipts ==
    \A a \in Actions :
        CASE state[a] \in {"succeeded", "failed"} /\ link[a] = Nothing ->
                chain[a] = <<"pre", state[a]>>
          [] state[a] \in {"succeeded", "failed"} /\ link[a] # Nothing ->
                /\ chain[a] = <<"pre">>
                /\ chain[link[a]] \in {<<"pre", "succeeded">>,
                                       <<"pre", "failed">>}
          [] state[a] = "refused" ->
                \/ chain[a] \in {<<"refused">>, <<"pre", "refused">>}
                \/ chain[a] = <<>> /\ intent[a] = "denied"
          [] state[a] \in {"prepared", "pending_recovery", "quarantined"} ->
                chain[a] = <<"pre">>
          [] OTHER -> chain[a] = <<>>

\* A signed outcome is what the tool did: no succeeded receipt for a tool
\* that failed or was never seen to return, and the converse.
ReceiptIsTruthful ==
    \A a \in Actions :
        /\ chain[a] = <<"pre", "succeeded">> => result[a] = "ok"
        /\ chain[a] = <<"pre", "failed">> => result[a] = "err"

\* An action that ran and was not signed stays visible as open until someone
\* closes it: it is never absent, awaiting or refused without a receipt.
RunIsAccountedFor ==
    \A a \in Actions : ran[a] > 0 /\ Len(chain[a]) < 2 =>
        \/ state[a] \in {"prepared", "pending_recovery", "quarantined"}
        \/ state[a] = "succeeded" /\ link[a] # Nothing

\* recover_database never meets an inconsistency of the runtime's own making,
\* so it never enters read-only recovery.
NeverSafeMode == phase # "read_only_recovery"

\* A closed row is never reopened or closed differently; in particular
\* mark_pending_recovery, which does not look at the state, never hits one.
ClosedIsFinal ==
    [][\A a \in Actions : state[a] \in Closed => state'[a] = state[a]]_vars

\* A decided intent never becomes open or claimed again; a denial is kept.
IntentIsOneShot ==
    [][\A a \in Actions :
         /\ intent[a] \in {"claimed", "expired", "lost"} =>
               intent'[a] \in {intent[a], "deleted"}
         /\ intent[a] = "denied" => intent'[a] = "denied"
         /\ intent[a] = "deleted" => intent'[a] = "deleted"]_vars

\* An agent whose approval was decided gets the database, and either starts
\* its tool or ends; nobody keeps the mutex.
DecisionIsActedOn ==
    \A a \in Agents :
        pc[a] \in {"granting", "refusing"} ~>
            pc[a] \in {"running", "gone", "claim_failed"}

-----------------------------------------------------------------------------
(***************************************************************************)
(* The inductive invariant: what each state of a row implies about its     *)
(* receipts, its intent and its history, and what each position of a       *)
(* worker implies about its row.                                           *)
(***************************************************************************)
Untouched(a) == /\ chain[a] = <<>>
                /\ ~pre[a]
                /\ dispatch[a] = "not_started"
                /\ term[a] = Nothing
                /\ link[a] = Nothing
                /\ ran[a] = 0

\* A pre_action receipt was signed: at once, or for a claimed intent.
Prepared(a) == /\ pre[a]
               /\ \/ decision[a] = "allow" /\ intent[a] = "none"
                  \/ decision[a] = "approval_required"
                     /\ intent[a] \in {"claimed", "deleted"}

RowOK(a) ==
    /\ ran[a] <= 1
    /\ state[a] = "absent" => Untouched(a) /\ intent[a] = "none"
    /\ state[a] = "awaiting_approval" =>
          /\ Untouched(a)
          /\ decision[a] = "approval_required"
          /\ intent[a] \in {"pending", "granted", "expired", "deleted"}
    /\ state[a] \in {"prepared", "pending_recovery", "quarantined"} =>
          /\ Prepared(a)
          /\ chain[a] = <<"pre">>
          /\ term[a] = Nothing
          /\ link[a] = Nothing
    /\ state[a] \in {"succeeded", "failed"} =>
          /\ Prepared(a)
          /\ term[a] # Nothing
          /\ IF link[a] = Nothing THEN chain[a] = <<"pre", state[a]>>
             ELSE chain[a] = <<"pre">>
    /\ state[a] = "failed" => link[a] = Nothing
    /\ state[a] = "refused" =>
          /\ link[a] = Nothing
          /\ \/ Prepared(a) /\ chain[a] = <<"pre", "refused">>
             \/ /\ ~pre[a] /\ ran[a] = 0 /\ dispatch[a] = "not_started"
                /\ intent[a] \notin {"pending", "granted", "claimed"}
                /\ \/ chain[a] = <<"refused">>
                   \/ chain[a] = <<>> /\ intent[a] = "denied"

OutcomeOK(a) ==
    /\ chain[a] = <<"pre", "succeeded">> => result[a] = "ok"
    /\ chain[a] = <<"pre", "failed">> => result[a] = "err"

\* The reconciliation a row is linked to has its own post_action receipt.
LinkOK(a) ==
    link[a] # Nothing =>
        /\ state[link[a]] \in {"succeeded", "failed"}
        /\ chain[link[a]] \in {<<"pre", "succeeded">>, <<"pre", "failed">>}

Dispatching == {"running", "ok", "err", "returned_ok", "returned_err"}

WorkerOK(a) ==
    /\ boot = "down" => pc[a] \in {"idle", "gone"}
    /\ pc[a] = "idle" /\ a \notin Terminals => state[a] = "absent"
    /\ pc[a] = "granted" => intent[a] = "granted"
    /\ pc[a] \in {"prepared", "claimed"} =>
          state[a] = "prepared" /\ dispatch[a] = "not_started" /\ ran[a] = 0
    /\ pc[a] \in {"started", "called"} => state[a] = "prepared" /\ ran[a] = 0
    /\ pc[a] \in Dispatching => state[a] = "prepared" /\ ran[a] = 1
    /\ pc[a] \in {"ok", "returned_ok"} => result[a] = "ok"
    /\ pc[a] \in {"err", "returned_err"} => result[a] = "err"
    /\ pc[a] = "unsigned" => state[a] \in {"prepared", "quarantined"}

IInv ==
    /\ TypeOK
    /\ phase = "ready"
    /\ \A a \in Actions : RowOK(a) /\ OutcomeOK(a) /\ LinkOK(a) /\ WorkerOK(a)
    /\ \A c \in Checks : pc[c] # "idle" => target[c] \in Actions

-----------------------------------------------------------------------------
(* What comments and documents of the repository say, and the code does not *)
(* do.  No run checks them; the README lists them as known deviations.      *)

\* "callers prepare/claim a mutation, dispatch it, and then commit exactly
\* one terminal receipt": a refused action has its signed refusal.
RefusedIsSigned ==
    \A a \in Actions : state[a] = "refused" =>
        chain[a] # <<>> /\ chain[a][Len(chain[a])] = "refused"

\* "a terminal action never gets a second terminal outcome" in the ledger.
OneTerminalOutcome == \A a \in Actions : outcomes[a] <= 1

\* "Recovery never synthesizes a successful result": an action recorded as
\* succeeded has a receipt that says so, its own or its reconciliation's.
SucceededHasEvidence ==
    \A a \in Actions : state[a] = "succeeded" =>
        <<"pre", "succeeded">> \in {chain[a]} \cup
            (IF link[a] = Nothing THEN {} ELSE {chain[link[a]]})

\* "the guard remains non-ready on failure" of recover_database.
FailedRecoveryIsNotReady == boot = "unrecovered" => phase # "ready"
=============================================================================
