---- MODULE WorkflowRuns ----
(***************************************************************************)
(* One durable workflow run: the row of the run, the rows of its nodes and *)
(* of their dispatch attempts, the registry of approvals in the memory of  *)
(* the Core process, and the drives that advance the run                   *)
(* (evohime-core/src/workflow_runtime.rs over                              *)
(* evohime-local-storage/src/workflow_store.rs).                           *)
(*                                                                         *)
(* A drive is a background task.  The start of the run, every decision on  *)
(* an approval of it and every request to cancel it spawn one, nothing     *)
(* joins them, and the lease of the run does not keep them apart because   *)
(* all of them own it under the same core_instance_id.  Every step below   *)
(* is one critical section of the journal's lock, so two drives interleave *)
(* wherever the code unlocks.  A node is its position in the order of the  *)
(* node identifiers, the order in which drives walk the graph.             *)
(***************************************************************************)
EXTENDS Naturals, FiniteSets

CONSTANTS
    Nodes,          \* the nodes of the graph, numbered in identifier order
    DataEdges,      \* pairs <<from, to>> of EdgeChannel::Data
    FailureEdges,   \* pairs <<from, to>> of EdgeChannel::Failure
    Required,       \* the edges that feed a required input port
    AnyJoin,        \* nodes with JoinMode::Any (the others: JoinMode::All)
    Parallel,       \* nodes of ConcurrencyClass::Parallel
    NeedsApproval,  \* nodes with execution.approval.required
    Tries,          \* max_attempts of every node
    MaxTry,         \* bound: the largest max_attempts
    MaxParallel,    \* budget.max_parallel_nodes
    Drivers,        \* free places of the pool of background tasks
    MaxRestarts     \* bound: restarts of the Core process

ASSUME GraphAssumption ==
    /\ Nodes \subseteq Nat /\ IsFiniteSet(Nodes)
    /\ DataEdges \cup FailureEdges \subseteq
           {e \in Nodes \X Nodes : e[1] # e[2]}
    /\ DataEdges \cap FailureEdges = {}
    /\ Required \subseteq DataEdges \cup FailureEdges
    /\ AnyJoin \cup Parallel \cup NeedsApproval \subseteq Nodes

ASSUME BoundAssumption ==
    /\ MaxTry \in Nat /\ Tries \in [Nodes -> 1..MaxTry]
    /\ MaxParallel \in Nat \ {0} /\ MaxRestarts \in Nat

VARIABLES
    run,       \* row of the run: its state and cancel_requested
    lease,     \* lease_owner: nobody, this process, or a process that died
    node,      \* state column of the row of every node
    attempt,   \* rows of workflow_node_attempts, by node and number
    approval,  \* WorkflowApprovalRegistry: what it holds on every node
    drive,     \* the drives: where each is and what it holds on its stack
    starting,  \* the command that inserted the run has not spawned its drive
    restarts,  \* restarts so far
    granted,   \* history: nodes some decision has approved
    effects    \* history: calls of the adapter, by node and attempt number

vars == <<run, lease, node, attempt, approval, drive, starting, restarts,
          granted, effects>>

OpenNode == {"pending", "running", "waiting_approval"}
Success == {"succeeded", "degraded"}
Failure == {"failed", "timed_out", "dead_letter"}
NodeStates == OpenNode \cup Success \cup Failure
                  \cup {"denied", "cancelled", "blocked", "unknown_outcome"}
EndedRun == {"completed", "failed", "cancelled", "degraded"}
OpenRun == {"pending", "running", "waiting_approval", "interrupted"}
Attempts == {"none", "open", "succeeded", "failed", "unknown"}

(* What the adapter answers: a result, a degraded result, a result that    *)
(* check_acceptance refuses, a permanent error, a retryable error, and a   *)
(* timeout; the last two also as errors outside the classes of the node.   *)
Outcomes == {"ok", "degraded", "refused", "permanent",
             "retryable", "unlisted", "timeout", "timeout_unlisted"}
Locations == {"idle", "begin", "lease", "look", "nodes", "cancel", "block",
              "finish", "running", "node", "ask", "check", "dispatch",
              "effect", "close", "settle", "release"}

Idle == [pc |-> "idle", todo |-> {}, lacking |-> {}, try |-> 0,
         goal |-> "", moved |-> FALSE]
Drives == [pc : Locations, todo : SUBSET Nodes, lacking : SUBSET Nodes,
           try : 0..MaxTry, moved : BOOLEAN,
           goal : {""} \cup NodeStates \cup EndedRun \cup OpenRun \cup Outcomes]

TypeOK ==
    /\ run \in [state : EndedRun \cup OpenRun, cancel : BOOLEAN]
    /\ lease \in {"nobody", "us", "dead"}
    /\ node \in [Nodes -> NodeStates]
    /\ attempt \in [Nodes -> [1..MaxTry -> Attempts]]
    /\ approval \in [Nodes -> {"none", "pending", "granted", "denied"}]
    /\ drive \in [Drivers -> Drives]
    /\ starting \in BOOLEAN
    /\ restarts \in 0..MaxRestarts
    /\ granted \subseteq Nodes
    /\ effects \in [Nodes -> [1..MaxTry -> Nat]]

(* The command that starts a workflow has inserted the run and its nodes   *)
(* in one transaction and is about to spawn the first drive.               *)
Init ==
    /\ run = [state |-> "pending", cancel |-> FALSE]
    /\ lease = "nobody"
    /\ node = [n \in Nodes |-> "pending"]
    /\ attempt = [n \in Nodes |-> [k \in 1..MaxTry |-> "none"]]
    /\ approval = [n \in Nodes |-> "none"]
    /\ drive = [d \in Drivers |-> Idle]
    /\ starting = TRUE
    /\ restarts = 0
    /\ granted = {}
    /\ effects = [n \in Nodes |-> [k \in 1..MaxTry |-> 0]]

----------------------------------------------------------------------------
(* The pure functions of the scheduler, over a snapshot s of node states.  *)

DataFrom(n) == {m \in Nodes : <<m, n>> \in DataEdges}
FailureFrom(n) == {m \in Nodes : <<m, n>> \in FailureEdges}

(* The node can no longer run: a dependency it needs has ended otherwise.  *)
BlockingDependency(n, s) ==
    /\ DataFrom(n) \cup FailureFrom(n) # {}
    /\ \A m \in DataFrom(n) : s[m] \notin OpenNode
    /\ \A m \in FailureFrom(n) : s[m] \notin OpenNode \cup Failure
    /\ IF n \in AnyJoin
       THEN DataFrom(n) # {} /\ \A m \in DataFrom(n) : s[m] \notin Success
       ELSE \E m \in DataFrom(n) : s[m] \notin Success

(* What arrived on the edges suffices to dispatch the node.                *)
InputsArrived(n, s) ==
    \/ DataFrom(n) \cup FailureFrom(n) = {}
    \/ FailureFrom(n) # {} /\ \A m \in FailureFrom(n) : s[m] \in Failure
    \/ /\ DataFrom(n) # {}
       /\ IF n \in AnyJoin THEN \E m \in DataFrom(n) : s[m] \in Success
                           ELSE \A m \in DataFrom(n) : s[m] \in Success

(* Mutant: an input counts as soon as its source was dispatched. *)
ReadyOnStart(s) ==
    {n \in Nodes : /\ s[n] \in {"pending", "waiting_approval"}
                   /\ \A m \in DataFrom(n) : s[m] \in Success \cup {"running"}}

ReadyNodes(s) ==
    {n \in Nodes : s[n] \in {"pending", "waiting_approval"} /\ InputsArrived(n, s)}

(* Mutant: a blocked node is not counted as a failure of the run. *)
TerminalIgnoringBlocked(s) ==
    LET has(S) == \E n \in Nodes : s[n] \in S
    IN  IF has({"cancelled"}) THEN "cancelled"
        ELSE IF has(OpenNode) THEN ""
        ELSE IF has(Failure \cup {"unknown_outcome"}) THEN "failed"
        ELSE IF has({"degraded"}) THEN "degraded" ELSE "completed"

(* The state the run ends in, or "" while it must stay open.               *)
TerminalState(s) ==
    LET decisive == {n \in Nodes : s[n] \in {"waiting_approval", "cancelled"}}
        has(S) == \E n \in Nodes : s[n] \in S
    IN  IF \E n \in decisive : s[n] = "cancelled" /\ \A m \in decisive : n <= m
        THEN "cancelled"
        ELSE IF has(OpenNode) THEN ""
        ELSE IF has(Failure \cup {"denied", "blocked", "unknown_outcome"})
        THEN "failed"
        ELSE IF has({"degraded"}) THEN "degraded" ELSE "completed"

(* The first ready node, and with it the parallel nodes that follow it.    *)
SelectBatch(r) ==
    LET upto(n) == {m \in r : m <= n}
        safe == Parallel \ NeedsApproval
    IN  {n \in r : \/ upto(n) = {n}
                   \/ upto(n) \subseteq safe /\ Cardinality(upto(n)) <= MaxParallel}

(* A required input port got nothing (collect_inputs).                     *)
MissingInput(n, s) ==
    \E m \in Nodes :
        \/ <<m, n>> \in Required \cap DataEdges /\ s[m] \notin Success
        \/ <<m, n>> \in Required \cap FailureEdges /\ s[m] \notin Failure

----------------------------------------------------------------------------
(* Commands.                                                               *)

At(d, l) == drive[d].pc = l
Goto(d, l) == drive' = [drive EXCEPT ![d].pc = l]
Leave(d) == drive' = [drive EXCEPT ![d] = [Idle EXCEPT !.pc = "release"]]
First(d, n) == n \in drive[d].todo /\ \A m \in drive[d].todo : n <= m

(* A drive is spawned if the pool has room; the callers that ignore the    *)
(* answer of the pool go on without one.                                   *)
SpawnDrive ==
    IF \E d \in Drivers : At(d, "idle")
    THEN \E d \in Drivers :
             At(d, "idle") /\ drive' = [drive EXCEPT ![d] = [Idle EXCEPT !.pc = "begin"]]
    ELSE UNCHANGED drive

StartDrive ==
    /\ starting
    /\ starting' = FALSE
    /\ SpawnDrive
    /\ UNCHANGED <<run, lease, node, attempt, approval, restarts, granted, effects>>

(* ResolveApproval: the id must be one the registry of this process gave   *)
(* out; a later decision replaces an earlier one.                          *)
Resolve(n, grant) ==
    /\ approval[n] # "none"
    /\ approval' = [approval EXCEPT ![n] = IF grant THEN "granted" ELSE "denied"]
    /\ granted' = IF grant THEN granted \cup {n} ELSE granted
    /\ SpawnDrive
    /\ UNCHANGED <<run, lease, node, attempt, starting, restarts, effects>>

CancelWorkflow ==
    /\ run.state \notin EndedRun
    /\ run' = [run EXCEPT !.cancel = TRUE]
    /\ SpawnDrive
    /\ UNCHANGED <<lease, node, attempt, approval, starting, restarts, granted, effects>>

----------------------------------------------------------------------------
(* drive: the early return, the lease, and its release on every path.      *)

BeginDrive(d) ==
    /\ At(d, "begin")
    /\ drive' = [drive EXCEPT ![d] = IF run.state \in EndedRun THEN Idle
                                     ELSE [@ EXCEPT !.pc = "lease"]]
    /\ UNCHANGED <<run, lease, node, attempt, approval, starting, restarts, granted, effects>>

AcquireLease(d) ==
    /\ At(d, "lease")
    /\ IF lease = "dead"
       THEN drive' = [drive EXCEPT ![d] = Idle] /\ UNCHANGED lease
       ELSE Goto(d, "look") /\ lease' = "us"
    /\ UNCHANGED <<run, node, attempt, approval, starting, restarts, granted, effects>>

(* The lease of a process that died runs out after LEASE_MS.               *)
LeaseExpires ==
    /\ lease = "dead"
    /\ lease' = "nobody"
    /\ UNCHANGED <<run, node, attempt, approval, drive, starting, restarts, granted, effects>>

ReleaseLease(d) ==
    /\ At(d, "release")
    /\ drive' = [drive EXCEPT ![d] = Idle]
    /\ lease' = IF lease = "us" THEN "nobody" ELSE lease
    /\ UNCHANGED <<run, node, attempt, approval, starting, restarts, granted, effects>>

----------------------------------------------------------------------------
(* drive_locked: one turn of its loop.                                     *)

(* Mutant: the loop does not look at cancel_requested. *)
ReadRunBlind(d) ==
    /\ At(d, "look")
    /\ IF run.state \in EndedRun THEN Leave(d)
       ELSE drive' = [drive EXCEPT ![d] = [Idle EXCEPT !.pc = "nodes"]]
    /\ UNCHANGED <<run, lease, node, attempt, approval, starting, restarts, granted, effects>>

(* The run is read first, under a lock of its own; goal remembers whether  *)
(* that read saw the request to cancel.                                    *)
ReadRun(d) ==
    /\ At(d, "look")
    /\ IF run.state \in EndedRun THEN Leave(d)
       ELSE drive' = [drive EXCEPT ![d] =
                [Idle EXCEPT !.pc = "nodes", !.goal = IF run.cancel THEN "cancelled" ELSE ""]]
    /\ UNCHANGED <<run, lease, node, attempt, approval, starting, restarts, granted, effects>>

(* What a drive does next with the snapshot s of the nodes.                *)
Plan(cancel, s) ==
    LET open == {n \in Nodes : s[n] \in OpenNode}
        blocked == {n \in open : BlockingDependency(n, s)}
        ready == ReadyNodes(s)
        batch == SelectBatch(ready)
    IN  CASE cancel /\ open # {} ->
               [Idle EXCEPT !.pc = "cancel", !.todo = open, !.goal = "cancelled"]
          [] cancel /\ open = {} ->
               [Idle EXCEPT !.pc = "finish", !.goal = "cancelled"]
          [] ~cancel /\ blocked # {} ->
               [Idle EXCEPT !.pc = "block", !.todo = blocked]
          [] ~cancel /\ blocked = {} /\ ready # {} ->
               [Idle EXCEPT !.pc = "running", !.todo = batch,
                            !.lacking = {n \in batch : MissingInput(n, s)}]
          [] OTHER ->
               [Idle EXCEPT !.pc = "finish",
                    !.goal = IF TerminalState(s) # "" THEN TerminalState(s)
                             ELSE IF \E n \in Nodes : s[n] = "waiting_approval"
                             THEN "waiting_approval" ELSE "interrupted"]

(* The rows of the nodes are read, and everything up to the next write     *)
(* depends on that snapshot only.                                          *)
ReadNodes(d) ==
    /\ At(d, "nodes")
    /\ drive' = [drive EXCEPT ![d] = Plan(drive[d].goal = "cancelled", node)]
    /\ UNCHANGED <<run, lease, node, attempt, approval, starting, restarts, granted, effects>>

(* Mutant: the update has no condition on the state of the row. *)
UpdateAnyNode(d, n, s, next) ==
    node' = [node EXCEPT ![n] = s] /\ drive' = [drive EXCEPT ![d] = next]

(* update_node_state: only an open node changes; for any other the store   *)
(* answers UnknownNode and the drive ends with that error.                 *)
UpdateNode(d, n, s, next) ==
    IF node[n] \in OpenNode
    THEN node' = [node EXCEPT ![n] = s] /\ drive' = [drive EXCEPT ![d] = next]
    ELSE Leave(d) /\ UNCHANGED node

(* cancel_open_nodes: every node that the snapshot showed open.            *)
CancelOpenNode(d) ==
    /\ At(d, "cancel")
    /\ \E n \in Nodes :
          /\ First(d, n)
          /\ UpdateNode(d, n, "cancelled",
                 [drive[d] EXCEPT !.todo = @ \ {n},
                     !.pc = IF drive[d].todo = {n} THEN "finish" ELSE "cancel"])
    /\ UNCHANGED <<run, lease, attempt, approval, starting, restarts, granted, effects>>

(* Mutant: the blocked nodes are found but not written. *)
MarkBlockedInMemory(d) ==
    /\ At(d, "block")
    /\ \E n \in Nodes :
          /\ First(d, n)
          /\ drive' = [drive EXCEPT ![d].todo = @ \ {n},
                  ![d].pc = IF drive[d].todo = {n} THEN "look" ELSE "block"]
    /\ UNCHANGED <<run, lease, node, attempt, approval, starting, restarts, granted, effects>>

MarkBlockedNode(d) ==
    /\ At(d, "block")
    /\ \E n \in Nodes :
          /\ First(d, n)
          /\ UpdateNode(d, n, "blocked",
                 [drive[d] EXCEPT !.todo = @ \ {n},
                     !.pc = IF drive[d].todo = {n} THEN "look" ELSE "block"])
    /\ UNCHANGED <<run, lease, attempt, approval, starting, restarts, granted, effects>>

(* finish_run, and the set_run_state before a drive that cannot go on      *)
(* returns: an ended run does not change, and the drive returns either way.*)
FinishRun(d) ==
    /\ At(d, "finish")
    /\ run' = IF run.state \in EndedRun THEN run ELSE [run EXCEPT !.state = drive[d].goal]
    /\ Leave(d)
    /\ UNCHANGED <<lease, node, attempt, approval, starting, restarts, granted, effects>>

SetRunning(d) ==
    /\ At(d, "running")
    /\ IF run.state \in EndedRun THEN Leave(d) /\ UNCHANGED run
       ELSE Goto(d, "node") /\ run' = [run EXCEPT !.state = "running"]
    /\ UNCHANGED <<lease, node, attempt, approval, starting, restarts, granted, effects>>

----------------------------------------------------------------------------
(* execute_node, for the nodes of the batch one after the other.           *)

(* The drive is done with node n.  After the batch it looks again, unless  *)
(* nothing was executed: then the node waits for its approval.             *)
Done(d, n, moved) ==
    LET rest == drive[d].todo \ {n}
        m == drive[d].moved \/ moved
    IN  IF rest # {} THEN [drive[d] EXCEPT !.pc = "node", !.todo = rest, !.try = 0,
                                           !.goal = "", !.moved = m]
        ELSE IF m THEN [Idle EXCEPT !.pc = "look"]
        ELSE [Idle EXCEPT !.pc = "finish", !.goal = "waiting_approval"]

(* Mutant: an approval that was already asked for counts as given. *)
CheckNodeAskedOnce(d) ==
    /\ At(d, "node")
    /\ \E n \in Nodes :
          /\ First(d, n)
          /\ drive' = [drive EXCEPT ![d] =
                 IF n \in NeedsApproval /\ approval[n] = "none"
                 THEN [@ EXCEPT !.pc = "ask"]
                 ELSE [@ EXCEPT !.pc = "check", !.try = 1]]
    /\ UNCHANGED <<run, lease, node, attempt, approval, starting, restarts, granted, effects>>

(* Approval and inputs are checked before the first attempt.  (The graph   *)
(* hash and the bindings are checked here too; they were valid when this   *)
(* process accepted the run, and the registry of a process is immutable.)  *)
CheckNode(d) ==
    /\ At(d, "node")
    /\ \E n \in Nodes :
          /\ First(d, n)
          /\ LET settle(s) == [drive[d] EXCEPT !.pc = "settle", !.goal = s]
                 gated == n \in NeedsApproval
                 inputs == IF n \in drive[d].lacking THEN settle("failed")
                           ELSE [drive[d] EXCEPT !.pc = "check", !.try = 1]
             IN  drive' = [drive EXCEPT ![d] =
                     CASE gated /\ approval[n] = "denied" -> settle("denied")
                       [] gated /\ approval[n] \in {"none", "pending"} ->
                              [drive[d] EXCEPT !.pc = "ask"]
                       [] OTHER -> inputs]
    /\ UNCHANGED <<run, lease, node, attempt, approval, starting, restarts, granted, effects>>

(* set_node_approval and the event that shows the id to the user.          *)
AskApproval(d) ==
    /\ At(d, "ask")
    /\ \E n \in Nodes :
          /\ First(d, n)
          /\ node' = IF node[n] \in {"pending", "running"}
                     THEN [node EXCEPT ![n] = "waiting_approval"] ELSE node
          /\ approval' = IF approval[n] = "none"
                         THEN [approval EXCEPT ![n] = "pending"] ELSE approval
          /\ drive' = [drive EXCEPT ![d] = Done(d, n, FALSE)]
    /\ UNCHANGED <<run, lease, attempt, starting, restarts, granted, effects>>

(* The request to cancel is read before every attempt.                     *)
CheckCancel(d) ==
    /\ At(d, "check")
    /\ drive' = [drive EXCEPT ![d].pc = IF run.cancel THEN "settle" ELSE "dispatch",
                              ![d].goal = IF run.cancel THEN "cancelled" ELSE ""]
    /\ UNCHANGED <<run, lease, node, attempt, approval, starting, restarts, granted, effects>>

(* Mutant: the marker is inserted with INSERT OR IGNORE. *)
BeginAttemptOrIgnore(d) ==
    /\ At(d, "dispatch")
    /\ \E n \in Nodes :
          /\ First(d, n)
          /\ attempt' = [attempt EXCEPT ![n][drive[d].try] = IF @ = "none" THEN "open" ELSE @]
          /\ node' = [node EXCEPT ![n] = "running"]
    /\ Goto(d, "effect")
    /\ UNCHANGED <<run, lease, approval, starting, restarts, granted, effects>>

(* begin_attempt: the marker is inserted under the key of the run, the     *)
(* node and the number, which only one insertion can get, and the node is  *)
(* set running whatever its state is.                                      *)
BeginAttempt(d) ==
    /\ At(d, "dispatch")
    /\ \E n \in Nodes :
          /\ First(d, n)
          /\ IF attempt[n][drive[d].try] # "none"
             THEN Leave(d) /\ UNCHANGED <<node, attempt>>
             ELSE /\ attempt' = [attempt EXCEPT ![n][drive[d].try] = "open"]
                  /\ node' = [node EXCEPT ![n] = "running"]
                  /\ Goto(d, "effect")
    /\ UNCHANGED <<run, lease, approval, starting, restarts, granted, effects>>

(* The adapter runs the node.                                              *)
Execute(d, o) ==
    /\ At(d, "effect")
    /\ \E n \in Nodes :
          First(d, n) /\ effects' = [effects EXCEPT ![n][drive[d].try] = @ + 1]
    /\ drive' = [drive EXCEPT ![d].pc = "close", ![d].goal = o]
    /\ UNCHANGED <<run, lease, node, attempt, approval, starting, restarts, granted>>

Retryable(o) == o \in {"retryable", "unlisted", "timeout", "timeout_unlisted"}
Retried(o, n, k) == o \in {"retryable", "timeout"} /\ k < Tries[n]

(* The state of a node after the last attempt it gets.                     *)
FinalState(o, n, k) ==
    CASE o = "ok" -> "succeeded"
      [] o = "degraded" -> "degraded"
      [] Retryable(o) /\ k >= Tries[n] /\ Tries[n] > 1 -> "dead_letter"
      [] o \in {"timeout", "timeout_unlisted"} /\ ~(k >= Tries[n] /\ Tries[n] > 1) ->
             "timed_out"
      [] OTHER -> "failed"

(* Mutant: an attempt that timed out is left open. *)
CloseUnlessTimeout(d) ==
    /\ At(d, "close")
    /\ \E n \in Nodes :
          /\ First(d, n)
          /\ LET k == drive[d].try
                 o == drive[d].goal
             IN  /\ attempt' = [attempt EXCEPT ![n][k] =
                        IF o = "timeout" THEN @
                        ELSE IF o \in {"ok", "degraded"} THEN "succeeded" ELSE "failed"]
                 /\ drive' = [drive EXCEPT ![d] =
                        IF Retried(o, n, k)
                        THEN [@ EXCEPT !.pc = "check", !.try = k + 1, !.goal = ""]
                        ELSE [@ EXCEPT !.pc = "settle", !.goal = FinalState(o, n, k)]]
    /\ UNCHANGED <<run, lease, node, approval, starting, restarts, granted, effects>>

(* close_attempt, and the choice between another attempt and the end.      *)
CloseAttempt(d) ==
    /\ At(d, "close")
    /\ \E n \in Nodes :
          /\ First(d, n)
          /\ LET k == drive[d].try
                 o == drive[d].goal
             IN  /\ attempt' = [attempt EXCEPT ![n][k] =
                        IF @ # "open" THEN @
                        ELSE IF o \in {"ok", "degraded"} THEN "succeeded" ELSE "failed"]
                 /\ drive' = [drive EXCEPT ![d] =
                        IF Retried(o, n, k)
                        THEN [@ EXCEPT !.pc = "check", !.try = k + 1, !.goal = ""]
                        ELSE [@ EXCEPT !.pc = "settle", !.goal = FinalState(o, n, k)]]
    /\ UNCHANGED <<run, lease, node, approval, starting, restarts, granted, effects>>

(* terminate_node, or update_node_state with the output of the node.       *)
SettleNode(d) ==
    /\ At(d, "settle")
    /\ \E n \in Nodes :
          First(d, n) /\ UpdateNode(d, n, drive[d].goal, Done(d, n, TRUE))
    /\ UNCHANGED <<run, lease, attempt, approval, starting, restarts, granted, effects>>

----------------------------------------------------------------------------
(* The Core process dies and the next one recovers the store before it     *)
(* accepts commands: an open attempt has an unknown outcome, its node ends *)
(* and its run is interrupted.  Drives and the registry are gone.          *)
RestartCore ==
    /\ restarts < MaxRestarts
    /\ restarts' = restarts + 1
    /\ drive' = [d \in Drivers |-> Idle]
    /\ approval' = [n \in Nodes |-> "none"]
    /\ starting' = FALSE
    /\ LET open(n) == \E k \in 1..MaxTry : attempt[n][k] = "open"
           hit == \E n \in Nodes : open(n)
       IN  /\ attempt' = [n \in Nodes |-> [k \in 1..MaxTry |->
                  IF attempt[n][k] = "open" THEN "unknown" ELSE attempt[n][k]]]
           /\ node' = [n \in Nodes |-> IF open(n) THEN "unknown_outcome" ELSE node[n]]
           /\ run' = IF hit /\ run.state \notin EndedRun
                     THEN [run EXCEPT !.state = "interrupted"] ELSE run
           /\ lease' = IF \/ hit /\ run.state \notin EndedRun
                          \/ run.state \in OpenRun \ {"interrupted"}
                       THEN "nobody" ELSE IF lease = "us" THEN "dead" ELSE lease
    /\ UNCHANGED <<granted, effects>>

DriveStep(d) ==
    \/ BeginDrive(d) \/ AcquireLease(d) \/ ReleaseLease(d)
    \/ ReadRun(d) \/ ReadNodes(d) \/ CancelOpenNode(d) \/ MarkBlockedNode(d)
    \/ FinishRun(d) \/ SetRunning(d)
    \/ CheckNode(d) \/ AskApproval(d) \/ CheckCancel(d)
    \/ BeginAttempt(d) \/ (\E o \in Outcomes : Execute(d, o))
    \/ CloseAttempt(d) \/ SettleNode(d)

Next ==
    \/ StartDrive
    \/ \E n \in Nodes, grant \in BOOLEAN : Resolve(n, grant)
    \/ CancelWorkflow
    \/ LeaseExpires
    \/ \E d \in Drivers : DriveStep(d)
    \/ RestartCore

Spec == Init /\ [][Next]_vars

(* The executor polls every spawned drive, adapters end by their timeout,  *)
(* and the command that started the run spawns its drive.                  *)
FairSpec ==
    /\ Spec
    /\ WF_vars(StartDrive)
    /\ \A d \in Drivers : WF_vars(DriveStep(d))

----------------------------------------------------------------------------
(* Properties.                                                             *)

(* However many drives and processes work on the run, an attempt of a node *)
(* reaches the adapter at most once: the marker under its unique key is    *)
(* committed before the effect (begin_attempt).                            *)
AttemptRunsOnce == \A n \in Nodes, k \in 1..MaxTry : effects[n][k] <= 1

(* A node is tried again only after the attempt before it was answered: no *)
(* attempt follows one that is open or was cut off by a restart.           *)
NoBlindRetry ==
    \A n \in Nodes, k \in 2..MaxTry :
        attempt[n][k] # "none" => attempt[n][k - 1] = "failed"

(* The node has a required input port that an edge feeds.                  *)
HasRequired(n) == \E m \in Nodes : <<m, n>> \in Required

(* What the join of a node asks for is there.  A source with a required    *)
(* input may also go on after it failed: a drive with an older snapshot    *)
(* finds the input missing while another one tries the source.             *)
KeptInputs(n) ==
    \/ DataFrom(n) \cup FailureFrom(n) = {}
    \/ /\ FailureFrom(n) # {}
       /\ \A m \in FailureFrom(n) :
              node[m] \in Failure \/ (HasRequired(m) /\ node[m] # "pending")
    \/ /\ DataFrom(n) # {}
       /\ IF n \in AnyJoin THEN \E m \in DataFrom(n) : node[m] \in Success
                           ELSE \A m \in DataFrom(n) : node[m] \in Success

(* A node that was dispatched had what its join asks for, and still has    *)
(* it: no drive dispatches from a snapshot that a later step revokes.      *)
DispatchedHadInputs == \A n \in Nodes : attempt[n][1] # "none" => KeptInputs(n)

(* A node under approval reaches the adapter only after a decision granted *)
(* it, with any number of drives, decisions and restarts.                  *)
NoEffectWithoutGrant ==
    \A n \in NeedsApproval : attempt[n][1] # "none" => n \in granted

(* A run that reports success did all of its work, with any number of      *)
(* drives: every node of a completed run succeeded, no node of a degraded  *)
(* one did otherwise than degraded, and no attempt is still alive.         *)
SuccessIsWhole ==
    /\ run.state = "completed" => \A n \in Nodes : node[n] = "succeeded"
    /\ run.state \in {"completed", "degraded"} =>
           /\ \A n \in Nodes : node[n] \in Success
           /\ \A n \in Nodes, k \in 1..MaxTry : attempt[n][k] # "open"

(* The outcome that the attempts of a node led to is final: no drive with  *)
(* an older snapshot and no recovery overwrites it, and an ended run stays *)
(* ended.  (A drive that finds a required input missing reports "failed",  *)
(* too: that is no outcome of an attempt.)                                 *)
Settled(n) ==
    \/ node[n] \in Success \cup {"timed_out", "dead_letter"}
    \/ node[n] = "failed" /\ ~HasRequired(n)
OutcomesStay ==
    [][/\ \A n \in Nodes : Settled(n) => node'[n] = node[n]
       /\ run.state \in EndedRun => run'.state = run.state]_vars

(* Every drive returns, however the others interfere: a turn of its loop   *)
(* either advances the run or is the last one.                             *)
DriveReturns == \A d \in Drivers : ~At(d, "idle") ~> At(d, "idle")

(* A cancellation whose drive was spawned ends the run, whatever the other *)
(* drives do meanwhile, unless the process dies or the lease is still that *)
(* of a process that died: the drive then returns Busy and none follows.   *)
CancelSettles ==
    \A r \in 0..MaxRestarts :
        (/\ run.cancel /\ restarts = r /\ lease # "dead"
         /\ \E d \in Drivers : At(d, "begin"))
            ~> (run.state \in EndedRun \/ restarts # r)

----------------------------------------------------------------------------
(* Statements that the code does not keep.  No run checks them; the README *)
(* lists them as known deviations.                                         *)

(* The comment in drive_locked: the only reason for a drive to find        *)
(* nothing to do in a run that is not over is a pending approval.          *)
OnlyApprovalsHold ==
    run.state = "interrupted" /\ restarts = 0 =>
        \E n \in Nodes : node[n] = "waiting_approval"

(* The comment on update_node_state: a node that has ended never goes back *)
(* to work.                                                                *)
EndedNodesStay ==
    [][\A n \in Nodes : node[n] \notin OpenNode => node'[n] \notin OpenNode]_vars

(* The comment on request_cancel: a cancelled run does not look finished   *)
(* while an attempt of it is still alive.                                  *)
CancelledRunIsQuiet ==
    run.state = "cancelled" =>
        \A n \in Nodes, k \in 1..MaxTry : attempt[n][k] # "open"
====
