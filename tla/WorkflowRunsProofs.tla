---- MODULE WorkflowRunsProofs ----
(***************************************************************************)
(* What holds of a workflow run for every graph, every number of drives,   *)
(* decisions and restarts: an attempt reaches the adapter at most once, no *)
(* attempt follows one without an answer, no node under approval is        *)
(* dispatched without a grant, a dispatched node has its inputs, the       *)
(* outcome its attempts led to is final, and a successful run is whole.    *)
(***************************************************************************)
EXTENDS WorkflowRuns, TLAPS, WellFoundedInduction

(* The drives that are about to attempt a node, or in an attempt of it.    *)
Attempting(d) == drive[d].pc \in {"check", "dispatch", "effect", "close"}
Dispatched(d) == drive[d].pc \in {"effect", "close"}

(* What a drive holds matches the place where it is.                       *)
GoalsFit ==
    \A d \in Drivers :
        /\ drive[d].pc = "close" => drive[d].goal \in Outcomes
        /\ drive[d].pc = "settle" => drive[d].goal \in NodeStates
        /\ drive[d].pc = "finish" => drive[d].goal \in EndedRun \cup OpenRun
        /\ drive[d].pc = "cancel" => drive[d].goal = "cancelled"
        /\ Attempting(d) => drive[d].try \in 1..MaxTry

(* An attempt without a marker has had no effect.                          *)
Untouched == \A n \in Nodes, k \in 1..MaxTry : attempt[n][k] = "none" => effects[n][k] = 0

(* The marker of the attempt a drive is in is open, and before the adapter *)
(* is called the attempt has had no effect.                                *)
MarkerOpen ==
    \A d \in Drivers, n \in Nodes :
        Dispatched(d) /\ First(d, n) =>
            /\ attempt[n][drive[d].try] = "open"
            /\ drive[d].pc = "effect" => effects[n][drive[d].try] = 0

(* Two drives are never in the same attempt.                               *)
OneDriveEach ==
    \A d, e \in Drivers : \A n \in Nodes :
        /\ d # e /\ Dispatched(d) /\ Dispatched(e)
        /\ First(d, n) /\ First(e, n)
        => drive[d].try # drive[e].try

(* A drive that tries again has the answer to the attempt before.          *)
AnsweredBefore ==
    \A d \in Drivers, n \in Nodes :
        Attempting(d) /\ First(d, n) /\ drive[d].try > 1
            => attempt[n][drive[d].try - 1] = "failed"

(* A granted entry of the registry was a decision, and a drive is past the *)
(* gate of a node only after such a decision.                              *)
GateHeld ==
    /\ \A n \in Nodes : approval[n] = "granted" => n \in granted
    /\ \A d \in Drivers : \A n \in NeedsApproval :
           Attempting(d) /\ First(d, n) => n \in granted

AttemptInv ==
    /\ GoalsFit /\ Untouched /\ MarkerOpen /\ OneDriveEach /\ AnsweredBefore
    /\ GateHeld /\ AttemptRunsOnce /\ NoBlindRetry /\ NoEffectWithoutGrant

WorkflowInv == TypeOK /\ AttemptInv

(* The attempts of a node are begun in order, each after the failure of    *)
(* the ones before.                                                        *)
Ladder ==
    \A n \in Nodes, i, j \in 1..MaxTry :
        i < j /\ attempt[n][j] # "none" => attempt[n][i] = "failed"

(* Of two drives on the same node one at most is beyond the first attempt. *)
Working(d, n) == Attempting(d) /\ First(d, n)
OneRetries ==
    \A d, e \in Drivers : \A n \in Nodes :
        d # e /\ Working(d, n) /\ Working(e, n) => drive[d].try = 1 \/ drive[e].try = 1

(* The attempts of a node are over: nobody waits for an answer and nobody  *)
(* may begin another one.                                                  *)
Closed(n) ==
    /\ attempt[n][1] # "none"
    /\ \A k \in 1..MaxTry : attempt[n][k] # "open"
    /\ \A d \in Drivers : Working(d, n) => drive[d].try = 1

(* An outcome was reached by the attempts, or is that of a missing input.  *)
Reached(n, s) ==
    /\ s \in Success \cup {"timed_out", "dead_letter"} => Closed(n)
    /\ s = "failed" => Closed(n) \/ HasRequired(n)

(* Where a drive holds the nodes of a batch.                               *)
InBatch == {"running", "node", "ask", "check", "dispatch", "effect", "close", "settle"}

(* What a successful end of the run says of its nodes.                     *)
Whole(s) ==
    /\ s = "completed" => \A n \in Nodes : node[n] = "succeeded"
    /\ s = "degraded" => \A n \in Nodes : node[n] \in Success

(* Every outcome, written or about to be written, was reached; batches     *)
(* have their inputs; and a run ends successfully only when it is whole.   *)
DriveOutcomes(d) ==
    /\ \A n \in drive[d].lacking : HasRequired(n)
    /\ drive[d].pc = "settle" => drive[d].goal # "pending"
    /\ drive[d].pc = "settle" => \A n \in Nodes : First(d, n) => Reached(n, drive[d].goal)
    /\ drive[d].pc \in InBatch => \A n \in drive[d].todo : KeptInputs(n)
    /\ drive[d].pc = "finish" => Whole(drive[d].goal)

OutcomeInv ==
    /\ Ladder /\ OneRetries
    /\ \A n \in Nodes : Reached(n, node[n])
    /\ \A d \in Drivers : DriveOutcomes(d)
    /\ Whole(run.state) /\ DispatchedHadInputs

----------------------------------------------------------------------------
(* Facts about the helpers.                                                *)

LEMMA Numbers == MaxTry \in Nat /\ Tries \in [Nodes -> 1..MaxTry] /\ MaxRestarts \in Nat
BY BoundAssumption

LEMMA NodesAreNumbers == Nodes \subseteq Nat /\ NeedsApproval \subseteq Nodes
BY GraphAssumption

(* The first node of the list of a drive is one node.                      *)
LEMMA FirstIsOne ==
    ASSUME NEW d, NEW n \in Nodes, NEW m \in Nodes, First(d, n), First(d, m)
    PROVE  n = m
BY NodesAreNumbers DEF First

LEMMA IdleIsDrive == Idle \in Drives /\ Idle.pc = "idle" /\ Idle.try = 0
BY Numbers DEF Idle, Drives, Locations

LEMMA TerminalStateType == ASSUME NEW s PROVE TerminalState(s) \in {""} \cup EndedRun
BY DEF TerminalState, EndedRun

LEMMA PlanType ==
    ASSUME NEW c \in BOOLEAN, NEW s
    PROVE  /\ Plan(c, s) \in Drives
           /\ Plan(c, s).pc \in {"cancel", "finish", "block", "running"}
           /\ Plan(c, s).pc = "finish" => Plan(c, s).goal \in EndedRun \cup OpenRun
           /\ Plan(c, s).pc = "cancel" => Plan(c, s).goal = "cancelled"
<1> DEFINE open == {n \in Nodes : s[n] \in OpenNode}
           blocked == {n \in open : BlockingDependency(n, s)}
           ready == ReadyNodes(s)
           batch == SelectBatch(ready)
           lack == {n \in batch : MissingInput(n, s)}
           last == IF TerminalState(s) # "" THEN TerminalState(s)
                   ELSE IF \E n \in Nodes : s[n] = "waiting_approval"
                   THEN "waiting_approval" ELSE "interrupted"
<1>1. open \subseteq Nodes /\ blocked \subseteq Nodes /\ batch \subseteq Nodes
      /\ lack \subseteq Nodes
  BY DEF ReadyNodes, SelectBatch
<1>2. last \in EndedRun \cup OpenRun
  BY TerminalStateType DEF EndedRun, OpenRun
<1> HIDE DEF open, blocked, ready, batch, lack, last
<1>3. Plan(c, s) = CASE c /\ open # {} ->
               [Idle EXCEPT !.pc = "cancel", !.todo = open, !.goal = "cancelled"]
          [] c /\ open = {} ->
               [Idle EXCEPT !.pc = "finish", !.goal = "cancelled"]
          [] ~c /\ blocked # {} ->
               [Idle EXCEPT !.pc = "block", !.todo = blocked]
          [] ~c /\ blocked = {} /\ ready # {} ->
               [Idle EXCEPT !.pc = "running", !.todo = batch, !.lacking = lack]
          [] OTHER -> [Idle EXCEPT !.pc = "finish", !.goal = last]
  BY Zenon DEF Plan, open, blocked, ready, batch, lack, last
<1>4. CASE c /\ open # {}
  BY IdleIsDrive, <1>1, <1>3, <1>4 DEF Drives, Locations, NodeStates
<1>5. CASE c /\ open = {}
  BY IdleIsDrive, <1>1, <1>3, <1>5 DEF Drives, Locations, NodeStates, EndedRun
<1>6. CASE ~c /\ blocked # {}
  BY IdleIsDrive, <1>1, <1>3, <1>6 DEF Drives, Locations
<1>7. CASE ~c /\ blocked = {} /\ ready # {}
  BY IdleIsDrive, <1>1, <1>3, <1>7 DEF Drives, Locations
<1>8. CASE ~c /\ blocked = {} /\ ready = {}
  BY IdleIsDrive, <1>1, <1>2, <1>3, <1>8 DEF Drives, Locations
<1> QED
  BY <1>4, <1>5, <1>6, <1>7, <1>8

(* After a node the drive takes the next one, looks again or parks.        *)
LEMMA DoneType ==
    ASSUME NEW d \in Drivers, NEW n \in Nodes, NEW moved \in BOOLEAN, drive[d] \in Drives
    PROVE  /\ Done(d, n, moved) \in Drives
           /\ Done(d, n, moved).pc \in {"node", "look", "finish"}
           /\ Done(d, n, moved).pc = "finish" => Done(d, n, moved).goal \in OpenRun
BY IdleIsDrive, Numbers DEF Done, Drives, Locations, OpenRun

----------------------------------------------------------------------------
(* A step that only moves drive d outside of its attempts, or to idle,     *)
(* keeps the invariant.                                                    *)
LEMMA QuietMove ==
    ASSUME TypeOK, AttemptInv, NEW d \in Drivers, NEW r \in Drives,
           drive' = [drive EXCEPT ![d] = r],
           r.pc \notin {"check", "dispatch", "effect", "close"},
           r.pc = "settle" => r.goal \in NodeStates,
           r.pc = "finish" => r.goal \in EndedRun \cup OpenRun,
           r.pc = "cancel" => r.goal = "cancelled",
           attempt' = attempt, effects' = effects, granted \subseteq granted',
           \A n \in Nodes : approval'[n] = "granted" => n \in granted'
    PROVE  AttemptInv'
<1>1. drive'[d] = r /\ \A e \in Drivers \ {d} : drive'[e] = drive[e]
  BY DEF TypeOK
<1>2. ~Attempting(d)' /\ ~Dispatched(d)'
  BY <1>1 DEF Attempting, Dispatched
<1>3. \A e \in Drivers \ {d} : /\ Attempting(e)' = Attempting(e)
                               /\ Dispatched(e)' = Dispatched(e)
  BY <1>1 DEF Attempting, Dispatched
<1>4. \A e \in Drivers \ {d}, n \in Nodes : First(e, n)' = First(e, n)
  BY <1>1 DEF First
<1>5. GoalsFit'
  BY <1>1, <1>2, <1>3 DEF GoalsFit, AttemptInv, Attempting
<1>6. MarkerOpen' /\ OneDriveEach' /\ AnsweredBefore'
  BY <1>1, <1>2, <1>3, <1>4 DEF MarkerOpen, OneDriveEach, AnsweredBefore, AttemptInv
<1>7. GateHeld'
  BY NodesAreNumbers, <1>2, <1>3, <1>4 DEF GateHeld, AttemptInv
<1> QED
  BY <1>5, <1>6, <1>7
  DEF AttemptInv, Untouched, AttemptRunsOnce, NoBlindRetry, NoEffectWithoutGrant

(* So does a step that moves no drive.                                     *)
LEMMA QuietStay ==
    ASSUME AttemptInv, drive' = drive,
           attempt' = attempt, effects' = effects, granted \subseteq granted',
           \A n \in Nodes : approval'[n] = "granted" => n \in granted'
    PROVE  AttemptInv'
<1>1. \A e \in Drivers : /\ Attempting(e)' = Attempting(e)
                         /\ Dispatched(e)' = Dispatched(e)
                         /\ \A n \in Nodes : First(e, n)' = First(e, n)
  BY DEF Attempting, Dispatched, First
<1>2. GoalsFit' /\ MarkerOpen' /\ OneDriveEach' /\ AnsweredBefore'
  BY <1>1 DEF GoalsFit, MarkerOpen, OneDriveEach, AnsweredBefore, AttemptInv
<1>3. GateHeld'
  BY NodesAreNumbers, <1>1 DEF GateHeld, AttemptInv
<1> QED
  BY <1>2, <1>3
  DEF AttemptInv, Untouched, AttemptRunsOnce, NoBlindRetry, NoEffectWithoutGrant

(* Spawning a drive is such a step.                                        *)
LEMMA SpawnKeeps ==
    ASSUME TypeOK, AttemptInv, SpawnDrive,
           attempt' = attempt, effects' = effects, granted \subseteq granted',
           \A n \in Nodes : approval'[n] = "granted" => n \in granted'
    PROVE  drive' \in [Drivers -> Drives] /\ AttemptInv'
<1> DEFINE fresh == [Idle EXCEPT !.pc = "begin"]
<1>1. fresh \in Drives /\ fresh.pc = "begin"
  BY IdleIsDrive DEF Drives, Locations
<1>2. CASE drive' = drive
  BY <1>2, QuietStay DEF TypeOK
<1>3. CASE \E d \in Drivers : drive' = [drive EXCEPT ![d] = fresh]
  <2>1. PICK d \in Drivers : drive' = [drive EXCEPT ![d] = fresh]
    BY <1>3
  <2> HIDE DEF fresh
  <2>2. AttemptInv'
    BY <1>1, <2>1, QuietMove
  <2> QED
    BY <1>1, <2>1, <2>2 DEF TypeOK
<1> QED
  BY <1>2, <1>3 DEF SpawnDrive

----------------------------------------------------------------------------
(* The commands, and the end of an old lease.                              *)

LEMMA CommandsKeep ==
    ASSUME TypeOK, AttemptInv,
           \/ StartDrive \/ CancelWorkflow \/ LeaseExpires
           \/ \E n \in Nodes, grant \in BOOLEAN : Resolve(n, grant)
    PROVE  TypeOK' /\ AttemptInv'
<1>0. \A n \in Nodes : approval[n] = "granted" => n \in granted
  BY DEF AttemptInv, GateHeld
<1>1. CASE StartDrive
  <2>1. drive' \in [Drivers -> Drives] /\ AttemptInv'
    BY <1>0, <1>1, SpawnKeeps DEF StartDrive
  <2> QED
    BY <1>1, <2>1 DEF StartDrive, TypeOK
<1>2. CASE CancelWorkflow
  <2>1. drive' \in [Drivers -> Drives] /\ AttemptInv'
    BY <1>0, <1>2, SpawnKeeps DEF CancelWorkflow
  <2> QED
    BY <1>2, <2>1 DEF CancelWorkflow, TypeOK
<1>3. CASE LeaseExpires
  <2>1. AttemptInv'
    BY <1>0, <1>3, QuietStay DEF LeaseExpires
  <2> QED
    BY <1>3, <2>1 DEF LeaseExpires, TypeOK
<1>4. ASSUME NEW n \in Nodes, NEW grant \in BOOLEAN, Resolve(n, grant)
      PROVE  TypeOK' /\ AttemptInv'
  <2>1. granted \subseteq granted' /\ granted' \subseteq Nodes
        /\ \A m \in Nodes : approval'[m] = "granted" => m \in granted'
    BY <1>0, <1>4 DEF Resolve, TypeOK
  <2>2. drive' \in [Drivers -> Drives] /\ AttemptInv'
    BY <1>4, <2>1, SpawnKeeps DEF Resolve
  <2> QED
    BY <1>4, <2>1, <2>2 DEF Resolve, TypeOK
<1> QED
  BY <1>1, <1>2, <1>3, <1>4

----------------------------------------------------------------------------
(* The steps of a drive outside of its attempts.                           *)

(* Leaving the drive, from any place.                                      *)
LEMMA LeaveKeeps ==
    ASSUME TypeOK, AttemptInv, NEW d \in Drivers, Leave(d),
           attempt' = attempt, effects' = effects, granted' = granted,
           approval' = approval
    PROVE  drive' \in [Drivers -> Drives] /\ AttemptInv'
<1> DEFINE r == [Idle EXCEPT !.pc = "release"]
<1>1. r \in Drives /\ r.pc = "release"
  BY IdleIsDrive DEF Drives, Locations
<1>2. drive' = [drive EXCEPT ![d] = r]
  BY DEF Leave
<1> HIDE DEF r
<1>3. \A n \in Nodes : approval'[n] = "granted" => n \in granted'
  BY DEF AttemptInv, GateHeld
<1>4. AttemptInv'
  BY <1>1, <1>2, <1>3, QuietMove
<1> QED
  BY <1>1, <1>2, <1>4 DEF TypeOK

(* A drive goes on to r, which is not an attempt.                          *)
LEMMA MoveKeeps ==
    ASSUME TypeOK, AttemptInv, NEW d \in Drivers, NEW r \in Drives,
           drive' = [drive EXCEPT ![d] = r],
           r.pc \notin {"check", "dispatch", "effect", "close"},
           r.pc = "settle" => r.goal \in NodeStates,
           r.pc = "finish" => r.goal \in EndedRun \cup OpenRun,
           r.pc = "cancel" => r.goal = "cancelled",
           attempt' = attempt, effects' = effects, granted' = granted,
           approval' = approval
    PROVE  drive' \in [Drivers -> Drives] /\ AttemptInv'
<1>1. \A n \in Nodes : approval'[n] = "granted" => n \in granted'
  BY DEF AttemptInv, GateHeld
<1>2. AttemptInv'
  BY <1>1, QuietMove
<1> QED
  BY <1>2 DEF TypeOK

(* update_node_state changes one row or ends the drive.                    *)
LEMMA UpdateNodeKeeps ==
    ASSUME TypeOK, AttemptInv, NEW d \in Drivers, NEW n \in Nodes, NEW s \in NodeStates,
           NEW r \in Drives, UpdateNode(d, n, s, r),
           r.pc \notin {"check", "dispatch", "effect", "close", "settle"},
           r.pc = "finish" => r.goal \in EndedRun \cup OpenRun,
           r.pc = "cancel" => r.goal = "cancelled",
           attempt' = attempt, effects' = effects, granted' = granted,
           approval' = approval
    PROVE  node' \in [Nodes -> NodeStates] /\ drive' \in [Drivers -> Drives] /\ AttemptInv'
<1>1. CASE node[n] \in OpenNode
  <2>1. node' \in [Nodes -> NodeStates] /\ drive' = [drive EXCEPT ![d] = r]
    BY <1>1 DEF UpdateNode, TypeOK
  <2>2. drive' \in [Drivers -> Drives] /\ AttemptInv'
    BY <2>1, MoveKeeps
  <2> QED
    BY <2>1, <2>2
<1>2. CASE node[n] \notin OpenNode
  BY <1>2, LeaveKeeps DEF UpdateNode, TypeOK
<1> QED
  BY <1>1, <1>2

LEMMA LoopKeeps ==
    ASSUME TypeOK, AttemptInv, NEW d \in Drivers,
           \/ BeginDrive(d) \/ AcquireLease(d) \/ ReleaseLease(d)
           \/ ReadRun(d) \/ ReadNodes(d) \/ CancelOpenNode(d) \/ MarkBlockedNode(d)
           \/ FinishRun(d) \/ SetRunning(d) \/ SettleNode(d) \/ AskApproval(d)
    PROVE  TypeOK' /\ AttemptInv'
<1>0. drive[d] \in Drives
  BY DEF TypeOK
<1>1. CASE BeginDrive(d)
  <2> DEFINE r == IF run.state \in EndedRun THEN Idle ELSE [drive[d] EXCEPT !.pc = "lease"]
  <2>1. r \in Drives /\ r.pc \in {"idle", "lease"}
    BY <1>0, IdleIsDrive DEF Drives, Locations
  <2>2. drive' = [drive EXCEPT ![d] = r]
    BY <1>1 DEF BeginDrive, TypeOK
  <2> HIDE DEF r
  <2>3. drive' \in [Drivers -> Drives] /\ AttemptInv'
    BY <1>1, <2>1, <2>2, MoveKeeps DEF BeginDrive
  <2> QED
    BY <1>1, <2>3 DEF BeginDrive, TypeOK
<1>2. CASE AcquireLease(d)
  <2> DEFINE r == IF lease = "dead" THEN Idle ELSE [drive[d] EXCEPT !.pc = "look"]
  <2>1. r \in Drives /\ r.pc \in {"idle", "look"}
    BY <1>0, IdleIsDrive DEF Drives, Locations
  <2>2. drive' = [drive EXCEPT ![d] = r]
    BY <1>2 DEF AcquireLease, Goto, TypeOK
  <2> HIDE DEF r
  <2>3. drive' \in [Drivers -> Drives] /\ AttemptInv'
    BY <1>2, <2>1, <2>2, MoveKeeps DEF AcquireLease
  <2> QED
    BY <1>2, <2>3 DEF AcquireLease, TypeOK
<1>3. CASE ReleaseLease(d)
  <2>1. drive' \in [Drivers -> Drives] /\ AttemptInv'
    BY <1>3, IdleIsDrive, MoveKeeps DEF ReleaseLease
  <2> QED
    BY <1>3, <2>1 DEF ReleaseLease, TypeOK
<1>4. CASE ReadRun(d)
  <2>1. CASE run.state \in EndedRun
    <3>1. drive' \in [Drivers -> Drives] /\ AttemptInv'
      BY <1>4, <2>1, LeaveKeeps DEF ReadRun
    <3> QED
      BY <1>4, <3>1 DEF ReadRun, TypeOK
  <2>2. CASE run.state \notin EndedRun
    <3> DEFINE g == IF run.cancel THEN "cancelled" ELSE ""
               r == [Idle EXCEPT !.pc = "nodes", !.goal = g]
    <3>1. g \in {""} \cup NodeStates
      BY DEF NodeStates
    <3>2. drive' = [drive EXCEPT ![d] = r]
      BY <1>4, <2>2 DEF ReadRun
    <3> HIDE DEF g
    <3>3. r \in Drives /\ r.pc = "nodes"
      BY <3>1, IdleIsDrive DEF Drives, Locations
    <3> HIDE DEF r
    <3>4. drive' \in [Drivers -> Drives] /\ AttemptInv'
      BY <1>4, <3>2, <3>3, MoveKeeps DEF ReadRun
    <3> QED
      BY <1>4, <3>4 DEF ReadRun, TypeOK
  <2> QED
    BY <2>1, <2>2
<1>5. CASE ReadNodes(d)
  <2> DEFINE r == Plan(drive[d].goal = "cancelled", node)
  <2>1. drive' = [drive EXCEPT ![d] = r]
    BY <1>5 DEF ReadNodes
  <2>2. /\ r \in Drives /\ r.pc \in {"cancel", "finish", "block", "running"}
        /\ r.pc = "finish" => r.goal \in EndedRun \cup OpenRun
        /\ r.pc = "cancel" => r.goal = "cancelled"
    BY PlanType, (drive[d].goal = "cancelled") \in BOOLEAN
  <2> HIDE DEF r
  <2>3. drive' \in [Drivers -> Drives] /\ AttemptInv'
    BY <1>5, <2>1, <2>2, MoveKeeps DEF ReadNodes
  <2> QED
    BY <1>5, <2>3 DEF ReadNodes, TypeOK
<1>6. CASE CancelOpenNode(d)
  <2>1. drive[d].pc = "cancel" /\ drive[d].goal = "cancelled"
    BY <1>6 DEF CancelOpenNode, At, AttemptInv, GoalsFit
  <2>2. PICK n \in Nodes :
           UpdateNode(d, n, "cancelled",
               [drive[d] EXCEPT !.todo = @ \ {n},
                   !.pc = IF drive[d].todo = {n} THEN "finish" ELSE "cancel"])
    BY <1>6 DEF CancelOpenNode
  <2> DEFINE p == IF drive[d].todo = {n} THEN "finish" ELSE "cancel"
             r == [drive[d] EXCEPT !.todo = @ \ {n}, !.pc = p]
  <2>3. p \in {"finish", "cancel"}
    OBVIOUS
  <2> HIDE DEF p
  <2>4. r \in Drives /\ r.pc = p /\ r.goal = "cancelled"
    BY <1>0, <2>1, <2>3 DEF Drives, Locations
  <2>5. UpdateNode(d, n, "cancelled", r)
    BY <2>2 DEF p
  <2> HIDE DEF r
  <2>6. "cancelled" \in NodeStates /\ "cancelled" \in EndedRun
    BY DEF NodeStates, EndedRun
  <2>7. node' \in [Nodes -> NodeStates] /\ drive' \in [Drivers -> Drives] /\ AttemptInv'
    BY <1>6, <2>3, <2>4, <2>5, <2>6, UpdateNodeKeeps DEF CancelOpenNode
  <2> QED
    BY <1>6, <2>7 DEF CancelOpenNode, TypeOK
<1>7. CASE MarkBlockedNode(d)
  <2>1. PICK n \in Nodes :
           UpdateNode(d, n, "blocked",
               [drive[d] EXCEPT !.todo = @ \ {n},
                   !.pc = IF drive[d].todo = {n} THEN "look" ELSE "block"])
    BY <1>7 DEF MarkBlockedNode
  <2> DEFINE p == IF drive[d].todo = {n} THEN "look" ELSE "block"
             r == [drive[d] EXCEPT !.todo = @ \ {n}, !.pc = p]
  <2>2. p \in {"look", "block"}
    OBVIOUS
  <2> HIDE DEF p
  <2>3. r \in Drives /\ r.pc = p
    BY <1>0, <2>2 DEF Drives, Locations
  <2>4. UpdateNode(d, n, "blocked", r)
    BY <2>1 DEF p
  <2> HIDE DEF r
  <2>5. "blocked" \in NodeStates
    BY DEF NodeStates
  <2>6. node' \in [Nodes -> NodeStates] /\ drive' \in [Drivers -> Drives] /\ AttemptInv'
    BY <1>7, <2>2, <2>3, <2>4, <2>5, UpdateNodeKeeps DEF MarkBlockedNode
  <2> QED
    BY <1>7, <2>6 DEF MarkBlockedNode, TypeOK
<1>8. CASE FinishRun(d)
  <2>1. drive' \in [Drivers -> Drives] /\ AttemptInv'
    BY <1>8, LeaveKeeps DEF FinishRun
  <2>2. drive[d].goal \in EndedRun \cup OpenRun
    BY <1>8 DEF FinishRun, At, AttemptInv, GoalsFit
  <2>3. run' \in [state : EndedRun \cup OpenRun, cancel : BOOLEAN]
    BY <1>8, <2>2 DEF FinishRun, TypeOK
  <2> QED
    BY <1>8, <2>1, <2>3 DEF FinishRun, TypeOK
<1>9. CASE SetRunning(d)
  <2>1. CASE run.state \in EndedRun
    <3>1. drive' \in [Drivers -> Drives] /\ AttemptInv'
      BY <1>9, <2>1, LeaveKeeps DEF SetRunning
    <3> QED
      BY <1>9, <2>1, <3>1 DEF SetRunning, TypeOK
  <2>2. CASE run.state \notin EndedRun
    <3> DEFINE r == [drive[d] EXCEPT !.pc = "node"]
    <3>1. r \in Drives /\ r.pc = "node"
      BY <1>0 DEF Drives, Locations
    <3>2. drive' = [drive EXCEPT ![d] = r]
      BY <1>9, <2>2 DEF SetRunning, Goto, TypeOK
    <3> HIDE DEF r
    <3>3. drive' \in [Drivers -> Drives] /\ AttemptInv'
      BY <1>9, <3>1, <3>2, MoveKeeps DEF SetRunning
    <3> QED
      BY <1>9, <2>2, <3>3 DEF SetRunning, TypeOK, OpenRun
  <2> QED
    BY <2>1, <2>2
<1>10. CASE SettleNode(d)
  <2>1. drive[d].goal \in NodeStates
    BY <1>10 DEF SettleNode, At, AttemptInv, GoalsFit
  <2>2. PICK n \in Nodes : UpdateNode(d, n, drive[d].goal, Done(d, n, TRUE))
    BY <1>10 DEF SettleNode
  <2> DEFINE r == Done(d, n, TRUE)
  <2>3. /\ r \in Drives /\ r.pc \in {"node", "look", "finish"}
        /\ r.pc = "finish" => r.goal \in OpenRun
    BY <1>0, DoneType
  <2>4. UpdateNode(d, n, drive[d].goal, r)
    BY <2>2
  <2> HIDE DEF r
  <2>5. node' \in [Nodes -> NodeStates] /\ drive' \in [Drivers -> Drives] /\ AttemptInv'
    BY <1>10, <2>1, <2>3, <2>4, UpdateNodeKeeps DEF SettleNode
  <2> QED
    BY <1>10, <2>5 DEF SettleNode, TypeOK
<1>11. CASE AskApproval(d)
  <2>1. PICK n \in Nodes :
          /\ node' = IF node[n] \in {"pending", "running"}
                     THEN [node EXCEPT ![n] = "waiting_approval"] ELSE node
          /\ approval' = IF approval[n] = "none"
                         THEN [approval EXCEPT ![n] = "pending"] ELSE approval
          /\ drive' = [drive EXCEPT ![d] = Done(d, n, FALSE)]
    BY <1>11 DEF AskApproval
  <2> DEFINE r == Done(d, n, FALSE)
  <2>2. /\ r \in Drives /\ r.pc \in {"node", "look", "finish"}
        /\ r.pc = "finish" => r.goal \in OpenRun
    BY <1>0, DoneType
  <2>3. drive' = [drive EXCEPT ![d] = r]
    BY <2>1
  <2> HIDE DEF r
  <2>4. \A m \in Nodes : approval'[m] = "granted" => m \in granted'
    BY <1>11, <2>1 DEF AskApproval, TypeOK, AttemptInv, GateHeld
  <2>5. AttemptInv'
    BY <1>11, <2>2, <2>3, <2>4, QuietMove DEF AskApproval
  <2>6. drive' \in [Drivers -> Drives]
    BY <2>2, <2>3 DEF TypeOK
  <2>7. node' \in [Nodes -> NodeStates]
        /\ approval' \in [Nodes -> {"none", "pending", "granted", "denied"}]
    BY <2>1 DEF TypeOK, NodeStates, OpenNode
  <2> QED
    BY <1>11, <2>5, <2>6, <2>7 DEF AskApproval, TypeOK
<1> QED
  BY <1>1, <1>2, <1>3, <1>4, <1>5, <1>6, <1>7, <1>8, <1>9, <1>10, <1>11

----------------------------------------------------------------------------
(* The steps of a drive towards an attempt and in it.                      *)

(* A drive enters the attempts of its first node, or goes on in them       *)
(* before the marker is inserted.                                          *)
LEMMA ApproachKeeps ==
    ASSUME TypeOK, AttemptInv, NEW d \in Drivers, NEW r \in Drives,
           drive' = [drive EXCEPT ![d] = r],
           r.pc \in {"check", "dispatch"}, r.try \in 1..MaxTry,
           r.todo = drive[d].todo,
           \A n \in Nodes : First(d, n) /\ r.try > 1 => attempt[n][r.try - 1] = "failed",
           \A n \in NeedsApproval : First(d, n) => n \in granted,
           attempt' = attempt, effects' = effects, granted' = granted,
           approval' = approval
    PROVE  drive' \in [Drivers -> Drives] /\ AttemptInv'
<1>1. drive'[d] = r /\ \A e \in Drivers \ {d} : drive'[e] = drive[e]
  BY DEF TypeOK
<1>2. \A e \in Drivers, n \in Nodes : First(e, n)' = First(e, n)
  BY <1>1 DEF First
<1>3. \A e \in Drivers \ {d} : Attempting(e)' = Attempting(e) /\ Dispatched(e)' = Dispatched(e)
  BY <1>1 DEF Attempting, Dispatched
<1>4. ~Dispatched(d)'
  BY <1>1 DEF Dispatched
<1>5. GoalsFit'
  BY <1>1, <1>3 DEF GoalsFit, AttemptInv, Attempting
<1>6. MarkerOpen' /\ OneDriveEach'
  BY <1>1, <1>2, <1>3, <1>4 DEF MarkerOpen, OneDriveEach, AttemptInv
<1>7. AnsweredBefore'
  <2>1. SUFFICES ASSUME NEW e \in Drivers, NEW n \in Nodes, Attempting(e)', First(e, n),
                        drive'[e].try > 1
                 PROVE  attempt[n][drive'[e].try - 1] = "failed"
    BY <1>2 DEF AnsweredBefore
  <2>2. CASE e = d
    BY <1>1, <2>1, <2>2
  <2>3. CASE e # d
    BY <1>1, <1>3, <2>1, <2>3 DEF AttemptInv, AnsweredBefore
  <2> QED
    BY <2>2, <2>3
<1>8. GateHeld'
  BY NodesAreNumbers, <1>2, <1>3 DEF GateHeld, AttemptInv
<1>9. drive' \in [Drivers -> Drives]
  BY DEF TypeOK
<1> QED
  BY <1>5, <1>6, <1>7, <1>8, <1>9
  DEF AttemptInv, Untouched, AttemptRunsOnce, NoBlindRetry, NoEffectWithoutGrant

LEMMA CheckNodeKeeps ==
    ASSUME TypeOK, AttemptInv, NEW d \in Drivers, CheckNode(d)
    PROVE  TypeOK' /\ AttemptInv'
<1>0. drive[d] \in Drives
  BY DEF TypeOK
<1>1. PICK n \in Nodes :
        /\ First(d, n)
        /\ LET settle(s) == [drive[d] EXCEPT !.pc = "settle", !.goal = s]
               gated == n \in NeedsApproval
               inputs == IF n \in drive[d].lacking THEN settle("failed")
                         ELSE [drive[d] EXCEPT !.pc = "check", !.try = 1]
           IN  drive' = [drive EXCEPT ![d] =
                   CASE gated /\ approval[n] = "denied" -> settle("denied")
                     [] gated /\ approval[n] \in {"none", "pending"} ->
                            [drive[d] EXCEPT !.pc = "ask"]
                     [] OTHER -> inputs]
  BY DEF CheckNode
<1> DEFINE sd == [drive[d] EXCEPT !.pc = "settle", !.goal = "denied"]
           sf == [drive[d] EXCEPT !.pc = "settle", !.goal = "failed"]
           ask == [drive[d] EXCEPT !.pc = "ask"]
           chk == [drive[d] EXCEPT !.pc = "check", !.try = 1]
<1>2. /\ sd \in Drives /\ sd.pc = "settle" /\ sd.goal = "denied"
      /\ sf \in Drives /\ sf.pc = "settle" /\ sf.goal = "failed"
      /\ ask \in Drives /\ ask.pc = "ask"
  BY <1>0 DEF Drives, Locations, NodeStates, Failure
<1>3. 1 \in 1..MaxTry /\ 1 \in 0..MaxTry
  BY Numbers
<1>4. chk \in Drives /\ chk.pc = "check" /\ chk.try = 1 /\ chk.todo = drive[d].todo
  BY <1>0, <1>3 DEF Drives, Locations
<1>5. \/ drive' = [drive EXCEPT ![d] = sd] \/ drive' = [drive EXCEPT ![d] = sf]
      \/ drive' = [drive EXCEPT ![d] = ask]
      \/ /\ drive' = [drive EXCEPT ![d] = chk]
         /\ n \in NeedsApproval => approval[n] = "granted"
  <2>1. approval[n] \in {"none", "pending", "granted", "denied"}
    BY DEF TypeOK
  <2> QED
    BY <1>1, <2>1
<1> HIDE DEF sd, sf, ask, chk
<1>6. "denied" \in NodeStates /\ "failed" \in NodeStates
  BY DEF NodeStates, Failure
<1>7. attempt' = attempt /\ effects' = effects /\ granted' = granted /\ approval' = approval
  BY DEF CheckNode
<1>8. drive' \in [Drivers -> Drives] /\ AttemptInv'
  <2>1. CASE drive' = [drive EXCEPT ![d] = sd]
    BY <1>2, <1>6, <1>7, <2>1, MoveKeeps
  <2>2. CASE drive' = [drive EXCEPT ![d] = sf]
    BY <1>2, <1>6, <1>7, <2>2, MoveKeeps
  <2>3. CASE drive' = [drive EXCEPT ![d] = ask]
    BY <1>2, <1>7, <2>3, MoveKeeps
  <2>4. CASE /\ drive' = [drive EXCEPT ![d] = chk]
             /\ n \in NeedsApproval => approval[n] = "granted"
    <3>1. \A m \in NeedsApproval : First(d, m) => m \in granted
      BY <1>1, <2>4, FirstIsOne, NodesAreNumbers DEF AttemptInv, GateHeld
    <3>2. \A m \in Nodes : First(d, m) /\ chk.try > 1 => attempt[m][chk.try - 1] = "failed"
      BY <1>4
    <3> QED
      BY <1>3, <1>4, <1>7, <2>4, <3>1, <3>2, ApproachKeeps
  <2> QED
    BY <1>5, <2>1, <2>2, <2>3, <2>4
<1> QED
  BY <1>8 DEF CheckNode, TypeOK

LEMMA CheckCancelKeeps ==
    ASSUME TypeOK, AttemptInv, NEW d \in Drivers, CheckCancel(d)
    PROVE  TypeOK' /\ AttemptInv'
<1>0. drive[d] \in Drives /\ drive[d].pc = "check" /\ Attempting(d)
  BY DEF TypeOK, CheckCancel, At, Attempting
<1> DEFINE yes == [drive[d] EXCEPT !.pc = "settle", !.goal = "cancelled"]
           no == [drive[d] EXCEPT !.pc = "dispatch", !.goal = ""]
<1>1. yes \in Drives /\ yes.pc = "settle" /\ yes.goal = "cancelled"
  BY <1>0 DEF Drives, Locations, NodeStates
<1>2. no \in Drives /\ no.pc = "dispatch" /\ no.try = drive[d].try /\ no.todo = drive[d].todo
  BY <1>0 DEF Drives, Locations
<1>3. \/ drive' = [drive EXCEPT ![d] = yes] \/ drive' = [drive EXCEPT ![d] = no]
  <2>1. CASE run.cancel
    BY <2>1 DEF CheckCancel, TypeOK
  <2>2. CASE ~run.cancel
    BY <2>2 DEF CheckCancel, TypeOK
  <2> QED
    BY <2>1, <2>2
<1> HIDE DEF yes, no
<1>4. attempt' = attempt /\ effects' = effects /\ granted' = granted /\ approval' = approval
  BY DEF CheckCancel
<1>5. drive' \in [Drivers -> Drives] /\ AttemptInv'
  <2>1. CASE drive' = [drive EXCEPT ![d] = yes]
    <3>1. "cancelled" \in NodeStates
      BY DEF NodeStates
    <3> QED
      BY <1>1, <1>4, <2>1, <3>1, MoveKeeps
  <2>2. CASE drive' = [drive EXCEPT ![d] = no]
    <3>1. no.try \in 1..MaxTry
      BY <1>0, <1>2 DEF AttemptInv, GoalsFit
    <3>2. \A n \in Nodes : First(d, n) /\ no.try > 1 => attempt[n][no.try - 1] = "failed"
      BY <1>0, <1>2 DEF AttemptInv, AnsweredBefore
    <3>3. \A n \in NeedsApproval : First(d, n) => n \in granted
      BY <1>0 DEF AttemptInv, GateHeld
    <3> QED
      BY <1>2, <1>4, <2>2, <3>1, <3>2, <3>3, ApproachKeeps
  <2> QED
    BY <1>3, <2>1, <2>2
<1> QED
  BY <1>5 DEF CheckCancel, TypeOK

(* begin_attempt: the key was free, so no drive is in this attempt and it  *)
(* has had no effect; otherwise the drive ends.                            *)
LEMMA BeginAttemptKeeps ==
    ASSUME TypeOK, AttemptInv, NEW d \in Drivers, BeginAttempt(d)
    PROVE  TypeOK' /\ AttemptInv'
<1>0. drive[d] \in Drives /\ drive[d].pc = "dispatch" /\ Attempting(d)
  BY DEF TypeOK, BeginAttempt, At, Attempting
<1>1. PICK n \in Nodes :
        /\ First(d, n)
        /\ IF attempt[n][drive[d].try] # "none"
           THEN Leave(d) /\ UNCHANGED <<node, attempt>>
           ELSE /\ attempt' = [attempt EXCEPT ![n][drive[d].try] = "open"]
                /\ node' = [node EXCEPT ![n] = "running"]
                /\ Goto(d, "effect")
  BY DEF BeginAttempt
<1>2. CASE attempt[n][drive[d].try] # "none"
  <2>1. drive' \in [Drivers -> Drives] /\ AttemptInv'
    BY <1>1, <1>2, LeaveKeeps DEF BeginAttempt
  <2> QED
    BY <1>1, <1>2, <2>1 DEF BeginAttempt, TypeOK
<1>3. CASE attempt[n][drive[d].try] = "none"
  <2> DEFINE k == drive[d].try
             r == [drive[d] EXCEPT !.pc = "effect"]
  <2>1. k \in 1..MaxTry
    BY <1>0 DEF AttemptInv, GoalsFit
  <2>2. r \in Drives /\ r.pc = "effect" /\ r.try = k /\ r.todo = drive[d].todo
    BY <1>0 DEF Drives, Locations
  <2>3. drive'[d] = r /\ \A e \in Drivers \ {d} : drive'[e] = drive[e]
    BY <1>1, <1>3 DEF Goto, TypeOK
  <2>4. drive' \in [Drivers -> Drives]
    BY <1>0, <1>1, <1>3, <2>2 DEF Goto, TypeOK
  <2> HIDE DEF r
  <2>5. /\ attempt'[n][k] = "open"
        /\ \A m \in Nodes, j \in 1..MaxTry : m # n \/ j # k => attempt'[m][j] = attempt[m][j]
        /\ attempt' \in [Nodes -> [1..MaxTry -> Attempts]]
    <3>1. attempt' = [attempt EXCEPT ![n][k] = "open"]
      BY <1>1, <1>3
    <3>2. "open" \in Attempts
      BY DEF Attempts
    <3>3. attempt \in [Nodes -> [1..MaxTry -> Attempts]]
      BY DEF TypeOK
    <3> DEFINE row == [attempt[n] EXCEPT ![k] = "open"]
    <3>4. /\ row \in [1..MaxTry -> Attempts] /\ row[k] = "open"
          /\ \A j \in 1..MaxTry : j # k => row[j] = attempt[n][j]
      BY <2>1, <3>2, <3>3
    <3>5. attempt' = [attempt EXCEPT ![n] = row]
      BY <3>1
    <3> HIDE DEF row, k
    <3>6. attempt' \in [Nodes -> [1..MaxTry -> Attempts]] /\ attempt'[n] = row
          /\ \A m \in Nodes : m # n => attempt'[m] = attempt[m]
      BY <3>3, <3>4, <3>5
    <3> QED
      BY <3>4, <3>6
  <2>6. effects' = effects /\ granted' = granted /\ approval' = approval
    BY DEF BeginAttempt
  <2>7. \A e \in Drivers, m \in Nodes : First(e, m)' = First(e, m)
    BY <2>2, <2>3 DEF First
  <2>8. \A e \in Drivers \ {d} : /\ Attempting(e)' = Attempting(e)
                                 /\ Dispatched(e)' = Dispatched(e)
    BY <2>3 DEF Attempting, Dispatched
  <2>9. \A e \in Drivers \ {d} : Dispatched(e) /\ First(e, n) => drive[e].try # k
    BY <1>3 DEF AttemptInv, MarkerOpen
  <2>10. \A e \in Drivers : Dispatched(e) => Attempting(e)
    BY DEF Attempting, Dispatched
  <2>11. \A e \in Drivers : Attempting(e) => drive[e].try \in 1..MaxTry
    BY DEF AttemptInv, GoalsFit
  <2>12. GoalsFit'
    BY <2>1, <2>2, <2>3, <2>8 DEF GoalsFit, AttemptInv, Attempting
  <2>13. MarkerOpen'
    <3>1. SUFFICES ASSUME NEW e \in Drivers, NEW m \in Nodes, Dispatched(e)', First(e, m)
                   PROVE  /\ attempt'[m][drive'[e].try] = "open"
                          /\ drive'[e].pc = "effect" => effects[m][drive'[e].try] = 0
      BY <2>6, <2>7 DEF MarkerOpen
    <3>2. CASE e = d
      <4>1. m = n
        BY <1>1, <3>1, <3>2, FirstIsOne
      <4>2. effects[n][k] = 0
        BY <1>3, <2>1 DEF AttemptInv, Untouched
      <4> QED
        BY <2>2, <2>3, <2>5, <3>2, <4>1, <4>2
    <3>3. CASE e # d
      <4>1. Dispatched(e) /\ drive'[e] = drive[e] /\ drive[e].try \in 1..MaxTry
        BY <2>3, <2>8, <2>10, <2>11, <3>1, <3>3
      <4>2. m # n \/ drive[e].try # k
        BY <2>9, <3>1, <3>3, <4>1
      <4> QED
        BY <2>5, <3>1, <4>1, <4>2 DEF AttemptInv, MarkerOpen
    <3> QED
      BY <3>2, <3>3
  <2>14. OneDriveEach'
    BY <1>1, <2>2, <2>3, <2>7, <2>8, <2>9, FirstIsOne DEF OneDriveEach, AttemptInv
  <2>15. AnsweredBefore'
    <3>1. SUFFICES ASSUME NEW e \in Drivers, NEW m \in Nodes, Attempting(e)', First(e, m),
                          drive'[e].try > 1
                   PROVE  attempt'[m][drive'[e].try - 1] = "failed"
      BY <2>7 DEF AnsweredBefore
    <3>2. Attempting(e) /\ drive'[e].try = drive[e].try
      BY <1>0, <2>2, <2>3, <2>8, <3>1
    <3>3. attempt[m][drive[e].try - 1] = "failed"
      BY <3>1, <3>2 DEF AttemptInv, AnsweredBefore
    <3>4. drive[e].try - 1 \in 1..MaxTry
      BY <2>11, <3>1, <3>2, Numbers
    <3> QED
      BY <1>3, <2>5, <3>2, <3>3, <3>4
  <2>16. GateHeld'
    BY <1>0, NodesAreNumbers, <2>6, <2>7, <2>8 DEF GateHeld, AttemptInv
  <2>17. Untouched' /\ AttemptRunsOnce'
    BY <2>5, <2>6 DEF AttemptInv, Untouched, AttemptRunsOnce
  <2>18. NoBlindRetry'
    <3>1. SUFFICES ASSUME NEW m \in Nodes, NEW j \in 2..MaxTry, attempt'[m][j] # "none"
                   PROVE  attempt'[m][j - 1] = "failed"
      BY DEF NoBlindRetry
    <3>2. j \in 1..MaxTry /\ j - 1 \in 1..MaxTry /\ j > 1
      BY Numbers
    <3>3. CASE m = n /\ j = k
      <4>1. attempt[n][k - 1] = "failed"
        BY <1>0, <1>1, <3>2, <3>3 DEF AttemptInv, AnsweredBefore
      <4>2. k - 1 # k
        BY <2>1, Numbers
      <4> QED
        BY <2>5, <3>2, <3>3, <4>1, <4>2
    <3>4. CASE ~(m = n /\ j = k)
      <4>1. attempt[m][j] # "none"
        BY <2>5, <3>1, <3>2, <3>4
      <4>2. attempt[m][j - 1] = "failed"
        BY <4>1 DEF AttemptInv, NoBlindRetry
      <4> QED
        BY <1>3, <2>5, <3>2, <4>2
    <3> QED
      BY <3>3, <3>4
  <2>19. NoEffectWithoutGrant'
    <3>1. SUFFICES ASSUME NEW m \in NeedsApproval, attempt'[m][1] # "none"
                   PROVE  m \in granted
      BY <2>6 DEF NoEffectWithoutGrant
    <3>2. m \in Nodes /\ 1 \in 1..MaxTry
      BY <2>1, NodesAreNumbers, Numbers
    <3>3. CASE m = n
      BY <1>0, <1>1, <3>3 DEF AttemptInv, GateHeld
    <3>4. CASE m # n
      BY <2>5, <3>1, <3>2, <3>4 DEF AttemptInv, NoEffectWithoutGrant
    <3> QED
      BY <3>3, <3>4
  <2>20. node' \in [Nodes -> NodeStates]
    BY <1>1, <1>3 DEF TypeOK, NodeStates, OpenNode
  <2>21. AttemptInv'
    BY <2>12, <2>13, <2>14, <2>15, <2>16, <2>17, <2>18, <2>19 DEF AttemptInv
  <2> QED
    BY <2>4, <2>5, <2>20, <2>21 DEF BeginAttempt, TypeOK
<1> QED
  BY <1>2, <1>3

(* The call of the adapter is the first one of this attempt.               *)
LEMMA ExecuteKeeps ==
    ASSUME TypeOK, AttemptInv, NEW d \in Drivers, NEW o \in Outcomes, Execute(d, o)
    PROVE  TypeOK' /\ AttemptInv'
<1>0. drive[d] \in Drives /\ drive[d].pc = "effect" /\ Attempting(d) /\ Dispatched(d)
  BY DEF TypeOK, Execute, At, Attempting, Dispatched
<1> DEFINE k == drive[d].try
           r == [drive[d] EXCEPT !.pc = "close", !.goal = o]
<1>1. PICK n \in Nodes : First(d, n) /\ effects' = [effects EXCEPT ![n][k] = @ + 1]
  BY DEF Execute
<1>2. k \in 1..MaxTry
  BY <1>0 DEF AttemptInv, GoalsFit
<1>3. /\ r \in Drives /\ r.pc = "close" /\ r.try = k /\ r.todo = drive[d].todo
      /\ r.goal = o
  BY <1>0 DEF Drives, Locations
<1>4. drive' = [drive EXCEPT ![d] = r]
  BY DEF Execute, TypeOK
<1> HIDE DEF r
<1>5. drive'[d] = r /\ (\A e \in Drivers \ {d} : drive'[e] = drive[e])
      /\ drive' \in [Drivers -> Drives]
  BY <1>3, <1>4 DEF TypeOK
<1>6. attempt' = attempt /\ granted' = granted /\ approval' = approval
  BY DEF Execute
<1>7. attempt[n][k] = "open" /\ effects[n][k] = 0
  BY <1>0, <1>1 DEF AttemptInv, MarkerOpen
<1>8. /\ effects' \in [Nodes -> [1..MaxTry -> Nat]] /\ effects'[n][k] = 1
      /\ \A m \in Nodes, j \in 1..MaxTry : m # n \/ j # k => effects'[m][j] = effects[m][j]
  <2>1. effects \in [Nodes -> [1..MaxTry -> Nat]]
    BY DEF TypeOK
  <2> DEFINE row == [effects[n] EXCEPT ![k] = 1]
  <2>2. effects[n][k] + 1 = 1
    BY <1>7
  <2>3. [effects[n] EXCEPT ![k] = @ + 1] = [effects[n] EXCEPT ![k] = effects[n][k] + 1]
    BY <1>2, <2>1
  <2>4. effects' = [effects EXCEPT ![n] = row]
    BY <1>1, <2>2, <2>3
  <2> HIDE DEF k
  <2>5. /\ row \in [1..MaxTry -> Nat] /\ row[k] = 1
        /\ \A j \in 1..MaxTry : j # k => row[j] = effects[n][j]
    BY <1>2, <1>7, <2>1
  <2> HIDE DEF row
  <2>6. effects' \in [Nodes -> [1..MaxTry -> Nat]] /\ effects'[n] = row
        /\ \A m \in Nodes : m # n => effects'[m] = effects[m]
    BY <2>1, <2>4, <2>5
  <2> QED
    BY <2>5, <2>6
<1>9. \A e \in Drivers, m \in Nodes : First(e, m)' = First(e, m)
  BY <1>3, <1>5 DEF First
<1>10. \A e \in Drivers : /\ Attempting(e)' = Attempting(e)
                          /\ Dispatched(e)' = Dispatched(e)
                          /\ drive'[e].try = drive[e].try
  BY <1>0, <1>3, <1>5 DEF Attempting, Dispatched
<1>11. GoalsFit'
  BY <1>3, <1>5, <1>10 DEF GoalsFit, AttemptInv
<1>12. MarkerOpen'
  <2>1. SUFFICES ASSUME NEW e \in Drivers, NEW m \in Nodes, Dispatched(e), First(e, m)
                 PROVE  /\ attempt[m][drive[e].try] = "open"
                        /\ drive'[e].pc = "effect" => effects'[m][drive[e].try] = 0
    BY <1>6, <1>9, <1>10 DEF MarkerOpen
  <2>2. CASE e = d
    BY <1>3, <1>5, <2>1, <2>2 DEF AttemptInv, MarkerOpen
  <2>3. CASE e # d
    <3>1. drive[e].try \in 1..MaxTry
      BY <2>1 DEF AttemptInv, GoalsFit, Attempting, Dispatched
    <3>2. m # n \/ drive[e].try # k
      BY <1>0, <1>1, <2>1, <2>3 DEF AttemptInv, OneDriveEach
    <3> QED
      BY <1>5, <1>8, <2>1, <2>3, <3>1, <3>2 DEF AttemptInv, MarkerOpen
  <2> QED
    BY <2>2, <2>3
<1>13. OneDriveEach' /\ AnsweredBefore'
  BY <1>6, <1>9, <1>10 DEF OneDriveEach, AnsweredBefore, AttemptInv
<1>14. GateHeld'
  BY NodesAreNumbers, <1>6, <1>9, <1>10 DEF GateHeld, AttemptInv
<1>15. Untouched'
  BY <1>6, <1>7, <1>8 DEF AttemptInv, Untouched
<1>16. AttemptRunsOnce'
  BY <1>8 DEF AttemptInv, AttemptRunsOnce
<1>17. AttemptInv'
  BY <1>6, <1>11, <1>12, <1>13, <1>14, <1>15, <1>16
  DEF AttemptInv, NoBlindRetry, NoEffectWithoutGrant
<1> QED
  BY <1>5, <1>8, <1>17 DEF Execute, TypeOK

LEMMA FinalStateType ==
    ASSUME NEW o, NEW n, NEW k PROVE FinalState(o, n, k) \in NodeStates
BY DEF FinalState, NodeStates, Success, Failure

(* close_attempt answers the marker; only then may another attempt follow. *)
LEMMA CloseAttemptKeeps ==
    ASSUME TypeOK, AttemptInv, NEW d \in Drivers, CloseAttempt(d)
    PROVE  TypeOK' /\ AttemptInv'
<1>0. drive[d] \in Drives /\ drive[d].pc = "close" /\ Attempting(d) /\ Dispatched(d)
  BY DEF TypeOK, CloseAttempt, At, Attempting, Dispatched
<1> DEFINE k == drive[d].try
           o == drive[d].goal
           v == IF o \in {"ok", "degraded"} THEN "succeeded" ELSE "failed"
<1>1. PICK n \in Nodes :
        /\ First(d, n)
        /\ attempt' = [attempt EXCEPT ![n][k] = IF @ # "open" THEN @ ELSE v]
        /\ drive' = [drive EXCEPT ![d] =
               IF Retried(o, n, k)
               THEN [@ EXCEPT !.pc = "check", !.try = k + 1, !.goal = ""]
               ELSE [@ EXCEPT !.pc = "settle", !.goal = FinalState(o, n, k)]]
  BY DEF CloseAttempt
<1> DEFINE f == FinalState(o, n, k)
           again == [drive[d] EXCEPT !.pc = "check", !.try = k + 1, !.goal = ""]
           stop == [drive[d] EXCEPT !.pc = "settle", !.goal = f]
<1>2. k \in 1..MaxTry
  BY <1>0 DEF AttemptInv, GoalsFit
<1>3. attempt[n][k] = "open"
  BY <1>0, <1>1 DEF AttemptInv, MarkerOpen
<1>4. v \in {"succeeded", "failed"} /\ v \in Attempts
  BY DEF Attempts
<1>5. /\ attempt' \in [Nodes -> [1..MaxTry -> Attempts]] /\ attempt'[n][k] = v
      /\ \A m \in Nodes, j \in 1..MaxTry : m # n \/ j # k => attempt'[m][j] = attempt[m][j]
  <2>1. attempt \in [Nodes -> [1..MaxTry -> Attempts]]
    BY DEF TypeOK
  <2> DEFINE row == [attempt[n] EXCEPT ![k] = IF @ # "open" THEN @ ELSE v]
  <2>2. attempt' = [attempt EXCEPT ![n] = row]
    BY <1>1
  <2> HIDE DEF k, v
  <2>3. /\ row \in [1..MaxTry -> Attempts] /\ row[k] = v
        /\ \A j \in 1..MaxTry : j # k => row[j] = attempt[n][j]
    BY <1>2, <1>3, <1>4, <2>1
  <2> HIDE DEF row
  <2>4. attempt' \in [Nodes -> [1..MaxTry -> Attempts]] /\ attempt'[n] = row
        /\ \A m \in Nodes : m # n => attempt'[m] = attempt[m]
    BY <2>1, <2>2, <2>3
  <2> QED
    BY <2>3, <2>4
<1>6. effects' = effects /\ granted' = granted /\ approval' = approval
  BY DEF CloseAttempt
<1>7. \E r \in Drives :
        /\ drive'[d] = r /\ r.todo = drive[d].todo
        /\ \/ r.pc = "settle" /\ r.goal \in NodeStates
           \/ /\ r.pc = "check" /\ r.try = k + 1 /\ k + 1 \in 1..MaxTry
              /\ v = "failed"
  <2>1. CASE Retried(o, n, k)
    <3>1. k + 1 \in 1..MaxTry /\ k + 1 \in 0..MaxTry
      BY <1>2, <2>1, Numbers DEF Retried
    <3>2. v = "failed"
      BY <2>1 DEF Retried
    <3>3. /\ again \in Drives /\ again.pc = "check" /\ again.try = k + 1
          /\ again.todo = drive[d].todo
      BY <1>0, <3>1 DEF Drives, Locations
    <3>4. drive'[d] = again
      BY <1>1, <2>1 DEF TypeOK
    <3> QED
      BY <3>1, <3>2, <3>3, <3>4
  <2>2. CASE ~Retried(o, n, k)
    <3>1. f \in NodeStates
      BY FinalStateType
    <3>2. drive'[d] = stop
      BY <1>1, <2>2 DEF TypeOK
    <3> HIDE DEF f
    <3>3. /\ stop \in Drives /\ stop.pc = "settle" /\ stop.goal = f
          /\ stop.todo = drive[d].todo
      BY <1>0, <3>1 DEF Drives, Locations
    <3> QED
      BY <3>1, <3>2, <3>3
  <2> QED
    BY <2>1, <2>2
<1>8. (\A e \in Drivers \ {d} : drive'[e] = drive[e]) /\ drive' \in [Drivers -> Drives]
  <2>1. \E r : drive' = [drive EXCEPT ![d] = r]
    BY <1>1
  <2> QED
    BY <1>7, <2>1 DEF TypeOK
<1>9. \A e \in Drivers, m \in Nodes : First(e, m)' = First(e, m)
  BY <1>7, <1>8 DEF First
<1>10. \A e \in Drivers \ {d} : /\ Attempting(e)' = Attempting(e)
                                /\ Dispatched(e)' = Dispatched(e)
  BY <1>8 DEF Attempting, Dispatched
<1>11. ~Dispatched(d)'
  BY <1>7 DEF Dispatched
<1>12. \A e \in Drivers : Attempting(e) => drive[e].try \in 1..MaxTry
  BY DEF AttemptInv, GoalsFit
<1>13. \A e \in Drivers : Dispatched(e) => Attempting(e)
  BY DEF Attempting, Dispatched
<1> HIDE DEF k, o, v
<1>14. GoalsFit'
  <2>1. SUFFICES ASSUME NEW e \in Drivers
                 PROVE  /\ drive'[e].pc = "close" => drive'[e].goal \in Outcomes
                        /\ drive'[e].pc = "settle" => drive'[e].goal \in NodeStates
                        /\ drive'[e].pc = "finish" => drive'[e].goal \in EndedRun \cup OpenRun
                        /\ drive'[e].pc = "cancel" => drive'[e].goal = "cancelled"
                        /\ Attempting(e)' => drive'[e].try \in 1..MaxTry
    BY DEF GoalsFit
  <2>2. CASE e = d
    BY <1>7, <2>2 DEF Attempting
  <2>3. CASE e # d
    BY <1>8, <1>10, <2>3 DEF AttemptInv, GoalsFit
  <2> QED
    BY <2>2, <2>3
<1>15. MarkerOpen' /\ OneDriveEach'
  <2>1. ASSUME NEW e \in Drivers, NEW m \in Nodes, Dispatched(e)', First(e, m)
        PROVE  /\ e # d /\ Dispatched(e) /\ drive'[e] = drive[e]
               /\ attempt'[m][drive[e].try] = attempt[m][drive[e].try]
    <3>1. e # d /\ Dispatched(e) /\ drive'[e] = drive[e] /\ drive[e].try \in 1..MaxTry
      BY <1>8, <1>10, <1>11, <1>12, <1>13, <2>1
    <3>2. m # n \/ drive[e].try # k
      BY <1>0, <1>1, <2>1, <3>1 DEF AttemptInv, OneDriveEach, k
    <3> QED
      BY <1>5, <3>1, <3>2
  <2>2. MarkerOpen'
    BY <1>6, <1>9, <2>1 DEF MarkerOpen, AttemptInv
  <2>3. OneDriveEach'
    BY <1>9, <2>1 DEF OneDriveEach, AttemptInv
  <2> QED
    BY <2>2, <2>3
<1>16. \A m \in Nodes, j \in 1..MaxTry : attempt[m][j] = "failed" => attempt'[m][j] = "failed"
  BY <1>3, <1>5
<1>17. AnsweredBefore'
  <2>1. SUFFICES ASSUME NEW e \in Drivers, NEW m \in Nodes, Attempting(e)', First(e, m),
                        drive'[e].try > 1
                 PROVE  attempt'[m][drive'[e].try - 1] = "failed"
    BY <1>9 DEF AnsweredBefore
  <2>2. CASE e = d
    <3>1. m = n
      BY <1>1, <2>1, <2>2, FirstIsOne
    <3>2. drive'[d].try = k + 1 /\ v = "failed"
      BY <1>7, <2>1, <2>2 DEF Attempting
    <3>3. (k + 1) - 1 = k
      BY <1>2, Numbers
    <3> QED
      BY <1>5, <2>2, <3>1, <3>2, <3>3
  <2>3. CASE e # d
    <3>1. Attempting(e) /\ drive'[e] = drive[e]
      BY <1>8, <1>10, <2>1, <2>3
    <3>2. attempt[m][drive[e].try - 1] = "failed"
      BY <2>1, <3>1 DEF AttemptInv, AnsweredBefore
    <3>3. drive[e].try - 1 \in 1..MaxTry
      BY <1>12, <2>1, <3>1, Numbers
    <3> QED
      BY <1>16, <3>1, <3>2, <3>3
  <2> QED
    BY <2>2, <2>3
<1>18. GateHeld'
  BY <1>0, NodesAreNumbers, <1>6, <1>9, <1>10 DEF GateHeld, AttemptInv
<1>19. \A m \in Nodes, j \in 1..MaxTry : (attempt'[m][j] = "none") = (attempt[m][j] = "none")
  BY <1>3, <1>4, <1>5
<1>20. Untouched' /\ AttemptRunsOnce'
  BY <1>6, <1>19 DEF AttemptInv, Untouched, AttemptRunsOnce
<1>21. NoBlindRetry'
  <2>1. SUFFICES ASSUME NEW m \in Nodes, NEW j \in 2..MaxTry, attempt'[m][j] # "none"
                 PROVE  attempt'[m][j - 1] = "failed"
    BY DEF NoBlindRetry
  <2>2. j \in 1..MaxTry /\ j - 1 \in 1..MaxTry
    BY Numbers
  <2> QED
    BY <1>16, <1>19, <2>1, <2>2 DEF AttemptInv, NoBlindRetry
<1>22. NoEffectWithoutGrant'
  <2>1. 1 \in 1..MaxTry
    BY <1>2, Numbers
  <2> QED
    BY <1>6, <1>19, <2>1, NodesAreNumbers DEF AttemptInv, NoEffectWithoutGrant
<1>23. AttemptInv'
  BY <1>14, <1>15, <1>17, <1>18, <1>20, <1>21, <1>22 DEF AttemptInv
<1> QED
  BY <1>5, <1>8, <1>23 DEF CloseAttempt, TypeOK

----------------------------------------------------------------------------
(* A restart: no drive and no approval is left, and no marker is open.     *)
LEMMA RestartKeeps ==
    ASSUME TypeOK, AttemptInv, RestartCore
    PROVE  TypeOK' /\ AttemptInv'
<1>1. drive' = [d \in Drivers |-> Idle] /\ approval' = [n \in Nodes |-> "none"]
      /\ effects' = effects /\ granted' = granted
  BY DEF RestartCore
<1>2. drive' \in [Drivers -> Drives]
      /\ \A d \in Drivers : ~Attempting(d)' /\ ~Dispatched(d)' /\ drive'[d].pc = "idle"
  BY <1>1, IdleIsDrive DEF Attempting, Dispatched
<1>3. attempt' = [n \in Nodes |-> [k \in 1..MaxTry |->
          IF attempt[n][k] = "open" THEN "unknown" ELSE attempt[n][k]]]
  BY DEF RestartCore
<1>4. /\ attempt' \in [Nodes -> [1..MaxTry -> Attempts]]
      /\ \A n \in Nodes, k \in 1..MaxTry :
             /\ (attempt'[n][k] = "none") = (attempt[n][k] = "none")
             /\ attempt[n][k] = "failed" => attempt'[n][k] = "failed"
  <2>1. attempt \in [Nodes -> [1..MaxTry -> Attempts]]
    BY DEF TypeOK
  <2>2. ASSUME NEW n \in Nodes, NEW k \in 1..MaxTry
        PROVE  /\ attempt'[n][k] =
                      (IF attempt[n][k] = "open" THEN "unknown" ELSE attempt[n][k])
               /\ attempt[n][k] \in Attempts
    BY <1>3, <2>1
  <2>3. attempt' \in [Nodes -> [1..MaxTry -> Attempts]]
    <3>1. \A n \in Nodes, k \in 1..MaxTry :
              (IF attempt[n][k] = "open" THEN "unknown" ELSE attempt[n][k]) \in Attempts
      BY <2>2 DEF Attempts
    <3> QED
      BY <1>3, <3>1
  <2> QED
    BY <2>2, <2>3
<1>5. GoalsFit' /\ MarkerOpen' /\ OneDriveEach' /\ AnsweredBefore'
  BY <1>2 DEF GoalsFit, MarkerOpen, OneDriveEach, AnsweredBefore
<1>6. GateHeld'
  BY <1>1, <1>2 DEF GateHeld
<1>7. Untouched' /\ AttemptRunsOnce'
  BY <1>1, <1>4 DEF AttemptInv, Untouched, AttemptRunsOnce
<1>8. NoBlindRetry'
  <2>1. SUFFICES ASSUME NEW m \in Nodes, NEW j \in 2..MaxTry, attempt'[m][j] # "none"
                 PROVE  attempt'[m][j - 1] = "failed"
    BY DEF NoBlindRetry
  <2>2. j \in 1..MaxTry /\ j - 1 \in 1..MaxTry
    BY Numbers
  <2> QED
    BY <1>4, <2>1, <2>2 DEF AttemptInv, NoBlindRetry
<1>9. NoEffectWithoutGrant'
  <2>1. SUFFICES ASSUME NEW m \in NeedsApproval, attempt'[m][1] # "none"
                 PROVE  m \in granted
    BY <1>1 DEF NoEffectWithoutGrant
  <2>2. m \in Nodes /\ 1 \in 1..MaxTry
    BY NodesAreNumbers, Numbers
  <2> QED
    BY <1>4, <2>1, <2>2 DEF AttemptInv, NoEffectWithoutGrant
<1>10. AttemptInv'
  BY <1>5, <1>6, <1>7, <1>8, <1>9 DEF AttemptInv
<1>11. /\ node' \in [Nodes -> NodeStates]
       /\ run' \in [state : EndedRun \cup OpenRun, cancel : BOOLEAN]
       /\ lease' \in {"nobody", "us", "dead"}
  BY DEF RestartCore, TypeOK, NodeStates, OpenRun
<1>12. /\ approval' \in [Nodes -> {"none", "pending", "granted", "denied"}]
       /\ starting' \in BOOLEAN /\ restarts' \in 0..MaxRestarts
  <2>1. restarts' \in 0..MaxRestarts
    BY Numbers DEF RestartCore, TypeOK
  <2> QED
    BY <1>1, <2>1 DEF RestartCore
<1> QED
  BY <1>1, <1>2, <1>4, <1>10, <1>11, <1>12 DEF TypeOK

LEMMA InitKeeps == Init => WorkflowInv
<1>1. SUFFICES ASSUME Init PROVE TypeOK /\ AttemptInv
  BY DEF WorkflowInv
<1>2. drive \in [Drivers -> Drives]
      /\ \A d \in Drivers : ~Attempting(d) /\ ~Dispatched(d) /\ drive[d].pc = "idle"
  BY <1>1, IdleIsDrive DEF Init, Attempting, Dispatched
<1>3. \A n \in Nodes, k \in 1..MaxTry : attempt[n][k] = "none" /\ effects[n][k] = 0
  BY <1>1 DEF Init
<1>4. TypeOK
  BY <1>1, <1>2, Numbers DEF Init, TypeOK, OpenRun, NodeStates, OpenNode, Attempts
<1>5. GoalsFit /\ MarkerOpen /\ OneDriveEach /\ AnsweredBefore
  BY <1>2 DEF GoalsFit, MarkerOpen, OneDriveEach, AnsweredBefore
<1>6. GateHeld
  BY <1>1, <1>2 DEF Init, GateHeld
<1>7. Untouched /\ AttemptRunsOnce
  BY <1>3 DEF Untouched, AttemptRunsOnce
<1>8. NoBlindRetry
  <2>1. \A j \in 2..MaxTry : j \in 1..MaxTry
    BY Numbers
  <2> QED
    BY <1>3, <2>1 DEF NoBlindRetry
<1>9. NoEffectWithoutGrant
  <2>1. \A m \in NeedsApproval : m \in Nodes /\ 1 \in 1..MaxTry
    BY NodesAreNumbers, Numbers
  <2> QED
    BY <1>3, <2>1 DEF NoEffectWithoutGrant
<1> QED
  BY <1>4, <1>5, <1>6, <1>7, <1>8, <1>9 DEF AttemptInv

(* Every step keeps the invariant: one case per group of actions.          *)
LEMMA NextKeeps ==
    ASSUME WorkflowInv, [Next]_vars
    PROVE  WorkflowInv'
<1>0. TypeOK /\ AttemptInv
  BY DEF WorkflowInv
<1>1. CASE \/ StartDrive \/ CancelWorkflow \/ LeaseExpires
           \/ \E n \in Nodes, grant \in BOOLEAN : Resolve(n, grant)
  BY <1>0, <1>1, CommandsKeep DEF WorkflowInv
<1>2. ASSUME NEW d \in Drivers, DriveStep(d) PROVE WorkflowInv'
  <2>1. CASE \/ BeginDrive(d) \/ AcquireLease(d) \/ ReleaseLease(d)
             \/ ReadRun(d) \/ ReadNodes(d) \/ CancelOpenNode(d) \/ MarkBlockedNode(d)
             \/ FinishRun(d) \/ SetRunning(d) \/ SettleNode(d) \/ AskApproval(d)
    BY <1>0, <2>1, LoopKeeps DEF WorkflowInv
  <2>2. CASE CheckNode(d)
    BY <1>0, <2>2, CheckNodeKeeps DEF WorkflowInv
  <2>3. CASE CheckCancel(d)
    BY <1>0, <2>3, CheckCancelKeeps DEF WorkflowInv
  <2>4. CASE BeginAttempt(d)
    BY <1>0, <2>4, BeginAttemptKeeps DEF WorkflowInv
  <2>5. CASE \E o \in Outcomes : Execute(d, o)
    BY <1>0, <2>5, ExecuteKeeps DEF WorkflowInv
  <2>6. CASE CloseAttempt(d)
    BY <1>0, <2>6, CloseAttemptKeeps DEF WorkflowInv
  <2> QED
    BY <1>2, <2>1, <2>2, <2>3, <2>4, <2>5, <2>6 DEF DriveStep
<1>3. CASE RestartCore
  BY <1>0, <1>3, RestartKeeps DEF WorkflowInv
<1>4. CASE UNCHANGED vars
  <2>1. \A n \in Nodes : approval[n] = "granted" => n \in granted
    BY <1>0 DEF AttemptInv, GateHeld
  <2>2. AttemptInv'
    BY <1>0, <1>4, <2>1, QuietStay DEF vars
  <2>3. TypeOK'
    BY <1>0, <1>4 DEF vars, TypeOK
  <2> QED
    BY <2>2, <2>3 DEF WorkflowInv
<1> QED
  BY <1>1, <1>2, <1>3, <1>4 DEF Next

----------------------------------------------------------------------------
(* Outcomes.  A step keeps what the attempts of a node led to, and no node *)
(* becomes pending again.                                                  *)

Stay ==
    /\ \A n \in Nodes : Settled(n) => node'[n] = node[n]
    /\ \A n \in Nodes : node[n] # "pending" => node'[n] # "pending"

LEMMA KeptStays ==
    ASSUME Stay, NEW n \in Nodes, KeptInputs(n)
    PROVE  KeptInputs(n)'
<1>1. \A m \in Nodes : node[m] \in Success => node'[m] \in Success
  BY DEF Stay, Settled
<1>2. \A m \in Nodes : node[m] \in Failure \/ (HasRequired(m) /\ node[m] # "pending") =>
          node'[m] \in Failure \/ (HasRequired(m) /\ node'[m] # "pending")
  BY DEF Stay, Settled, Failure
<1>3. DataFrom(n) \subseteq Nodes /\ FailureFrom(n) \subseteq Nodes
  BY DEF DataFrom, FailureFrom
<1> QED  BY <1>1, <1>2, <1>3 DEF KeptInputs

LEMMA WholeStays ==
    ASSUME Stay
    PROVE  \A s : Whole(s) => Whole(s)'
BY DEF Stay, Settled, Whole, Success

(* What follows for the rows, and for the drives that did not move, when   *)
(* closed nodes stay closed.                                               *)
LEMMA StayKeeps ==
    ASSUME OutcomeInv, Stay, \A n \in Nodes : Closed(n) => Closed(n)',
           \A n \in Nodes : node'[n] = node[n] \/ Reached(n, node[n])',
           run'.state = run.state \/ Whole(run.state)',
           \A n \in Nodes :
               attempt'[n][1] # "none" => attempt[n][1] # "none" \/ KeptInputs(n)
    PROVE  /\ \A n \in Nodes : Reached(n, node[n])'
           /\ Whole(run.state)' /\ DispatchedHadInputs'
           /\ \A e \in Drivers : drive[e] \in Drives /\ drive'[e] = drive[e] => DriveOutcomes(e)'
           /\ \A n \in Nodes : \A s : Reached(n, s) => Reached(n, s)'
<1>1. \A n \in Nodes : \A s : Reached(n, s) => Reached(n, s)'
  BY DEF Reached
<1>2. \A n \in Nodes : Reached(n, node[n])'
  <2>1. ASSUME NEW n \in Nodes, node'[n] = node[n] PROVE Reached(n, node[n])'
    <3>1. PICK s : s = node[n]
      OBVIOUS
    <3>2. Reached(n, s)'
      BY <3>1, <1>1 DEF OutcomeInv
    <3> QED  BY <3>1, <3>2, <2>1 DEF Reached
  <2> QED  BY <2>1
<1>3. Whole(run.state)'
  <2>1. PICK s : s = run.state
    OBVIOUS
  <2>2. Whole(s)'
    BY <2>1, WholeStays DEF OutcomeInv
  <2> QED  BY <2>1, <2>2 DEF Whole
<1>4. DispatchedHadInputs'
  BY KeptStays DEF OutcomeInv, DispatchedHadInputs
<1>5. ASSUME NEW e \in Drivers, drive[e] \in Drives, drive'[e] = drive[e]
      PROVE  DriveOutcomes(e)'
  <2>0. DriveOutcomes(e)
    BY DEF OutcomeInv
  <2>1. PICK g : g = drive[e].goal
    OBVIOUS
  <2>2. \A n \in Nodes : First(e, n)' <=> First(e, n)
    BY <1>5 DEF First
  <2>3. drive'[e].pc = "settle" => \A n \in Nodes : First(e, n)' => Reached(n, g)'
    BY <2>0, <2>1, <2>2, <1>1, <1>5 DEF DriveOutcomes
  <2>4. drive'[e].pc = "finish" => Whole(g)'
    BY <2>0, <2>1, <1>5, WholeStays DEF DriveOutcomes
  <2>5. drive'[e].pc \in InBatch => \A n \in drive'[e].todo : KeptInputs(n)'
    <3>1. drive[e].todo \subseteq Nodes
      BY <1>5 DEF Drives
    <3> QED  BY <3>1, <2>0, <1>5, KeptStays DEF DriveOutcomes
  <2>6. /\ \A n \in drive'[e].lacking : HasRequired(n)
        /\ drive'[e].pc = "settle" => drive'[e].goal # "pending"
    BY <2>0, <1>5 DEF DriveOutcomes
  <2>7. drive'[e].pc = "settle" => \A n \in Nodes : First(e, n)' => Reached(n, drive[e].goal)'
    BY <2>1, <2>3, <1>5 DEF Reached
  <2>8. drive'[e].pc = "finish" => Whole(drive[e].goal)'
    BY <2>1, <2>4, <1>5 DEF Whole
  <2> QED  BY <2>5, <2>6, <2>7, <2>8 DEF DriveOutcomes
<1> QED  BY <1>1, <1>2, <1>3, <1>4, <1>5

(* A drive moves and no attempt is begun or answered.                      *)
LEMMA OutcomeMove ==
    ASSUME TypeOK, OutcomeInv, NEW d \in Drivers, NEW r \in Drives,
           drive' = [drive EXCEPT ![d] = r], attempt' = attempt, Stay,
           r.pc \in {"check", "dispatch", "effect", "close"} =>
               \/ r.try = 1
               \/ Attempting(d) /\ r.todo = drive[d].todo /\ r.try = drive[d].try,
           \A n \in r.lacking : HasRequired(n), r.pc = "settle" => r.goal # "pending",
           r.pc = "settle" => \A n \in Nodes :
               n \in r.todo /\ (\A m \in r.todo : n <= m) => Reached(n, r.goal),
           r.pc \in InBatch => \A n \in r.todo : KeptInputs(n),
           r.pc = "finish" => Whole(r.goal),
           \A n \in Nodes : node'[n] = node[n] \/ Reached(n, node'[n]),
           run'.state = run.state \/ Whole(run'.state)
    PROVE  OutcomeInv'
<1>1. drive'[d] = r /\ \A e \in Drivers \ {d} : drive'[e] = drive[e]
  BY DEF TypeOK
<1>2. ASSUME NEW e \in Drivers, NEW n \in Nodes, Working(e, n)'
      PROVE  drive'[e].try = 1 \/ (Working(e, n) /\ drive'[e].try = drive[e].try)
  <2>1. CASE e = d
    BY <2>1, <1>1, <1>2 DEF Working, Attempting, First
  <2>2. CASE e # d
    BY <2>2, <1>1, <1>2 DEF Working, Attempting, First
  <2> QED  BY <2>1, <2>2
<1>3. \A n \in Nodes : Closed(n) => Closed(n)'
  <2>1. ASSUME NEW n \in Nodes, Closed(n) PROVE Closed(n)'
    <3>1. \A e \in Drivers : Working(e, n)' => drive'[e].try = 1
      BY <2>1, <1>2 DEF Closed
    <3> QED  BY <3>1, <2>1 DEF Closed
  <2> QED  BY <2>1
<1>4. Ladder'
  BY DEF OutcomeInv, Ladder
<1>5. OneRetries'
  BY <1>2 DEF OutcomeInv, OneRetries
<1>6. \A n \in Nodes : node'[n] = node[n] \/ Reached(n, node[n])'
  BY <1>3 DEF Reached
<1>7. run'.state = run.state \/ Whole(run.state)'
  <2>1. PICK s : s = run'.state
    OBVIOUS
  <2>2. CASE Whole(s)
    <3>1. Whole(s)'
      BY <2>2, WholeStays
    <3> QED  BY <2>1, <3>1 DEF Whole
  <2> QED  BY <2>1, <2>2
<1>8. \A n \in Nodes : attempt'[n][1] # "none" => attempt[n][1] # "none"
  OBVIOUS
<1>9. \A e \in Drivers : drive[e] \in Drives
  BY DEF TypeOK
<1>10. /\ \A n \in Nodes : Reached(n, node[n])'
       /\ Whole(run.state)' /\ DispatchedHadInputs'
       /\ \A e \in Drivers \ {d} : DriveOutcomes(e)'
       /\ \A n \in Nodes : \A s : Reached(n, s) => Reached(n, s)'
  BY <1>1, <1>3, <1>6, <1>7, <1>8, <1>9, StayKeeps
<1>11. DriveOutcomes(d)'
  <2>1. PICK g : g = r.goal
    OBVIOUS
  <2>2. r.pc = "settle" => \A n \in Nodes : First(d, n)' => Reached(n, drive[d].goal)'
    <3>1. r.pc = "settle" => \A n \in Nodes : First(d, n)' => Reached(n, g)'
      BY <1>1, <1>10, <2>1 DEF First
    <3> QED  BY <3>1, <2>1, <1>1 DEF Reached
  <2>3. r.pc = "finish" => Whole(drive[d].goal)'
    <3>1. r.pc = "finish" => Whole(g)'
      BY <2>1, WholeStays
    <3> QED  BY <3>1, <2>1, <1>1 DEF Whole
  <2>4. r.pc \in InBatch => \A n \in r.todo : KeptInputs(n)'
    <3>1. r.todo \subseteq Nodes
      BY DEF Drives
    <3> QED  BY <3>1, KeptStays
  <2> QED  BY <2>2, <2>3, <2>4, <1>1 DEF DriveOutcomes
<1> QED  BY <1>4, <1>5, <1>10, <1>11 DEF OutcomeInv

(* No drive moves.                                                         *)
LEMMA OutcomeRest ==
    ASSUME TypeOK, OutcomeInv, drive' = drive, attempt' = attempt, node' = node,
           run'.state = run.state
    PROVE  OutcomeInv'
<1>0. Stay
  BY DEF Stay
<1>1. \A e \in Drivers : drive[e] \in Drives
  BY DEF TypeOK
<1>2. \A n \in Nodes : Closed(n) => Closed(n)'
  BY DEF Closed, Working, Attempting, First
<1>3. /\ \A n \in Nodes : Reached(n, node[n])'
      /\ Whole(run.state)' /\ DispatchedHadInputs'
      /\ \A e \in Drivers : DriveOutcomes(e)'
  BY <1>0, <1>1, <1>2, StayKeeps
<1>4. Ladder' /\ OneRetries'
  BY DEF OutcomeInv, Ladder, OneRetries, Working, Attempting, First
<1> QED  BY <1>3, <1>4 DEF OutcomeInv

(* A drive that holds no node and no outcome.                              *)
LEMMA OutcomeFree ==
    ASSUME TypeOK, OutcomeInv, NEW d \in Drivers, NEW r \in Drives,
           drive' = [drive EXCEPT ![d] = r], attempt' = attempt, node' = node,
           r.pc \in {"idle", "begin", "lease", "look", "nodes", "release"},
           \A n \in r.lacking : HasRequired(n),
           run'.state = run.state \/ Whole(run'.state)
    PROVE  OutcomeInv'
<1>1. Stay
  BY DEF Stay
<1> QED  BY <1>1, OutcomeMove DEF InBatch

(* The places a drive goes to without a node in hand.                      *)
LEMMA Fresh ==
    ASSUME NEW l \in {"idle", "begin", "look", "release"}
    PROVE  /\ [Idle EXCEPT !.pc = l] \in Drives /\ [Idle EXCEPT !.pc = l].pc = l
           /\ [Idle EXCEPT !.pc = l].lacking = {}
           /\ Idle.pc = "idle" /\ Idle.lacking = {}
BY IdleIsDrive DEF Drives, Locations, Idle

LEMMA LeaveOutcome ==
    ASSUME TypeOK, OutcomeInv, NEW d \in Drivers, Leave(d), attempt' = attempt, node' = node,
           run'.state = run.state \/ Whole(run'.state)
    PROVE  OutcomeInv'
<1> DEFINE r == [Idle EXCEPT !.pc = "release"]
<1>1. r \in Drives /\ r.pc = "release" /\ r.lacking = {}
  BY Fresh
<1>2. drive' = [drive EXCEPT ![d] = r]
  BY DEF Leave
<1> HIDE DEF r
<1> QED  BY <1>1, <1>2, OutcomeFree

LEMMA CommandsOutcome ==
    ASSUME TypeOK, OutcomeInv,
           \/ StartDrive \/ CancelWorkflow \/ LeaseExpires
           \/ \E n \in Nodes, grant \in BOOLEAN : Resolve(n, grant)
    PROVE  OutcomeInv'
<1> DEFINE r == [Idle EXCEPT !.pc = "begin"]
<1>1. attempt' = attempt /\ node' = node /\ run'.state = run.state
  BY DEF StartDrive, CancelWorkflow, LeaseExpires, Resolve, TypeOK
<1>2. drive' = drive \/ \E d \in Drivers : drive' = [drive EXCEPT ![d] = r]
  BY DEF StartDrive, CancelWorkflow, LeaseExpires, Resolve, SpawnDrive
<1>3. r \in Drives /\ r.pc = "begin" /\ r.lacking = {}
  BY Fresh
<1> HIDE DEF r
<1> QED  BY <1>1, <1>2, <1>3, OutcomeFree, OutcomeRest

----------------------------------------------------------------------------
(* What a drive plans from the rows it has read.                           *)

(* A run that would end successfully is whole.                             *)
LEMMA TerminalWhole ==
    ASSUME TypeOK, NEW g \in {"completed", "degraded"}, TerminalState(node) = g
    PROVE  Whole(g)
<1> DEFINE decisive == {n \in Nodes : node[n] \in {"waiting_approval", "cancelled"}}
<1>1. /\ ~ \E n \in decisive : node[n] = "cancelled" /\ \A m \in decisive : n <= m
      /\ ~ \E n \in Nodes : node[n] \in OpenNode
      /\ ~ \E n \in Nodes : node[n] \in Failure \cup {"denied", "blocked", "unknown_outcome"}
      /\ g = "completed" => ~ \E n \in Nodes : node[n] = "degraded"
  BY DEF TerminalState
<1>2. decisive = {}
  <2> SUFFICES ASSUME decisive # {} PROVE FALSE
    OBVIOUS
  <2>1. decisive \subseteq Nat
    BY NodesAreNumbers
  <2> HIDE DEF decisive
  <2>2. PICK x \in decisive : \A y \in decisive : ~(<<y, x>> \in OpToRel(<, Nat))
    BY <2>1, WFMin, NatLessThanWellFounded
  <2>3. \A m, n \in Nat : m < n => <<m, n>> \in OpToRel(<, Nat)
    BY DEF OpToRel
  <2>5. \A y \in decisive : ~(y < x)
    BY <2>1, <2>2, <2>3
  <2>4. \A y \in decisive : x <= y
    BY <2>1, <2>5
  <2> QED  BY <2>4, <1>1 DEF decisive, OpenNode
<1>3. \A n \in Nodes : node[n] \in Success
  BY <1>1, <1>2 DEF TypeOK, NodeStates
<1> QED  BY <1>1, <1>3 DEF Whole, Success

LEMMA PlanOutcome ==
    ASSUME TypeOK, NEW c \in BOOLEAN
    PROVE  /\ \A n \in Plan(c, node).lacking : HasRequired(n)
           /\ Plan(c, node).pc = "running" =>
                  \A n \in Plan(c, node).todo : n \in Nodes /\ KeptInputs(n)
           /\ Plan(c, node).pc = "finish" => Whole(Plan(c, node).goal)
<1> DEFINE open == {n \in Nodes : node[n] \in OpenNode}
           blocked == {n \in open : BlockingDependency(n, node)}
           ready == ReadyNodes(node)
           batch == SelectBatch(ready)
           lack == {n \in batch : MissingInput(n, node)}
           last == IF TerminalState(node) # "" THEN TerminalState(node)
                   ELSE IF \E n \in Nodes : node[n] = "waiting_approval"
                   THEN "waiting_approval" ELSE "interrupted"
<1>1. \A n \in batch : n \in Nodes /\ KeptInputs(n)
  <2>1. batch \subseteq ready
    BY DEF SelectBatch
  <2>2. \A n \in ready : n \in Nodes /\ InputsArrived(n, node)
    BY DEF ReadyNodes
  <2>3. \A n \in Nodes : InputsArrived(n, node) => KeptInputs(n)
    BY DEF InputsArrived, KeptInputs
  <2> QED  BY <2>1, <2>2, <2>3
<1>2. \A n \in lack : HasRequired(n)
  BY DEF MissingInput, HasRequired
<1>3. Whole(last) /\ Whole("cancelled")
  <2>1. last \in {"completed", "degraded"} => TerminalState(node) = last
    OBVIOUS
  <2> HIDE DEF last
  <2>2. last \in {"completed", "degraded"} => Whole(last)
    BY <2>1, TerminalWhole
  <2>3. last \notin {"completed", "degraded"} => Whole(last)
    BY DEF Whole
  <2>4. Whole("cancelled")
    BY DEF Whole
  <2> QED  BY <2>2, <2>3, <2>4
<1> HIDE DEF open, blocked, ready, batch, lack, last
<1>4. Plan(c, node) = CASE c /\ open # {} ->
               [Idle EXCEPT !.pc = "cancel", !.todo = open, !.goal = "cancelled"]
          [] c /\ open = {} ->
               [Idle EXCEPT !.pc = "finish", !.goal = "cancelled"]
          [] ~c /\ blocked # {} ->
               [Idle EXCEPT !.pc = "block", !.todo = blocked]
          [] ~c /\ blocked = {} /\ ready # {} ->
               [Idle EXCEPT !.pc = "running", !.todo = batch, !.lacking = lack]
          [] OTHER -> [Idle EXCEPT !.pc = "finish", !.goal = last]
  BY Zenon DEF Plan, open, blocked, ready, batch, lack, last
<1> DEFINE r == Plan(c, node)
<1>5. \/ r.lacking = {} /\ r.pc \in {"cancel", "block"}
      \/ r.lacking = {} /\ r.pc = "finish" /\ r.goal \in {"cancelled", last}
      \/ r.lacking = lack /\ r.pc = "running" /\ r.todo = batch
  <2>1. CASE c /\ open # {}
    BY <2>1, <1>4 DEF Idle
  <2>2. CASE c /\ open = {}
    BY <2>2, <1>4 DEF Idle
  <2>3. CASE ~c /\ blocked # {}
    BY <2>3, <1>4 DEF Idle
  <2>4. CASE ~c /\ blocked = {} /\ ready # {}
    BY <2>4, <1>4 DEF Idle
  <2>5. CASE ~c /\ blocked = {} /\ ready = {}
    BY <2>5, <1>4 DEF Idle
  <2> QED  BY <2>1, <2>2, <2>3, <2>4, <2>5
<1> HIDE DEF r
<1>6. r.pc = "finish" => Whole(r.goal)
  BY <1>3, <1>5
<1>7. (\A n \in r.lacking : HasRequired(n)) /\ (r.pc = "running" => r.todo = batch)
  BY <1>2, <1>5
<1> QED  BY <1>1, <1>6, <1>7 DEF r

----------------------------------------------------------------------------
(* The steps of a drive that neither begin nor answer an attempt.          *)

(* update_node_state writes an outcome that was reached.                   *)
LEMMA UpdateOutcome ==
    ASSUME TypeOK, OutcomeInv, NEW d \in Drivers, NEW n \in Nodes, NEW s \in NodeStates \ {"pending"},
           Reached(n, s), NEW r \in Drives, UpdateNode(d, n, s, r), attempt' = attempt, run' = run,
           r.pc \notin {"check", "dispatch", "effect", "close", "settle"},
           \A m \in r.lacking : HasRequired(m),
           r.pc \in InBatch => \A m \in r.todo : KeptInputs(m),
           r.pc = "finish" => Whole(r.goal)
    PROVE  OutcomeInv'
<1>1. CASE node[n] \in OpenNode
  <2>1. node' = [node EXCEPT ![n] = s] /\ drive' = [drive EXCEPT ![d] = r]
    BY <1>1 DEF UpdateNode
  <2>2. node'[n] = s /\ \A m \in Nodes : m # n => node'[m] = node[m]
    BY <2>1 DEF TypeOK
  <2>3. Stay
    BY <1>1, <2>2 DEF Stay, Settled, OpenNode, Success
  <2>4. \A m \in Nodes : node'[m] = node[m] \/ Reached(m, node'[m])
    BY <2>2
  <2> QED  BY <2>1, <2>3, <2>4, OutcomeMove
<1>2. CASE node[n] \notin OpenNode
  BY <1>2, LeaveOutcome DEF UpdateNode
<1> QED  BY <1>1, <1>2

(* After a node the drive goes on with nodes of its batch.                 *)
LEMMA DoneOutcome ==
    ASSUME TypeOK, NEW d \in Drivers, DriveOutcomes(d), drive[d].pc \in InBatch,
           NEW n \in Nodes, NEW moved \in BOOLEAN
    PROVE  /\ Done(d, n, moved) \in Drives
           /\ Done(d, n, moved).pc \in {"node", "look", "finish"}
           /\ \A m \in Done(d, n, moved).lacking : HasRequired(m)
           /\ Done(d, n, moved).pc \in InBatch =>
                  \A m \in Done(d, n, moved).todo : KeptInputs(m)
           /\ Done(d, n, moved).pc = "finish" => Whole(Done(d, n, moved).goal)
<1> DEFINE r == Done(d, n, moved)
<1>0. drive[d] \in Drives
  BY DEF TypeOK
<1>1. r \in Drives /\ r.pc \in {"node", "look", "finish"}
  BY <1>0, DoneType
<1>2. \/ r.pc = "node" /\ r.lacking = drive[d].lacking /\ r.todo \subseteq drive[d].todo
      \/ r.pc = "look" /\ r.lacking = {}
      \/ r.pc = "finish" /\ r.lacking = {} /\ r.goal = "waiting_approval"
  BY <1>0 DEF Done, Drives, Idle
<1> HIDE DEF r
<1>3. Whole("waiting_approval")
  BY DEF Whole
<1>4. /\ \A m \in r.lacking : HasRequired(m)
      /\ r.pc \in InBatch => \A m \in r.todo : KeptInputs(m)
      /\ r.pc = "finish" => Whole(r.goal)
  BY <1>2, <1>3 DEF DriveOutcomes, InBatch
<1> QED  BY <1>1, <1>4 DEF r

LEMMA LoopOutcome ==
    ASSUME TypeOK, AttemptInv, OutcomeInv, NEW d \in Drivers,
           \/ BeginDrive(d) \/ AcquireLease(d) \/ ReleaseLease(d)
           \/ ReadRun(d) \/ ReadNodes(d) \/ CancelOpenNode(d) \/ MarkBlockedNode(d)
           \/ FinishRun(d) \/ SetRunning(d) \/ SettleNode(d) \/ AskApproval(d)
    PROVE  OutcomeInv'
<1>0. drive[d] \in Drives /\ DriveOutcomes(d) /\ drive[d].todo \subseteq Nodes
  BY DEF TypeOK, OutcomeInv, Drives
<1>1. CASE BeginDrive(d)
  <2> DEFINE r == IF run.state \in EndedRun THEN Idle ELSE [drive[d] EXCEPT !.pc = "lease"]
  <2>1. r \in Drives /\ r.pc \in {"idle", "lease"} /\ r.lacking \subseteq drive[d].lacking
    BY <1>0, IdleIsDrive DEF Drives, Locations, Idle
  <2>2. drive' = [drive EXCEPT ![d] = r]
    BY <1>1 DEF BeginDrive, TypeOK
  <2> HIDE DEF r
  <2> QED  BY <1>0, <1>1, <2>1, <2>2, OutcomeFree DEF BeginDrive, DriveOutcomes
<1>2. CASE AcquireLease(d)
  <2> DEFINE r == IF lease = "dead" THEN Idle ELSE [drive[d] EXCEPT !.pc = "look"]
  <2>1. r \in Drives /\ r.pc \in {"idle", "look"} /\ r.lacking \subseteq drive[d].lacking
    BY <1>0, IdleIsDrive DEF Drives, Locations, Idle
  <2>2. drive' = [drive EXCEPT ![d] = r]
    BY <1>2 DEF AcquireLease, Goto, TypeOK
  <2> HIDE DEF r
  <2> QED  BY <1>0, <1>2, <2>1, <2>2, OutcomeFree DEF AcquireLease, DriveOutcomes
<1>3. CASE ReleaseLease(d)
  <2>1. Idle \in Drives /\ Idle.pc = "idle" /\ Idle.lacking = {}
    BY IdleIsDrive DEF Idle
  <2> QED  BY <1>3, <2>1, OutcomeFree DEF ReleaseLease
<1>4. CASE ReadRun(d)
  <2>1. CASE run.state \in EndedRun
    BY <1>4, <2>1, LeaveOutcome DEF ReadRun
  <2>2. CASE run.state \notin EndedRun
    <3> DEFINE g == IF run.cancel THEN "cancelled" ELSE ""
               r == [Idle EXCEPT !.pc = "nodes", !.goal = g]
    <3>1. g \in {""} \cup NodeStates
      BY DEF NodeStates
    <3>2. drive' = [drive EXCEPT ![d] = r]
      BY <1>4, <2>2 DEF ReadRun
    <3> HIDE DEF g
    <3>3. r \in Drives /\ r.pc = "nodes" /\ r.lacking = {}
      BY <3>1, IdleIsDrive DEF Drives, Locations, Idle
    <3> HIDE DEF r
    <3> QED  BY <1>4, <3>2, <3>3, OutcomeFree DEF ReadRun
  <2> QED  BY <2>1, <2>2
<1>5. CASE ReadNodes(d)
  <2> DEFINE c == drive[d].goal = "cancelled"
             r == Plan(c, node)
  <2>1. drive' = [drive EXCEPT ![d] = r]
    BY <1>5 DEF ReadNodes
  <2>2. /\ r \in Drives /\ r.pc \in {"cancel", "finish", "block", "running"}
        /\ \A n \in r.lacking : HasRequired(n)
        /\ r.pc = "running" => \A n \in r.todo : KeptInputs(n)
        /\ r.pc = "finish" => Whole(r.goal)
    BY PlanType, PlanOutcome, c \in BOOLEAN
  <2> HIDE DEF r
  <2>3. Stay
    BY <1>5 DEF ReadNodes, Stay
  <2> QED  BY <1>5, <2>1, <2>2, <2>3, OutcomeMove DEF ReadNodes, InBatch
<1>6. CASE CancelOpenNode(d)
  <2>1. drive[d].pc = "cancel" /\ drive[d].goal = "cancelled"
    BY <1>6 DEF CancelOpenNode, At, AttemptInv, GoalsFit
  <2>2. PICK n \in Nodes :
           UpdateNode(d, n, "cancelled",
               [drive[d] EXCEPT !.todo = @ \ {n},
                   !.pc = IF drive[d].todo = {n} THEN "finish" ELSE "cancel"])
    BY <1>6 DEF CancelOpenNode
  <2> DEFINE p == IF drive[d].todo = {n} THEN "finish" ELSE "cancel"
             r == [drive[d] EXCEPT !.todo = @ \ {n}, !.pc = p]
  <2>3. p \in {"finish", "cancel"}
    OBVIOUS
  <2> HIDE DEF p
  <2>4. r \in Drives /\ r.pc = p /\ r.goal = "cancelled" /\ r.lacking = drive[d].lacking
    BY <1>0, <2>1, <2>3 DEF Drives, Locations
  <2>5. UpdateNode(d, n, "cancelled", r)
    BY <2>2 DEF p
  <2> HIDE DEF r
  <2>6. /\ "cancelled" \in NodeStates \ {"pending"} /\ Reached(n, "cancelled")
        /\ Whole("cancelled")
    BY DEF NodeStates, Reached, Whole, Success
  <2> QED
    BY <1>0, <1>6, <2>3, <2>4, <2>5, <2>6, UpdateOutcome DEF CancelOpenNode, InBatch, DriveOutcomes
<1>7. CASE MarkBlockedNode(d)
  <2>1. PICK n \in Nodes :
           UpdateNode(d, n, "blocked",
               [drive[d] EXCEPT !.todo = @ \ {n},
                   !.pc = IF drive[d].todo = {n} THEN "look" ELSE "block"])
    BY <1>7 DEF MarkBlockedNode
  <2> DEFINE p == IF drive[d].todo = {n} THEN "look" ELSE "block"
             r == [drive[d] EXCEPT !.todo = @ \ {n}, !.pc = p]
  <2>2. p \in {"look", "block"}
    OBVIOUS
  <2> HIDE DEF p
  <2>3. r \in Drives /\ r.pc = p /\ r.lacking = drive[d].lacking
    BY <1>0, <2>2 DEF Drives, Locations
  <2>4. UpdateNode(d, n, "blocked", r)
    BY <2>1 DEF p
  <2> HIDE DEF r
  <2>5. "blocked" \in NodeStates \ {"pending"} /\ Reached(n, "blocked")
    BY DEF NodeStates, Reached, Success
  <2> QED
    BY <1>0, <1>7, <2>2, <2>3, <2>4, <2>5, UpdateOutcome DEF MarkBlockedNode, InBatch, DriveOutcomes
<1>8. CASE FinishRun(d)
  <2>1. Whole(drive[d].goal) /\ Leave(d) /\ attempt' = attempt /\ node' = node
    BY <1>0, <1>8 DEF FinishRun, At, DriveOutcomes
  <2>2. run'.state = run.state \/ run'.state = drive[d].goal
    BY <1>8 DEF FinishRun, TypeOK
  <2>3. run'.state = run.state \/ Whole(run'.state)
    BY <2>1, <2>2
  <2> QED  BY <2>1, <2>3, LeaveOutcome
<1>9. CASE SetRunning(d)
  <2>1. CASE run.state \in EndedRun
    BY <1>9, <2>1, LeaveOutcome DEF SetRunning
  <2>2. CASE run.state \notin EndedRun
    <3> DEFINE r == [drive[d] EXCEPT !.pc = "node"]
    <3>1. drive' = [drive EXCEPT ![d] = r] /\ run'.state = "running" /\ node' = node
          /\ attempt' = attempt /\ drive[d].pc = "running"
      BY <1>9, <2>2 DEF SetRunning, Goto, At, TypeOK
    <3>2. /\ r \in Drives /\ r.pc = "node" /\ r.todo = drive[d].todo
          /\ r.lacking = drive[d].lacking
      BY <1>0 DEF Drives, Locations
    <3> HIDE DEF r
    <3>3. Whole("running") /\ Stay
      BY <3>1 DEF Whole, Stay
    <3>4. Whole(run'.state)
      BY <3>1, <3>3
    <3> QED  BY <1>0, <3>1, <3>2, <3>3, <3>4, OutcomeMove DEF InBatch, DriveOutcomes
  <2> QED  BY <2>1, <2>2
<1>10. CASE SettleNode(d)
  <2>1. drive[d].pc = "settle" /\ drive[d].goal \in NodeStates
    BY <1>10 DEF SettleNode, At, AttemptInv, GoalsFit
  <2>2. PICK n \in Nodes : First(d, n) /\ UpdateNode(d, n, drive[d].goal, Done(d, n, TRUE))
    BY <1>10 DEF SettleNode
  <2>3. Reached(n, drive[d].goal)
    BY <1>0, <2>1, <2>2 DEF DriveOutcomes
  <2> DEFINE r == Done(d, n, TRUE)
             s == drive[d].goal
  <2>4. /\ r \in Drives /\ r.pc \in {"node", "look", "finish"}
        /\ \A m \in r.lacking : HasRequired(m)
        /\ r.pc \in InBatch => \A m \in r.todo : KeptInputs(m)
        /\ r.pc = "finish" => Whole(r.goal)
    BY <1>0, <2>1, DoneOutcome DEF InBatch
  <2>5. s \in NodeStates \ {"pending"} /\ Reached(n, s) /\ UpdateNode(d, n, s, r)
    BY <1>0, <2>1, <2>2, <2>3 DEF DriveOutcomes
  <2> HIDE DEF r, s
  <2> QED  BY <1>10, <2>4, <2>5, UpdateOutcome DEF SettleNode
<1>11. CASE AskApproval(d)
  <2>1. PICK n \in Nodes :
            /\ node' = IF node[n] \in {"pending", "running"}
                       THEN [node EXCEPT ![n] = "waiting_approval"] ELSE node
            /\ drive' = [drive EXCEPT ![d] = Done(d, n, FALSE)]
    BY <1>11 DEF AskApproval
  <2> DEFINE r == Done(d, n, FALSE)
  <2>2. /\ r \in Drives /\ r.pc \in {"node", "look", "finish"}
        /\ \A m \in r.lacking : HasRequired(m)
        /\ r.pc \in InBatch => \A m \in r.todo : KeptInputs(m)
        /\ r.pc = "finish" => Whole(r.goal)
    BY <1>0, <1>11, DoneOutcome DEF InBatch, AskApproval, At
  <2>3. drive' = [drive EXCEPT ![d] = r]
    BY <2>1
  <2> HIDE DEF r
  <2>4. \A m \in Nodes : node'[m] = node[m] \/
            (node[m] \in {"pending", "running"} /\ node'[m] = "waiting_approval")
    BY <2>1 DEF TypeOK
  <2>5. Stay
    BY <2>4 DEF Stay, Settled, Success
  <2>6. \A m \in Nodes : node'[m] = node[m] \/ Reached(m, node'[m])
    BY <2>4 DEF Reached, Success
  <2> QED  BY <1>11, <2>2, <2>3, <2>5, <2>6, OutcomeMove DEF AskApproval
<1> QED
  BY <1>1, <1>2, <1>3, <1>4, <1>5, <1>6, <1>7, <1>8, <1>9, <1>10, <1>11

----------------------------------------------------------------------------
(* The way to an attempt and the call of the adapter.                      *)

(* A drive keeps its list, which is a list of nodes with their inputs.     *)
LEMMA BatchKept ==
    ASSUME TypeOK, OutcomeInv, NEW d \in Drivers, drive[d].pc \in InBatch, NEW r \in Drives,
           r.todo = drive[d].todo, r.lacking = drive[d].lacking
    PROVE  /\ \A n \in r.lacking : HasRequired(n)
           /\ \A n \in r.todo : KeptInputs(n)
           /\ \A n \in Nodes : (n \in r.todo /\ (\A m \in r.todo : n <= m)) <=> First(d, n)
BY DEF OutcomeInv, DriveOutcomes, First

LEMMA CheckNodeOutcome ==
    ASSUME TypeOK, OutcomeInv, NEW d \in Drivers, CheckNode(d)
    PROVE  OutcomeInv'
<1>0. drive[d] \in Drives /\ drive[d].pc = "node" /\ drive[d].pc \in InBatch
  BY DEF TypeOK, CheckNode, At, InBatch
<1>1. attempt' = attempt /\ node' = node /\ run' = run
  BY DEF CheckNode
<1> DEFINE settle(s) == [drive[d] EXCEPT !.pc = "settle", !.goal = s]
           ask == [drive[d] EXCEPT !.pc = "ask"]
           go == [drive[d] EXCEPT !.pc = "check", !.try = 1]
<1>2. PICK n \in Nodes :
        /\ First(d, n)
        /\ \/ drive' = [drive EXCEPT ![d] = settle("denied")]
           \/ drive' = [drive EXCEPT ![d] = settle("failed")] /\ n \in drive[d].lacking
           \/ drive' = [drive EXCEPT ![d] = ask]
           \/ drive' = [drive EXCEPT ![d] = go]
  BY DEF CheckNode
<1>3. \A s \in {"denied", "failed"} :
        /\ settle(s) \in Drives /\ settle(s).pc = "settle" /\ settle(s).goal = s
        /\ settle(s).todo = drive[d].todo /\ settle(s).lacking = drive[d].lacking
  BY <1>0 DEF Drives, Locations, NodeStates, Failure
<1>4. ask \in Drives /\ ask.pc = "ask"
      /\ ask.todo = drive[d].todo /\ ask.lacking = drive[d].lacking
  BY <1>0 DEF Drives, Locations
<1>5. MaxTry \in Nat /\ 1 \in 0..MaxTry
  BY <1>2, Numbers
<1>6. go \in Drives /\ go.pc = "check" /\ go.try = 1
      /\ go.todo = drive[d].todo /\ go.lacking = drive[d].lacking
  BY <1>0, <1>5 DEF Drives, Locations
<1>7. Stay
  BY <1>1 DEF Stay
<1>8. n \in drive[d].lacking => HasRequired(n)
  BY DEF OutcomeInv, DriveOutcomes
<1> HIDE DEF ask, go
<1>9. ASSUME NEW s \in {"denied", "failed"}, drive' = [drive EXCEPT ![d] = settle(s)],
             s = "failed" => HasRequired(n)
      PROVE  OutcomeInv'
  <2> DEFINE r == settle(s)
  <2>1. /\ r \in Drives /\ r.pc = "settle" /\ r.goal = s
        /\ r.todo = drive[d].todo /\ r.lacking = drive[d].lacking
    BY <1>3
  <2>2. drive' = [drive EXCEPT ![d] = r]
    BY <1>9
  <2> HIDE DEF r
  <2>3. \A m \in Nodes : First(d, m) => Reached(m, s)
    BY <1>2, <1>9, FirstIsOne DEF Reached, Success
  <2>4. /\ \A m \in r.lacking : HasRequired(m)
        /\ \A m \in r.todo : KeptInputs(m)
        /\ \A m \in Nodes : m \in r.todo /\ (\A x \in r.todo : m <= x) => Reached(m, r.goal)
    BY <1>0, <2>1, <2>3, BatchKept
  <2> QED  BY <1>1, <1>7, <2>1, <2>2, <2>4, OutcomeMove
<1>10. CASE drive' = [drive EXCEPT ![d] = ask]
  <2>1. /\ \A m \in ask.lacking : HasRequired(m)
        /\ \A m \in ask.todo : KeptInputs(m)
    BY <1>0, <1>4, BatchKept
  <2> QED  BY <1>1, <1>4, <1>7, <1>10, <2>1, OutcomeMove
<1>11. CASE drive' = [drive EXCEPT ![d] = go]
  <2>1. /\ \A m \in go.lacking : HasRequired(m)
        /\ \A m \in go.todo : KeptInputs(m)
    BY <1>0, <1>6, BatchKept
  <2> QED  BY <1>1, <1>6, <1>7, <1>11, <2>1, OutcomeMove
<1> HIDE DEF settle
<1> QED  BY <1>2, <1>8, <1>9, <1>10, <1>11

LEMMA CheckCancelOutcome ==
    ASSUME TypeOK, OutcomeInv, NEW d \in Drivers, CheckCancel(d)
    PROVE  OutcomeInv'
<1>0. drive[d] \in Drives /\ drive[d].pc \in InBatch /\ Attempting(d)
  BY DEF TypeOK, CheckCancel, At, InBatch, Attempting
<1> DEFINE yes == [drive[d] EXCEPT !.pc = "settle", !.goal = "cancelled"]
           no == [drive[d] EXCEPT !.pc = "dispatch", !.goal = ""]
<1>1. /\ yes \in Drives /\ yes.pc = "settle" /\ yes.goal = "cancelled"
      /\ yes.todo = drive[d].todo /\ yes.lacking = drive[d].lacking
  BY <1>0 DEF Drives, Locations, NodeStates
<1>2. /\ no \in Drives /\ no.pc = "dispatch" /\ no.try = drive[d].try
      /\ no.todo = drive[d].todo /\ no.lacking = drive[d].lacking
  BY <1>0 DEF Drives, Locations
<1>3. drive' = [drive EXCEPT ![d] = yes] \/ drive' = [drive EXCEPT ![d] = no]
  <2>1. CASE run.cancel
    BY <2>1 DEF CheckCancel, TypeOK
  <2>2. CASE ~run.cancel
    BY <2>2 DEF CheckCancel, TypeOK
  <2> QED  BY <2>1, <2>2
<1> HIDE DEF yes, no
<1>4. attempt' = attempt /\ node' = node /\ run' = run /\ Stay
  BY DEF CheckCancel, Stay
<1>5. CASE drive' = [drive EXCEPT ![d] = yes]
  <2>1. /\ \A m \in yes.lacking : HasRequired(m)
        /\ \A m \in yes.todo : KeptInputs(m)
    BY <1>0, <1>1, BatchKept
  <2>2. \A m \in Nodes : Reached(m, yes.goal)
    BY <1>1 DEF Reached, Success
  <2> QED  BY <1>1, <1>4, <1>5, <2>1, <2>2, OutcomeMove
<1>6. CASE drive' = [drive EXCEPT ![d] = no]
  <2>1. /\ \A m \in no.lacking : HasRequired(m)
        /\ \A m \in no.todo : KeptInputs(m)
    BY <1>0, <1>2, BatchKept
  <2> QED  BY <1>0, <1>2, <1>4, <1>6, <2>1, OutcomeMove
<1> QED  BY <1>3, <1>5, <1>6

LEMMA ExecuteOutcome ==
    ASSUME TypeOK, OutcomeInv, NEW d \in Drivers, NEW o \in Outcomes, Execute(d, o)
    PROVE  OutcomeInv'
<1>0. drive[d] \in Drives /\ drive[d].pc \in InBatch /\ Attempting(d)
  BY DEF TypeOK, Execute, At, InBatch, Attempting
<1> DEFINE r == [drive[d] EXCEPT !.pc = "close", !.goal = o]
<1>1. /\ r \in Drives /\ r.pc = "close" /\ r.try = drive[d].try
      /\ r.todo = drive[d].todo /\ r.lacking = drive[d].lacking
  BY <1>0 DEF Drives, Locations
<1>2. drive' = [drive EXCEPT ![d] = r]
  BY DEF Execute, TypeOK
<1> HIDE DEF r
<1>3. attempt' = attempt /\ node' = node /\ run' = run /\ Stay
  BY DEF Execute, Stay
<1>4. /\ \A m \in r.lacking : HasRequired(m)
      /\ \A m \in r.todo : KeptInputs(m)
  BY <1>0, <1>1, BatchKept
<1> QED  BY <1>0, <1>1, <1>2, <1>3, <1>4, OutcomeMove

----------------------------------------------------------------------------
(* The two writes of an attempt, and the recovery.                         *)

(* An outcome that was reached leaves nothing to attempt.                  *)
LEMMA SettledIsClosed ==
    ASSUME OutcomeInv, NEW n \in Nodes, Settled(n)
    PROVE  Closed(n)
BY DEF OutcomeInv, Settled, Reached

LEMMA BeginAttemptOutcome ==
    ASSUME TypeOK, AttemptInv, OutcomeInv, NEW d \in Drivers, BeginAttempt(d)
    PROVE  OutcomeInv'
<1>0. drive[d] \in Drives /\ drive[d].pc = "dispatch" /\ Attempting(d) /\ drive[d].pc \in InBatch
  BY DEF TypeOK, BeginAttempt, At, Attempting, InBatch
<1>1. PICK n \in Nodes :
        /\ First(d, n)
        /\ IF attempt[n][drive[d].try] # "none"
           THEN Leave(d) /\ UNCHANGED <<node, attempt>>
           ELSE /\ attempt' = [attempt EXCEPT ![n][drive[d].try] = "open"]
                /\ node' = [node EXCEPT ![n] = "running"]
                /\ Goto(d, "effect")
  BY DEF BeginAttempt
<1>2. run' = run
  BY DEF BeginAttempt
<1>3. CASE attempt[n][drive[d].try] # "none"
  BY <1>1, <1>2, <1>3, LeaveOutcome
<1>4. CASE attempt[n][drive[d].try] = "none"
  <2> DEFINE k == drive[d].try
             r == [drive[d] EXCEPT !.pc = "effect"]
  <2>1. k \in 1..MaxTry /\ MaxTry \in Nat
    BY <1>0, Numbers DEF AttemptInv, GoalsFit
  <2>2. /\ r \in Drives /\ r.pc = "effect" /\ r.try = k
        /\ r.todo = drive[d].todo /\ r.lacking = drive[d].lacking
    BY <1>0 DEF Drives, Locations
  <2>3. drive'[d] = r /\ \A e \in Drivers \ {d} : drive'[e] = drive[e]
    BY <1>1, <1>4 DEF Goto, TypeOK
  <2> HIDE DEF r
  <2>4. /\ attempt'[n][k] = "open"
        /\ \A m \in Nodes, j \in 1..MaxTry : m # n \/ j # k => attempt'[m][j] = attempt[m][j]
    <3>1. attempt' = [attempt EXCEPT ![n][k] = "open"]
      BY <1>1, <1>4
    <3>2. attempt \in [Nodes -> [1..MaxTry -> Attempts]]
      BY DEF TypeOK
    <3> DEFINE row == [attempt[n] EXCEPT ![k] = "open"]
    <3>3. row[k] = "open" /\ \A j \in 1..MaxTry : j # k => row[j] = attempt[n][j]
      BY <2>1, <3>2
    <3>4. attempt' = [attempt EXCEPT ![n] = row]
      BY <3>1
    <3> HIDE DEF row, k
    <3>5. attempt'[n] = row /\ \A m \in Nodes : m # n => attempt'[m] = attempt[m]
      BY <3>2, <3>4
    <3> QED  BY <3>3, <3>5
  <2>5. node'[n] = "running" /\ \A m \in Nodes : m # n => node'[m] = node[m]
    BY <1>1, <1>4 DEF TypeOK
  <2>6. \A e \in Drivers, m \in Nodes : First(e, m)' = First(e, m)
    BY <2>2, <2>3 DEF First
  <2>7. \A e \in Drivers : Attempting(e)' = Attempting(e) /\ drive'[e].try = drive[e].try
    BY <1>0, <2>2, <2>3 DEF Attempting
  <2>8. \A e \in Drivers, m \in Nodes : Working(e, m)' = Working(e, m)
    BY <2>6, <2>7 DEF Working
  <2>9. ~Closed(n)
    BY <1>0, <1>1, <1>4 DEF Closed, Working
  <2>10. Stay
    BY <2>5, <2>9, SettledIsClosed DEF Stay
  <2> HIDE DEF k
  <2>11. 1 \in 1..MaxTry
    BY <2>1
  <2>12. \A m \in Nodes : Closed(m) => Closed(m)'
    <3>1. ASSUME NEW m \in Nodes, Closed(m) PROVE Closed(m)'
      <4>1. m # n
        BY <2>9, <3>1
      <4> QED  BY <2>4, <2>7, <2>8, <2>11, <3>1, <4>1 DEF Closed
    <3> QED  BY <3>1
  <2>13. Ladder'
    <3>1. SUFFICES ASSUME NEW m \in Nodes, NEW i \in 1..MaxTry, NEW j \in 1..MaxTry,
                          i < j, attempt'[m][j] # "none"
                   PROVE  attempt'[m][i] = "failed"
      BY DEF Ladder
    <3>2. CASE m = n /\ j = k
      <4>1. k > 1 /\ k - 1 \in 1..MaxTry /\ i <= k - 1 /\ i # k
        BY <2>1, <3>1, <3>2
      <4>2. attempt[n][k - 1] = "failed"
        BY <1>0, <1>1, <4>1 DEF AttemptInv, AnsweredBefore, k
      <4>3. i = k - 1 \/ i < k - 1
        BY <2>1, <4>1
      <4>4. attempt[n][i] = "failed"
        BY <4>1, <4>2, <4>3 DEF OutcomeInv, Ladder
      <4> QED  BY <2>4, <3>2, <4>1, <4>4
    <3>3. CASE ~(m = n /\ j = k)
      <4>1. attempt[m][i] = "failed"
        BY <2>4, <3>1, <3>3 DEF OutcomeInv, Ladder
      <4>2. ~(m = n /\ i = k)
        BY <1>4, <4>1 DEF k
      <4> QED  BY <2>4, <4>1, <4>2
    <3> QED  BY <3>2, <3>3
  <2>14. OneRetries'
    BY <2>7, <2>8 DEF OutcomeInv, OneRetries
  <2>15. \A m \in drive[d].todo : KeptInputs(m)
    BY <1>0 DEF OutcomeInv, DriveOutcomes
  <2>16. \A m \in Nodes : attempt'[m][1] # "none" => attempt[m][1] # "none" \/ KeptInputs(m)
    BY <1>1, <2>4, <2>11, <2>15 DEF First
  <2>17. \A m \in Nodes : node'[m] = node[m] \/ Reached(m, node[m])'
    BY <2>5 DEF Reached, Success
  <2>18. \A e \in Drivers : drive[e] \in Drives
    BY DEF TypeOK
  <2>19. /\ \A m \in Nodes : Reached(m, node[m])'
         /\ Whole(run.state)' /\ DispatchedHadInputs'
         /\ \A e \in Drivers \ {d} : DriveOutcomes(e)'
    BY <1>2, <2>3, <2>10, <2>12, <2>16, <2>17, <2>18, StayKeeps
  <2>20. DriveOutcomes(d)'
    <3>1. drive[d].todo \subseteq Nodes
      BY <1>0 DEF Drives
    <3>2. \A m \in r.todo : KeptInputs(m)'
      BY <2>2, <2>10, <2>15, <3>1, KeptStays
    <3>3. \A m \in r.lacking : HasRequired(m)
      BY <2>2 DEF OutcomeInv, DriveOutcomes
    <3> QED  BY <2>2, <2>3, <3>2, <3>3 DEF DriveOutcomes
  <2> QED  BY <2>13, <2>14, <2>19, <2>20 DEF OutcomeInv
<1> QED  BY <1>3, <1>4

(* The last answer closes the node; an answer that allows another attempt  *)
(* leaves one drive to make it.                                            *)
LEMMA CloseAttemptOutcome ==
    ASSUME TypeOK, AttemptInv, OutcomeInv, NEW d \in Drivers, CloseAttempt(d)
    PROVE  OutcomeInv'
<1>0. /\ drive[d] \in Drives /\ drive[d].pc = "close" /\ drive[d].pc \in InBatch
      /\ Attempting(d) /\ Dispatched(d)
  BY DEF TypeOK, CloseAttempt, At, Attempting, Dispatched, InBatch
<1> DEFINE k == drive[d].try
           o == drive[d].goal
           v == IF o \in {"ok", "degraded"} THEN "succeeded" ELSE "failed"
<1>1. PICK n \in Nodes :
        /\ First(d, n)
        /\ attempt' = [attempt EXCEPT ![n][k] = IF @ # "open" THEN @ ELSE v]
        /\ drive' = [drive EXCEPT ![d] =
               IF Retried(o, n, k)
               THEN [@ EXCEPT !.pc = "check", !.try = k + 1, !.goal = ""]
               ELSE [@ EXCEPT !.pc = "settle", !.goal = FinalState(o, n, k)]]
  BY DEF CloseAttempt
<1> DEFINE f == FinalState(o, n, k)
           again == [drive[d] EXCEPT !.pc = "check", !.try = k + 1, !.goal = ""]
           stop == [drive[d] EXCEPT !.pc = "settle", !.goal = f]
<1>2. k \in 1..MaxTry /\ MaxTry \in Nat /\ 1 \in 1..MaxTry
  BY <1>0, Numbers DEF AttemptInv, GoalsFit
<1>3. attempt[n][k] = "open"
  BY <1>0, <1>1 DEF AttemptInv, MarkerOpen
<1>4. v \in {"succeeded", "failed"}
  OBVIOUS
<1>5. /\ attempt'[n][k] = v
      /\ \A m \in Nodes, j \in 1..MaxTry : m # n \/ j # k => attempt'[m][j] = attempt[m][j]
  <2>1. attempt \in [Nodes -> [1..MaxTry -> Attempts]]
    BY DEF TypeOK
  <2> DEFINE row == [attempt[n] EXCEPT ![k] = IF @ # "open" THEN @ ELSE v]
  <2>2. attempt' = [attempt EXCEPT ![n] = row]
    BY <1>1
  <2> HIDE DEF k, v
  <2>3. row[k] = v /\ \A j \in 1..MaxTry : j # k => row[j] = attempt[n][j]
    BY <1>2, <1>3, <2>1
  <2> HIDE DEF row
  <2>4. attempt'[n] = row /\ \A m \in Nodes : m # n => attempt'[m] = attempt[m]
    BY <2>1, <2>2
  <2> QED  BY <2>3, <2>4
<1>6. node' = node /\ run' = run
  BY DEF CloseAttempt
<1>7. f \in NodeStates /\ f # "pending"
  BY FinalStateType DEF FinalState
<1>8. PICK r \in Drives :
        /\ drive' = [drive EXCEPT ![d] = r] /\ r.todo = drive[d].todo
        /\ r.lacking = drive[d].lacking
        /\ \/ r.pc = "settle" /\ r.goal # "pending"
           \/ r.pc = "check" /\ r.try = k + 1
  <2>1. CASE Retried(o, n, k)
    <3>1. k + 1 \in 0..MaxTry
      BY <1>2, <2>1, Numbers DEF Retried
    <3>2. drive' = [drive EXCEPT ![d] = again]
      BY <1>1, <2>1 DEF TypeOK
    <3> HIDE DEF k
    <3>3. /\ again \in Drives /\ again.pc = "check" /\ again.try = k + 1
          /\ again.todo = drive[d].todo /\ again.lacking = drive[d].lacking
      BY <1>0, <3>1 DEF Drives, Locations
    <3> QED  BY <3>2, <3>3
  <2>2. CASE ~Retried(o, n, k)
    <3>1. drive' = [drive EXCEPT ![d] = stop]
      BY <1>1, <2>2 DEF TypeOK
    <3> HIDE DEF f
    <3>2. /\ stop \in Drives /\ stop.pc = "settle" /\ stop.goal = f
          /\ stop.todo = drive[d].todo /\ stop.lacking = drive[d].lacking
      BY <1>0, <1>7 DEF Drives, Locations
    <3> QED  BY <1>7, <3>1, <3>2
  <2> QED  BY <2>1, <2>2
<1> HIDE DEF k, o, v, f
<1>9. drive'[d] = r /\ \A e \in Drivers \ {d} : drive'[e] = drive[e]
  BY <1>8 DEF TypeOK
<1>10. \A e \in Drivers, m \in Nodes : First(e, m)' = First(e, m)
  BY <1>8, <1>9 DEF First
<1>11. \A e \in Drivers \ {d}, m \in Nodes :
           Working(e, m)' = Working(e, m) /\ drive'[e].try = drive[e].try
  BY <1>9, <1>10 DEF Working, Attempting
<1>12. \A m \in Nodes : First(d, m) => m = n
  BY <1>1, FirstIsOne
(* The other drives on the node are at their first attempt. *)
<1>13. \A e \in Drivers \ {d} : Working(e, n) => drive[e].try = 1
  <2>1. SUFFICES ASSUME NEW e \in Drivers \ {d}, Working(e, n), drive[e].try # 1 PROVE FALSE
    OBVIOUS
  <2>2. drive[e].try \in 1..MaxTry
    BY <2>1 DEF AttemptInv, GoalsFit, Working
  <2>3. k = 1
    BY <1>0, <1>1, <2>1 DEF OutcomeInv, OneRetries, Working, k
  <2>4. drive[e].try > 1 /\ drive[e].try - 1 \in 1..MaxTry
    BY <1>2, <2>1, <2>2
  <2>5. attempt[n][drive[e].try - 1] = "failed"
    BY <2>1, <2>4 DEF AttemptInv, AnsweredBefore, Working
  <2>6. drive[e].try - 1 = 1 \/ 1 < drive[e].try - 1
    BY <1>2, <2>2, <2>4
  <2>7. attempt[n][1] = "failed"
    BY <1>2, <2>4, <2>5, <2>6 DEF OutcomeInv, Ladder
  <2> QED  BY <1>3, <2>3, <2>7
(* No other attempt of the node is open. *)
<1>14. \A j \in 1..MaxTry : j # k => attempt[n][j] # "open"
  <2>1. SUFFICES ASSUME NEW j \in 1..MaxTry, j # k, attempt[n][j] = "open" PROVE FALSE
    OBVIOUS
  <2>2. j < k \/ k < j
    BY <1>2, <2>1
  <2> QED  BY <1>2, <1>3, <2>1, <2>2 DEF OutcomeInv, Ladder
<1>15. attempt'[n][1] # "none"
  <2>1. CASE k = 1
    BY <1>4, <1>5, <2>1
  <2>2. CASE k # 1
    <3>1. 1 < k
      BY <1>2, <2>2
    <3>2. attempt[n][1] = "failed"
      BY <1>2, <1>3, <3>1 DEF OutcomeInv, Ladder
    <3> QED  BY <1>2, <1>5, <2>2, <3>2
  <2> QED  BY <2>1, <2>2
<1>16. \A m \in Nodes : Closed(m) => Closed(m)'
  <2>1. SUFFICES ASSUME NEW m \in Nodes, Closed(m) PROVE Closed(m)'
    OBVIOUS
  <2>2. m # n
    BY <1>2, <1>3, <2>1 DEF Closed
  <2>3. ~Working(d, m)'
    BY <1>10, <1>12, <2>2 DEF Working
  <2>4. \A e \in Drivers : Working(e, m)' => drive'[e].try = 1
    BY <1>11, <2>1, <2>3 DEF Closed
  <2> QED  BY <1>2, <1>5, <2>1, <2>2, <2>4 DEF Closed
<1>17. Ladder'
  <2>1. SUFFICES ASSUME NEW m \in Nodes, NEW i \in 1..MaxTry, NEW j \in 1..MaxTry,
                        i < j, attempt'[m][j] # "none"
                 PROVE  attempt'[m][i] = "failed"
    BY DEF Ladder
  <2>2. attempt[m][j] # "none"
    BY <1>3, <1>5, <2>1
  <2>3. attempt[m][i] = "failed"
    BY <2>1, <2>2 DEF OutcomeInv, Ladder
  <2> QED  BY <1>3, <1>5, <2>3
<1>18. OneRetries'
  <2>1. SUFFICES ASSUME NEW a \in Drivers, NEW b \in Drivers, NEW m \in Nodes,
                        a # b, Working(a, m)', Working(b, m)'
                 PROVE  drive'[a].try = 1 \/ drive'[b].try = 1
    BY DEF OneRetries
  <2>2. CASE a = d \/ b = d
    <3>1. m = n
      BY <1>10, <1>12, <2>1, <2>2 DEF Working
    <3> QED  BY <1>11, <1>13, <2>1, <2>2, <3>1
  <2>3. CASE a # d /\ b # d
    BY <1>11, <2>1, <2>3 DEF OutcomeInv, OneRetries
  <2> QED  BY <2>2, <2>3
<1>19. Stay
  BY <1>6 DEF Stay
<1>20. \A m \in Nodes : attempt'[m][1] # "none" => attempt[m][1] # "none" \/ KeptInputs(m)
  BY <1>2, <1>3, <1>5
<1>21. \A e \in Drivers : drive[e] \in Drives
  BY DEF TypeOK
<1>22. /\ \A m \in Nodes : Reached(m, node[m])'
       /\ Whole(run.state)' /\ DispatchedHadInputs'
       /\ \A e \in Drivers \ {d} : DriveOutcomes(e)'
  BY <1>6, <1>9, <1>16, <1>19, <1>20, <1>21, StayKeeps
<1>23. DriveOutcomes(d)'
  <2>1. (\A m \in r.lacking : HasRequired(m)) /\ r.todo \subseteq Nodes
    BY <1>0, <1>8 DEF OutcomeInv, DriveOutcomes, Drives
  <2>2. \A m \in r.todo : KeptInputs(m)'
    <3>1. \A m \in r.todo : KeptInputs(m)
      BY <1>0, <1>8 DEF OutcomeInv, DriveOutcomes
    <3> QED  BY <1>19, <2>1, <3>1, KeptStays
  <2>3. ASSUME r.pc = "settle" PROVE \A m \in Nodes : First(d, m)' => Reached(m, drive[d].goal)'
    <3>1. ~Working(d, n)'
      BY <1>9, <2>3 DEF Working, Attempting
    <3>2. \A e \in Drivers : Working(e, n)' => drive'[e].try = 1
      BY <1>11, <1>13, <3>1
    <3>3. \A j \in 1..MaxTry : attempt'[n][j] # "open"
      BY <1>4, <1>5, <1>14
    <3>4. Closed(n)'
      BY <1>15, <3>2, <3>3 DEF Closed
    <3> QED  BY <1>10, <1>12, <3>4 DEF Reached
  <2> QED  BY <1>8, <1>9, <2>1, <2>2, <2>3 DEF DriveOutcomes
<1> QED  BY <1>17, <1>18, <1>22, <1>23 DEF OutcomeInv

(* The recovery only takes the outcome of attempts that were cut off.      *)
LEMMA RestartOutcome ==
    ASSUME TypeOK, OutcomeInv, RestartCore
    PROVE  OutcomeInv'
<1>1. \A d \in Drivers : drive'[d].pc = "idle" /\ drive'[d].lacking = {}
  BY DEF RestartCore, Idle
<1>2. \A d \in Drivers, n \in Nodes : ~Working(d, n)'
  BY <1>1 DEF Working, Attempting
<1>3. \A n \in Nodes, k \in 1..MaxTry :
          /\ attempt'[n][k] = IF attempt[n][k] = "open" THEN "unknown" ELSE attempt[n][k]
          /\ attempt'[n][k] # "open"
          /\ (attempt'[n][k] = "none") = (attempt[n][k] = "none")
          /\ attempt[n][k] = "failed" => attempt'[n][k] = "failed"
  BY DEF RestartCore
<1>4. \A n \in Nodes :
          \/ node'[n] = node[n]
          \/ node'[n] = "unknown_outcome" /\ \E k \in 1..MaxTry : attempt[n][k] = "open"
  BY DEF RestartCore
<1>5. run'.state = run.state \/ run'.state = "interrupted"
  BY DEF RestartCore, TypeOK
<1>6. ASSUME NEW n \in Nodes PROVE 1 \in 1..MaxTry
  BY Numbers
<1>7. \A n \in Nodes : Closed(n) => Closed(n)'
  BY <1>2, <1>3, <1>6 DEF Closed
<1>8. Stay
  <2>1. \A n \in Nodes : Settled(n) => node'[n] = node[n]
    BY <1>4, SettledIsClosed DEF Closed
  <2> QED  BY <1>4, <2>1 DEF Stay
<1>9. \A n \in Nodes : node'[n] = node[n] \/ Reached(n, node[n])'
  BY <1>4 DEF Reached, Success
<1>10. run'.state = run.state \/ Whole(run.state)'
  BY <1>5 DEF Whole
<1>11. \A n \in Nodes : attempt'[n][1] # "none" => attempt[n][1] # "none"
  BY <1>3, <1>6
<1>12. /\ \A n \in Nodes : Reached(n, node[n])'
       /\ Whole(run.state)' /\ DispatchedHadInputs'
  BY <1>7, <1>8, <1>9, <1>10, <1>11, StayKeeps
<1>13. \A d \in Drivers : DriveOutcomes(d)'
  BY <1>1 DEF DriveOutcomes, InBatch
<1>14. Ladder' /\ OneRetries'
  BY <1>2, <1>3 DEF OutcomeInv, Ladder, OneRetries
<1> QED  BY <1>12, <1>13, <1>14 DEF OutcomeInv

LEMMA InitOutcome == Init => OutcomeInv
<1>1. SUFFICES ASSUME Init PROVE OutcomeInv
  OBVIOUS
<1>2. \A d \in Drivers : drive[d].pc = "idle" /\ drive[d].lacking = {}
  BY <1>1 DEF Init, Idle
<1>3. \A n \in Nodes, k \in 1..MaxTry : attempt[n][k] = "none"
  BY <1>1 DEF Init
<1>4. \A n \in Nodes : node[n] = "pending" /\ attempt[n][1] = "none"
  <2>1. ASSUME NEW n \in Nodes PROVE 1 \in 1..MaxTry
    BY Numbers
  <2> QED  BY <1>1, <1>3, <2>1 DEF Init
<1>5. Ladder
  BY <1>3 DEF Ladder
<1>6. OneRetries
  BY <1>2 DEF OneRetries, Working, Attempting
<1>7. \A n \in Nodes : Reached(n, node[n])
  BY <1>4 DEF Reached, Success
<1>8. \A d \in Drivers : DriveOutcomes(d)
  BY <1>2 DEF DriveOutcomes, InBatch
<1>9. Whole(run.state) /\ DispatchedHadInputs
  BY <1>1, <1>4 DEF Init, Whole, DispatchedHadInputs
<1> QED  BY <1>5, <1>6, <1>7, <1>8, <1>9 DEF OutcomeInv

(* Every step keeps the outcomes: one case per group of actions.           *)
LEMMA NextOutcome ==
    ASSUME WorkflowInv, OutcomeInv, [Next]_vars
    PROVE  OutcomeInv'
<1>0. TypeOK /\ AttemptInv
  BY DEF WorkflowInv
<1>1. CASE \/ StartDrive \/ CancelWorkflow \/ LeaseExpires
           \/ \E n \in Nodes, grant \in BOOLEAN : Resolve(n, grant)
  BY <1>0, <1>1, CommandsOutcome
<1>2. ASSUME NEW d \in Drivers, DriveStep(d) PROVE OutcomeInv'
  <2>1. CASE \/ BeginDrive(d) \/ AcquireLease(d) \/ ReleaseLease(d)
             \/ ReadRun(d) \/ ReadNodes(d) \/ CancelOpenNode(d) \/ MarkBlockedNode(d)
             \/ FinishRun(d) \/ SetRunning(d) \/ SettleNode(d) \/ AskApproval(d)
    BY <1>0, <2>1, LoopOutcome
  <2>2. CASE CheckNode(d)
    BY <1>0, <2>2, CheckNodeOutcome
  <2>3. CASE CheckCancel(d)
    BY <1>0, <2>3, CheckCancelOutcome
  <2>4. CASE BeginAttempt(d)
    BY <1>0, <2>4, BeginAttemptOutcome
  <2>5. CASE \E o \in Outcomes : Execute(d, o)
    BY <1>0, <2>5, ExecuteOutcome
  <2>6. CASE CloseAttempt(d)
    BY <1>0, <2>6, CloseAttemptOutcome
  <2> QED
    BY <1>2, <2>1, <2>2, <2>3, <2>4, <2>5, <2>6 DEF DriveStep
<1>3. CASE RestartCore
  BY <1>0, <1>3, RestartOutcome
<1>4. CASE UNCHANGED vars
  BY <1>0, <1>4, OutcomeRest DEF vars
<1> QED
  BY <1>1, <1>2, <1>3, <1>4 DEF Next

(* Every step of a run with reached outcomes leaves them as they are.      *)
LEMMA StepStays ==
    ASSUME WorkflowInv, OutcomeInv, [Next]_vars
    PROVE  Stay /\ (run.state \in EndedRun => run'.state = run.state)
<1>0. TypeOK /\ AttemptInv
  BY DEF WorkflowInv
<1>1. ASSUME node' = node PROVE Stay
  BY <1>1 DEF Stay
<1>2. ASSUME NEW n \in Nodes, node[n] \in OpenNode, NEW s, s # "pending",
             node' = [node EXCEPT ![n] = s]
      PROVE  Stay
  <2>1. node'[n] = s /\ \A m \in Nodes : m # n => node'[m] = node[m]
    BY <1>0, <1>2 DEF TypeOK
  <2> QED  BY <1>2, <2>1 DEF Stay, Settled, OpenNode, Success
<1>3. ASSUME NEW d \in Drivers, NEW n \in Nodes, NEW s, s # "pending", NEW r,
             UpdateNode(d, n, s, r)
      PROVE  Stay
  BY <1>1, <1>2, <1>3 DEF UpdateNode
<1>4. CASE \/ StartDrive \/ CancelWorkflow \/ LeaseExpires
           \/ \E n \in Nodes, grant \in BOOLEAN : Resolve(n, grant)
  BY <1>0, <1>1, <1>4 DEF StartDrive, CancelWorkflow, LeaseExpires, Resolve, TypeOK
<1>5. ASSUME NEW d \in Drivers, DriveStep(d)
      PROVE  Stay /\ (run.state \in EndedRun => run'.state = run.state)
  <2>1. CASE \/ BeginDrive(d) \/ AcquireLease(d) \/ ReleaseLease(d) \/ ReadRun(d)
             \/ ReadNodes(d) \/ FinishRun(d) \/ SetRunning(d) \/ CheckNode(d)
             \/ CheckCancel(d) \/ CloseAttempt(d) \/ \E o \in Outcomes : Execute(d, o)
    BY <1>1, <2>1 DEF BeginDrive, AcquireLease, ReleaseLease, ReadRun, ReadNodes, FinishRun,
       SetRunning, CheckNode, CheckCancel, CloseAttempt, Execute
  <2>2. CASE CancelOpenNode(d)
    BY <1>3, <2>2 DEF CancelOpenNode
  <2>3. CASE MarkBlockedNode(d)
    BY <1>3, <2>3 DEF MarkBlockedNode
  <2>4. CASE SettleNode(d)
    <3>1. drive[d].goal # "pending"
      BY <2>4 DEF SettleNode, At, OutcomeInv, DriveOutcomes
    <3> QED  BY <1>3, <2>4, <3>1 DEF SettleNode
  <2>5. CASE AskApproval(d)
    <3>1. PICK n \in Nodes : node' = IF node[n] \in {"pending", "running"}
                       THEN [node EXCEPT ![n] = "waiting_approval"] ELSE node
      BY <2>5 DEF AskApproval
    <3> QED  BY <1>1, <1>2, <2>5, <3>1 DEF AskApproval, OpenNode
  <2>6. CASE BeginAttempt(d)
    <3>1. PICK n \in Nodes :
              /\ First(d, n)
              /\ \/ node' = node
                 \/ attempt[n][drive[d].try] = "none" /\ node' = [node EXCEPT ![n] = "running"]
      BY <2>6 DEF BeginAttempt
    <3>2. CASE attempt[n][drive[d].try] = "none" /\ node' = [node EXCEPT ![n] = "running"]
      <4>1. Working(d, n)
        BY <2>6, <3>1 DEF BeginAttempt, At, Working, Attempting
      <4>2. ~Closed(n)
        BY <3>2, <4>1 DEF Closed
      <4>3. node'[n] = "running" /\ \A m \in Nodes : m # n => node'[m] = node[m]
        BY <1>0, <3>2 DEF TypeOK
      <4>4. Stay
        BY <4>2, <4>3, SettledIsClosed DEF Stay
      <4> QED  BY <2>6, <4>4 DEF BeginAttempt
    <3> QED  BY <1>1, <2>6, <3>1, <3>2 DEF BeginAttempt
  <2> QED
    BY <1>5, <2>1, <2>2, <2>3, <2>4, <2>5, <2>6 DEF DriveStep
<1>6. CASE RestartCore
  <2>1. \A n \in Nodes :
            \/ node'[n] = node[n]
            \/ node'[n] = "unknown_outcome" /\ \E k \in 1..MaxTry : attempt[n][k] = "open"
    BY <1>6 DEF RestartCore
  <2>2. \A n \in Nodes : Settled(n) => node'[n] = node[n]
    BY <2>1, SettledIsClosed DEF Closed
  <2> QED  BY <1>6, <2>1, <2>2 DEF Stay, RestartCore
<1>7. CASE UNCHANGED vars
  BY <1>1, <1>7 DEF vars
<1> QED
  BY <1>4, <1>5, <1>6, <1>7 DEF Next

----------------------------------------------------------------------------
(* The inductive invariant of the runtime holds in every reachable state.  *)
THEOREM WorkflowInvariance == Spec => []WorkflowInv
<1>1. WorkflowInv /\ [Next]_vars => WorkflowInv'
  BY NextKeeps
<1> QED
  BY InitKeeps, <1>1, PTL DEF Spec

(* The rows, the registry and the drives keep their types.                 *)
THEOREM WorkflowTypeCorrect == Spec => []TypeOK
<1>1. WorkflowInv => TypeOK
  BY DEF WorkflowInv
<1> QED
  BY <1>1, WorkflowInvariance, PTL

(* The adapter is called at most once for an attempt of a node, with any   *)
(* number of concurrent drives of any number of processes.                 *)
THEOREM EachAttemptOnce == Spec => []AttemptRunsOnce
<1>1. WorkflowInv => AttemptRunsOnce
  BY DEF WorkflowInv, AttemptInv
<1> QED
  BY <1>1, WorkflowInvariance, PTL

(* The retry loop of execute_node starts an attempt only after the one     *)
(* before it was closed as failed, never after one that is open or that    *)
(* the recovery found open.                                                *)
THEOREM RetryOnlyAnswered == Spec => []NoBlindRetry
<1>1. WorkflowInv => NoBlindRetry
  BY DEF WorkflowInv, AttemptInv
<1> QED
  BY <1>1, WorkflowInvariance, PTL

(* No drive passes the gate of a node under approval before a decision of  *)
(* the user granted it.                                                    *)
THEOREM GrantBeforeEffect == Spec => []NoEffectWithoutGrant
<1>1. WorkflowInv => NoEffectWithoutGrant
  BY DEF WorkflowInv, AttemptInv
<1> QED
  BY <1>1, WorkflowInvariance, PTL

(* The inductive invariant of the outcomes: the attempts of a node form a  *)
(* ladder, one drive at most is beyond the first one, and an outcome is    *)
(* written only when nobody is left to attempt the node.                   *)
THEOREM OutcomeInvariance == Spec => [](WorkflowInv /\ OutcomeInv)
<1>1. Init => WorkflowInv /\ OutcomeInv
  BY InitKeeps, InitOutcome
<1>2. WorkflowInv /\ OutcomeInv /\ [Next]_vars => (WorkflowInv /\ OutcomeInv)'
  BY NextKeeps, NextOutcome
<1> QED
  BY <1>1, <1>2, PTL DEF Spec

(* ready_nodes and execute_node work from a snapshot that other drives may *)
(* have overtaken: still, what the join of a dispatched node asked for was *)
(* there and is never revoked.                                             *)
THEOREM InputsAreKept == Spec => []DispatchedHadInputs
<1>1. OutcomeInv => DispatchedHadInputs
  BY DEF OutcomeInv
<1> QED
  BY <1>1, OutcomeInvariance, PTL

(* finish_run writes a successful state from a snapshot: every node of the *)
(* run succeeded when it does, and no attempt of a node is alive then or   *)
(* later.                                                                  *)
THEOREM SuccessfulRunIsWhole == Spec => []SuccessIsWhole
<1>1. ASSUME OutcomeInv PROVE SuccessIsWhole
  <2>1. \A n \in Nodes : node[n] \in Success => Closed(n)
    BY <1>1 DEF OutcomeInv, Reached
  <2>2. Whole(run.state)
    BY <1>1 DEF OutcomeInv
  <2> QED  BY <2>1, <2>2 DEF SuccessIsWhole, Whole, Closed, Success
<1> QED
  BY <1>1, OutcomeInvariance, PTL

(* begin_attempt sets a node running and recover_after_restart ends one    *)
(* whatever its state is; neither reaches a node whose attempts led to an  *)
(* outcome, and finish_run never changes a run that has ended.             *)
THEOREM OutcomesAreFinal == Spec => OutcomesStay
<1>1. WorkflowInv /\ OutcomeInv /\ [Next]_vars =>
        [/\ \A n \in Nodes : Settled(n) => node'[n] = node[n]
         /\ run.state \in EndedRun => run'.state = run.state]_vars
  BY StepStays DEF Stay
<1> QED
  BY <1>1, OutcomeInvariance, PTL DEF Spec, OutcomesStay
====
