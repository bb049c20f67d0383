------------------------ MODULE ReceiptActionsProofs ------------------------
(***************************************************************************)
(* Theorems about ReceiptActions, for every set of calls and every bound.  *)
(***************************************************************************)
EXTENDS ReceiptActions, SequenceTheorems, TLAPS

USE DEF Actions, Ipc

Kinds == {"pre", "succeeded", "failed", "refused"}

\* The receipts of one action: what signing one more gives, and that the
\* sequences the invariant tells apart are different.
LEMMA Chains ==
    /\ \A k \in Kinds : Append(<<>>, k) = <<k>>
    /\ \A k \in Kinds : Append(<<"pre">>, k) = <<"pre", k>>
    /\ \A k \in Kinds : <<k>> # <<>>
    /\ \A k \in Kinds : <<"pre", k>> # <<>>
    /\ \A k, l \in Kinds : <<k>> # <<"pre", l>>
    /\ \A k, l \in Kinds : <<k>> = <<l>> => k = l
    /\ \A k, l \in Kinds : <<"pre", k>> = <<"pre", l>> => k = l
<1>1. \A k \in Kinds : Append(<<>>, k) = <<k>>
  OBVIOUS
<1>2. \A k \in Kinds : Append(<<"pre">>, k) = <<"pre", k>>
  <2> TAKE k \in Kinds
  <2>1. <<"pre">> \in Seq(Kinds) /\ <<"pre", k>> \in Seq(Kinds)
    BY DEF Kinds
  <2>2. /\ Append(<<"pre">>, k) \in Seq(Kinds)
        /\ Len(Append(<<"pre">>, k)) = 2
        /\ Append(<<"pre">>, k)[1] = "pre"
        /\ Append(<<"pre">>, k)[2] = k
    BY <2>1
  <2>3. Len(<<"pre", k>>) = 2 /\ <<"pre", k>>[1] = "pre" /\ <<"pre", k>>[2] = k
    OBVIOUS
  <2>4. \A i \in 1 .. 2 : i = 1 \/ i = 2
    OBVIOUS
  <2>5. \A i \in 1 .. Len(Append(<<"pre">>, k)) :
           Append(<<"pre">>, k)[i] = <<"pre", k>>[i]
    BY <2>2, <2>3, <2>4
  <2> QED BY <2>1, <2>2, <2>3, <2>5, SeqEqual
<1>3. \A k \in Kinds : <<k>> # <<>> /\ <<"pre", k>> # <<>>
  OBVIOUS
<1>4. \A k, l \in Kinds : <<k>> # <<"pre", l>>
  <2> SUFFICES ASSUME NEW k \in Kinds, NEW l \in Kinds, <<k>> = <<"pre", l>>
               PROVE  FALSE
    OBVIOUS
  <2>1. Len(<<k>>) = 1 /\ Len(<<"pre", l>>) = 2
    OBVIOUS
  <2> QED BY <2>1
<1>5. \A k, l \in Kinds : <<k>> = <<l>> => k = l
  OBVIOUS
<1>6. \A k, l \in Kinds : <<"pre", k>> = <<"pre", l>> => k = l
  OBVIOUS
<1> QED BY <1>1, <1>2, <1>3, <1>4, <1>5, <1>6

\* Publishing keeps the ledger in its type.
LEMMA TypePublish ==
    ASSUME TypeOK, NEW a \in Actions,
           NEW s \in LedgerTerminal \cup {"running"}, Publish(a, s)
    PROVE  /\ ledger' \in [Actions -> LedgerTerminal \cup {"none", "running"}]
           /\ outcomes' \in [Actions -> Nat]
<1>1. CASE UNCHANGED ledgerDb
  BY <1>1 DEF TypeOK, ledgerDb
<1>2. CASE /\ ledger' = [ledger EXCEPT ![a] = s]
           /\ outcomes' = [outcomes EXCEPT ![a] =
                              IF s \in LedgerTerminal THEN @ + 1 ELSE @]
  <2>1. outcomes[a] \in Nat /\ outcomes[a] + 1 \in Nat
    BY DEF TypeOK
  <2> QED BY <1>2, <2>1 DEF TypeOK
<1> QED BY <1>1, <1>2 DEF Publish

\* A step of a worker keeps every variable in its type.
LEMMA TypeWorker ==
    ASSUME TypeOK, NEW a \in Actions, WorkerStep(a)
    PROVE  TypeOK'
<1> USE DEF TypeOK, States, Intents, LedgerTerminal, PCs, Holding, rows,
            ledgerDb, clocks, world, bounds, Goto, At, Sign, End, Publish
<1>1. CASE Grant(a)
  BY <1>1 DEF Grant
<1>2. CASE GrantExpired(a)
  BY <1>2 DEF GrantExpired
<1>3. CASE GrantDenied(a)
  BY <1>3 DEF GrantDenied
<1>4. CASE LedgerTimedOut(a)
  <2>1. Publish(a, "timed_out")
    BY <1>4 DEF LedgerTimedOut
  <2>2. /\ ledger' \in [Actions -> LedgerTerminal \cup {"none", "running"}]
        /\ outcomes' \in [Actions -> Nat]
    BY <2>1, TypePublish DEF LedgerTerminal
  <2> HIDE DEF Publish
  <2> QED BY <1>4, <2>2 DEF LedgerTimedOut
<1>5. CASE Claim(a)
  BY <1>5 DEF Claim
<1>6. CASE ClaimRefused(a)
  <2>1. /\ state' \in [Actions -> States]
        /\ term' \in [Actions -> Actions \cup {Nothing}]
    <3>1. CASE term[a] = Nothing
      <4>1. /\ state' = [state EXCEPT ![a] = "refused"]
            /\ term' = [term EXCEPT ![a] = a]
        BY <1>6, <3>1 DEF ClaimRefused
      <4> QED BY <4>1
    <3>2. CASE term[a] # Nothing
      BY <1>6, <3>2 DEF ClaimRefused
    <3> QED BY <3>1, <3>2
  <2>2. intent' \in [Actions -> Intents] /\ pc' \in [Actions -> PCs]
    BY <1>6 DEF ClaimRefused
  <2>3. chain' \in [Actions -> Seq({"pre", "succeeded", "failed", "refused"})]
    BY <1>6 DEF ClaimRefused
  <2> QED BY <1>6, <2>1, <2>2, <2>3 DEF ClaimRefused
<1>7. CASE ClaimError(a)
  BY <1>7 DEF ClaimError
<1>8. CASE AgentRefuse(a)
  <2>1. CASE UNCHANGED <<state, term, chain, intent>>
    BY <1>8, <2>1 DEF AgentRefuse
  <2>2. CASE /\ Sign(a, "refused")
             /\ state' = [state EXCEPT ![a] = "refused"]
             /\ term' = [term EXCEPT ![a] = a]
             /\ intent' = [intent EXCEPT ![a] =
                              IF @ \in {"pending", "granted"} THEN "denied"
                              ELSE @]
    <3>1. chain' \in [Actions -> Seq({"pre", "succeeded", "failed", "refused"})]
      BY <2>2
    <3> QED BY <1>8, <2>2, <3>1 DEF AgentRefuse
  <2> QED BY <1>8, <2>1, <2>2 DEF AgentRefuse
<1>9. CASE MarkStarted(a)
  BY <1>9 DEF MarkStarted
<1>10. CASE SkipMarkStarted(a)
  BY <1>10 DEF SkipMarkStarted
<1>11. CASE LedgerCall(a)
  <2>1. Publish(a, "running")
    BY <1>11 DEF LedgerCall
  <2>2. /\ ledger' \in [Actions -> LedgerTerminal \cup {"none", "running"}]
        /\ outcomes' \in [Actions -> Nat]
    BY <2>1, TypePublish DEF LedgerTerminal
  <2> HIDE DEF Publish
  <2> QED BY <1>11, <2>2 DEF LedgerCall
<1>12. CASE RunTool(a)
  BY <1>12 DEF RunTool
<1>13. CASE AgentPolicyChanged(a)
  BY <1>13 DEF AgentPolicyChanged
<1>14. CASE MarkReturned(a)
  <2>1. dispatch' \in [Actions -> {"not_started", "started", "returned"}]
    <3>1. CASE dispatch' = [dispatch EXCEPT ![a] = "returned"]
      BY <3>1
    <3>2. CASE UNCHANGED dispatch
      BY <3>2
    <3> QED BY <1>14, <3>1, <3>2 DEF MarkReturned
  <2>2. pc' \in [Actions -> PCs]
    BY <1>14 DEF MarkReturned, Returned
  <2> QED BY <1>14, <2>1, <2>2 DEF MarkReturned
<1>15. CASE Complete(a)
  BY <1>15 DEF Complete, Completable, StatusOf, AfterComplete
<1>16. CASE CompleteError(a)
  <2>1. state' \in [Actions -> States]
    <3>1. CASE state' = [state EXCEPT ![a] = "quarantined"]
      BY <3>1
    <3>2. CASE UNCHANGED state
      BY <3>2
    <3> QED BY <1>16, <3>1, <3>2 DEF CompleteError
  <2>2. pc' \in [Actions -> PCs]
    BY <1>16 DEF CompleteError
  <2> QED BY <1>16, <2>1, <2>2 DEF CompleteError
<1>17. CASE MarkPendingRecovery(a)
  <2>1. state' \in [Actions -> States]
    BY <1>17 DEF MarkPendingRecovery
  <2>2. pc' \in [Actions -> PCs]
    BY <1>17 DEF MarkPendingRecovery
  <2> QED BY <1>17, <2>1, <2>2 DEF MarkPendingRecovery
<1>18. CASE LedgerOutcome(a)
  <2>1. \E s \in LedgerTerminal \cup {"running"} : Publish(a, s)
    <3> HIDE DEF Publish
    <3> QED BY <1>18 DEF LedgerOutcome
  <2>2. /\ ledger' \in [Actions -> LedgerTerminal \cup {"none", "running"}]
        /\ outcomes' \in [Actions -> Nat]
    BY <2>1, TypePublish
  <2>3. pc' \in [Actions -> PCs]
    <3> HIDE DEF Publish
    <3>1. \E l \in {"closing", "idle", "gone"} : pc' = [pc EXCEPT ![a] = l]
      BY <1>18 DEF LedgerOutcome
    <3> QED BY <3>1
  <2> HIDE DEF Publish
  <2> QED BY <1>18, <2>2, <2>3 DEF LedgerOutcome
<1>19. CASE Abort(a)
  BY <1>19 DEF Abort
<1>20. CASE Cancel(a)
  BY <1>20 DEF Cancel
<1>21. ASSUME NEW r \in {"ok", "err"}, ToolReturns(a, r) PROVE TypeOK'
  BY <1>21 DEF ToolReturns
<1> QED
  BY <1>1, <1>2, <1>3, <1>4, <1>5, <1>6, <1>7, <1>8, <1>9, <1>10, <1>11,
     <1>12, <1>13, <1>14, <1>15, <1>16, <1>17, <1>18, <1>19, <1>20, <1>21 DEF
     WorkerStep, Progress

\* So does a command of the IPC bridge,
LEMMA TypeIpc ==
    ASSUME TypeOK, IpcStep
    PROVE  TypeOK'
<1> USE DEF TypeOK, States, Intents, LedgerTerminal, PCs, Holding, rows,
            ledgerDb, clocks, world, bounds, Goto, At, Sign, End, Publish,
            PrepareAllow, PrepareApproval,
            NoCommand, Commands
<1>1. ASSUME NEW a \in Terminals, TerminalAllowed(a) PROVE TypeOK'
  BY <1>1 DEF TerminalAllowed
<1>2. ASSUME NEW a \in Terminals, TerminalApproval(a) PROVE TypeOK'
  BY <1>2 DEF TerminalApproval
<1>3. ASSUME NEW a \in Terminals, TerminalExecute(a) PROVE TypeOK'
  BY <1>3 DEF TerminalExecute
<1>4. ASSUME NEW c \in Checks, CompleteCheck(c) PROVE TypeOK'
  <2> DEFINE old == target[c]
  <2>1. chain' \in [Actions -> Seq({"pre", "succeeded", "failed", "refused"})]
    BY <1>4 DEF CompleteCheck, StatusOf
  <2>2. state' = [state EXCEPT ![c] = StatusOf(c), ![old] = "succeeded"]
    BY <1>4 DEF CompleteCheck
  <2>3. StatusOf(c) \in States
    BY DEF StatusOf
  <2>4. [state EXCEPT ![c] = StatusOf(c)] \in [Actions -> States]
    BY <2>3
  <2>5. state' \in [Actions -> States]
    BY <2>2, <2>4
  <2>6. term' \in [Actions -> Actions \cup {Nothing}]
    BY <1>4 DEF CompleteCheck
  <2>7. link' \in [Actions -> Checks \cup {Nothing}]
    BY <1>4 DEF CompleteCheck
  <2> QED BY <1>4, <2>1, <2>5, <2>6, <2>7 DEF CompleteCheck
<1>5. ASSUME NEW c \in Checks, NEW old \in Actions, CheckAllowed(c, old)
      PROVE  TypeOK'
  BY <1>5 DEF CheckAllowed
<1>6. ASSUME NEW a \in Actions, NEW g \in BOOLEAN, ResolveApproval(a, g)
      PROVE  TypeOK'
  BY <1>6 DEF ResolveApproval
<1>7. CASE DenyApproval
  <2>1. resolving \in Commands
    BY <1>7 DEF DenyApproval
  <2>2. resolving' \in Commands
    BY <1>7, <2>1 DEF DenyApproval
  <2>3. intent' \in [Actions -> Intents] /\ state' \in [Actions -> States]
    <3>1. CASE Deniable(resolving.action)
      <4> DEFINE a == resolving.action
      <4>1. /\ intent' = [intent EXCEPT ![a] = "denied"]
            /\ state' = [state EXCEPT ![a] =
                            IF @ = "awaiting_approval" THEN "refused" ELSE @]
        BY <1>7, <3>1 DEF DenyApproval
      <4>2. a \in Actions
        BY <2>1
      <4> HIDE DEF a
      <4> QED BY <4>1, <4>2
    <3>2. CASE ~Deniable(resolving.action)
      BY <1>7, <3>2 DEF DenyApproval
    <3> QED BY <3>1, <3>2
  <2> QED BY <1>7, <2>2, <2>3 DEF DenyApproval
<1>8. CASE LedgerDecision
  <2>1. resolving \in Commands
    BY <1>8 DEF LedgerDecision
  <2>2. /\ ledger' \in [Actions -> LedgerTerminal \cup {"none", "running"}]
        /\ outcomes' \in [Actions -> Nat]
    <3> HIDE DEF Publish
    <3>1. CASE intent[resolving.action] = "deleted"
      BY <1>8, <3>1 DEF LedgerDecision
    <3>2. CASE intent[resolving.action] # "deleted"
      BY <1>8, <2>1, <3>2, TypePublish DEF LedgerDecision
    <3> QED BY <3>1, <3>2
  <2> HIDE DEF Publish
  <2> QED BY <1>8, <2>2 DEF LedgerDecision
<1>9. ASSUME NEW a \in Actions, ClosePending(a) PROVE TypeOK'
  BY <1>9 DEF ClosePending
<1>10. ASSUME NEW a \in Actions, CloseMismatch(a) PROVE TypeOK'
  BY <1>10 DEF CloseMismatch
<1> QED
  BY <1>1, <1>2, <1>3, <1>4, <1>5, <1>6, <1>7, <1>8, <1>9, <1>10
     DEF IpcStep

\* the preparation of an agent's call,
LEMMA TypeAgent ==
    ASSUME TypeOK, AgentStep
    PROVE  TypeOK'
<1> USE DEF TypeOK, States, Intents, LedgerTerminal, PCs, Holding, rows,
            ledgerDb, clocks, world, bounds, Goto, At, Sign, End, Publish,
            PrepareAllow, PrepareApproval
<1>1. ASSUME NEW a \in Agents, AgentAllowed(a) PROVE TypeOK'
  BY <1>1 DEF AgentAllowed
<1>2. ASSUME NEW a \in Agents, AgentApproval(a) PROVE TypeOK'
  BY <1>2 DEF AgentApproval
<1>3. ASSUME NEW a \in Agents, AgentDenied(a) PROVE TypeOK'
  BY <1>3 DEF AgentDenied
<1> QED
  BY <1>1, <1>2, <1>3 DEF AgentStep

\* garbage collection, time, a crash, and a start whose recovery fails.
LEMMA TypeEnvironment ==
    ASSUME TypeOK,
           \/ \E a \in Actions : ApprovalGc(a) \/ DeadlinePasses(a)
           \/ Crash \/ RecoverFails
    PROVE  TypeOK'
<1> USE DEF TypeOK, States, Intents, LedgerTerminal, PCs, Holding, rows,
            ledgerDb, clocks, world, bounds, Goto, At, Sign, End, Publish, NoCommand,
            Commands
<1>1. ASSUME NEW a \in Actions, ApprovalGc(a) PROVE TypeOK'
  BY <1>1 DEF ApprovalGc
<1>2. ASSUME NEW a \in Actions, DeadlinePasses(a) PROVE TypeOK'
  BY <1>2 DEF DeadlinePasses
<1>3. CASE Crash
  <2>1. oldBoot' \in [Actions -> BOOLEAN]
    <3>1. CASE oldBoot' = [a \in Actions |-> oldBoot[a] \/ intent[a] # "none"]
      BY <3>1, Zenon
    <3>2. CASE UNCHANGED oldBoot
      BY <3>2
    <3> QED BY <1>3, <3>1, <3>2 DEF Crash
  <2>2. pc' \in [Actions -> PCs]
    BY <1>3 DEF Crash
  <2> QED BY <1>3, <2>1, <2>2 DEF Crash
<1>4. CASE RecoverFails
  BY <1>4 DEF RecoverFails
<1> QED
  BY <1>1, <1>2, <1>3, <1>4

-----------------------------------------------------------------------------
(***************************************************************************)
(* The inductive invariant.  A step changes the row of one action (a        *)
(* reconciliation changes two), and of the others the invariant only reads  *)
(* that a closed reconciliation stays closed.                               *)
(***************************************************************************)
Row(x) == <<state[x], dispatch[x], decision[x], pre[x], term[x], link[x],
            chain[x], intent[x], ran[x], result[x], pc[x]>>

\* What the invariant says of one action alone survives a step that leaves
\* its row alone.
LEMMA FrameRow ==
    ASSUME NEW x \in Actions, RowOK(x), OutcomeOK(x), WorkerOK(x),
           UNCHANGED <<Row(x), boot>>
    PROVE  RowOK(x)' /\ OutcomeOK(x)' /\ WorkerOK(x)'
<1>1. RowOK(x)'
  BY DEF RowOK, Untouched, Prepared, Row
<1>2. OutcomeOK(x)'
  BY DEF OutcomeOK, Row
<1>3. WorkerOK(x)'
  BY DEF WorkerOK, Row
<1> QED BY <1>1, <1>2, <1>3

\* A completed action keeps its state and its receipts.
Kept(a) == state[a] \in {"succeeded", "failed"} =>
              state'[a] = state[a] /\ chain'[a] = chain[a]

\* A link survives as long as completed actions are kept.
LEMMA FrameLink ==
    ASSUME TypeOK, NEW x \in Actions, LinkOK(x), UNCHANGED link[x],
           \A y \in Actions : Kept(y)
    PROVE  LinkOK(x)'
<1>1. link[x] # Nothing => link[x] \in Actions
  BY DEF TypeOK
<1> QED BY <1>1 DEF LinkOK, Kept

\* A step of the action a, seen from the invariant.
LEMMA Moves ==
    ASSUME IInv, TypeOK', NEW a \in Actions,
           UNCHANGED <<phase, boot>>,
           \A x \in Actions \ {a} : UNCHANGED Row(x),
           \A c \in Checks \ {a} : UNCHANGED target[c],
           a \in Checks /\ pc'[a] # "idle" => target'[a] \in Actions,
           Kept(a), link'[a] = link[a],
           RowOK(a)', OutcomeOK(a)', WorkerOK(a)'
    PROVE  IInv'
<1>1. \A x \in Actions : Kept(x) /\ UNCHANGED link[x]
  BY DEF Row, Kept
<1>2. ASSUME NEW x \in Actions
      PROVE  RowOK(x)' /\ OutcomeOK(x)' /\ WorkerOK(x)'
  BY FrameRow DEF IInv
<1>3. ASSUME NEW x \in Actions PROVE LinkOK(x)'
  BY <1>1, FrameLink DEF IInv
<1>4. \A c \in Checks : pc'[c] # "idle" => target'[c] \in Actions
  BY DEF IInv, Row
<1> QED BY <1>2, <1>3, <1>4 DEF IInv

\* A step that moves the worker of a and nothing the invariant reads else.
LEMMA OnlyMoves ==
    ASSUME IInv, TypeOK', NEW a \in Actions,
           UNCHANGED <<rows, intent, phase, boot, world, target>>,
           \A x \in Actions \ {a} : UNCHANGED pc[x],
           pc[a] # "idle" \/ a \notin Checks,
           WorkerOK(a)'
    PROVE  IInv'
<1>1. \A x \in Actions \ {a} : UNCHANGED Row(x)
  BY DEF Row, rows, world
<1>2. RowOK(a) /\ OutcomeOK(a)
  BY DEF IInv
<1>3. RowOK(a)'
  BY <1>2 DEF rows, world, RowOK, Untouched, Prepared
<1>4. OutcomeOK(a)'
  BY <1>2 DEF rows, world, OutcomeOK
<1>5. Kept(a) /\ link'[a] = link[a]
  BY DEF Kept, rows
<1>6. a \in Checks /\ pc'[a] # "idle" => target'[a] \in Actions
  BY DEF IInv
<1> QED BY <1>1, <1>3, <1>4, <1>5, <1>6, Moves

\* Every step of a worker preserves the invariant.
LEMMA WorkerPreserves ==
    ASSUME IInv, NEW a \in Actions, WorkerStep(a)
    PROVE  IInv'
<1> USE ReceiptAssumption DEF rows, ledgerDb, clocks, world, bounds, Goto, At,
            Sign, End, Serving
<1>0. /\ IInv /\ TypeOK /\ RowOK(a) /\ OutcomeOK(a) /\ WorkerOK(a)
      /\ TypeOK'
      /\ a \in Checks => (pc[a] # "idle" => target[a] \in Actions)
  BY TypeWorker DEF IInv
<1>1. CASE Grant(a)
  <2>1. /\ UNCHANGED <<phase, boot, target, link>>
        /\ \A x \in Actions \ {a} : UNCHANGED Row(x)
        /\ pc[a] # "idle" /\ boot # "down"
    BY <1>0, <1>1 DEF Grant, Grantable, Row, TypeOK
  <2>2. Kept(a)
    BY <1>0, <1>1 DEF Grant, Grantable, Kept, RowOK, WorkerOK, Prepared,
       TypeOK
  <2>3. RowOK(a)'
    BY <1>0, <1>1, Chains DEF Grant, Grantable, RowOK, WorkerOK, Dispatching,
       Untouched, Prepared, TypeOK, Kinds
  <2>4. OutcomeOK(a)'
    BY <1>0, <1>1, Chains DEF Grant, Grantable, RowOK, WorkerOK, OutcomeOK,
       Untouched, TypeOK, Kinds
  <2>5. WorkerOK(a)'
    BY <1>0, <1>1 DEF Grant, Grantable, RowOK, WorkerOK, Dispatching, TypeOK
  <2> QED BY <1>0, <2>1, <2>2, <2>3, <2>4, <2>5, Moves
<1>2. CASE GrantExpired(a)
  <2>1. /\ UNCHANGED <<phase, boot, target, link>>
        /\ \A x \in Actions \ {a} : UNCHANGED Row(x)
        /\ pc[a] # "idle" /\ boot # "down"
    BY <1>0, <1>2 DEF GrantExpired, Row, TypeOK
  <2>2. Kept(a)
    BY <1>0, <1>2 DEF GrantExpired, Kept, RowOK, WorkerOK, Prepared, TypeOK
  <2>3. RowOK(a)'
    BY <1>0, <1>2, Chains DEF GrantExpired, RowOK, WorkerOK, Dispatching,
       Untouched, Prepared, TypeOK, Kinds
  <2>4. OutcomeOK(a)'
    BY <1>0, <1>2, Chains DEF GrantExpired, RowOK, WorkerOK, OutcomeOK,
       Untouched, TypeOK, Kinds
  <2>5. WorkerOK(a)'
    BY <1>0, <1>2 DEF GrantExpired, RowOK, WorkerOK, Dispatching, TypeOK
  <2> QED BY <1>0, <2>1, <2>2, <2>3, <2>4, <2>5, Moves
<1>3. CASE GrantDenied(a)
  <2>1. /\ UNCHANGED <<rows, intent, phase, boot, world, target>>
        /\ \A x \in Actions \ {a} : UNCHANGED pc[x]
        /\ pc[a] # "idle" /\ boot # "down"
    BY <1>0, <1>3 DEF GrantDenied, TypeOK
  <2>2. WorkerOK(a)'
    BY <1>0, <1>3, <2>1 DEF GrantDenied, WorkerOK, Dispatching, TypeOK, rows,
       world
  <2> QED BY <1>0, <2>1, <2>2, OnlyMoves
<1>4. CASE LedgerTimedOut(a)
  <2>1. /\ UNCHANGED <<rows, intent, phase, boot, world, target>>
        /\ \A x \in Actions \ {a} : UNCHANGED pc[x]
        /\ pc[a] # "idle" /\ boot # "down"
    BY <1>0, <1>4 DEF LedgerTimedOut, TypeOK
  <2>2. WorkerOK(a)'
    BY <1>0, <1>4, <2>1 DEF LedgerTimedOut, WorkerOK, Dispatching, TypeOK,
       rows, world
  <2> QED BY <1>0, <2>1, <2>2, OnlyMoves
<1>5. CASE Claim(a)
  <2>1. /\ UNCHANGED <<phase, boot, target, link>>
        /\ \A x \in Actions \ {a} : UNCHANGED Row(x)
        /\ pc[a] # "idle" /\ boot # "down"
    BY <1>0, <1>5 DEF Claim, Row, TypeOK
  <2>2. state[a] = "awaiting_approval" /\ Untouched(a)
    BY <1>0, <1>5 DEF Claim, RowOK, Prepared, TypeOK, States
  <2>3. /\ state'[a] = "prepared" /\ pre'[a] /\ chain'[a] = <<"pre">>
        /\ intent'[a] = "claimed" /\ decision'[a] = "approval_required"
        /\ dispatch'[a] = "not_started" /\ ran'[a] = 0
        /\ term'[a] = Nothing /\ link'[a] = Nothing /\ pc'[a] = "claimed"
    BY <1>0, <1>5, <2>2, Chains DEF Claim, RowOK, Untouched, TypeOK, Kinds
  <2>4. Kept(a)
    BY <2>2 DEF Kept
  <2>5. RowOK(a)'
    BY <2>3 DEF RowOK, Prepared
  <2>6. OutcomeOK(a)'
    BY <2>3, Chains DEF OutcomeOK, Kinds
  <2>7. WorkerOK(a)'
    BY <2>1, <2>3 DEF WorkerOK, Dispatching
  <2> QED BY <1>0, <2>1, <2>4, <2>5, <2>6, <2>7, Moves
<1>6. CASE ClaimRefused(a)
  <2>1. /\ UNCHANGED <<phase, boot, target, link>>
        /\ \A x \in Actions \ {a} : UNCHANGED Row(x)
        /\ pc[a] # "idle" /\ boot # "down"
    BY <1>0, <1>6 DEF ClaimRefused, Row, TypeOK
  <2>2. /\ state[a] = "awaiting_approval" /\ Untouched(a)
        /\ intent[a] = "granted"
    BY <1>0, <1>6 DEF ClaimRefused, RowOK, WorkerOK, Prepared, TypeOK, States
  <2>3. /\ state'[a] = "refused" /\ ~pre'[a] /\ chain'[a] = <<"refused">>
        /\ intent'[a] \in {"expired", "lost"} /\ link'[a] = Nothing
        /\ dispatch'[a] = "not_started" /\ ran'[a] = 0
        /\ pc'[a] = IF a \in Terminals THEN "idle" ELSE "claim_failed"
    BY <1>0, <1>6, <2>2, Chains DEF ClaimRefused, Untouched, TypeOK, Kinds
  <2>4. Kept(a)
    BY <2>2 DEF Kept
  <2>5. RowOK(a)'
    BY <2>3 DEF RowOK
  <2>6. OutcomeOK(a)'
    BY <2>3, Chains DEF OutcomeOK, Kinds
  <2>7. WorkerOK(a)'
    BY <2>1, <2>3 DEF WorkerOK, Dispatching
  <2> QED BY <1>0, <2>1, <2>4, <2>5, <2>6, <2>7, Moves
<1>7. CASE ClaimError(a)
  <2>1. /\ UNCHANGED <<rows, intent, phase, boot, world, target>>
        /\ \A x \in Actions \ {a} : UNCHANGED pc[x]
        /\ pc[a] # "idle" /\ boot # "down"
    BY <1>0, <1>7 DEF ClaimError, TypeOK
  <2>2. WorkerOK(a)'
    BY <1>0, <1>7, <2>1 DEF ClaimError, WorkerOK, Dispatching, TypeOK, rows,
       world
  <2> QED BY <1>0, <2>1, <2>2, OnlyMoves
<1>8. CASE AgentRefuse(a)
  <2>1. /\ UNCHANGED <<phase, boot, target, link>>
        /\ \A x \in Actions \ {a} : UNCHANGED Row(x)
        /\ pc[a] # "idle" /\ boot # "down"
    BY <1>0, <1>8 DEF AgentRefuse, Row, TypeOK
  <2>2. Kept(a)
    BY <1>0, <1>8 DEF AgentRefuse, Kept, RowOK, WorkerOK, Prepared, TypeOK
  <2>3. RowOK(a)'
    BY <1>0, <1>8, Chains DEF AgentRefuse, RowOK, WorkerOK, Dispatching,
       Untouched, Prepared, TypeOK, Kinds
  <2>4. OutcomeOK(a)'
    BY <1>0, <1>8, Chains DEF AgentRefuse, RowOK, WorkerOK, OutcomeOK,
       Untouched, TypeOK, Kinds
  <2>5. WorkerOK(a)'
    BY <1>0, <1>8 DEF AgentRefuse, RowOK, WorkerOK, Dispatching, TypeOK
  <2> QED BY <1>0, <2>1, <2>2, <2>3, <2>4, <2>5, Moves
<1>9. CASE MarkStarted(a)
  <2>1. /\ UNCHANGED <<phase, boot, target, link>>
        /\ \A x \in Actions \ {a} : UNCHANGED Row(x)
        /\ pc[a] # "idle" /\ boot # "down"
    BY <1>0, <1>9 DEF MarkStarted, Startable, Row, TypeOK
  <2>2. Kept(a)
    BY <1>0, <1>9 DEF MarkStarted, Startable, Kept, RowOK, WorkerOK,
       Prepared, TypeOK
  <2>3. RowOK(a)'
    BY <1>0, <1>9, Chains DEF MarkStarted, Startable, RowOK, WorkerOK,
       Dispatching, Untouched, Prepared, TypeOK, Kinds
  <2>4. OutcomeOK(a)'
    BY <1>0, <1>9, Chains DEF MarkStarted, Startable, RowOK, WorkerOK,
       OutcomeOK, Untouched, TypeOK, Kinds
  <2>5. WorkerOK(a)'
    BY <1>0, <1>9 DEF MarkStarted, Startable, RowOK, WorkerOK, Dispatching,
       TypeOK
  <2> QED BY <1>0, <2>1, <2>2, <2>3, <2>4, <2>5, Moves
<1>10. CASE SkipMarkStarted(a)
  <2>1. /\ UNCHANGED <<rows, intent, phase, boot, world, target>>
        /\ \A x \in Actions \ {a} : UNCHANGED pc[x]
        /\ pc[a] # "idle" /\ boot # "down"
    BY <1>0, <1>10 DEF SkipMarkStarted, TypeOK
  <2>2. WorkerOK(a)'
    BY <1>0, <1>10, <2>1 DEF SkipMarkStarted, WorkerOK, Dispatching, TypeOK,
       rows, world
  <2> QED BY <1>0, <2>1, <2>2, OnlyMoves
<1>11. CASE LedgerCall(a)
  <2>1. /\ UNCHANGED <<rows, intent, phase, boot, world, target>>
        /\ \A x \in Actions \ {a} : UNCHANGED pc[x]
        /\ pc[a] # "idle" /\ boot # "down"
    BY <1>0, <1>11 DEF LedgerCall, TypeOK
  <2>2. WorkerOK(a)'
    BY <1>0, <1>11, <2>1 DEF LedgerCall, WorkerOK, Dispatching, TypeOK, rows,
       world
  <2> QED BY <1>0, <2>1, <2>2, OnlyMoves
<1>12. CASE RunTool(a)
  <2>1. /\ UNCHANGED <<phase, boot, target, link>>
        /\ \A x \in Actions \ {a} : UNCHANGED Row(x)
        /\ pc[a] # "idle" /\ boot # "down"
    BY <1>0, <1>12 DEF RunTool, Row, TypeOK
  <2>2. Kept(a)
    BY <1>0, <1>12 DEF RunTool, Kept, RowOK, WorkerOK, Prepared, TypeOK
  <2>3. RowOK(a)'
    BY <1>0, <1>12, Chains DEF RunTool, RowOK, WorkerOK, Dispatching,
       Untouched, Prepared, TypeOK, Kinds
  <2>4. OutcomeOK(a)'
    BY <1>0, <1>12, Chains DEF RunTool, RowOK, WorkerOK, OutcomeOK,
       Untouched, TypeOK, Kinds
  <2>5. WorkerOK(a)'
    BY <1>0, <1>12 DEF RunTool, RowOK, WorkerOK, Dispatching, TypeOK
  <2> QED BY <1>0, <2>1, <2>2, <2>3, <2>4, <2>5, Moves
<1>13. CASE AgentPolicyChanged(a)
  <2>1. /\ UNCHANGED <<rows, intent, phase, boot, world, target>>
        /\ \A x \in Actions \ {a} : UNCHANGED pc[x]
        /\ pc[a] # "idle" /\ boot # "down"
    BY <1>0, <1>13 DEF AgentPolicyChanged, TypeOK
  <2>2. WorkerOK(a)'
    BY <1>0, <1>13, <2>1 DEF AgentPolicyChanged, WorkerOK, Dispatching,
       TypeOK, rows, world
  <2> QED BY <1>0, <2>1, <2>2, OnlyMoves
<1>14. CASE MarkReturned(a)
  <2>1. /\ UNCHANGED <<phase, boot, target, link>>
        /\ \A x \in Actions \ {a} : UNCHANGED Row(x)
        /\ pc[a] # "idle" /\ boot # "down"
    BY <1>0, <1>14 DEF MarkReturned, Returned, Row, TypeOK
  <2>2. Kept(a)
    BY <1>0, <1>14 DEF MarkReturned, Returned, Kept, RowOK, WorkerOK,
       Prepared, TypeOK
  <2>3. RowOK(a)'
    BY <1>0, <1>14, Chains DEF MarkReturned, Returned, RowOK, WorkerOK,
       Dispatching, Untouched, Prepared, TypeOK, Kinds
  <2>4. OutcomeOK(a)'
    BY <1>0, <1>14, Chains DEF MarkReturned, Returned, RowOK, WorkerOK,
       OutcomeOK, Untouched, TypeOK, Kinds
  <2>5. WorkerOK(a)'
    BY <1>0, <1>14 DEF MarkReturned, Returned, RowOK, WorkerOK, Dispatching,
       TypeOK
  <2> QED BY <1>0, <2>1, <2>2, <2>3, <2>4, <2>5, Moves
<1>15. CASE Complete(a)
  <2>1. /\ UNCHANGED <<phase, boot, target, link>>
        /\ \A x \in Actions \ {a} : UNCHANGED Row(x)
        /\ pc[a] # "idle" /\ boot # "down"
    BY <1>0, <1>15 DEF Complete, Completable, StatusOf, AfterComplete, Row,
       TypeOK
  <2>2. Kept(a)
    BY <1>0, <1>15 DEF Complete, Completable, StatusOf, AfterComplete, Kept,
       RowOK, WorkerOK, Prepared, TypeOK
  <2>3. RowOK(a)'
    BY <1>0, <1>15, Chains DEF Complete, Completable, StatusOf,
       AfterComplete, RowOK, WorkerOK, Dispatching, Untouched, Prepared,
       TypeOK, Kinds
  <2>4. OutcomeOK(a)'
    <3>1. chain'[a] = <<"pre", StatusOf(a)>> /\ StatusOf(a) \in Kinds
      BY <1>0, <1>15, Chains
         DEF Complete, Completable, StatusOf, RowOK, TypeOK, Kinds
    <3>2. /\ StatusOf(a) = "succeeded" => result'[a] = "ok"
          /\ StatusOf(a) = "failed" => result'[a] = "err"
      BY <1>0, <1>15 DEF Complete, StatusOf, WorkerOK
    <3> QED BY <3>1, <3>2, Chains DEF OutcomeOK, Kinds
  <2>5. WorkerOK(a)'
    BY <1>0, <1>15 DEF Complete, Completable, StatusOf, AfterComplete, RowOK,
       WorkerOK, Dispatching, TypeOK
  <2> QED BY <1>0, <2>1, <2>2, <2>3, <2>4, <2>5, Moves
<1>16. CASE CompleteError(a)
  <2>1. /\ UNCHANGED <<phase, boot, target, link>>
        /\ \A x \in Actions \ {a} : UNCHANGED Row(x)
        /\ pc[a] # "idle" /\ boot # "down"
    BY <1>0, <1>16 DEF CompleteError, Row, TypeOK
  <2>2. Kept(a)
    BY <1>0, <1>16 DEF CompleteError, Kept, RowOK, WorkerOK, Prepared, TypeOK
  <2>3. RowOK(a)'
    BY <1>0, <1>16, Chains DEF CompleteError, RowOK, WorkerOK, Dispatching,
       Untouched, Prepared, TypeOK, Kinds
  <2>4. OutcomeOK(a)'
    BY <1>0, <1>16, Chains DEF CompleteError, RowOK, WorkerOK, OutcomeOK,
       Untouched, TypeOK, Kinds
  <2>5. WorkerOK(a)'
    BY <1>0, <1>16 DEF CompleteError, RowOK, WorkerOK, Dispatching, TypeOK
  <2> QED BY <1>0, <2>1, <2>2, <2>3, <2>4, <2>5, Moves
<1>17. CASE MarkPendingRecovery(a)
  <2>1. /\ UNCHANGED <<phase, boot, target, link>>
        /\ \A x \in Actions \ {a} : UNCHANGED Row(x)
        /\ pc[a] # "idle" /\ boot # "down"
    BY <1>0, <1>17 DEF MarkPendingRecovery, IsExternalError, Row, TypeOK
  <2>2. Kept(a)
    BY <1>0, <1>17 DEF MarkPendingRecovery, IsExternalError, Kept, WorkerOK,
       Dispatching, TypeOK
  <2>3. RowOK(a)'
    BY <1>0, <1>17, Chains DEF MarkPendingRecovery, IsExternalError, RowOK,
       WorkerOK, Dispatching, Untouched, Prepared, TypeOK, Kinds
  <2>4. OutcomeOK(a)'
    BY <1>0, <1>17, Chains DEF MarkPendingRecovery, IsExternalError, RowOK,
       WorkerOK, OutcomeOK, Untouched, TypeOK, Kinds
  <2>5. WorkerOK(a)'
    BY <1>0, <1>17 DEF MarkPendingRecovery, IsExternalError, RowOK, WorkerOK,
       Dispatching, TypeOK
  <2> QED BY <1>0, <2>1, <2>2, <2>3, <2>4, <2>5, Moves
<1>18. CASE LedgerOutcome(a)
  <2>1. /\ UNCHANGED <<rows, intent, phase, boot, world, target>>
        /\ \A x \in Actions \ {a} : UNCHANGED pc[x]
        /\ pc[a] # "idle" /\ boot # "down"
    BY <1>0, <1>18 DEF LedgerOutcome, TypeOK
  <2>2. WorkerOK(a)'
    BY <1>0, <1>18, <2>1 DEF LedgerOutcome, WorkerOK, Dispatching, TypeOK,
       rows, world
  <2> QED BY <1>0, <2>1, <2>2, OnlyMoves
<1>19. CASE Abort(a)
  <2>1. /\ UNCHANGED <<rows, intent, phase, boot, world, target>>
        /\ \A x \in Actions \ {a} : UNCHANGED pc[x]
        /\ pc[a] # "idle" /\ boot # "down"
    BY <1>0, <1>19 DEF Abort, TypeOK
  <2>2. WorkerOK(a)'
    BY <1>0, <1>19, <2>1 DEF Abort, WorkerOK, Dispatching, TypeOK, rows, world
  <2> QED BY <1>0, <2>1, <2>2, OnlyMoves
<1>20. CASE Cancel(a)
  <2>1. /\ UNCHANGED <<rows, intent, phase, boot, world, target>>
        /\ \A x \in Actions \ {a} : UNCHANGED pc[x]
        /\ pc[a] # "idle" /\ boot # "down"
    BY <1>0, <1>20 DEF Cancel, TypeOK
  <2>2. WorkerOK(a)'
    BY <1>0, <1>20, <2>1 DEF Cancel, WorkerOK, Dispatching, TypeOK, rows,
       world
  <2> QED BY <1>0, <2>1, <2>2, OnlyMoves
<1>21. ASSUME NEW r \in {"ok", "err"}, ToolReturns(a, r) PROVE IInv'
  <2>1. /\ UNCHANGED <<phase, boot, target, link>>
        /\ \A x \in Actions \ {a} : UNCHANGED Row(x)
        /\ pc[a] # "idle" /\ boot # "down"
    BY <1>0, <1>21 DEF ToolReturns, Row, TypeOK
  <2>2. Kept(a)
    BY <1>0, <1>21 DEF ToolReturns, Kept, RowOK, WorkerOK, Prepared, TypeOK
  <2>3. RowOK(a)'
    BY <1>0, <1>21, Chains DEF ToolReturns, RowOK, WorkerOK, Dispatching,
       Untouched, Prepared, TypeOK, Kinds
  <2>4. OutcomeOK(a)'
    BY <1>0, <1>21, Chains DEF ToolReturns, RowOK, WorkerOK, OutcomeOK,
       Dispatching, TypeOK, Kinds
  <2>5. WorkerOK(a)'
    BY <1>0, <1>21 DEF ToolReturns, RowOK, WorkerOK, Dispatching, TypeOK
  <2> QED BY <1>0, <2>1, <2>2, <2>3, <2>4, <2>5, Moves
<1> QED
  BY <1>1, <1>2, <1>3, <1>4, <1>5, <1>6, <1>7, <1>8, <1>9, <1>10, <1>11,
     <1>12, <1>13, <1>14, <1>15, <1>16, <1>17, <1>18, <1>19, <1>20, <1>21 DEF
     WorkerStep, Progress

\* A step that changes nothing the invariant reads.
LEMMA Stays ==
    ASSUME IInv, TypeOK',
           UNCHANGED <<rows, intent, phase, boot, world, target, pc>>
    PROVE  IInv'
<1>1. \A x \in Actions : UNCHANGED Row(x)
  BY DEF Row, rows, world
<1>2. ASSUME NEW x \in Actions
      PROVE  RowOK(x)' /\ OutcomeOK(x)' /\ WorkerOK(x)'
  BY <1>1, FrameRow DEF IInv
<1>3. ASSUME NEW x \in Actions PROVE LinkOK(x)'
  BY FrameLink DEF IInv, Kept, rows
<1> QED BY <1>2, <1>3 DEF IInv

\* Preparing an allowed call preserves the invariant,
LEMMA AllowPreserves ==
    ASSUME IInv, TypeOK', NEW a \in Actions, PrepareAllow(a), boot # "down",
           \A c \in Checks \ {a} : UNCHANGED target[c],
           a \in Checks => target'[a] \in Actions
    PROVE  IInv'
<1> USE DEF PrepareAllow, MayPrepare, Goto, Sign
<1>0. TypeOK /\ RowOK(a) /\ state[a] = "absent"
  BY DEF IInv
<1>1. /\ UNCHANGED <<phase, boot, link>>
      /\ \A x \in Actions \ {a} : UNCHANGED Row(x)
  BY <1>0 DEF TypeOK, Row, world
<1>2. /\ state'[a] = "prepared" /\ pre'[a] /\ chain'[a] = <<"pre">>
      /\ intent'[a] = "none" /\ decision'[a] = "allow"
      /\ dispatch'[a] = "not_started" /\ ran'[a] = 0
      /\ term'[a] = Nothing /\ link'[a] = Nothing /\ pc'[a] = "prepared"
  BY <1>0, Chains DEF RowOK, Untouched, TypeOK, Kinds, world
<1>3. Kept(a)
  BY <1>0 DEF Kept
<1>4. RowOK(a)'
  BY <1>2 DEF RowOK, Prepared
<1>5. OutcomeOK(a)'
  BY <1>2, Chains DEF OutcomeOK, Kinds
<1>6. WorkerOK(a)'
  BY <1>1, <1>2 DEF WorkerOK, Dispatching
<1> QED BY <1>1, <1>3, <1>4, <1>5, <1>6, Moves

\* and so does preparing one that needs an approval.
LEMMA ApprovalPreserves ==
    ASSUME IInv, TypeOK', NEW a \in Terminals \cup Agents, PrepareApproval(a),
           boot # "down",
           \A x \in Actions \ {a} : UNCHANGED pc[x],
           (a \in Terminals /\ pc'[a] = "idle") \/ pc'[a] = "waiting"
    PROVE  IInv'
<1> USE DEF PrepareApproval, MayPrepare
<1>0. TypeOK /\ RowOK(a) /\ state[a] = "absent"
  BY DEF IInv
<1>1. /\ UNCHANGED <<phase, boot, link, target>>
      /\ \A x \in Actions \ {a} : UNCHANGED Row(x)
  BY <1>0 DEF TypeOK, Row, world
<1>2. /\ state'[a] = "awaiting_approval" /\ Untouched(a)'
      /\ intent'[a] = "pending" /\ decision'[a] = "approval_required"
  BY <1>0 DEF RowOK, Untouched, TypeOK, world
<1>3. Kept(a)
  BY <1>0 DEF Kept
<1>4. RowOK(a)'
  BY <1>2 DEF RowOK, Untouched
<1>5. OutcomeOK(a)'
  BY <1>2, Chains DEF OutcomeOK, Untouched, Kinds
<1>6. WorkerOK(a)'
  BY <1>1, <1>2 DEF WorkerOK, Dispatching
<1>7. a \notin Checks
  BY ReceiptAssumption
<1> QED BY <1>1, <1>3, <1>4, <1>5, <1>6, <1>7, Moves

\* complete_reconciliation closes two rows: its own, and the old one it then
\* links to itself.
LEMMA CheckPreserves ==
    ASSUME IInv, NEW c \in Checks, CompleteCheck(c)
    PROVE  IInv'
<1> DEFINE old == target[c]
<1> USE DEF CompleteCheck, Goto, Sign, world
<1>0. /\ TypeOK /\ RowOK(c) /\ WorkerOK(c) /\ TypeOK'
      /\ pc[c] \in {"returned_ok", "returned_err"}
  BY TypeIpc DEF IInv, IpcStep
<1>1. old \in Actions /\ RowOK(old) /\ WorkerOK(old) /\ LinkOK(old)
  BY <1>0 DEF IInv
<1>2. /\ state[c] = "prepared" /\ state[old] = "pending_recovery"
      /\ c # old /\ ran[c] = 1
  BY <1>0, <1>1 DEF Reconcilable, WorkerOK, Dispatching
<1>3. /\ UNCHANGED <<phase, boot, target>>
      /\ \A x \in Actions \ {c, old} : UNCHANGED Row(x)
  BY <1>0, <1>1 DEF TypeOK, Row
<1>4. /\ state'[c] = StatusOf(c) /\ StatusOf(c) \in {"succeeded", "failed"}
      /\ chain'[c] = <<"pre", StatusOf(c)>>
      /\ Prepared(c)' /\ term'[c] # Nothing /\ link'[c] = Nothing
      /\ pc'[c] = "gone" /\ ran'[c] = 1
      /\ StatusOf(c) = "succeeded" => result'[c] = "ok"
      /\ StatusOf(c) = "failed" => result'[c] = "err"
  <2>1. StatusOf(c) \in {"succeeded", "failed"}
    BY DEF StatusOf
  <2>2. chain[c] = <<"pre">> /\ Prepared(c) /\ link[c] = Nothing
    BY <1>0, <1>2 DEF RowOK
  <2>3. chain'[c] = <<"pre", StatusOf(c)>>
    <3>1. chain'[c] = Append(<<"pre">>, StatusOf(c))
      BY <1>0, <2>2 DEF TypeOK
    <3> QED BY <2>1, <3>1, Chains DEF Kinds
  <2>4. /\ state'[c] = StatusOf(c) /\ term'[c] = c /\ link'[c] = Nothing
        /\ pc'[c] = "gone" /\ ran'[c] = 1 /\ result'[c] = result[c]
    BY <1>0, <1>1, <1>2, <2>2 DEF TypeOK
  <2>5. Prepared(c)'
    BY <2>2 DEF Prepared
  <2>6. /\ StatusOf(c) = "succeeded" => result[c] = "ok"
        /\ StatusOf(c) = "failed" => result[c] = "err"
    BY <1>0 DEF WorkerOK, StatusOf
  <2> QED BY <2>1, <2>3, <2>4, <2>5, <2>6, ReceiptAssumption
<1>5. /\ state'[old] = "succeeded" /\ chain'[old] = <<"pre">>
      /\ Prepared(old)' /\ term'[old] # Nothing /\ link'[old] = c
      /\ pc'[old] = pc[old] /\ ran'[old] = ran[old]
  BY <1>0, <1>1, <1>2, ReceiptAssumption DEF TypeOK, RowOK, Prepared
<1>6. ASSUME NEW x \in Actions PROVE Kept(x)
  <2>1. CASE x \in {c, old}
    BY <1>2, <2>1 DEF Kept
  <2>2. CASE x \notin {c, old}
    BY <1>3, <2>2 DEF Kept, Row
  <2> QED BY <2>1, <2>2
<1>7. RowOK(c)' /\ OutcomeOK(c)' /\ WorkerOK(c)' /\ LinkOK(c)'
  <2>1. RowOK(c)'
    BY <1>4 DEF RowOK
  <2>2. OutcomeOK(c)'
    BY <1>4, Chains DEF OutcomeOK, Kinds
  <2>3. WorkerOK(c)' /\ LinkOK(c)'
    BY <1>4 DEF WorkerOK, LinkOK, Dispatching
  <2> QED BY <2>1, <2>2, <2>3
<1>8. RowOK(old)' /\ OutcomeOK(old)' /\ WorkerOK(old)' /\ LinkOK(old)'
  <2>1. RowOK(old)'
    <3>1. ran[old] <= 1
      BY <1>1 DEF RowOK
    <3>2. c # Nothing
      BY ReceiptAssumption
    <3> QED BY <1>5, <3>1, <3>2 DEF RowOK
  <2>2. OutcomeOK(old)'
    BY <1>5, Chains DEF OutcomeOK, Kinds
  <2>3. WorkerOK(old)'
    BY <1>0, <1>1, <1>2, <1>3, <1>5 DEF WorkerOK, Dispatching
  <2>4. LinkOK(old)'
    BY <1>4, <1>5 DEF LinkOK
  <2> QED BY <2>1, <2>2, <2>3, <2>4
<1>9. ASSUME NEW x \in Actions
      PROVE  RowOK(x)' /\ OutcomeOK(x)' /\ WorkerOK(x)' /\ LinkOK(x)'
  <2>1. CASE x \in {c, old}
    BY <1>7, <1>8, <2>1
  <2>2. CASE x \notin {c, old}
    <3>1. UNCHANGED <<Row(x), boot>> /\ UNCHANGED link[x]
      BY <1>3, <2>2 DEF Row
    <3>2. LinkOK(x)'
      BY <1>0, <1>6, <3>1, FrameLink DEF IInv
    <3> QED BY <3>1, <3>2, FrameRow DEF IInv
  <2> QED BY <2>1, <2>2
<1>10. \A d \in Checks : pc'[d] # "idle" => target'[d] \in Actions
  BY <1>0, <1>1, <1>3, <1>5 DEF IInv, Row
<1> QED BY <1>0, <1>3, <1>9, <1>10 DEF IInv

\* Every step of an IPC command preserves the invariant.
LEMMA IpcPreserves ==
    ASSUME IInv, IpcStep
    PROVE  IInv'
<1> USE ReceiptAssumption DEF Goto, At, Serving
<1>0. TypeOK /\ TypeOK'
  BY TypeIpc DEF IInv
<1>1. ASSUME NEW a \in Terminals, TerminalAllowed(a) PROVE IInv'
  BY <1>0, <1>1, AllowPreserves DEF TerminalAllowed
<1>2. ASSUME NEW a \in Terminals, TerminalApproval(a) PROVE IInv'
  BY <1>0, <1>2, ApprovalPreserves DEF TerminalApproval
<1>3. ASSUME NEW a \in Terminals, TerminalExecute(a) PROVE IInv'
  <2>1. /\ UNCHANGED <<rows, intent, phase, boot, world, target>>
        /\ \A x \in Actions \ {a} : UNCHANGED pc[x]
        /\ a \notin Checks /\ pc'[a] = "granting" /\ boot # "down"
    BY <1>0, <1>3 DEF TerminalExecute, TypeOK
  <2>2. WorkerOK(a)'
    BY <2>1 DEF WorkerOK, Dispatching
  <2> QED BY <1>0, <2>1, <2>2, OnlyMoves
<1>4. ASSUME NEW c \in Checks, CompleteCheck(c) PROVE IInv'
  BY <1>4, CheckPreserves
<1>5. ASSUME NEW c \in Checks, NEW old \in Actions, CheckAllowed(c, old)
      PROVE  IInv'
  <2>1. /\ \A d \in Checks \ {c} : UNCHANGED target[d]
        /\ target'[c] = old
    BY <1>0, <1>5 DEF CheckAllowed, TypeOK
  <2> QED BY <1>0, <1>5, <2>1, AllowPreserves DEF CheckAllowed
<1>6. ASSUME NEW a \in Actions, NEW g \in BOOLEAN, ResolveApproval(a, g)
      PROVE  IInv'
  <2>0. RowOK(a) /\ WorkerOK(a)
    BY DEF IInv
  <2>1. /\ UNCHANGED <<rows, intent, phase, boot, world, target>>
        /\ \A x \in Actions \ {a} : UNCHANGED pc[x]
        /\ pc'[a] = pc[a] \/ pc'[a] \in {"granting", "refusing"}
        /\ boot # "down" /\ intent[a] # "none"
    BY <1>0, <1>6 DEF ResolveApproval, TypeOK
  <2>2. pc[a] # "idle" \/ a \notin Checks
    BY <2>0, <2>1 DEF RowOK, WorkerOK
  <2>3. WorkerOK(a)'
    BY <2>0, <2>1 DEF WorkerOK, Dispatching, rows, world
  <2> QED BY <1>0, <2>1, <2>2, <2>3, OnlyMoves
<1>7. CASE DenyApproval
  <2>1. CASE ~Deniable(resolving.action)
    BY <1>0, <1>7, <2>1, Stays DEF DenyApproval, rows
  <2>2. CASE Deniable(resolving.action)
    <3>0. PICK a \in Actions : a = resolving.action
      BY <1>0, <1>7 DEF DenyApproval, TypeOK, NoCommand, Commands
    <3>1. /\ intent' = [intent EXCEPT ![a] = "denied"]
          /\ state' = [state EXCEPT ![a] =
                          IF @ = "awaiting_approval" THEN "refused" ELSE @]
          /\ UNCHANGED <<dispatch, decision, pre, term, link, chain, phase, pc,
                         target, boot, world>>
      BY <1>7, <2>2, <3>0 DEF DenyApproval
    <3>2. intent[a] = "pending"
      BY <2>2, <3>0 DEF Deniable
    <3>3. RowOK(a) /\ WorkerOK(a)
      BY <3>0 DEF IInv
    <3>4. state[a] = "awaiting_approval" /\ Untouched(a)
      BY <1>0, <3>0, <3>2, <3>3 DEF RowOK, Prepared, TypeOK, States
    <3>5. /\ state'[a] = "refused" /\ intent'[a] = "denied"
          /\ Untouched(a)' /\ pc'[a] = pc[a]
      BY <1>0, <3>0, <3>1, <3>4 DEF Untouched, TypeOK, world
    <3>6. \A x \in Actions \ {a} : UNCHANGED Row(x)
      BY <1>0, <3>1 DEF TypeOK, Row, world
    <3>7. RowOK(a)'
      BY <3>5 DEF RowOK, Untouched
    <3>8. OutcomeOK(a)'
      BY <3>5, Chains DEF OutcomeOK, Untouched, Kinds
    <3>9. WorkerOK(a)'
      BY <3>1, <3>2, <3>3, <3>4, <3>5 DEF WorkerOK, Dispatching
    <3>10. Kept(a)
      BY <3>4 DEF Kept
    <3>11. a \in Checks /\ pc'[a] # "idle" => target'[a] \in Actions
      BY <3>0, <3>1 DEF IInv
    <3> QED
      BY <1>0, <3>0, <3>1, <3>6, <3>7, <3>8, <3>9, <3>10, <3>11, Moves
  <2> QED BY <2>1, <2>2
<1>8. CASE LedgerDecision
  BY <1>0, <1>8, Stays DEF LedgerDecision
<1>9. ASSUME NEW a \in Actions, ClosePending(a) PROVE IInv'
  <2>0. RowOK(a) /\ WorkerOK(a) /\ state[a] = "pending_recovery"
    BY <1>9 DEF IInv, ClosePending
  <2>1. /\ UNCHANGED <<phase, boot, target, link, pc>>
        /\ \A x \in Actions \ {a} : UNCHANGED Row(x)
    BY <1>0, <1>9 DEF ClosePending, Sign, Row, TypeOK, world
  <2>2. /\ state'[a] = "refused" /\ Prepared(a)' /\ link'[a] = Nothing
        /\ chain'[a] = <<"pre", "refused">> /\ ran'[a] <= 1
    <3>1. /\ chain[a] = <<"pre">> /\ Prepared(a) /\ link[a] = Nothing
          /\ ran[a] <= 1
      BY <2>0 DEF RowOK
    <3>2. chain'[a] = Append(<<"pre">>, "refused")
      BY <1>0, <1>9, <3>1 DEF ClosePending, Sign, TypeOK
    <3>3. chain'[a] = <<"pre", "refused">>
      BY <3>2, Chains DEF Kinds
    <3> QED BY <1>0, <1>9, <3>1, <3>3 DEF ClosePending, Prepared, TypeOK, world
  <2>3. Kept(a)
    BY <2>0 DEF Kept
  <2>4. RowOK(a)'
    BY <2>2 DEF RowOK
  <2>5. OutcomeOK(a)'
    BY <2>2, Chains DEF OutcomeOK, Kinds
  <2>6. WorkerOK(a)'
    BY <2>0, <2>1 DEF WorkerOK, Dispatching, RowOK, Prepared
  <2> QED BY <1>0, <2>1, <2>3, <2>4, <2>5, <2>6, Moves DEF IInv
<1>10. ASSUME NEW a \in Actions, CloseMismatch(a) PROVE IInv'
  <2>0. RowOK(a) /\ OutcomeOK(a) /\ WorkerOK(a) /\ state[a] = "pending_recovery"
    BY <1>10 DEF IInv, CloseMismatch
  <2>1. /\ UNCHANGED <<phase, boot, target, link, pc>>
        /\ \A x \in Actions \ {a} : UNCHANGED Row(x)
    BY <1>0, <1>10 DEF CloseMismatch, Row, TypeOK, world
  <2>2. /\ state'[a] = "quarantined"
        /\ UNCHANGED <<dispatch, decision, pre, term, link, chain, intent, ran,
                       result, pc>>
    BY <1>0, <1>10 DEF CloseMismatch, TypeOK, world
  <2>3. Kept(a)
    BY <2>0 DEF Kept
  <2>4. RowOK(a)'
    BY <2>0, <2>2 DEF RowOK, Prepared
  <2>5. OutcomeOK(a)'
    BY <2>0, <2>2 DEF OutcomeOK
  <2>6. WorkerOK(a)'
    BY <2>0, <2>1, <2>2 DEF WorkerOK, Dispatching
  <2> QED BY <1>0, <2>1, <2>3, <2>4, <2>5, <2>6, Moves DEF IInv
<1> QED
  BY <1>1, <1>2, <1>3, <1>4, <1>5, <1>6, <1>7, <1>8, <1>9, <1>10
     DEF IpcStep

\* So does the preparation of an agent's call.
LEMMA AgentPreserves ==
    ASSUME IInv, AgentStep
    PROVE  IInv'
<1> USE ReceiptAssumption DEF Goto, At, Serving
<1>0. TypeOK /\ TypeOK'
  BY TypeAgent DEF IInv
<1>1. ASSUME NEW a \in Agents, AgentAllowed(a) PROVE IInv'
  BY <1>0, <1>1, AllowPreserves DEF AgentAllowed
<1>2. ASSUME NEW a \in Agents, AgentApproval(a) PROVE IInv'
  <2>1. /\ \A x \in Actions \ {a} : UNCHANGED pc[x]
        /\ pc'[a] = "waiting"
    BY <1>0, <1>2 DEF AgentApproval, TypeOK
  <2> QED BY <1>0, <1>2, <2>1, ApprovalPreserves DEF AgentApproval
<1>3. ASSUME NEW a \in Agents, AgentDenied(a) PROVE IInv'
  <2>0. RowOK(a) /\ state[a] = "absent" /\ boot # "down" /\ a \notin Checks
    BY <1>3 DEF IInv, AgentDenied, MayPrepare
  <2>1. /\ UNCHANGED <<phase, boot, target, link>>
        /\ \A x \in Actions \ {a} : UNCHANGED Row(x)
    BY <1>0, <1>3 DEF AgentDenied, Sign, Row, TypeOK, world
  <2>2. /\ state'[a] = "refused" /\ ~pre'[a] /\ chain'[a] = <<"refused">>
        /\ intent'[a] = "none" /\ link'[a] = Nothing
        /\ dispatch'[a] = "not_started" /\ ran'[a] = 0 /\ pc'[a] = "gone"
    BY <1>0, <1>3, <2>0, Chains
       DEF AgentDenied, Sign, RowOK, Untouched, TypeOK, Kinds, world
  <2>3. Kept(a)
    BY <2>0 DEF Kept
  <2>4. RowOK(a)'
    BY <2>2 DEF RowOK
  <2>5. OutcomeOK(a)'
    BY <2>2, Chains DEF OutcomeOK, Kinds
  <2>6. WorkerOK(a)'
    BY <2>2 DEF WorkerOK, Dispatching
  <2> QED BY <1>0, <2>0, <2>1, <2>3, <2>4, <2>5, <2>6, Moves
<1> QED BY <1>1, <1>2, <1>3 DEF AgentStep

\* recover_database finds nothing to adopt and nothing to quarantine: every
\* commit of the runtime leaves the row and its receipts in agreement.
LEMMA Calm ==
    ASSUME IInv, NEW a \in Actions
    PROVE  ~Unadopted(a) /\ ~StartedWithoutPre(a) /\ ~TerminalWithoutPre(a)
<1>0. RowOK(a) /\ TypeOK
  BY DEF IInv
<1>1. ~Unadopted(a)
  <2> SUFFICES ASSUME Unadopted(a) PROVE FALSE
    OBVIOUS
  <2>1. chain[a] \in {<<>>, <<"pre">>}
    BY <1>0 DEF Unadopted, RowOK, Untouched
  <2>2. chain[a] = <<"pre">> => DOMAIN chain[a] = {1} /\ chain[a][1] = "pre"
    OBVIOUS
  <2>3. chain[a] = <<>> => DOMAIN chain[a] = {}
    OBVIOUS
  <2> QED BY <2>1, <2>2, <2>3 DEF Unadopted
<1>2. ~StartedWithoutPre(a)
  BY <1>0 DEF StartedWithoutPre, RowOK, Prepared
<1>3. ~TerminalWithoutPre(a)
  <2> SUFFICES ASSUME ~pre[a], NEW n \in DOMAIN chain[a],
                      chain[a][n] \in {"succeeded", "failed"}
               PROVE  FALSE
    BY DEF TerminalWithoutPre
  <2>1. chain[a] \in {<<>>, <<"refused">>}
    BY <1>0 DEF RowOK, Untouched, Prepared, TypeOK, States
  <2>2. chain[a] = <<"refused">> =>
           DOMAIN chain[a] = {1} /\ chain[a][1] = "refused"
    OBVIOUS
  <2>3. chain[a] = <<>> => DOMAIN chain[a] = {}
    OBVIOUS
  <2> QED BY <2>1, <2>2, <2>3
<1> QED BY <1>1, <1>2, <1>3

\* The recovery of a start turns interrupted work into pending recovery.
LEMMA RecoverPreserves ==
    ASSUME IInv, NEW E \in SUBSET Actions, Recover(E)
    PROVE  IInv'
<1>0. TypeOK /\ boot = "down"
  BY DEF IInv, Recover
<1>1. /\ intent' = [a \in Actions |-> IF a \in E THEN "expired"
                                      ELSE intent[a]]
      /\ \A a \in E : intent[a] \in {"pending", "granted"}
      /\ state' = [a \in Actions |-> RecoveredState(a)]
      /\ boot' = "up"
      /\ UNCHANGED <<decision, pre, link, chain, ledgerDb, pc, resolving,
                     target, clocks, world, bounds>>
  BY DEF Recover
<1>2. UNCHANGED <<dispatch, term>> /\ phase' = "ready"
  BY <1>0, Calm DEF Recover, TypeOK
<1>3. \A a \in Actions :
         state'[a] = IF state[a] = "prepared" THEN "pending_recovery"
                     ELSE state[a]
  BY <1>0, <1>1, Calm DEF RecoveredState, IInv, RowOK, Prepared
<1>4. TypeOK'
  <2>1. state' \in [Actions -> States]
    <3>1. \A a \in Actions : RecoveredState(a) \in States
      <4> TAKE a \in Actions
      <4>1. state'[a] = RecoveredState(a)
        BY <1>1
      <4>2. state'[a] \in States
        BY <1>0, <1>3 DEF TypeOK, States
      <4> QED BY <4>1, <4>2
    <3> QED BY <1>1, <3>1
  <2>2. intent' \in [Actions -> Intents]
    BY <1>0, <1>1 DEF TypeOK, Intents
  <2> QED BY <1>0, <1>1, <1>2, <2>1, <2>2
          DEF TypeOK, ledgerDb, clocks, world, bounds
<1>5. ASSUME NEW a \in Actions
      PROVE  RowOK(a)' /\ OutcomeOK(a)' /\ WorkerOK(a)' /\ LinkOK(a)'
  <2>0. RowOK(a) /\ OutcomeOK(a) /\ WorkerOK(a) /\ LinkOK(a)
    BY DEF IInv
  <2>1. /\ state'[a] = IF state[a] = "prepared" THEN "pending_recovery"
                       ELSE state[a]
        /\ intent'[a] = IF a \in E THEN "expired" ELSE intent[a]
        /\ a \in E => intent[a] \in {"pending", "granted"}
    BY <1>1, <1>3
  <2>2. UNCHANGED <<dispatch, decision, pre, term, link, chain, ran, result, pc>>
    BY <1>1, <1>2 DEF world
  <2>3. RowOK(a)'
    BY <1>0, <2>0, <2>1, <2>2 DEF RowOK, Untouched, Prepared, TypeOK, States
  <2>4. OutcomeOK(a)'
    BY <2>0, <2>2 DEF OutcomeOK
  <2>5. WorkerOK(a)'
    BY <1>0, <1>1, <2>0, <2>1, <2>2 DEF WorkerOK, Dispatching
  <2>6. LinkOK(a)'
    <3>1. \A y \in Actions : Kept(y)
      BY <1>3, <2>2 DEF Kept
    <3> QED BY <1>0, <2>0, <2>2, <3>1, FrameLink
  <2> QED BY <2>3, <2>4, <2>5, <2>6
<1> QED BY <1>1, <1>2, <1>4, <1>5 DEF IInv

\* Garbage collection, time, crashes and starts preserve the invariant.
LEMMA EnvironmentPreserves ==
    ASSUME IInv, Environment
    PROVE  IInv'
<1> USE DEF Serving
<1>0. TypeOK
  BY DEF IInv
<1>1. ASSUME NEW a \in Actions, ApprovalGc(a) PROVE IInv'
  <2>0. RowOK(a) /\ OutcomeOK(a) /\ WorkerOK(a) /\ TypeOK'
    BY <1>0, <1>1, TypeEnvironment DEF IInv
  <2>1. /\ UNCHANGED <<rows, world, phase, boot, target, pc>>
        /\ \A x \in Actions \ {a} : UNCHANGED Row(x)
    BY <1>0, <1>1 DEF ApprovalGc, rows, Row, TypeOK, world
  <2>2. /\ intent'[a] = "deleted"
        /\ intent[a] \in {"expired", "lost", "claimed"}
    BY <1>0, <1>1 DEF ApprovalGc, Collectable, TypeOK
  <2>3. RowOK(a)'
    BY <2>0, <2>1, <2>2 DEF RowOK, Untouched, Prepared, rows, world
  <2>4. OutcomeOK(a)' /\ Kept(a) /\ link'[a] = link[a]
    BY <2>0, <2>1 DEF OutcomeOK, Kept, rows, world
  <2>5. WorkerOK(a)'
    BY <2>0, <2>1, <2>2 DEF WorkerOK, rows, world
  <2> QED BY <2>0, <2>1, <2>3, <2>4, <2>5, Moves DEF IInv
<1>2. ASSUME NEW a \in Actions, DeadlinePasses(a) PROVE IInv'
  BY <1>0, <1>2, TypeEnvironment, Stays DEF DeadlinePasses
<1>3. CASE Crash \/ RecoverFails
  <2>0. TypeOK'
    BY <1>0, <1>3, TypeEnvironment
  <2>1. /\ UNCHANGED <<rows, intent, phase, world, target>>
        /\ \A x \in Actions :
              pc'[x] = pc[x] \/ (pc[x] # "idle" /\ pc'[x] = End(x))
    BY <1>0, <1>3 DEF Crash, RecoverFails, TypeOK
  <2>2. \A x \in Actions : boot' = "down" => pc'[x] \in {"idle", "gone"}
    BY <1>3 DEF Crash, RecoverFails, End
  <2>3. ASSUME NEW x \in Actions
        PROVE  RowOK(x)' /\ OutcomeOK(x)' /\ WorkerOK(x)' /\ LinkOK(x)'
    <3>0. RowOK(x) /\ OutcomeOK(x) /\ WorkerOK(x) /\ LinkOK(x)
      BY DEF IInv
    <3>1. RowOK(x)'
      BY <2>1, <3>0 DEF RowOK, Untouched, Prepared, rows, world
    <3>2. OutcomeOK(x)'
      BY <2>1, <3>0 DEF OutcomeOK, rows, world
    <3>3. WorkerOK(x)'
      BY <2>1, <2>2, <3>0 DEF WorkerOK, Dispatching, End, rows, world
    <3>4. LinkOK(x)'
      BY <2>1, <3>0 DEF LinkOK, rows
    <3> QED BY <3>1, <3>2, <3>3, <3>4
  <2>4. \A c \in Checks : pc'[c] # "idle" => target'[c] \in Actions
    BY <2>1 DEF IInv
  <2> QED BY <2>0, <2>1, <2>3, <2>4 DEF IInv
<1>4. ASSUME NEW E \in SUBSET Actions, Recover(E) PROVE IInv'
  BY <1>4, RecoverPreserves
<1> QED BY <1>1, <1>2, <1>3, <1>4 DEF Environment

-----------------------------------------------------------------------------
\* The inductive invariant holds in every reachable state, whatever calls,
\* decisions, crashes and replays there are.
THEOREM Invariance == Spec => []IInv
<1>1. Init => IInv
  <2> SUFFICES ASSUME Init PROVE IInv
    OBVIOUS
  <2>1. TypeOK
    <3>1. chain \in [Actions -> Seq({"pre", "succeeded", "failed", "refused"})]
      BY DEF Init
    <3> QED BY <3>1 DEF Init, TypeOK, States, Intents, PCs, NoCommand
  <2>2. ASSUME NEW a \in Actions
        PROVE  RowOK(a) /\ OutcomeOK(a) /\ LinkOK(a) /\ WorkerOK(a)
    BY Chains DEF Init, RowOK, Untouched, OutcomeOK, LinkOK, WorkerOK,
                  Dispatching, Kinds
  <2> QED BY <2>1, <2>2 DEF IInv, Init
<1>2. IInv /\ [Next]_vars => IInv'
  <2> SUFFICES ASSUME IInv, [Next]_vars PROVE IInv'
    OBVIOUS
  <2>1. CASE UNCHANGED vars
    <3>1. UNCHANGED <<rows, intent, phase, boot, world, target, pc, ledgerDb,
                      resolving, clocks, bounds>>
      BY <2>1 DEF vars
    <3>2. TypeOK'
      BY <3>1 DEF IInv, TypeOK, rows, world, ledgerDb, clocks, bounds
    <3> QED BY <3>1, <3>2, Stays
  <2> QED BY <2>1, WorkerPreserves, IpcPreserves, AgentPreserves,
             EnvironmentPreserves DEF Next
<1> QED BY <1>1, <1>2, PTL DEF Spec

\* Every reachable state is well typed; in particular recover_database never
\* adopts a receipt that is no outcome.
THEOREM TypeCorrect == Spec => []TypeOK
<1>1. IInv => TypeOK
  BY DEF IInv
<1> QED BY <1>1, Invariance, PTL

\* prepare, claim, complete, refuse and close never sign the same step of one
\* action twice.
THEOREM SignsOnce == Spec => []OneReceiptPerStep
<1>1. IInv => OneReceiptPerStep
  <2> SUFFICES ASSUME IInv, NEW a \in Actions
               PROVE  chain[a] \in {<<>>, <<"refused">>, <<"pre">>,
                                    <<"pre", "refused">>,
                                    <<"pre", "succeeded">>, <<"pre", "failed">>}
    BY DEF OneReceiptPerStep
  <2>1. RowOK(a) /\ state[a] \in States
    BY DEF IInv, TypeOK
  <2> QED BY <2>1 DEF RowOK, Untouched, States
<1> QED BY <1>1, Invariance, PTL

\* A tool is started only under a pre_action receipt, and under
\* approval_required only for a claimed intent.
THEOREM ReceiptBeforeRun == Spec => []RanUnderReceipt
<1>1. IInv => RanUnderReceipt
  <2> SUFFICES ASSUME IInv, NEW a \in Actions, ran[a] > 0
               PROVE  /\ chain[a] # <<>> /\ Head(chain[a]) = "pre"
                      /\ decision[a] = "approval_required" =>
                            intent[a] \in {"claimed", "deleted"}
    BY DEF RanUnderReceipt
  <2>1. RowOK(a) /\ state[a] \in States
    BY DEF IInv, TypeOK
  <2>2. Prepared(a)
    BY <2>1 DEF RowOK, Untouched, States
  <2>3. chain[a] \in {<<"pre">>, <<"pre", "refused">>, <<"pre", "succeeded">>,
                      <<"pre", "failed">>}
    <3>1. state[a] \notin {"absent", "awaiting_approval"}
      BY <2>1 DEF RowOK, Untouched
    <3>2. CASE state[a] \in {"succeeded", "failed"}
      BY <2>1, <3>2 DEF RowOK
    <3>3. CASE state[a] = "refused"
      <4>1. ran[a] # 0
        OBVIOUS
      <4>2. chain[a] = <<"pre", "refused">>
        BY <2>1, <3>3, <4>1 DEF RowOK
      <4> QED BY <4>2
    <3>4. CASE state[a] \in {"prepared", "pending_recovery", "quarantined"}
      BY <2>1, <3>4 DEF RowOK
    <3> QED BY <2>1, <3>1, <3>2, <3>3, <3>4 DEF States
  <2>4. chain[a] # <<>> /\ Head(chain[a]) = "pre"
    BY <2>3
  <2> QED BY <2>2, <2>4 DEF Prepared
<1> QED BY <1>1, Invariance, PTL

\* The tool of one action is started at most once, whatever is replayed.
THEOREM AtMostOnce == Spec => []RunsOnce
<1>1. IInv => RunsOnce
  BY DEF IInv, RunsOnce, RowOK
<1> QED BY <1>1, Invariance, PTL

\* A tool whose approval was denied never runs.
THEOREM NoRunAfterDenial == Spec => []DeniedNeverRuns
<1>1. IInv => DeniedNeverRuns
  <2> SUFFICES ASSUME IInv, NEW a \in Actions, intent[a] = "denied"
               PROVE  ran[a] = 0
    BY DEF DeniedNeverRuns
  <2>1. RowOK(a) /\ state[a] \in States
    BY DEF IInv, TypeOK
  <2> QED BY <2>1 DEF RowOK, Untouched, Prepared, States
<1> QED BY <1>1, Invariance, PTL

\* A row is closed as its receipts say, and open while it has no outcome.
THEOREM RowsAgreeWithReceipts == Spec => []StateMatchesReceipts
<1>1. IInv => StateMatchesReceipts
  <2> SUFFICES ASSUME IInv, NEW a \in Actions
               PROVE
        CASE state[a] \in {"succeeded", "failed"} /\ link[a] = Nothing ->
                chain[a] = <<"pre", state[a]>>
          [] state[a] \in {"succeeded", "failed"} /\ link[a] # Nothing ->
                /\ chain[a] = <<"pre">>
                /\ chain[link[a]] \in {<<"pre", "succeeded">>,
                                       <<"pre", "failed">>}
          [] state[a] = "refused" ->
                \/ chain[a] \in {<<"refused">>, <<"pre", "refused">>}
                \/ chain[a] = <<>> /\ intent[a] = "denied"
          [] state[a] \in {"prepared", "pending_recovery", "quarantined"} ->
                chain[a] = <<"pre">>
          [] OTHER -> chain[a] = <<>>
    BY DEF StateMatchesReceipts
  <2>0. RowOK(a) /\ LinkOK(a) /\ state[a] \in States
    BY DEF IInv, TypeOK
  <2>1. CASE state[a] \in {"succeeded", "failed"} /\ link[a] = Nothing
    BY <2>0, <2>1 DEF RowOK
  <2>2. CASE state[a] \in {"succeeded", "failed"} /\ link[a] # Nothing
    BY <2>0, <2>2 DEF RowOK, LinkOK
  <2>3. CASE state[a] = "refused"
    BY <2>0, <2>3 DEF RowOK
  <2>4. CASE state[a] \in {"prepared", "pending_recovery", "quarantined"}
    BY <2>0, <2>4 DEF RowOK
  <2>5. CASE state[a] \in {"absent", "awaiting_approval"}
    BY <2>0, <2>5 DEF RowOK, Untouched
  <2> QED BY <2>0, <2>1, <2>2, <2>3, <2>4, <2>5 DEF States
<1> QED BY <1>1, Invariance, PTL

\* A signed outcome is what the tool did.
THEOREM TruthfulReceipts == Spec => []ReceiptIsTruthful
<1>1. IInv => ReceiptIsTruthful
  BY DEF IInv, ReceiptIsTruthful, OutcomeOK
<1> QED BY <1>1, Invariance, PTL

\* A tool that ran and was not signed for stays visible as open.
THEOREM NoLostRun == Spec => []RunIsAccountedFor
<1>1. IInv => RunIsAccountedFor
  <2> SUFFICES ASSUME IInv, NEW a \in Actions, ran[a] > 0, Len(chain[a]) < 2
               PROVE  \/ state[a] \in {"prepared", "pending_recovery",
                                       "quarantined"}
                      \/ state[a] = "succeeded" /\ link[a] # Nothing
    BY DEF RunIsAccountedFor
  <2>0. RowOK(a) /\ state[a] \in States
    BY DEF IInv, TypeOK
  <2>1. \A k \in Kinds : chain[a] # <<"pre", k>>
    BY DEF Kinds
  <2> QED BY <2>0, <2>1 DEF RowOK, Untouched, States, Kinds
<1> QED BY <1>1, Invariance, PTL

\* recover_database never enters read-only recovery by the runtime's own doing.
THEOREM SafeModeUnreached == Spec => []NeverSafeMode
<1>1. IInv => NeverSafeMode
  BY DEF IInv, NeverSafeMode
<1> QED BY <1>1, Invariance, PTL

-----------------------------------------------------------------------------
\* A closed row is not changed by the worker of any action,
LEMMA WorkerKeepsClosed ==
    ASSUME IInv, NEW b \in Actions, WorkerStep(b),
           NEW a \in Actions, state[a] \in Closed
    PROVE  state'[a] = state[a]
<1> USE DEF Closed, At, rows
<1>0. TypeOK /\ RowOK(b) /\ WorkerOK(b)
  BY DEF IInv
<1>1. CASE Claim(b)
  <2>1. state[b] = "awaiting_approval"
    BY <1>0, <1>1 DEF Claim, RowOK, Prepared, TypeOK, States
  <2> QED BY <1>0, <1>1, <2>1 DEF Claim, TypeOK
<1>2. CASE ClaimRefused(b)
  <2>1. state[b] = "awaiting_approval"
    BY <1>0, <1>2
       DEF ClaimRefused, RowOK, WorkerOK, Prepared, TypeOK, States
  <2> QED BY <1>0, <1>2, <2>1 DEF ClaimRefused, TypeOK
<1>3. CASE AgentRefuse(b)
  BY <1>0, <1>3 DEF AgentRefuse, TypeOK
<1>4. CASE Complete(b)
  BY <1>0, <1>4 DEF Complete, Completable, TypeOK
<1>5. CASE CompleteError(b)
  BY <1>0, <1>5 DEF CompleteError, TypeOK
<1>6. CASE MarkPendingRecovery(b)
  <2>1. state[b] \in {"prepared", "quarantined"}
    BY <1>0, <1>6 DEF MarkPendingRecovery, IsExternalError, WorkerOK,
       Dispatching
  <2> QED BY <1>0, <1>6, <2>1 DEF MarkPendingRecovery, TypeOK
<1>7. CASE \/ Grant(b) \/ GrantExpired(b) \/ GrantDenied(b) \/ LedgerTimedOut(b)
           \/ ClaimError(b) \/ MarkStarted(b) \/ SkipMarkStarted(b)
           \/ LedgerCall(b) \/ RunTool(b) \/ AgentPolicyChanged(b)
           \/ MarkReturned(b) \/ LedgerOutcome(b) \/ Abort(b) \/ Cancel(b)
           \/ \E r \in {"ok", "err"} : ToolReturns(b, r)
  <2>1. UNCHANGED state
    BY <1>7 DEF Grant, GrantExpired, GrantDenied, LedgerTimedOut, ClaimError,
       MarkStarted, SkipMarkStarted, LedgerCall, RunTool, AgentPolicyChanged,
       MarkReturned, LedgerOutcome, Abort, Cancel, ToolReturns
  <2> QED BY <2>1
<1> QED
  BY <1>1, <1>2, <1>3, <1>4, <1>5, <1>6, <1>7 DEF WorkerStep, Progress

\* by any command,
LEMMA CommandKeepsClosed ==
    ASSUME IInv, IpcStep \/ AgentStep, NEW a \in Actions, state[a] \in Closed
    PROVE  state'[a] = state[a]
<1> USE DEF Closed, rows
<1>0. TypeOK
  BY DEF IInv
<1>1. ASSUME NEW b \in Actions, PrepareAllow(b) PROVE state'[a] = state[a]
  BY <1>0, <1>1 DEF PrepareAllow, MayPrepare, TypeOK
<1>2. ASSUME NEW b \in Actions, PrepareApproval(b) PROVE state'[a] = state[a]
  BY <1>0, <1>2 DEF PrepareApproval, MayPrepare, TypeOK
<1>3. ASSUME NEW b \in Agents, AgentDenied(b) PROVE state'[a] = state[a]
  BY <1>0, <1>3 DEF AgentDenied, MayPrepare, TypeOK
<1>4. ASSUME NEW c \in Checks, CompleteCheck(c) PROVE state'[a] = state[a]
  <2>1. state[c] \notin Closed /\ state[target[c]] \notin Closed
    BY <1>4 DEF CompleteCheck, Completable, Reconcilable
  <2> QED BY <1>0, <1>4, <2>1 DEF CompleteCheck, TypeOK
<1>5. CASE DenyApproval
  BY <1>0, <1>5 DEF DenyApproval, TypeOK
<1>6. ASSUME NEW b \in Actions, ClosePending(b) \/ CloseMismatch(b)
      PROVE  state'[a] = state[a]
  BY <1>0, <1>6 DEF ClosePending, CloseMismatch, TypeOK
<1>7. ASSUME \/ \E b \in Terminals : TerminalExecute(b)
             \/ \E b \in Actions, g \in BOOLEAN : ResolveApproval(b, g)
             \/ LedgerDecision
      PROVE  state'[a] = state[a]
  BY <1>7 DEF TerminalExecute, ResolveApproval, LedgerDecision
<1> QED
  BY <1>1, <1>2, <1>3, <1>4, <1>5, <1>6, <1>7
     DEF IpcStep, AgentStep, TerminalAllowed, TerminalApproval, CheckAllowed,
         AgentAllowed, AgentApproval

\* or by a start.
LEMMA EnvironmentKeepsClosed ==
    ASSUME IInv, Environment, NEW a \in Actions, state[a] \in Closed
    PROVE  state'[a] = state[a]
<1>1. ASSUME NEW E \in SUBSET Actions, Recover(E) PROVE state'[a] = state[a]
  BY <1>1, Calm DEF Recover, RecoveredState, Closed
<1>2. CASE \/ \E b \in Actions : ApprovalGc(b) \/ DeadlinePasses(b)
           \/ Crash \/ RecoverFails
  BY <1>2 DEF ApprovalGc, DeadlinePasses, Crash, RecoverFails, rows
<1> QED BY <1>1, <1>2 DEF Environment

\* A closed row is never reopened or closed differently.
THEOREM NeverReopened == Spec => ClosedIsFinal
<1> DEFINE Final ==
         \A a \in Actions : state[a] \in Closed => state'[a] = state[a]
<1>1. IInv /\ [Next]_vars => [Final]_vars
  <2> SUFFICES ASSUME IInv, Next PROVE Final
    OBVIOUS
  <2> SUFFICES ASSUME NEW a \in Actions, state[a] \in Closed
               PROVE  state'[a] = state[a]
    OBVIOUS
  <2> QED BY WorkerKeepsClosed, CommandKeepsClosed, EnvironmentKeepsClosed
          DEF Next
<1> QED BY <1>1, Invariance, PTL DEF Spec, ClosedIsFinal

-----------------------------------------------------------------------------
\* What may become of the intent of one action.
OneShot(a) ==
    /\ intent[a] \in {"claimed", "expired", "lost"} =>
          intent'[a] \in {intent[a], "deleted"}
    /\ intent[a] = "denied" => intent'[a] = "denied"
    /\ intent[a] = "deleted" => intent'[a] = "deleted"

\* A decided intent is not changed by the worker of any action,
LEMMA WorkerIsOneShot ==
    ASSUME IInv, NEW b \in Actions, WorkerStep(b), NEW a \in Actions
    PROVE  OneShot(a)
<1> USE DEF OneShot
<1>0. TypeOK /\ WorkerOK(b)
  BY DEF IInv
<1>1. CASE Grant(b)
  BY <1>0, <1>1 DEF Grant, Grantable, TypeOK
<1>2. CASE GrantExpired(b)
  BY <1>0, <1>2 DEF GrantExpired, TypeOK
<1>3. CASE Claim(b)
  BY <1>0, <1>3 DEF Claim, TypeOK
<1>4. CASE ClaimRefused(b)
  BY <1>0, <1>4 DEF ClaimRefused, TypeOK
<1>5. CASE AgentRefuse(b)
  BY <1>0, <1>5 DEF AgentRefuse, TypeOK
<1>6. CASE \/ GrantDenied(b) \/ LedgerTimedOut(b) \/ ClaimError(b)
           \/ MarkStarted(b) \/ SkipMarkStarted(b) \/ LedgerCall(b)
           \/ RunTool(b) \/ AgentPolicyChanged(b) \/ MarkReturned(b)
           \/ Complete(b) \/ CompleteError(b) \/ MarkPendingRecovery(b)
           \/ LedgerOutcome(b) \/ Abort(b) \/ Cancel(b)
           \/ \E r \in {"ok", "err"} : ToolReturns(b, r)
  <2>1. UNCHANGED intent
    BY <1>6 DEF GrantDenied, LedgerTimedOut, ClaimError, MarkStarted,
       SkipMarkStarted, LedgerCall, RunTool, AgentPolicyChanged, MarkReturned,
       Complete, CompleteError, MarkPendingRecovery, LedgerOutcome, Abort,
       Cancel, ToolReturns
  <2> QED BY <2>1
<1> QED
  BY <1>1, <1>2, <1>3, <1>4, <1>5, <1>6 DEF WorkerStep, Progress

\* by any command,
LEMMA CommandIsOneShot ==
    ASSUME IInv, IpcStep \/ AgentStep, NEW a \in Actions
    PROVE  OneShot(a)
<1> USE DEF OneShot
<1>0. TypeOK
  BY DEF IInv
<1>1. ASSUME NEW b \in Actions, PrepareApproval(b) PROVE OneShot(a)
  <2>1. intent[b] = "none"
    BY <1>1 DEF IInv, RowOK, PrepareApproval, MayPrepare
  <2> QED BY <1>0, <1>1, <2>1 DEF PrepareApproval, TypeOK
<1>2. CASE DenyApproval
  BY <1>0, <1>2 DEF DenyApproval, Deniable, TypeOK
<1>3. ASSUME NEW b \in Actions, ClosePending(b) PROVE OneShot(a)
  BY <1>0, <1>3 DEF ClosePending, TypeOK
<1>4. ASSUME \/ \E b \in Actions : PrepareAllow(b)
             \/ \E b \in Agents : AgentDenied(b)
             \/ \E c \in Checks : CompleteCheck(c)
             \/ \E b \in Terminals : TerminalExecute(b)
             \/ \E b \in Actions, g \in BOOLEAN : ResolveApproval(b, g)
             \/ LedgerDecision
             \/ \E b \in Actions : CloseMismatch(b)
      PROVE  OneShot(a)
  <2>1. UNCHANGED intent
    BY <1>4 DEF PrepareAllow, AgentDenied, CompleteCheck, TerminalExecute,
       ResolveApproval, LedgerDecision, CloseMismatch
  <2> QED BY <2>1
<1> QED
  BY <1>1, <1>2, <1>3, <1>4
     DEF IpcStep, AgentStep, TerminalAllowed, TerminalApproval, CheckAllowed,
         AgentAllowed, AgentApproval

\* or by garbage collection or a start, except that its row is deleted.
LEMMA EnvironmentIsOneShot ==
    ASSUME IInv, Environment, NEW a \in Actions
    PROVE  OneShot(a)
<1> USE DEF OneShot
<1>0. TypeOK
  BY DEF IInv
<1>1. ASSUME NEW E \in SUBSET Actions, Recover(E) PROVE OneShot(a)
  BY <1>0, <1>1 DEF Recover, TypeOK
<1>2. ASSUME NEW b \in Actions, ApprovalGc(b) PROVE OneShot(a)
  BY <1>0, <1>2 DEF ApprovalGc, Collectable, TypeOK
<1>3. CASE (\E b \in Actions : DeadlinePasses(b)) \/ Crash \/ RecoverFails
  BY <1>3 DEF DeadlinePasses, Crash, RecoverFails
<1> QED BY <1>1, <1>2, <1>3 DEF Environment

\* A decided intent never becomes open or claimed again; a denial is kept.
THEOREM OneShotIntents == Spec => IntentIsOneShot
<1> DEFINE Decided == \A a \in Actions :
         /\ intent[a] \in {"claimed", "expired", "lost"} =>
               intent'[a] \in {intent[a], "deleted"}
         /\ intent[a] = "denied" => intent'[a] = "denied"
         /\ intent[a] = "deleted" => intent'[a] = "deleted"
<1>1. IInv /\ [Next]_vars => [Decided]_vars
  <2> SUFFICES ASSUME IInv, Next PROVE Decided
    OBVIOUS
  <2>1. \A a \in Actions : OneShot(a)
    BY WorkerIsOneShot, CommandIsOneShot, EnvironmentIsOneShot DEF Next
  <2> QED BY <2>1 DEF OneShot
<1> QED BY <1>1, Invariance, PTL DEF Spec, IntentIsOneShot
=============================================================================
