--------------------------- MODULE UpdateTransaction ---------------------------
(***************************************************************************)
(* The transactional updater (crates/evohime-updater/src/lib.rs): the      *)
(* backup, the journal transaction.json, the copy of a package over the    *)
(* installation, the health handshake, commit, rollback and recovery; and  *)
(* the two programs that run it: the worker that applies an update and the *)
(* supervisor, which recovers an interrupted one before it starts Core.    *)
(*                                                                         *)
(* The disk (install, backup, state) survives a crash; everything else is  *)
(* the memory of the one process at work.  Every file operation is a step, *)
(* so a crash or an error may fall between any two of them.  A copied file *)
(* is first removed, then partly written, then whole                       *)
(* (copy_file_resilient); the journal and the UI pointer of an apply are   *)
(* replaced by a rename, hence in one step.                                *)
(***************************************************************************)
EXTENDS Integers, FiniteSets

CONSTANTS
    Required,     \* UpdateTransaction::COMPONENTS
    Extra,        \* SELECTABLE_COMPONENTS that are not in COMPONENTS
    Payload,      \* files of the installed tree that no component list names
    ShellFiles,   \* what a shell-host package replaces
    UiVersions,   \* the bundles ui-bundles/<version>
    Releases,     \* what a whole file can hold
    Base,         \* the release installed first
    Jobs,         \* the updates a worker may be asked for
    MaxUpdates,   \* bound: workers started
    MaxBreaks     \* bound: crashes and errors together

Native == Required \cup Extra
Files == Native \cup Payload \cup UiVersions \cup {"ptr"}
Contents == {"absent", "torn"} \cup Releases \cup UiVersions

Phases == {"none", "installing", "committed", "rollback_required", "restored"}
Scopes == {"components", "tree"}
Kinds == {"installer", "staged", "selected", "set", "ui"}

Transactions ==
    [phase : Phases, scope : Scopes, components : SUBSET Native, backed : SUBSET Native,
     ui : UiVersions \cup {"none"}, prev : Contents]

JobRecords ==
    [kind : Kinds, native : SUBSET Native, ui : UiVersions \cup {"none"},
     shell : BOOLEAN, health : BOOLEAN, release : Releases]

ASSUME UpdateAssumption ==
    /\ {"absent", "torn"} \cap (Releases \cup UiVersions) = {}
    /\ Native \cap Payload = {} /\ Required \cap Extra = {}
    /\ (Native \cup Payload) \cap (UiVersions \cup {"ptr"}) = {}
    /\ {"ptr", "none"} \cap UiVersions = {} /\ "none" \notin Files
    /\ ShellFiles \subseteq Required \cup Payload
    /\ Base \in Releases /\ Jobs \subseteq JobRecords /\ Jobs # {}
    /\ \A j \in Jobs : j.kind # "set" => ~j.shell
    /\ \A j \in Jobs : j.kind \in {"installer", "staged"} => j.native = {} /\ j.ui = "none"
    /\ \A j \in Jobs : j.kind = "selected" => j.native # {} /\ j.ui = "none" /\ ~j.health
    /\ \A j \in Jobs : j.kind = "set" => j.native # {} \/ j.ui # "none" \/ j.shell
    /\ \A j \in Jobs : j.kind = "ui" => j.native = {} /\ j.ui # "none"
    /\ MaxUpdates \in Nat /\ MaxBreaks \in Nat

VARIABLES
    install,    \* the installation directory
    backup,     \* the backup directory of the transaction
    state,      \* transaction.json; phase "none" when there is no file
    pc,         \* what the process at work does next
    who,        \* "worker" or "supervisor"
    ctx,        \* why a rollback or a clean-up runs: "recovery", "commit", "failure"
    job,        \* the arguments of the worker
    tx,         \* the UpdateTransaction value in memory
    todo,       \* files still to be copied or restored
    cur,        \* the file in the middle; new_ui_target once the pointer is switched
    running,    \* the product is up
    hist,       \* history: install when the last transaction was prepared, its job
    updates, breaks

disk == <<install, backup, state>>
mem == <<pc, who, ctx, job, tx, todo, cur>>
counts == <<updates, breaks>>
vars == <<disk, mem, running, hist, counts>>

Pcs == {"idle", "recover", "prepare", "begin", "record_ui", "copy", "copying", "ui", "ui_ptr",
        "health", "fail", "fail_ptr", "mark", "restore", "restoring", "restore_ui",
        "restore_ptr", "restoring_ptr", "restored", "discard", "forget"}

AnyJob == CHOOSE j \in Jobs : TRUE
EmptyDir == [f \in Files |-> "absent"]
NoTransaction == [phase |-> "none", scope |-> "components", components |-> {}, backed |-> {},
                  ui |-> "none", prev |-> "absent"]

TypeOK ==
    /\ install \in [Files -> Contents] /\ backup \in [Files -> Contents]
    /\ state \in Transactions /\ tx \in Transactions
    /\ pc \in Pcs /\ who \in {"worker", "supervisor"} /\ ctx \in {"recovery", "commit", "failure"}
    /\ job \in Jobs /\ todo \subseteq Files /\ cur \in Files \cup {"none"}
    /\ running \in BOOLEAN
    /\ hist \in [base : [Files -> Contents], job : Jobs, undone : BOOLEAN, loose : BOOLEAN,
                stuck : BOOLEAN]
    /\ updates \in 0..MaxUpdates /\ breaks \in 0..MaxBreaks

Init ==
    /\ install \in {[f \in Files |-> IF f \in UiVersions \cup {"ptr"} THEN "absent"
                                     ELSE IF f \in missing THEN "absent" ELSE Base]
                        : missing \in {{}, Extra}}
    /\ backup = EmptyDir /\ state = NoTransaction /\ tx = NoTransaction
    /\ pc = "idle" /\ who = "supervisor" /\ ctx = "recovery" /\ todo = {} /\ cur = "none"
    /\ job = AnyJob /\ running = FALSE
    /\ hist = [base |-> install, job |-> job, undone |-> FALSE, loose |-> FALSE, stuck |-> FALSE]
    /\ updates = 0 /\ breaks = 0

--------------------------------------------------------------------------------
(***************************************************************************)
(* What a job replaces.                                                    *)
(***************************************************************************)

IsTree(j) == j.kind \in {"installer", "staged"} \/ j.shell

(* The files copied over the installation before the UI bundle: the whole  *)
(* package, or the shell payload and the selected components.              *)
Items(j) ==
    IF j.kind \in {"installer", "staged"} THEN Native \cup Payload
    ELSE j.native \cup (IF j.shell THEN ShellFiles ELSE {})

(* The process at work ends and its memory with it; a supervisor that ends *)
(* well starts the product.                                                *)
Exit(up) ==
    /\ pc' = "idle" /\ running' = up /\ tx' = NoTransaction /\ todo' = {} /\ cur' = "none"
    /\ who' = "supervisor" /\ ctx' = "recovery" /\ job' = AnyJob

(* An error leaves the process.  The supervisor goes on with its start     *)
(* when the error is a locked file (is_deferred_update_recovery_error) and *)
(* gives up otherwise; the worker exits.                                   *)
Abort == \E up \in IF who = "supervisor" THEN BOOLEAN ELSE {FALSE} : Exit(up)

(* What follows a recovery that succeeded.                                 *)
Recovered ==
    \/ /\ who = "supervisor" /\ Exit(TRUE)
    \/ /\ who = "worker" /\ pc' = "prepare" /\ UNCHANGED <<who, ctx, job, tx, todo, cur, running>>

Goto(l) == pc' = l /\ UNCHANGED <<who, ctx, job, tx, todo, cur, running>>

Break == breaks < MaxBreaks /\ breaks' = breaks + 1 /\ UNCHANGED updates

--------------------------------------------------------------------------------
(***************************************************************************)
(* Who starts.                                                             *)
(***************************************************************************)

(* A worker starts on a job.  The product has left its files by then       *)
(* (wait_for_process_exit, wait_until_writable).  apply_selected_staged    *)
(* goes straight to its transaction and apply_ui_bundle_staged keeps none; *)
(* the others recover an interrupted transaction first.                    *)
StartUpdate(j) ==
    /\ pc = "idle" /\ updates < MaxUpdates
    /\ pc' = CASE j.kind = "selected" -> "prepare" [] j.kind = "ui" -> "ui" [] OTHER -> "recover"
    /\ who' = "worker" /\ ctx' = "recovery" /\ job' = j /\ running' = FALSE
    /\ updates' = updates + 1
    /\ UNCHANGED <<disk, tx, todo, cur, hist, breaks>>

(* The supervisor of a product the user starts recovers first (run).       *)
StartProduct ==
    /\ pc = "idle" /\ ~running
    /\ pc' = "recover" /\ who' = "supervisor" /\ ctx' = "recovery"
    /\ UNCHANGED <<disk, job, tx, todo, cur, running, hist, counts>>

StopProduct ==
    /\ pc = "idle" /\ running /\ running' = FALSE
    /\ UNCHANGED <<disk, mem, hist, counts>>

(* The machine stops: the memory of the process and the product are gone.  *)
Crash ==
    /\ pc # "idle" /\ Break
    /\ Exit(FALSE) /\ UNCHANGED <<disk, hist>>

--------------------------------------------------------------------------------
(***************************************************************************)
(* UpdateTransaction::recover.                                             *)
(***************************************************************************)

(* validate_recovered_state accepts the four COMPONENTS and nothing else.  *)
ValidRecoveredState(s) ==
    /\ s.components \subseteq Required
    /\ s.backed \subseteq s.components

(* An empty component list is read as the list of the required ones; the   *)
(* backed up components are the recorded ones.                             *)
RecoveredTransaction(s) ==
    [s EXCEPT !.components = IF @ = {} THEN Required ELSE @]

RecoverNothing ==
    /\ pc = "recover" /\ state.phase = "none"
    /\ Recovered /\ UNCHANGED <<disk, hist, counts>>

RecoverInvalid ==
    /\ pc = "recover" /\ state.phase # "none" /\ ~ValidRecoveredState(state)
    /\ Exit(FALSE) /\ UNCHANGED <<disk, hist, counts>>

(* Mutant: a finished transaction is left as it is.                        *)
RecoverFinishedKeeps ==
    /\ pc = "recover" /\ state.phase \in {"committed", "restored"} /\ ValidRecoveredState(state)
    /\ Recovered /\ UNCHANGED <<disk, hist, counts>>

RecoverFinished ==
    /\ pc = "recover" /\ state.phase \in {"committed", "restored"} /\ ValidRecoveredState(state)
    /\ pc' = "discard" /\ tx' = RecoveredTransaction(state)
    /\ UNCHANGED <<disk, who, ctx, job, todo, cur, running, hist, counts>>

(* Mutant: recovery rolls a committed transaction back as well.            *)
RecoverInterruptedOrCommitted ==
    /\ pc = "recover" /\ state.phase \notin {"none", "restored"} /\ ValidRecoveredState(state)
    /\ pc' = "mark" /\ tx' = RecoveredTransaction(state)
    /\ UNCHANGED <<disk, who, ctx, job, todo, cur, running, hist, counts>>

RecoverInterrupted ==
    /\ pc = "recover" /\ state.phase \in {"installing", "rollback_required"}
    /\ ValidRecoveredState(state)
    /\ pc' = "mark" /\ tx' = RecoveredTransaction(state)
    /\ UNCHANGED <<disk, who, ctx, job, todo, cur, running, hist, counts>>

--------------------------------------------------------------------------------
(***************************************************************************)
(* Preparing: prepare_with, copy_current_components, record_ui.            *)
(***************************************************************************)

PrepareRefused ==
    /\ pc = "prepare" /\ state.phase # "none"
    /\ Exit(FALSE) /\ UNCHANGED <<disk, hist, counts>>

(* The backup is complete before the journal is written; until then it is  *)
(* a directory nobody refers to.                                           *)
Prepare ==
    /\ pc = "prepare" /\ state.phase = "none"
    /\ tx' = [NoTransaction EXCEPT
                !.scope = IF IsTree(job) THEN "tree" ELSE "components",
                !.components = IF IsTree(job) THEN {} ELSE job.native,
                !.backed = IF IsTree(job) THEN {} ELSE {f \in job.native : install[f] # "absent"}]
    /\ backup' = [f \in Files |-> IF IsTree(job) \/ f \in job.native THEN install[f] ELSE "absent"]
    /\ hist' = [base |-> install, job |-> job, undone |-> FALSE, loose |-> FALSE, stuck |-> FALSE]
    /\ pc' = "begin"
    /\ UNCHANGED <<install, state, who, ctx, job, todo, cur, running, counts>>

WriteInstalling ==
    /\ pc = "begin"
    /\ state' = [tx EXCEPT !.phase = "installing"]
    /\ todo' = Items(job)
    /\ pc' = IF job.ui = "none" THEN "copy" ELSE "record_ui"
    /\ UNCHANGED <<install, backup, who, ctx, job, tx, cur, running, hist, counts>>

(* Mutant: the UI half is kept in memory and never written to the journal. *)
RecordUiInMemory ==
    /\ pc = "record_ui"
    /\ tx' = [tx EXCEPT !.ui = job.ui, !.prev = install["ptr"]]
    /\ pc' = "copy"
    /\ UNCHANGED <<disk, who, ctx, job, todo, cur, running, hist, counts>>

(* The pointer was read before the transaction was prepared, by the same   *)
(* process.                                                                *)
RecordUi ==
    /\ pc = "record_ui"
    /\ tx' = [tx EXCEPT !.ui = job.ui, !.prev = install["ptr"]]
    /\ state' = [tx' EXCEPT !.phase = "installing"]
    /\ pc' = "copy"
    /\ UNCHANGED <<install, backup, who, ctx, job, todo, cur, running, hist, counts>>

(* An error here returns at once, without a rollback.                      *)
PrepareFails ==
    /\ pc \in {"prepare", "begin", "record_ui"} /\ Break
    /\ Exit(FALSE) /\ UNCHANGED <<disk, hist>>

--------------------------------------------------------------------------------
(***************************************************************************)
(* Applying: the copies, the UI bundle and its pointer, the health         *)
(* handshake with the relaunched product, the commit.                      *)
(***************************************************************************)

CopyBegin(f) ==
    /\ pc = "copy" /\ f \in todo
    /\ \E c \in {"absent", "torn"} : install' = [install EXCEPT ![f] = c]
    /\ cur' = f /\ pc' = "copying"
    /\ UNCHANGED <<backup, state, who, ctx, job, tx, todo, running, hist, counts>>

CopyEnd ==
    /\ pc = "copying"
    /\ install' = [install EXCEPT ![cur] = job.release]
    /\ todo' = todo \ {cur} /\ cur' = "none" /\ pc' = "copy"
    /\ UNCHANGED <<backup, state, who, ctx, job, tx, running, hist, counts>>

(* verify_installation of the whole-package updates is part of this step.  *)
CopyDone ==
    /\ pc = "copy" /\ todo = {}
    /\ Goto(IF job.kind \in {"installer", "staged"} /\ \E f \in Required : install[f] = "absent"
            THEN "fail" ELSE IF job.ui = "none" THEN "health" ELSE "ui")
    /\ UNCHANGED <<disk, hist, counts>>

UiExists ==
    /\ pc = "ui" /\ install[job.ui] # "absent"
    /\ IF job.kind = "ui" THEN Exit(FALSE) ELSE Goto("fail")
    /\ UNCHANGED <<disk, hist, counts>>

(* The bundle is copied aside and renamed into its place.  Without a       *)
(* transaction the previous pointer is kept in memory only.                *)
InstallBundle ==
    /\ pc = "ui" /\ install[job.ui] = "absent"
    /\ install' = [install EXCEPT ![job.ui] = job.release]
    /\ tx' = IF job.kind = "ui" THEN [tx EXCEPT !.ui = job.ui, !.prev = install["ptr"]] ELSE tx
    /\ hist' = IF job.kind = "ui" THEN [hist EXCEPT !.loose = TRUE] ELSE hist
    /\ pc' = "ui_ptr"
    /\ UNCHANGED <<backup, state, who, ctx, job, todo, cur, running, counts>>

SwitchPointer ==
    /\ pc = "ui_ptr"
    /\ install' = [install EXCEPT !["ptr"] = job.ui]
    /\ cur' = job.ui /\ pc' = "health"
    /\ UNCHANGED <<backup, state, who, ctx, job, tx, todo, running, hist, counts>>

(* The relaunched product reports health, or nothing asks for it; the      *)
(* supervisor of that product does not recover (EVOHIME_POST_UPDATE).      *)
Commit ==
    /\ pc = "health"
    /\ \/ /\ job.kind = "ui" /\ Exit(job.health) /\ UNCHANGED state
       \/ /\ job.kind # "ui" /\ state' = [tx EXCEPT !.phase = "committed"]
          /\ pc' = "discard" /\ ctx' = "commit"
          /\ UNCHANGED <<who, job, tx, todo, cur, running>>
    /\ UNCHANGED <<install, backup, hist, counts>>

HealthTimesOut ==
    /\ pc = "health" /\ job.health
    /\ Goto("fail") /\ UNCHANGED <<disk, hist, counts>>

(* The installer, a copy, a rename or the relaunch fails.                  *)
ApplyFails ==
    /\ pc \in {"copy", "copying", "ui", "ui_ptr", "health"} /\ Break
    /\ pc = "health" => job.kind # "selected"
    /\ IF job.kind = "ui" /\ pc = "ui" THEN Exit(FALSE) ELSE Goto("fail")
    /\ UNCHANGED <<disk, hist>>

(* The committed phase cannot be written: the callers roll back, except    *)
(* apply_selected_staged, which returns the error.                         *)
CommitFails ==
    /\ pc = "health" /\ job.kind # "ui" /\ Break
    /\ IF job.kind = "selected" THEN Exit(FALSE)
       ELSE /\ pc' = "mark" /\ ctx' = "failure"
            /\ UNCHANGED <<who, job, tx, todo, cur, running>>
    /\ UNCHANGED <<disk, hist>>

--------------------------------------------------------------------------------
(***************************************************************************)
(* The failure path.  A component set undoes its UI half itself before the *)
(* rollback does; an update of the UI alone has nothing else.              *)
(***************************************************************************)

FailPlain ==
    /\ pc = "fail" /\ job.kind \notin {"set", "ui"}
    /\ pc' = "mark" /\ ctx' = "failure"
    /\ UNCHANGED <<disk, who, job, tx, todo, cur, running, hist, counts>>

(* The error of removing a bundle is ignored, and may leave half of it.    *)
RemoveBundle(v) ==
    \/ install' = [install EXCEPT ![v] = "absent"] /\ UNCHANGED counts
    \/ /\ install[v] # "absent" /\ Break
       /\ \E c \in {"torn", install[v]} : install' = [install EXCEPT ![v] = c]

(* The bundle is removed when its pointer was switched to it; an update of *)
(* the UI alone always installed it itself.                                *)
FailBundle ==
    /\ pc = "fail" /\ job.kind \in {"set", "ui"}
    /\ IF job.kind = "ui" \/ (job.ui # "none" /\ cur = job.ui)
       THEN RemoveBundle(job.ui) ELSE UNCHANGED <<install, counts>>
    /\ Goto("fail_ptr") /\ UNCHANGED <<backup, state, hist>>

(* An update of the UI alone ends here, a set goes on to the rollback.     *)
AfterFailure ==
    IF job.kind = "ui" THEN Exit(FALSE)
    ELSE /\ pc' = "mark" /\ ctx' = "failure"
         /\ UNCHANGED <<who, job, tx, todo, cur, running>>

(* Some(bytes) is written back, None removes the pointer -- and it is None *)
(* too when the set holds no UI bundle and the pointer was never read.     *)
FailPointer ==
    /\ pc = "fail_ptr"
    /\ install' = [install EXCEPT !["ptr"] = tx.prev]
    /\ AfterFailure /\ UNCHANGED <<backup, state, hist, counts>>

(* The pointer cannot be written or removed.  A set ignores the error.     *)
FailPointerFails ==
    /\ pc = "fail_ptr" /\ Break
    /\ \E c \in {install["ptr"], IF tx.prev = "absent" THEN install["ptr"] ELSE "torn"} :
            install' = [install EXCEPT !["ptr"] = c]
    /\ AfterFailure /\ UNCHANGED <<backup, state, hist>>

--------------------------------------------------------------------------------
(***************************************************************************)
(* UpdateTransaction::rollback.                                            *)
(***************************************************************************)

MarkRollback ==
    /\ pc = "mark"
    /\ state' = [tx EXCEPT !.phase = "rollback_required"]
    /\ todo' = IF tx.scope = "tree" THEN {f \in Files : backup[f] # "absent"} ELSE tx.components
    /\ cur' = "none" /\ pc' = "restore"
    /\ UNCHANGED <<install, backup, who, ctx, job, tx, running, hist, counts>>

(* restore_file copies aside, removes the destination and renames;         *)
(* copy_tree removes the destination and copies into it.                   *)
RestoreBegin(f) ==
    /\ pc = "restore" /\ f \in todo /\ backup[f] # "absent"
    /\ tx.scope = "tree" \/ f \in tx.backed
    /\ \E c \in IF tx.scope = "tree" THEN {"absent", "torn"} ELSE {"absent"} :
            install' = [install EXCEPT ![f] = c]
    /\ cur' = f /\ pc' = "restoring"
    /\ UNCHANGED <<backup, state, who, ctx, job, tx, todo, running, hist, counts>>

RestoreEnd ==
    /\ pc = "restoring"
    /\ install' = [install EXCEPT ![cur] = backup[cur]]
    /\ todo' = todo \ {cur} /\ cur' = "none" /\ pc' = "restore"
    /\ UNCHANGED <<backup, state, who, ctx, job, tx, running, hist, counts>>

(* A component that was not there before the update is removed.            *)
RemoveAdded(f) ==
    /\ pc = "restore" /\ f \in todo /\ tx.scope = "components" /\ f \notin tx.backed
    /\ install' = [install EXCEPT ![f] = "absent"]
    /\ todo' = todo \ {f}
    /\ UNCHANGED <<backup, state, pc, who, ctx, job, tx, cur, running, hist, counts>>

(* "backup component is missing", and any other error of a restore.        *)
BackupMissing(f) ==
    /\ pc = "restore" /\ f \in todo /\ tx.scope = "components"
    /\ f \in tx.backed /\ backup[f] = "absent"
    /\ Abort /\ UNCHANGED <<disk, hist, counts>>

RestoreFails ==
    /\ pc \in {"mark", "restoring", "restoring_ptr", "restored"} /\ Break
    /\ Abort /\ UNCHANGED <<disk, hist>>

(* Mutant: the rollback goes on with files still to restore.               *)
RestoreUiEarly ==
    /\ pc = "restore"
    /\ IF tx.ui # "none" THEN RemoveBundle(tx.ui) ELSE UNCHANGED <<install, counts>>
    /\ Goto("restore_ptr") /\ UNCHANGED <<backup, state, hist>>

RestoreUi ==
    /\ pc = "restore" /\ todo = {}
    /\ IF tx.ui # "none" THEN RemoveBundle(tx.ui) ELSE UNCHANGED <<install, counts>>
    /\ Goto("restore_ptr") /\ UNCHANGED <<backup, state, hist>>

(* The pointer is written in place, so a crash can leave it torn; it is    *)
(* removed when there was none, and left alone without a UI bundle.        *)
RestorePointerBegin ==
    /\ pc = "restore_ptr"
    /\ install' = IF tx.prev # "absent" THEN [install EXCEPT !["ptr"] = "torn"] ELSE install
    /\ Goto("restoring_ptr") /\ UNCHANGED <<backup, state, hist, counts>>

RestorePointerEnd ==
    /\ pc = "restoring_ptr"
    /\ install' = IF tx.prev # "absent" \/ tx.ui # "none"
                  THEN [install EXCEPT !["ptr"] = tx.prev] ELSE install
    /\ Goto("restored") /\ UNCHANGED <<backup, state, hist, counts>>

(* A pointer to be removed may resist: the error is ignored and the        *)
(* rollback goes on.                                                       *)
RestorePointerStays ==
    /\ pc = "restoring_ptr" /\ tx.prev = "absent" /\ tx.ui # "none" /\ install["ptr"] # "absent"
    /\ Break /\ hist' = [hist EXCEPT !.stuck = TRUE]
    /\ Goto("restored") /\ UNCHANGED disk

WriteRestored ==
    /\ pc = "restored"
    /\ state' = [tx EXCEPT !.phase = "restored"]
    /\ Goto("discard") /\ UNCHANGED <<install, backup, hist, counts>>

--------------------------------------------------------------------------------
(***************************************************************************)
(* The end of commit, rollback and recover: the backup goes, file by file, *)
(* and then the journal.                                                   *)
(***************************************************************************)

DiscardFile(f) ==
    /\ pc = "discard" /\ backup[f] # "absent"
    /\ backup' = [backup EXCEPT ![f] = "absent"]
    /\ UNCHANGED <<install, state, mem, running, hist, counts>>

DiscardDone ==
    /\ pc = "discard" /\ backup = EmptyDir
    /\ Goto("forget") /\ UNCHANGED <<disk, hist, counts>>

ForgetState ==
    /\ pc = "forget"
    /\ state' = NoTransaction
    /\ CASE ctx = "recovery" -> Recovered [] ctx = "commit" -> Exit(job.health)
         [] OTHER -> Exit(FALSE)
    /\ UNCHANGED <<install, backup, hist, counts>>

(* commit() reports an error of its clean-up like any other, and its       *)
(* caller rolls the committed update back.                                 *)
CleanupFails ==
    /\ pc \in {"discard", "forget"} /\ Break
    /\ IF ctx = "commit"
       THEN IF job.kind = "selected"
            THEN Exit(FALSE) /\ UNCHANGED hist
            ELSE /\ pc' = "mark" /\ ctx' = "failure" /\ hist' = [hist EXCEPT !.undone = TRUE]
                 /\ UNCHANGED <<who, job, tx, todo, cur, running>>
       ELSE Abort /\ UNCHANGED hist
    /\ UNCHANGED disk

--------------------------------------------------------------------------------

Step ==
    \/ RecoverNothing \/ RecoverInvalid \/ RecoverFinished \/ RecoverInterrupted
    \/ PrepareRefused \/ Prepare \/ WriteInstalling \/ RecordUi
    \/ \E f \in Files : CopyBegin(f)
    \/ CopyEnd \/ CopyDone \/ UiExists \/ InstallBundle \/ SwitchPointer \/ Commit
    \/ HealthTimesOut
    \/ FailPlain \/ FailBundle \/ FailPointer
    \/ MarkRollback
    \/ \E f \in Files : RestoreBegin(f) \/ RemoveAdded(f) \/ BackupMissing(f) \/ DiscardFile(f)
    \/ RestoreEnd \/ RestoreUi \/ RestorePointerBegin \/ RestorePointerEnd \/ WriteRestored
    \/ DiscardDone \/ ForgetState

Faults ==
    \/ PrepareFails \/ ApplyFails \/ CommitFails \/ FailPointerFails
    \/ RestoreFails \/ RestorePointerStays \/ CleanupFails

Next ==
    \/ Step \/ Faults \/ Crash
    \/ \E j \in Jobs : StartUpdate(j)
    \/ StartProduct \/ StopProduct

Spec == Init /\ [][Next]_vars

(* A process that runs goes on, and a user whose product is down starts it *)
(* again, and stops it now and then.                                       *)
FairSpec == Spec /\ WF_vars(Step) /\ WF_vars(StartProduct) /\ WF_vars(StopProduct)

--------------------------------------------------------------------------------
(***************************************************************************)
(* Properties.                                                             *)
(***************************************************************************)

(* No process is at work and no journal is left.                           *)
Settled == pc = "idle" /\ state.phase = "none"

(* What the last prepared update was to leave in a file.                   *)
Goal(f) ==
    CASE f \in Items(hist.job) -> hist.job.release
      [] f = hist.job.ui -> hist.job.release
      [] f = "ptr" /\ hist.job.ui # "none" -> hist.job.ui
      [] OTHER -> hist.base[f]

(* A rollback of a whole tree leaves the files the package added, and a    *)
(* bundle that could not be removed stays behind, unreferenced.            *)
Old(F) == \A f \in F : \/ install[f] = hist.base[f]
                        \/ /\ hist.base[f] = "absent"
                           /\ IsTree(hist.job) \/ f = hist.job.ui
New(F) == \A f \in F : install[f] = Goal(f)

(* What a rollback could not undo.                                         *)
Stuck == IF hist.stuck THEN {"ptr"} ELSE {}

UiOnly(j) == j.kind = "set" /\ j.native = {} /\ ~j.shell
Tracked == ~hist.undone /\ ~UiOnly(hist.job)

(* Whatever crashes and errors happened on the way, once the transaction   *)
(* is closed the native files and the payload are all those of the         *)
(* previous installation or all those of the update (commit, rollback,     *)
(* recover).  Two cases are left out, see UnrelatedFilesKept and           *)
(* CleanupFails: a set that holds nothing but a UI bundle, and a rollback  *)
(* after the commit was recorded.                                          *)
NativeFilesAtomic ==
    Settled /\ Tracked =>
        Old(Native \cup Payload) \/ New(Native \cup Payload)

(* The same for the whole installation, the UI bundles and their pointer   *)
(* included, when the bundle is a new one and the pointer was read: native *)
(* files and renderer change together or not at all                        *)
(* (apply_component_set_staged).  A pointer that should go but could not   *)
(* be removed is the one thing a rollback may leave (RestorePointerStays). *)
WholeUpdateAtomic ==
    (/\ Settled /\ Tracked /\ ~hist.loose
     /\ hist.job.ui # "none" => hist.base[hist.job.ui] = "absent"
     /\ hist.job.kind = "set" => hist.job.ui # "none" \/ hist.job.shell)
    => Old(Files \ Stuck) \/ New(Files)

(* While a transaction may still be rolled back, each file it has touched  *)
(* can be restored from the backup (prepare_with writes the backup before  *)
(* the journal; rollback drops it only after the restored phase).          *)
EveryChangeIsBackedUp ==
    state.phase \in {"installing", "rollback_required"} /\ Tracked =>
        \A f \in Native \cup Payload :
            install[f] # hist.base[f] =>
                \/ hist.base[f] # "absent" /\ backup[f] = hist.base[f]
                \/ hist.base[f] = "absent" /\ f \notin state.backed

(* A committed update is never undone: not by a crash in the clean-up, not *)
(* by a later recovery (recover on the Committed phase).                   *)
CommittedStays ==
    [][state.phase = "committed" /\ ~hist'.undone =>
        /\ state'.phase \in {"committed", "none"}
        /\ \A f \in Native \cup Payload : install'[f] = install[f]]_vars

(* An interrupted update of the required components is resolved by the     *)
(* next starts of the product or of an update: crashes and errors are      *)
(* finite here, and each recovery starts again where the last one stopped. *)
InterruptedUpdateResolves ==
    state.phase # "none" /\ ValidRecoveredState(state) ~> state.phase = "none" \/ hist.undone

----------------------------------------------------------------------------
(* Statements that the code does not keep.  No run checks them; the README *)
(* lists them as known deviations.                                         *)

(* lib.rs: an interrupted update can recover or roll back "without         *)
(* modifying unrelated installation files".                                *)
UnrelatedFilesKept ==
    Settled => \A f \in (Native \cup Payload) \ Items(hist.job) : install[f] = hist.base[f]

(* lib.rs: operations keep their state "so an interrupted update can       *)
(* recover or roll back", for each component that may be updated.          *)
EveryInterruptionResolves == state.phase # "none" ~> state.phase = "none"

--------------------------------------------------------------------------------
(***************************************************************************)
(* The inductive invariant: what the journal, and the position of the      *)
(* process at work, say of the files and their backup.                     *)
(***************************************************************************)

Program == Native \cup Payload
OldAt(f) == install[f] = hist.base[f] \/ (hist.base[f] = "absent" /\ IsTree(hist.job))

(* The process works on the transaction of its job (an update of the UI    *)
(* alone has none).                                                        *)
Applying ==
    \/ pc \in {"record_ui", "copy", "copying"}
    \/ pc \in {"ui", "ui_ptr", "health", "fail", "fail_ptr"} /\ job.kind # "ui"

RollingBack == pc \in {"restore", "restoring", "restore_ptr", "restoring_ptr", "restored"}

MemoryOK ==
    /\ pc \in {"recover", "prepare"} => ctx = "recovery"
    /\ pc = "prepare" => who = "worker"
    /\ (/\ who = "worker" /\ ctx = "recovery"
        /\ pc \notin {"ui", "ui_ptr", "health", "fail", "fail_ptr"}) => job.kind # "ui"
    /\ pc \in {"ui", "ui_ptr"} => job.ui # "none"
    /\ pc = "begin" \/ Applying => job = hist.job /\ job.kind # "ui"
    /\ pc = "copying" => cur \in todo
    /\ pc \in {"record_ui", "copy", "copying"} => todo \subseteq Items(job)
    /\ pc = "restoring" => cur \in todo
    /\ pc \in {"restore", "restoring"} /\ tx.scope = "components" => todo \subseteq tx.components
    /\ Applying \/ RollingBack \/ pc \in {"mark", "discard", "forget"} => state.phase # "none"
    /\ state.phase # "none" => hist.job.kind # "ui"

PhaseOK ==
    /\ pc = "begin" => state.phase = "none"
    /\ Applying => state.phase = "installing"
    /\ pc = "mark" => state.phase \in {"installing", "rollback_required"}
    /\ RollingBack => state.phase = "rollback_required"
    /\ pc \in {"discard", "forget"} => state.phase \in {"committed", "restored"}

(* A transaction value, in memory or in the journal, describes hist.job.   *)
Describes(t) ==
    /\ t.scope = IF IsTree(hist.job) THEN "tree" ELSE "components"
    /\ t.scope = "tree" => t.backed = {}
    /\ t.scope = "components" =>
          /\ t.components = hist.job.native
          /\ t.backed = {f \in hist.job.native : hist.base[f] # "absent"}

BackedUp ==
    \A f \in Files : IsTree(hist.job) \/ f \in hist.job.native => backup[f] = hist.base[f]

OnlyItemsTouched == \A f \in Program \ Items(hist.job) : install[f] = hist.base[f]

JournalOK ==
    /\ state.phase = "none" => Old(Program) \/ New(Program)
    /\ state.phase \in {"installing", "rollback_required"} =>
          Describes(state) /\ BackedUp /\ (IsTree(hist.job) \/ OnlyItemsTouched)
    /\ state.phase = "committed" => New(Program)
    /\ state.phase = "restored" => Old(Program)

ProcessOK ==
    /\ pc = "begin" \/ pc = "mark" \/ Applying \/ RollingBack => Describes(tx)
    /\ pc = "begin" => BackedUp /\ \A f \in Program : install[f] = hist.base[f]
    /\ pc \in {"record_ui", "copy", "copying"} => OnlyItemsTouched
    /\ pc = "record_ui" => todo = Items(job)
    /\ pc \in {"copy", "copying"} =>
          \A f \in Items(job) \ todo : install[f] = job.release
    /\ pc \in {"ui", "ui_ptr", "health"} /\ job.kind # "ui" => New(Program)
    /\ pc \in {"restore", "restoring"} => \A f \in Program \ todo : OldAt(f)
    /\ pc \in {"restore_ptr", "restoring_ptr", "restored"} => Old(Program)

UpdateInv ==
    /\ TypeOK /\ MemoryOK
    /\ ~hist.undone => PhaseOK
    /\ Tracked => JournalOK /\ ProcessOK

(***************************************************************************)
(* The same for the UI bundles and their pointer, when no update of the UI *)
(* alone came in between and the bundle of the transaction is a new one.   *)
(***************************************************************************)

UiFiles == UiVersions \cup {"ptr"}
OldUi == Old(UiFiles \ Stuck)
OldWhole == Old(Files \ Stuck)

(* The transactions WholeUpdateAtomic is about.                            *)
Paired ==
    /\ Tracked /\ ~hist.loose
    /\ hist.job.ui # "none" => hist.base[hist.job.ui] = "absent"
    /\ hist.job.kind = "set" => hist.job.ui # "none" \/ hist.job.shell

(* The UI half is recorded, or nothing of it was touched.                  *)
UiDescribes(t) ==
    \/ t.ui = "none" /\ t.prev = "absent"
    \/ t.ui # "none" /\ t.ui = hist.job.ui /\ t.prev = hist.base["ptr"]

(* What the UI half of a rollback of t puts back.                          *)
Mended(f, t) == t.ui # "none" /\ f \in {t.ui, "ptr"}
UiKept(f) == install[f] = hist.base[f]

UiJournalOK ==
    /\ state.phase = "none" => OldWhole \/ New(Files)
    /\ state.phase \in {"installing", "rollback_required"} =>
          /\ UiDescribes(state)
          /\ \A f \in UiFiles :
                UiKept(f) \/ Mended(f, state) \/ (IsTree(hist.job) /\ hist.base[f] # "absent")
    /\ state.phase = "committed" => New(UiFiles)
    /\ state.phase = "restored" => OldUi

UiProcessOK ==
    /\ pc \in {"begin", "record_ui", "copy", "copying"} \/ (pc = "ui" /\ Applying) =>
          \A f \in UiFiles : UiKept(f)
    /\ pc \in {"begin", "record_ui"} => tx.ui = "none" /\ tx.prev = "absent"
    /\ pc = "record_ui" => job.ui # "none"
    /\ pc = "fail_ptr" => job.kind \in {"set", "ui"}
    /\ Applying /\ pc # "record_ui" => tx.ui = hist.job.ui
    /\ Applying \/ pc = "mark" \/ RollingBack => tx.ui = state.ui /\ tx.prev = state.prev
    /\ pc = "ui_ptr" /\ Applying =>
          \A f \in UiFiles : IF f = job.ui THEN install[f] = job.release ELSE UiKept(f)
    /\ pc = "health" /\ Applying => New(UiFiles)
    /\ pc \in {"restore", "restoring"} => \A f \in UiFiles \ todo : UiKept(f) \/ Mended(f, tx)
    /\ pc \in {"restore_ptr", "restoring_ptr"} => \A f \in UiFiles : UiKept(f) \/ Mended(f, tx)
    /\ pc = "restored" => OldUi

WholeInv ==
    /\ pc \in {"ui_ptr", "health", "fail", "fail_ptr"} /\ job.kind = "ui" => hist.loose
    /\ Paired => UiJournalOK /\ UiProcessOK

================================================================================
