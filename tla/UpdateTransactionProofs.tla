------------------------ MODULE UpdateTransactionProofs ------------------------
(***************************************************************************)
(* Theorems about UpdateTransaction, for every installation, every set of  *)
(* jobs and every bound on updates, crashes and errors.                    *)
(***************************************************************************)
EXTENDS UpdateTransaction, TLAPS

USE DEF Native

(* The fields of a job.                                                    *)
LEMMA JobFields ==
    ASSUME NEW j \in Jobs
    PROVE  /\ j.native \subseteq Native /\ j.ui \in UiVersions \cup {"none"}
           /\ j.release \in Releases /\ j.health \in BOOLEAN /\ j.shell \in BOOLEAN
           /\ j.kind \in Kinds
           /\ j.kind = "ui" => j.ui # "none"
           /\ j.kind # "set" => ~j.shell
           /\ j.kind = "selected" => j.native # {}
           /\ j.kind \in {"installer", "staged"} => j.native = {}
<1>1. j \in JobRecords
  BY UpdateAssumption
<1>2. /\ j.native \subseteq Native /\ j.ui \in UiVersions \cup {"none"}
      /\ j.release \in Releases /\ j.health \in BOOLEAN /\ j.shell \in BOOLEAN
      /\ j.kind \in Kinds
  BY <1>1 DEF JobRecords
<1> QED BY <1>2, UpdateAssumption

(* There is always a job to name.                                          *)
LEMMA AnyJobIsJob == AnyJob \in Jobs
BY UpdateAssumption DEF AnyJob

(* What a job copies is part of the program.                               *)
LEMMA ItemsInProgram ==
    ASSUME NEW j \in Jobs
    PROVE  Items(j) \subseteq Program /\ Program \subseteq Files
BY JobFields, UpdateAssumption DEF Items, Program, Files

DiskType ==
    /\ install \in [Files -> Contents] /\ backup \in [Files -> Contents]
    /\ state \in Transactions
MemType ==
    /\ pc \in Pcs /\ who \in {"worker", "supervisor"}
    /\ ctx \in {"recovery", "commit", "failure"}
    /\ job \in Jobs /\ tx \in Transactions /\ todo \subseteq Files /\ cur \in Files \cup {"none"}
    /\ running \in BOOLEAN
RestType ==
    /\ hist \in [base : [Files -> Contents], job : Jobs, undone : BOOLEAN, loose : BOOLEAN,
                stuck : BOOLEAN]
    /\ updates \in 0..MaxUpdates /\ breaks \in 0..MaxBreaks

(* TypeOK by its parts.                                                    *)
LEMMA TypeParts == TypeOK <=> DiskType /\ MemType /\ RestType
BY DEF TypeOK, DiskType, MemType, RestType

(* A file may get any content.                                             *)
LEMMA PutType ==
    ASSUME NEW d \in [Files -> Contents], NEW f, NEW c \in Contents
    PROVE  [d EXCEPT ![f] = c] \in [Files -> Contents]
OBVIOUS

(* A transaction may get any phase.                                        *)
LEMMA PhaseType ==
    ASSUME NEW t \in Transactions, NEW p \in Phases
    PROVE  [t EXCEPT !.phase = p] \in Transactions
BY DEF Transactions

(* "absent" and "torn" are contents, as is every release.                  *)
LEMMA ContentsType ==
    {"absent", "torn"} \subseteq Contents /\ Releases \subseteq Contents /\ UiVersions \subseteq Contents
BY DEF Contents

(* There is a journal value for no transaction.                            *)
LEMMA NoTransactionType == NoTransaction \in Transactions
BY DEF NoTransaction, Transactions, Phases, Scopes, Contents

(* The memory after a process has ended,                                   *)
LEMMA ExitType ==
    ASSUME NEW up \in BOOLEAN, Exit(up)
    PROVE  MemType'
BY AnyJobIsJob, NoTransactionType DEF Exit, MemType, Pcs

(* after an error has left it,                                             *)
LEMMA AbortType ==
    ASSUME Abort
    PROVE  MemType'
<1>1. PICK up \in BOOLEAN : Exit(up)
  BY DEF Abort
<1> QED BY <1>1, ExitType

(* after a recovery,                                                       *)
LEMMA RecoveredType ==
    ASSUME MemType, Recovered
    PROVE  MemType'
<1>1. CASE Exit(TRUE)
  BY <1>1, ExitType
<1>2. CASE ~Exit(TRUE)
  BY <1>2 DEF Recovered, MemType, Pcs
<1> QED BY <1>1, <1>2

(* and after a jump.                                                       *)
LEMMA GotoType ==
    ASSUME MemType, NEW l \in Pcs, Goto(l)
    PROVE  MemType'
BY DEF Goto, MemType

(* A fault is counted.                                                     *)
LEMMA BreakType ==
    ASSUME RestType, Break, UNCHANGED hist
    PROVE  RestType'
BY UpdateAssumption DEF RestType, Break

(* What is left of a bundle is some content.                               *)
LEMMA BundleType ==
    ASSUME install \in [Files -> Contents], NEW v, RemoveBundle(v)
    PROVE  install' \in [Files -> Contents]
<1>1. \E c : install' = [install EXCEPT ![v] = c] /\ (c \in Contents \/ c = install[v])
  BY ContentsType DEF RemoveBundle
<1> QED BY <1>1

(* No other file changes with it, and a bundle that is not there stays so. *)
LEMMA BundleOnly ==
    ASSUME install \in [Files -> Contents], NEW v, RemoveBundle(v)
    PROVE  /\ \A f \in Files : f # v => install'[f] = install[f]
           /\ v \in Files /\ install[v] = "absent" => install'[v] = "absent"
<1>1. PICK c : install' = [install EXCEPT ![v] = c] /\ (install[v] = "absent" => c = "absent")
  BY DEF RemoveBundle
<1> QED BY <1>1

(* Every step keeps every variable in its type.                            *)
LEMMA TypeStep ==
    ASSUME TypeOK, MemoryOK, Next
    PROVE  DiskType' /\ MemType' /\ RestType'
<1>0. /\ DiskType /\ MemType /\ RestType /\ MemoryOK
      /\ job.native \subseteq Native /\ job.ui \in UiVersions \cup {"none"}
      /\ job.release \in Releases /\ job.health \in BOOLEAN
      /\ Items(job) \subseteq Files
  BY TypeParts, JobFields, ItemsInProgram DEF MemType
<1>1. CASE RecoverNothing
  <2>1. DiskType'
    BY <1>0, <1>1 DEF RecoverNothing, DiskType, disk
  <2>2. MemType'
    BY <1>0, <1>1, RecoveredType DEF RecoverNothing
  <2>3. RestType'
    BY <1>0, <1>1 DEF RecoverNothing, RestType, counts
  <2> QED BY <2>1, <2>2, <2>3
<1>2. CASE RecoverInvalid
  <2>1. DiskType'
    BY <1>0, <1>2 DEF RecoverInvalid, DiskType, disk
  <2>2. MemType'
    BY <1>0, <1>2, ExitType DEF RecoverInvalid
  <2>3. RestType'
    BY <1>0, <1>2 DEF RecoverInvalid, RestType, counts
  <2> QED BY <2>1, <2>2, <2>3
<1>3. CASE RecoverFinished
  <2>1. DiskType'
    BY <1>0, <1>3 DEF RecoverFinished, DiskType, disk
  <2>2. MemType'
    BY <1>0, <1>3 DEF RecoverFinished, RecoveredTransaction, DiskType, MemType,
         Transactions, Pcs
  <2>3. RestType'
    BY <1>0, <1>3 DEF RecoverFinished, RestType, counts
  <2> QED BY <2>1, <2>2, <2>3
<1>4. CASE RecoverInterrupted
  <2>1. DiskType'
    BY <1>0, <1>4 DEF RecoverInterrupted, DiskType, disk
  <2>2. MemType'
    BY <1>0, <1>4 DEF RecoverInterrupted, RecoveredTransaction, DiskType, MemType,
         Transactions, Pcs
  <2>3. RestType'
    BY <1>0, <1>4 DEF RecoverInterrupted, RestType, counts
  <2> QED BY <2>1, <2>2, <2>3
<1>5. CASE PrepareRefused
  <2>1. DiskType'
    BY <1>0, <1>5 DEF PrepareRefused, DiskType, disk
  <2>2. MemType'
    BY <1>0, <1>5, ExitType DEF PrepareRefused
  <2>3. RestType'
    BY <1>0, <1>5 DEF PrepareRefused, RestType, counts
  <2> QED BY <2>1, <2>2, <2>3
<1>6. CASE Prepare
  <2>1. DiskType'
    BY <1>0, <1>6, ContentsType DEF Prepare, DiskType
  <2>2. MemType'
    <3>1. tx' \in Transactions
      BY <1>0, <1>6, NoTransactionType DEF Prepare, Transactions, Scopes
    <3> QED BY <1>0, <1>6, <3>1 DEF Prepare, MemType, Pcs
  <2>3. RestType'
    BY <1>0, <1>6 DEF Prepare, RestType, DiskType, MemType, counts
  <2> QED BY <2>1, <2>2, <2>3
<1>7. CASE WriteInstalling
  <2>1. DiskType'
    BY <1>0, <1>7, PhaseType DEF WriteInstalling, DiskType, MemType, Phases
  <2>2. MemType'
    BY <1>0, <1>7 DEF WriteInstalling, MemType, mem, Pcs
  <2>3. RestType'
    BY <1>0, <1>7 DEF WriteInstalling, RestType, counts
  <2> QED BY <2>1, <2>2, <2>3
<1>8. CASE RecordUi
  <2>0. tx' \in Transactions
    <3>1. install["ptr"] \in Contents
      BY <1>0 DEF DiskType, Files
    <3> QED BY <1>0, <1>8, <3>1 DEF RecordUi, MemType, Transactions
  <2>1. DiskType'
    BY <1>0, <1>8, <2>0, PhaseType DEF RecordUi, DiskType, Phases
  <2>2. MemType'
    BY <1>0, <1>8, <2>0 DEF RecordUi, MemType, Pcs
  <2>3. RestType'
    BY <1>0, <1>8 DEF RecordUi, RestType, counts
  <2> QED BY <2>1, <2>2, <2>3
<1>9. ASSUME NEW f \in Files, CopyBegin(f) PROVE DiskType' /\ MemType' /\ RestType'
  <2>1. DiskType'
    BY <1>0, <1>9, PutType, ContentsType DEF CopyBegin, DiskType, disk
  <2>2. MemType'
    BY <1>0, <1>9 DEF CopyBegin, MemType, mem, Pcs
  <2>3. RestType'
    BY <1>0, <1>9 DEF CopyBegin, RestType, counts
  <2> QED BY <2>1, <2>2, <2>3
<1>10. CASE CopyEnd
  <2>1. DiskType'
    BY <1>0, <1>10, PutType, ContentsType DEF CopyEnd, DiskType, disk
  <2>2. MemType'
    BY <1>0, <1>10 DEF CopyEnd, MemType, mem, Pcs
  <2>3. RestType'
    BY <1>0, <1>10 DEF CopyEnd, RestType, counts
  <2> QED BY <2>1, <2>2, <2>3
<1>11. CASE CopyDone
  <2>1. DiskType'
    BY <1>0, <1>11 DEF CopyDone, DiskType, disk
  <2>2. MemType'
    BY <1>0, <1>11, GotoType DEF CopyDone, Pcs
  <2>3. RestType'
    BY <1>0, <1>11 DEF CopyDone, RestType, counts
  <2> QED BY <2>1, <2>2, <2>3
<1>12. CASE UiExists
  <2>1. DiskType'
    BY <1>0, <1>12 DEF UiExists, DiskType, disk
  <2>2. MemType'
    BY <1>0, <1>12, ExitType, GotoType DEF UiExists, Pcs
  <2>3. RestType'
    BY <1>0, <1>12 DEF UiExists, RestType, counts
  <2> QED BY <2>1, <2>2, <2>3
<1>13. CASE InstallBundle
  <2>0. tx' \in Transactions
    <3>1. install["ptr"] \in Contents
      BY <1>0 DEF DiskType, Files
    <3> QED BY <1>0, <1>13, <3>1 DEF InstallBundle, MemType, Transactions
  <2>1. DiskType'
    BY <1>0, <1>13, PutType, ContentsType DEF InstallBundle, DiskType, disk
  <2>2. MemType'
    BY <1>0, <1>13, <2>0 DEF InstallBundle, MemType, Pcs
  <2>3. RestType'
    BY <1>0, <1>13 DEF InstallBundle, RestType, counts
  <2> QED BY <2>1, <2>2, <2>3
<1>14. CASE SwitchPointer
  <2>1. DiskType'
    <3>1. job.ui \in Contents
      BY <1>0, <1>14, ContentsType DEF SwitchPointer, MemoryOK
    <3> QED BY <1>0, <1>14, <3>1, PutType DEF SwitchPointer, DiskType
  <2>2. MemType'
    <3>1. job.ui \in Files
      BY <1>0, <1>14 DEF SwitchPointer, MemoryOK, Files
    <3> QED BY <1>0, <1>14, <3>1 DEF SwitchPointer, MemType, Pcs
  <2>3. RestType'
    BY <1>0, <1>14 DEF SwitchPointer, RestType, counts
  <2> QED BY <2>1, <2>2, <2>3
<1>15. CASE Commit
  <2>1. DiskType'
    BY <1>0, <1>15, PhaseType DEF Commit, DiskType, MemType, Phases
  <2>2. MemType'
    <3>1. CASE Exit(job.health)
      BY <1>0, <3>1, ExitType
    <3>2. CASE ~Exit(job.health)
      BY <1>0, <1>15, <3>2 DEF Commit, MemType, Pcs
    <3> QED BY <3>1, <3>2
  <2>3. RestType'
    BY <1>0, <1>15 DEF Commit, RestType, counts
  <2> QED BY <2>1, <2>2, <2>3
<1>16. CASE HealthTimesOut
  <2>1. DiskType'
    BY <1>0, <1>16 DEF HealthTimesOut, DiskType, disk
  <2>2. MemType'
    BY <1>0, <1>16, GotoType DEF HealthTimesOut, Pcs
  <2>3. RestType'
    BY <1>0, <1>16 DEF HealthTimesOut, RestType, counts
  <2> QED BY <2>1, <2>2, <2>3
<1>17. CASE FailPlain
  <2>1. DiskType'
    BY <1>0, <1>17 DEF FailPlain, DiskType, disk
  <2>2. MemType'
    BY <1>0, <1>17 DEF FailPlain, MemType, mem, Pcs
  <2>3. RestType'
    BY <1>0, <1>17 DEF FailPlain, RestType, counts
  <2> QED BY <2>1, <2>2, <2>3
<1>18. CASE FailBundle
  <2>1. DiskType'
    <3>1. CASE install' = install
      BY <1>0, <1>18, <3>1 DEF FailBundle, DiskType
    <3>2. CASE RemoveBundle(job.ui)
      BY <1>0, <1>18, <3>2, BundleType DEF FailBundle, DiskType
    <3> QED BY <1>18, <3>1, <3>2 DEF FailBundle
  <2>2. MemType'
    BY <1>0, <1>18, GotoType DEF FailBundle, RemoveBundle, Pcs
  <2>3. RestType'
    BY <1>0, <1>18, BreakType DEF FailBundle, RemoveBundle, RestType, counts
  <2> QED BY <2>1, <2>2, <2>3
<1>19. CASE FailPointer
  <2>1. DiskType'
    BY <1>0, <1>19, PutType DEF FailPointer, AfterFailure, DiskType, MemType, Transactions
  <2>2. MemType'
    <3>1. CASE job.kind = "ui"
      BY <1>19, <3>1, ExitType DEF FailPointer, AfterFailure
    <3>2. CASE ~(job.kind = "ui")
      BY <1>0, <1>19, <3>2 DEF FailPointer, AfterFailure, MemType, Pcs
    <3> QED BY <3>1, <3>2
  <2>3. RestType'
    BY <1>0, <1>19 DEF FailPointer, AfterFailure, RestType, counts
  <2> QED BY <2>1, <2>2, <2>3
<1>19a. CASE FailPointerFails
  <2>1. DiskType'
    <3>1. install["ptr"] \in Contents
      BY <1>0 DEF DiskType, Files
    <3> QED BY <1>0, <1>19a, <3>1, PutType, ContentsType DEF FailPointerFails, DiskType
  <2>2. MemType'
    <3>1. CASE job.kind = "ui"
      BY <1>19a, <3>1, ExitType DEF FailPointerFails, AfterFailure
    <3>2. CASE ~(job.kind = "ui")
      BY <1>0, <1>19a, <3>2 DEF FailPointerFails, AfterFailure, MemType, Pcs
    <3> QED BY <3>1, <3>2
  <2>3. RestType'
    BY <1>0, <1>19a, BreakType DEF FailPointerFails
  <2> QED BY <2>1, <2>2, <2>3
<1>20. CASE MarkRollback
  <2>1. DiskType'
    BY <1>0, <1>20, PhaseType DEF MarkRollback, DiskType, MemType, Phases
  <2>2. MemType'
    <3>1. tx.components \subseteq Files
      BY <1>0 DEF MemType, Transactions, Files
    <3> QED BY <1>0, <1>20, <3>1 DEF MarkRollback, MemType, Pcs
  <2>3. RestType'
    BY <1>0, <1>20 DEF MarkRollback, RestType, counts
  <2> QED BY <2>1, <2>2, <2>3
<1>21. ASSUME NEW f \in Files, RestoreBegin(f) PROVE DiskType' /\ MemType' /\ RestType'
  <2>1. DiskType'
    BY <1>0, <1>21, PutType, ContentsType DEF RestoreBegin, DiskType, disk
  <2>2. MemType'
    BY <1>0, <1>21 DEF RestoreBegin, MemType, mem, Pcs
  <2>3. RestType'
    BY <1>0, <1>21 DEF RestoreBegin, RestType, counts
  <2> QED BY <2>1, <2>2, <2>3
<1>22. ASSUME NEW f \in Files, RemoveAdded(f) PROVE DiskType' /\ MemType' /\ RestType'
  <2>1. DiskType'
    BY <1>0, <1>22, PutType, ContentsType DEF RemoveAdded, DiskType, disk
  <2>2. MemType'
    BY <1>0, <1>22 DEF RemoveAdded, MemType, mem, Pcs
  <2>3. RestType'
    BY <1>0, <1>22 DEF RemoveAdded, RestType, counts
  <2> QED BY <2>1, <2>2, <2>3
<1>23. ASSUME NEW f \in Files, BackupMissing(f) PROVE DiskType' /\ MemType' /\ RestType'
  <2>1. DiskType'
    BY <1>0, <1>23 DEF BackupMissing, DiskType, disk
  <2>2. MemType'
    BY <1>23, AbortType DEF BackupMissing
  <2>3. RestType'
    BY <1>0, <1>23 DEF BackupMissing, RestType, counts
  <2> QED BY <2>1, <2>2, <2>3
<1>24. ASSUME NEW f \in Files, DiscardFile(f) PROVE DiskType' /\ MemType' /\ RestType'
  <2>1. DiskType'
    BY <1>0, <1>24, PutType, ContentsType DEF DiscardFile, DiskType, disk
  <2>2. MemType'
    BY <1>0, <1>24 DEF DiscardFile, MemType, mem, Pcs
  <2>3. RestType'
    BY <1>0, <1>24 DEF DiscardFile, RestType, counts
  <2> QED BY <2>1, <2>2, <2>3
<1>25. CASE RestoreEnd
  <2>1. DiskType'
    <3>1. backup[cur] \in Contents
      BY <1>0, <1>25 DEF RestoreEnd, MemoryOK, DiskType, MemType
    <3> QED BY <1>0, <1>25, <3>1, PutType DEF RestoreEnd, DiskType
  <2>2. MemType'
    BY <1>0, <1>25 DEF RestoreEnd, MemType, mem, Pcs
  <2>3. RestType'
    BY <1>0, <1>25 DEF RestoreEnd, RestType, counts
  <2> QED BY <2>1, <2>2, <2>3
<1>26. CASE RestoreUi
  <2>1. DiskType'
    <3>1. CASE install' = install
      BY <1>0, <1>26, <3>1 DEF RestoreUi, DiskType
    <3>2. CASE RemoveBundle(tx.ui)
      BY <1>0, <1>26, <3>2, BundleType DEF RestoreUi, DiskType
    <3> QED BY <1>26, <3>1, <3>2 DEF RestoreUi
  <2>2. MemType'
    BY <1>0, <1>26, GotoType DEF RestoreUi, RemoveBundle, Pcs
  <2>3. RestType'
    BY <1>0, <1>26, BreakType DEF RestoreUi, RemoveBundle, RestType, counts
  <2> QED BY <2>1, <2>2, <2>3
<1>27. CASE RestorePointerBegin
  <2>1. DiskType'
    BY <1>0, <1>27, PutType, ContentsType DEF RestorePointerBegin, DiskType, disk
  <2>2. MemType'
    BY <1>0, <1>27, GotoType DEF RestorePointerBegin, Pcs
  <2>3. RestType'
    BY <1>0, <1>27 DEF RestorePointerBegin, RestType, counts
  <2> QED BY <2>1, <2>2, <2>3
<1>28. CASE RestorePointerEnd
  <2>1. DiskType'
    BY <1>0, <1>28, PutType DEF RestorePointerEnd, DiskType, MemType, Transactions
  <2>2. MemType'
    BY <1>0, <1>28, GotoType DEF RestorePointerEnd, Pcs
  <2>3. RestType'
    BY <1>0, <1>28 DEF RestorePointerEnd, RestType, counts
  <2> QED BY <2>1, <2>2, <2>3
<1>28a. CASE RestorePointerStays
  <2>1. DiskType'
    BY <1>0, <1>28a DEF RestorePointerStays, DiskType, disk
  <2>2. MemType'
    BY <1>0, <1>28a, GotoType DEF RestorePointerStays, Pcs
  <2>3. RestType'
    <3>1. hist' \in [base : [Files -> Contents], job : Jobs, undone : BOOLEAN, loose : BOOLEAN,
                     stuck : BOOLEAN]
      BY <1>0, <1>28a DEF RestorePointerStays, RestType
    <3> QED BY <1>0, <1>28a, <3>1, UpdateAssumption DEF RestorePointerStays, Break, RestType
  <2> QED BY <2>1, <2>2, <2>3
<1>29. CASE WriteRestored
  <2>1. DiskType'
    BY <1>0, <1>29, PhaseType DEF WriteRestored, DiskType, MemType, Phases
  <2>2. MemType'
    BY <1>0, <1>29, GotoType DEF WriteRestored, Pcs
  <2>3. RestType'
    BY <1>0, <1>29 DEF WriteRestored, RestType, counts
  <2> QED BY <2>1, <2>2, <2>3
<1>30. CASE DiscardDone
  <2>1. DiskType'
    BY <1>0, <1>30 DEF DiscardDone, DiskType, disk
  <2>2. MemType'
    BY <1>0, <1>30, GotoType DEF DiscardDone, Pcs
  <2>3. RestType'
    BY <1>0, <1>30 DEF DiscardDone, RestType, counts
  <2> QED BY <2>1, <2>2, <2>3
<1>31. CASE ForgetState
  <2>1. DiskType'
    BY <1>0, <1>31, NoTransactionType DEF ForgetState, DiskType
  <2>2. MemType'
    BY <1>0, <1>31, RecoveredType, ExitType DEF ForgetState
  <2>3. RestType'
    BY <1>0, <1>31 DEF ForgetState, RestType, counts
  <2> QED BY <2>1, <2>2, <2>3
<1>32. CASE PrepareFails
  <2>1. DiskType'
    BY <1>0, <1>32 DEF PrepareFails, DiskType, disk
  <2>2. MemType'
    BY <1>0, <1>32, ExitType DEF PrepareFails
  <2>3. RestType'
    BY <1>0, <1>32, BreakType DEF PrepareFails
  <2> QED BY <2>1, <2>2, <2>3
<1>33. CASE ApplyFails
  <2>1. DiskType'
    BY <1>0, <1>33 DEF ApplyFails, DiskType, disk
  <2>2. MemType'
    BY <1>0, <1>33, ExitType, GotoType DEF ApplyFails, Pcs
  <2>3. RestType'
    BY <1>0, <1>33, BreakType DEF ApplyFails
  <2> QED BY <2>1, <2>2, <2>3
<1>34. CASE CommitFails
  <2>1. DiskType'
    BY <1>0, <1>34 DEF CommitFails, DiskType, disk
  <2>2. MemType'
    <3>1. CASE job.kind = "selected"
      BY <1>34, <3>1, ExitType DEF CommitFails
    <3>2. CASE ~(job.kind = "selected")
      BY <1>0, <1>34, <3>2 DEF CommitFails, MemType, Pcs
    <3> QED BY <3>1, <3>2
  <2>3. RestType'
    BY <1>0, <1>34, BreakType DEF CommitFails
  <2> QED BY <2>1, <2>2, <2>3
<1>35. CASE RestoreFails
  <2>1. DiskType'
    BY <1>0, <1>35 DEF RestoreFails, DiskType, disk
  <2>2. MemType'
    BY <1>35, AbortType DEF RestoreFails
  <2>3. RestType'
    BY <1>0, <1>35, BreakType DEF RestoreFails
  <2> QED BY <2>1, <2>2, <2>3
<1>36. CASE CleanupFails
  <2>1. DiskType'
    BY <1>0, <1>36 DEF CleanupFails, DiskType, disk
  <2>2. MemType'
    <3>1. CASE ctx # "commit"
      BY <1>36, <3>1, AbortType DEF CleanupFails
    <3>2. CASE ctx = "commit" /\ job.kind = "selected"
      BY <1>36, <3>2, ExitType DEF CleanupFails
    <3>3. CASE ctx = "commit" /\ job.kind # "selected"
      BY <1>0, <1>36, <3>3 DEF CleanupFails, MemType, Pcs
    <3> QED BY <3>1, <3>2, <3>3
  <2>3. RestType'
    <3>1. hist' \in [base : [Files -> Contents], job : Jobs, undone : BOOLEAN, loose : BOOLEAN,
                     stuck : BOOLEAN]
      BY <1>0, <1>36 DEF CleanupFails, RestType
    <3> QED BY <1>0, <1>36, <3>1, UpdateAssumption DEF CleanupFails, Break, RestType
  <2> QED BY <2>1, <2>2, <2>3
<1>37. CASE Crash
  <2>1. DiskType'
    BY <1>0, <1>37 DEF Crash, DiskType, disk
  <2>2. MemType'
    BY <1>0, <1>37, ExitType DEF Crash
  <2>3. RestType'
    BY <1>0, <1>37, BreakType DEF Crash
  <2> QED BY <2>1, <2>2, <2>3
<1>38. ASSUME NEW j \in Jobs, StartUpdate(j) PROVE DiskType' /\ MemType' /\ RestType'
  <2>1. DiskType'
    BY <1>0, <1>38 DEF StartUpdate, DiskType, disk
  <2>2. MemType'
    BY <1>0, <1>38 DEF StartUpdate, MemType, mem, Pcs
  <2>3. RestType'
    BY <1>0, <1>38, UpdateAssumption DEF StartUpdate, RestType
  <2> QED BY <2>1, <2>2, <2>3
<1>39. CASE StartProduct
  <2>1. DiskType'
    BY <1>0, <1>39 DEF StartProduct, DiskType, disk
  <2>2. MemType'
    BY <1>0, <1>39 DEF StartProduct, MemType, mem, Pcs
  <2>3. RestType'
    BY <1>0, <1>39 DEF StartProduct, RestType, counts
  <2> QED BY <2>1, <2>2, <2>3
<1>40. CASE StopProduct
  <2>1. DiskType'
    BY <1>0, <1>40 DEF StopProduct, DiskType, disk
  <2>2. MemType'
    BY <1>0, <1>40 DEF StopProduct, MemType, mem, Pcs
  <2>3. RestType'
    BY <1>0, <1>40 DEF StopProduct, RestType, counts
  <2> QED BY <2>1, <2>2, <2>3
<1> QED
  BY <1>1, <1>2, <1>3, <1>4, <1>5, <1>6, <1>7, <1>8, <1>9, <1>10, <1>11, <1>12,
     <1>13, <1>14, <1>15, <1>16, <1>17, <1>18, <1>19, <1>19a, <1>20, <1>21, <1>22, <1>23,
     <1>24, <1>25, <1>26, <1>27, <1>28, <1>28a, <1>29, <1>30, <1>31, <1>32, <1>33, <1>34,
     <1>35, <1>36, <1>37, <1>38, <1>39, <1>40 DEF Next, Step, Faults

(* Every step keeps the memory of the process in order.                    *)
LEMMA MemoryStep ==
    ASSUME TypeOK, MemoryOK, Next
    PROVE  MemoryOK'
<1>0. DiskType /\ MemType /\ RestType /\ MemoryOK
  BY TypeParts
<1>1. CASE RecoverNothing
  BY <1>0, <1>1 DEF RecoverNothing, MemoryOK, Applying, RollingBack, disk, mem, Exit,
       Recovered
<1>2. CASE RecoverInvalid
  BY <1>0, <1>2 DEF RecoverInvalid, MemoryOK, Applying, RollingBack, disk, mem, Exit
<1>3. CASE RecoverFinished
  BY <1>0, <1>3 DEF RecoverFinished, MemoryOK, Applying, RollingBack, disk, mem
<1>4. CASE RecoverInterrupted
  BY <1>0, <1>4 DEF RecoverInterrupted, MemoryOK, Applying, RollingBack, disk, mem
<1>5. CASE PrepareRefused
  BY <1>0, <1>5 DEF PrepareRefused, MemoryOK, Applying, RollingBack, disk, mem, Exit
<1>6. CASE Prepare
  BY <1>0, <1>6 DEF Prepare, MemoryOK, Applying, RollingBack, disk, mem, DiskType,
       Transactions
<1>7. CASE WriteInstalling
  BY <1>0, <1>7 DEF WriteInstalling, MemoryOK, Applying, RollingBack, disk, mem,
       DiskType, MemType, Transactions
<1>8. CASE RecordUi
  BY <1>0, <1>8 DEF RecordUi, MemoryOK, Applying, RollingBack, disk, mem, DiskType,
       MemType, Transactions
<1>9. ASSUME NEW f \in Files, CopyBegin(f) PROVE MemoryOK'
  BY <1>0, <1>9 DEF CopyBegin, MemoryOK, Applying, RollingBack, disk, mem
<1>10. CASE CopyEnd
  BY <1>0, <1>10 DEF CopyEnd, MemoryOK, Applying, RollingBack, disk, mem
<1>11. CASE CopyDone
  BY <1>0, <1>11 DEF CopyDone, MemoryOK, Applying, RollingBack, disk, mem, Goto
<1>12. CASE UiExists
  BY <1>0, <1>12 DEF UiExists, MemoryOK, Applying, RollingBack, disk, mem, Exit, Goto
<1>13. CASE InstallBundle
  BY <1>0, <1>13 DEF InstallBundle, MemoryOK, Applying, RollingBack, disk, mem
<1>14. CASE SwitchPointer
  BY <1>0, <1>14 DEF SwitchPointer, MemoryOK, Applying, RollingBack, disk, mem
<1>15. CASE Commit
  BY <1>0, <1>15 DEF Commit, MemoryOK, Applying, RollingBack, disk, mem, Exit, DiskType,
       MemType, Transactions
<1>16. CASE HealthTimesOut
  BY <1>0, <1>16 DEF HealthTimesOut, MemoryOK, Applying, RollingBack, disk, mem, Goto
<1>17. CASE FailPlain
  BY <1>0, <1>17 DEF FailPlain, MemoryOK, Applying, RollingBack, disk, mem
<1>18. CASE FailBundle
  BY <1>0, <1>18 DEF FailBundle, RemoveBundle, MemoryOK, Applying, RollingBack, disk, mem, Goto
<1>19. CASE FailPointer
  BY <1>0, <1>19 DEF FailPointer, AfterFailure, MemoryOK, Applying, RollingBack, disk, mem, Exit
<1>19a. CASE FailPointerFails
  BY <1>0, <1>19a DEF FailPointerFails, AfterFailure, MemoryOK, Applying, RollingBack, disk, mem, Exit
<1>20. CASE MarkRollback
  BY <1>0, <1>20 DEF MarkRollback, MemoryOK, Applying, RollingBack, disk, mem, DiskType,
       MemType, Transactions
<1>21. ASSUME NEW f \in Files, RestoreBegin(f) PROVE MemoryOK'
  BY <1>0, <1>21 DEF RestoreBegin, MemoryOK, Applying, RollingBack, disk, mem
<1>22. ASSUME NEW f \in Files, RemoveAdded(f) PROVE MemoryOK'
  BY <1>0, <1>22 DEF RemoveAdded, MemoryOK, Applying, RollingBack, disk, mem
<1>23. ASSUME NEW f \in Files, BackupMissing(f) PROVE MemoryOK'
  BY <1>0, <1>23 DEF BackupMissing, MemoryOK, Applying, RollingBack, disk, mem, Abort, Exit
<1>24. ASSUME NEW f \in Files, DiscardFile(f) PROVE MemoryOK'
  BY <1>0, <1>24 DEF DiscardFile, MemoryOK, Applying, RollingBack, disk, mem
<1>25. CASE RestoreEnd
  BY <1>0, <1>25 DEF RestoreEnd, MemoryOK, Applying, RollingBack, disk, mem
<1>26. CASE RestoreUi
  BY <1>0, <1>26 DEF RestoreUi, RemoveBundle, MemoryOK, Applying, RollingBack, disk, mem, Goto
<1>27. CASE RestorePointerBegin
  BY <1>0, <1>27 DEF RestorePointerBegin, MemoryOK, Applying, RollingBack, disk, mem, Goto
<1>28. CASE RestorePointerEnd
  BY <1>0, <1>28 DEF RestorePointerEnd, MemoryOK, Applying, RollingBack, disk, mem, Goto
<1>28a. CASE RestorePointerStays
  BY <1>0, <1>28a DEF RestorePointerStays, MemoryOK, Applying, RollingBack, disk, mem, Goto
<1>29. CASE WriteRestored
  BY <1>0, <1>29 DEF WriteRestored, MemoryOK, Applying, RollingBack, disk, mem, Goto,
       DiskType, MemType, Transactions
<1>30. CASE DiscardDone
  BY <1>0, <1>30 DEF DiscardDone, MemoryOK, Applying, RollingBack, disk, mem, Goto
<1>31. CASE ForgetState
  BY <1>0, <1>31 DEF ForgetState, MemoryOK, Applying, RollingBack, disk, mem, Exit,
       Recovered, NoTransaction
<1>32. CASE PrepareFails
  BY <1>0, <1>32 DEF PrepareFails, MemoryOK, Applying, RollingBack, disk, mem, Exit
<1>33. CASE ApplyFails
  BY <1>0, <1>33 DEF ApplyFails, MemoryOK, Applying, RollingBack, disk, mem, Exit, Goto
<1>34. CASE CommitFails
  BY <1>0, <1>34 DEF CommitFails, MemoryOK, Applying, RollingBack, disk, mem, Exit
<1>35. CASE RestoreFails
  BY <1>0, <1>35 DEF RestoreFails, MemoryOK, Applying, RollingBack, disk, mem, Abort, Exit
<1>36. CASE CleanupFails
  BY <1>0, <1>36 DEF CleanupFails, MemoryOK, Applying, RollingBack, disk, mem, Abort,
       Exit, RestType
<1>37. CASE Crash
  BY <1>0, <1>37 DEF Crash, MemoryOK, Applying, RollingBack, disk, mem, Exit
<1>38. ASSUME NEW j \in Jobs, StartUpdate(j) PROVE MemoryOK'
  BY <1>0, <1>38, JobFields DEF StartUpdate, MemoryOK, Applying, RollingBack, disk
<1>39. CASE StartProduct
  BY <1>0, <1>39 DEF StartProduct, MemoryOK, Applying, RollingBack, disk, mem
<1>40. CASE StopProduct
  BY <1>0, <1>40 DEF StopProduct, MemoryOK, Applying, RollingBack, disk, mem
<1> QED
  BY <1>1, <1>2, <1>3, <1>4, <1>5, <1>6, <1>7, <1>8, <1>9, <1>10, <1>11, <1>12,
     <1>13, <1>14, <1>15, <1>16, <1>17, <1>18, <1>19, <1>19a, <1>20, <1>21, <1>22, <1>23,
     <1>24, <1>25, <1>26, <1>27, <1>28, <1>28a, <1>29, <1>30, <1>31, <1>32, <1>33, <1>34,
     <1>35, <1>36, <1>37, <1>38, <1>39, <1>40 DEF Next, Step, Faults

(* Until a committed update is undone, the phase in the journal is that of *)
(* the position of the process.                                            *)
LEMMA PhaseStep ==
    ASSUME TypeOK, MemoryOK, ~hist.undone => PhaseOK, Next
    PROVE  ~hist'.undone => PhaseOK'
<1>0. /\ DiskType /\ MemType /\ RestType /\ MemoryOK
      /\ ~hist.undone => PhaseOK
  BY TypeParts
<1>1. CASE RecoverNothing
  BY <1>0, <1>1 DEF RecoverNothing, PhaseOK, Applying, RollingBack, disk, mem, Exit,
       Recovered
<1>2. CASE RecoverInvalid
  BY <1>0, <1>2 DEF RecoverInvalid, PhaseOK, Applying, RollingBack, disk, mem, Exit
<1>3. CASE RecoverFinished
  BY <1>0, <1>3 DEF RecoverFinished, PhaseOK, Applying, RollingBack, disk, mem
<1>4. CASE RecoverInterrupted
  BY <1>0, <1>4 DEF RecoverInterrupted, PhaseOK, Applying, RollingBack, disk, mem
<1>5. CASE PrepareRefused
  BY <1>0, <1>5 DEF PrepareRefused, PhaseOK, Applying, RollingBack, disk, mem, Exit
<1>6. CASE Prepare
  BY <1>0, <1>6 DEF Prepare, PhaseOK, Applying, RollingBack, disk, mem, DiskType,
       Transactions
<1>7. CASE WriteInstalling
  BY <1>0, <1>7 DEF WriteInstalling, PhaseOK, Applying, RollingBack, disk, mem, MemType,
       Transactions
<1>8. CASE RecordUi
  BY <1>0, <1>8 DEF RecordUi, PhaseOK, Applying, RollingBack, disk, mem, MemType,
       Transactions
<1>9. ASSUME NEW f \in Files, CopyBegin(f) PROVE ~hist'.undone => PhaseOK'
  BY <1>0, <1>9 DEF CopyBegin, PhaseOK, Applying, RollingBack, disk, mem
<1>10. CASE CopyEnd
  BY <1>0, <1>10 DEF CopyEnd, PhaseOK, Applying, RollingBack, disk, mem
<1>11. CASE CopyDone
  BY <1>0, <1>11 DEF CopyDone, PhaseOK, Applying, RollingBack, disk, mem, Goto
<1>12. CASE UiExists
  BY <1>0, <1>12 DEF UiExists, PhaseOK, Applying, RollingBack, disk, mem, Exit, Goto
<1>13. CASE InstallBundle
  BY <1>0, <1>13 DEF InstallBundle, PhaseOK, Applying, RollingBack, disk, mem, RestType
<1>14. CASE SwitchPointer
  BY <1>0, <1>14 DEF SwitchPointer, PhaseOK, Applying, RollingBack, disk, mem
<1>15. CASE Commit
  BY <1>0, <1>15 DEF Commit, PhaseOK, Applying, RollingBack, disk, mem, Exit, MemType,
       Transactions
<1>16. CASE HealthTimesOut
  BY <1>0, <1>16 DEF HealthTimesOut, PhaseOK, Applying, RollingBack, disk, mem, Goto
<1>17. CASE FailPlain
  BY <1>0, <1>17 DEF FailPlain, PhaseOK, Applying, RollingBack, disk, mem
<1>18. CASE FailBundle
  BY <1>0, <1>18 DEF FailBundle, RemoveBundle, PhaseOK, Applying, RollingBack, disk, mem, Goto
<1>19. CASE FailPointer
  BY <1>0, <1>19 DEF FailPointer, AfterFailure, PhaseOK, Applying, RollingBack, disk, mem, Exit
<1>19a. CASE FailPointerFails
  BY <1>0, <1>19a DEF FailPointerFails, AfterFailure, PhaseOK, Applying, RollingBack, disk, mem, Exit
<1>20. CASE MarkRollback
  BY <1>0, <1>20 DEF MarkRollback, PhaseOK, Applying, RollingBack, disk, mem, MemType,
       Transactions
<1>21. ASSUME NEW f \in Files, RestoreBegin(f) PROVE ~hist'.undone => PhaseOK'
  BY <1>0, <1>21 DEF RestoreBegin, PhaseOK, Applying, RollingBack, disk, mem
<1>22. ASSUME NEW f \in Files, RemoveAdded(f) PROVE ~hist'.undone => PhaseOK'
  BY <1>0, <1>22 DEF RemoveAdded, PhaseOK, Applying, RollingBack, disk, mem
<1>23. ASSUME NEW f \in Files, BackupMissing(f) PROVE ~hist'.undone => PhaseOK'
  BY <1>0, <1>23 DEF BackupMissing, PhaseOK, Applying, RollingBack, disk, mem, Abort, Exit
<1>24. ASSUME NEW f \in Files, DiscardFile(f) PROVE ~hist'.undone => PhaseOK'
  BY <1>0, <1>24 DEF DiscardFile, PhaseOK, Applying, RollingBack, disk, mem
<1>25. CASE RestoreEnd
  BY <1>0, <1>25 DEF RestoreEnd, PhaseOK, Applying, RollingBack, disk, mem
<1>26. CASE RestoreUi
  BY <1>0, <1>26 DEF RestoreUi, RemoveBundle, PhaseOK, Applying, RollingBack, disk, mem, Goto
<1>27. CASE RestorePointerBegin
  BY <1>0, <1>27 DEF RestorePointerBegin, PhaseOK, Applying, RollingBack, disk, mem, Goto
<1>28. CASE RestorePointerEnd
  BY <1>0, <1>28 DEF RestorePointerEnd, PhaseOK, Applying, RollingBack, disk, mem, Goto
<1>28a. CASE RestorePointerStays
  BY <1>0, <1>28a DEF RestorePointerStays, PhaseOK, Applying, RollingBack, disk, mem, Goto
<1>29. CASE WriteRestored
  BY <1>0, <1>29 DEF WriteRestored, PhaseOK, Applying, RollingBack, disk, mem, Goto,
       MemType, Transactions
<1>30. CASE DiscardDone
  BY <1>0, <1>30 DEF DiscardDone, PhaseOK, Applying, RollingBack, disk, mem, Goto
<1>31. CASE ForgetState
  BY <1>0, <1>31 DEF ForgetState, PhaseOK, Applying, RollingBack, disk, mem, Exit,
       Recovered, NoTransaction
<1>32. CASE PrepareFails
  BY <1>0, <1>32 DEF PrepareFails, PhaseOK, Applying, RollingBack, disk, mem, Exit
<1>33. CASE ApplyFails
  BY <1>0, <1>33 DEF ApplyFails, PhaseOK, Applying, RollingBack, disk, mem, Exit, Goto,
       MemoryOK
<1>34. CASE CommitFails
  BY <1>0, <1>34 DEF CommitFails, PhaseOK, Applying, RollingBack, disk, mem, Exit, MemoryOK
<1>35. CASE RestoreFails
  BY <1>0, <1>35 DEF RestoreFails, PhaseOK, Applying, RollingBack, disk, mem, Abort, Exit
<1>36. CASE CleanupFails
  BY <1>0, <1>36 DEF CleanupFails, PhaseOK, Applying, RollingBack, disk, mem, Abort,
       Exit, RestType
<1>37. CASE Crash
  BY <1>0, <1>37 DEF Crash, PhaseOK, Applying, RollingBack, disk, mem, Exit
<1>38. ASSUME NEW j \in Jobs, StartUpdate(j) PROVE ~hist'.undone => PhaseOK'
  BY <1>0, <1>38 DEF StartUpdate, PhaseOK, Applying, RollingBack, disk, mem
<1>39. CASE StartProduct
  BY <1>0, <1>39 DEF StartProduct, PhaseOK, Applying, RollingBack, disk, mem
<1>40. CASE StopProduct
  BY <1>0, <1>40 DEF StopProduct, PhaseOK, Applying, RollingBack, disk, mem
<1> QED
  BY <1>1, <1>2, <1>3, <1>4, <1>5, <1>6, <1>7, <1>8, <1>9, <1>10, <1>11, <1>12,
     <1>13, <1>14, <1>15, <1>16, <1>17, <1>18, <1>19, <1>19a, <1>20, <1>21, <1>22, <1>23,
     <1>24, <1>25, <1>26, <1>27, <1>28, <1>28a, <1>29, <1>30, <1>31, <1>32, <1>33, <1>34,
     <1>35, <1>36, <1>37, <1>38, <1>39, <1>40 DEF Next, Step, Faults

(* The renderer and its pointer are no part of the program.                *)
LEMMA UiApart ==
    /\ "ptr" \notin Program /\ UiVersions \cap Program = {} /\ "none" \notin Program
    /\ Program \subseteq Files
BY UpdateAssumption DEF Program, Files

SameHistory == hist'.base = hist.base /\ hist'.job = hist.job
SameProgram == \A f \in Program : install'[f] = install[f]
SameBackup == backup' = backup

(* A step that leaves the program alone leaves what is said of it.         *)
LEMMA KeepsProgram ==
    ASSUME SameHistory, SameProgram
    PROVE  /\ Old(Program)' <=> Old(Program)
           /\ New(Program)' <=> New(Program)
           /\ OnlyItemsTouched' <=> OnlyItemsTouched
           /\ \A f \in Program : OldAt(f)' <=> OldAt(f)
<1>1. Old(Program)' <=> Old(Program)
  BY DEF SameHistory, SameProgram, Old, IsTree
<1>2. \A f \in Program : Goal(f)' = Goal(f)
  BY DEF SameHistory, Goal, Items
<1>3. New(Program)' <=> New(Program)
  BY <1>2 DEF SameProgram, New
<1>4. OnlyItemsTouched' <=> OnlyItemsTouched
  BY DEF SameHistory, SameProgram, OnlyItemsTouched, Items
<1>5. \A f \in Program : OldAt(f)' <=> OldAt(f)
  BY DEF SameHistory, SameProgram, OldAt, IsTree
<1> QED BY <1>1, <1>3, <1>4, <1>5

(* A step that leaves the backup and the journal alone too leaves what the *)
(* journal promises.                                                       *)
LEMMA KeepsJournal ==
    ASSUME SameHistory, SameProgram, SameBackup, UNCHANGED state, JournalOK
    PROVE  JournalOK'
<1>1. BackedUp' <=> BackedUp
  BY DEF SameHistory, SameBackup, BackedUp, IsTree
<1>2. Describes(state)' <=> Describes(state)
  BY DEF SameHistory, Describes, IsTree
<1>3. IsTree(hist.job)' <=> IsTree(hist.job)
  BY DEF SameHistory, IsTree
<1> QED BY <1>1, <1>2, <1>3, KeepsProgram DEF JournalOK

(* What a transaction value describes depends on three of its fields.      *)
LEMMA KeepsDescription ==
    ASSUME NEW t, NEW u,
           t.scope = u.scope, t.components = u.components, t.backed = u.backed
    PROVE  Describes(t) <=> Describes(u)
BY DEF Describes

(* The memory of the transaction is kept with its history.                 *)
LEMMA KeepsTransaction ==
    ASSUME SameHistory, UNCHANGED tx
    PROVE  Describes(tx)' <=> Describes(tx)
BY DEF SameHistory, Describes, IsTree

(* A journal record of a transaction describes what the transaction does.  *)
LEMMA WritesDescription ==
    ASSUME NEW p \in Phases, TypeOK, TypeOK', state' = [tx' EXCEPT !.phase = p], Describes(tx)'
    PROVE  Describes(state)'
<1>1. /\ state'.scope = tx'.scope /\ state'.components = tx'.components
      /\ state'.backed = tx'.backed
  BY DEF TypeOK, Transactions
<1> QED BY <1>1 DEF Describes

(* When nothing is left to restore the program is the old one.             *)
LEMMA AllRestored ==
    ASSUME \A f \in Program : OldAt(f)
    PROVE  Old(Program)
BY DEF OldAt, Old

(* When all items are copied the program is the new one.                   *)
LEMMA AllCopied ==
    ASSUME TypeOK, hist.job = job, OnlyItemsTouched,
           \A f \in Items(job) : install[f] = job.release
    PROVE  New(Program)
<1>1. hist.job.ui \in UiVersions \cup {"none"}
  BY JobFields DEF TypeOK
<1>2. ASSUME NEW f \in Program PROVE install[f] = Goal(f)
  <2>1. f # hist.job.ui /\ f # "ptr"
    BY <1>1, UiApart
  <2>2. CASE f \in Items(hist.job)
    <3>1. install[f] = hist.job.release
      BY <2>2
    <3>2. Goal(f) = hist.job.release
      BY <2>1, <2>2 DEF Goal
    <3> QED BY <3>1, <3>2
  <2>3. CASE f \notin Items(hist.job)
    BY <2>1, <2>3 DEF Goal, OnlyItemsTouched
  <2> QED BY <2>2, <2>3
<1> QED BY <1>2 DEF New

(* A recovered transaction describes its job.                              *)
LEMMA RecoversDescription ==
    ASSUME TypeOK, Tracked, Describes(state), hist.job.kind # "ui"
    PROVE  Describes(RecoveredTransaction(state))
<1> DEFINE t == RecoveredTransaction(state)
<1>1. t.scope = state.scope /\ t.backed = state.backed
  BY DEF TypeOK, Transactions, RecoveredTransaction
<1>2. CASE state.scope = "tree"
  BY <1>1, <1>2 DEF Describes
<1>3. CASE state.scope # "tree"
  <2>1. ~IsTree(hist.job)
    BY <1>3 DEF Describes
  <2>2. hist.job \in Jobs
    BY DEF TypeOK
  <2>3. hist.job.native # {}
    BY <2>1, <2>2, JobFields DEF IsTree, Tracked, UiOnly, Kinds
  <2>4. state.components = hist.job.native
    BY <2>1 DEF Describes
  <2>5. t.components = state.components
    BY <2>3, <2>4 DEF TypeOK, Transactions, RecoveredTransaction
  <2> QED BY <1>1, <2>5, KeepsDescription
<1> QED BY <1>2, <1>3

(* The journal and the position of the process keep their promises about   *)
(* the program and its backup.                                             *)
LEMMA TrackedStep ==
    ASSUME TypeOK, TypeOK', MemoryOK, ~hist.undone => PhaseOK, Tracked => JournalOK /\ ProcessOK,
           Next
    PROVE  Tracked' => JournalOK' /\ ProcessOK'
<1>0. /\ TypeOK /\ TypeOK' /\ DiskType /\ MemType /\ RestType /\ MemoryOK
      /\ Tracked => PhaseOK /\ JournalOK /\ ProcessOK
      /\ job.native \subseteq Native /\ job.ui \in UiVersions \cup {"none"}
      /\ Items(job) \subseteq Program
  BY TypeParts, JobFields, ItemsInProgram DEF MemType, Tracked
<1>1. CASE RecoverNothing
  <2>1. SameHistory /\ (Tracked' => Tracked)
    BY <1>0, <1>1 DEF RecoverNothing, RestType, SameHistory, Tracked, UiOnly
  <2>2. SameProgram
    BY <1>1 DEF RecoverNothing, disk, SameProgram
  <2>3. JournalOK => JournalOK'
    BY <1>1, <2>1, <2>2, KeepsJournal DEF RecoverNothing, disk, SameBackup
  <2>4. ASSUME ProcessOK, JournalOK, PhaseOK PROVE ProcessOK'
    BY <1>0, <1>1, <2>1, <2>2, <2>4, KeepsProgram
       DEF RecoverNothing, ProcessOK, Applying, RollingBack, MemoryOK, disk, mem, Exit, Recovered
  <2> QED BY <1>0, <2>1, <2>3, <2>4
<1>2. CASE RecoverInvalid
  <2>1. SameHistory /\ (Tracked' => Tracked)
    BY <1>0, <1>2 DEF RecoverInvalid, RestType, SameHistory, Tracked, UiOnly
  <2>2. SameProgram
    BY <1>2 DEF RecoverInvalid, disk, SameProgram
  <2>3. JournalOK => JournalOK'
    BY <1>2, <2>1, <2>2, KeepsJournal DEF RecoverInvalid, disk, SameBackup
  <2>4. ASSUME ProcessOK, JournalOK, PhaseOK PROVE ProcessOK'
    BY <1>0, <1>2, <2>1, <2>2, <2>4, KeepsProgram
       DEF RecoverInvalid, ProcessOK, Applying, RollingBack, MemoryOK, disk, mem, Exit
  <2> QED BY <1>0, <2>1, <2>3, <2>4
<1>3. CASE RecoverFinished
  <2>1. SameHistory /\ (Tracked' => Tracked)
    BY <1>0, <1>3 DEF RecoverFinished, RestType, SameHistory, Tracked, UiOnly
  <2>2. SameProgram
    BY <1>3 DEF RecoverFinished, disk, SameProgram
  <2>3. JournalOK => JournalOK'
    BY <1>3, <2>1, <2>2, KeepsJournal DEF RecoverFinished, disk, SameBackup
  <2>4. ASSUME ProcessOK, JournalOK, PhaseOK PROVE ProcessOK'
    BY <1>0, <1>3, <2>1, <2>2, <2>4, KeepsProgram
       DEF RecoverFinished, ProcessOK, Applying, RollingBack, MemoryOK, disk, mem
  <2> QED BY <1>0, <2>1, <2>3, <2>4
<1>4. CASE RecoverInterrupted
  <2>1. SameHistory /\ (Tracked' => Tracked)
    BY <1>0, <1>4 DEF RecoverInterrupted, RestType, SameHistory, Tracked, UiOnly
  <2>2. SameProgram
    BY <1>4 DEF RecoverInterrupted, disk, SameProgram
  <2>3. TRUE
    OBVIOUS
  <2>4. SUFFICES ASSUME Tracked' PROVE JournalOK' /\ ProcessOK'
    OBVIOUS
  <2>5. Tracked /\ PhaseOK /\ JournalOK /\ ProcessOK
    BY <1>0, <2>1, <2>4
  <2>6. JournalOK'
    BY <1>4, <2>1, <2>2, <2>5, KeepsJournal DEF RecoverInterrupted, disk, SameBackup
  <2>7. ProcessOK'
    <3>1. Describes(RecoveredTransaction(state))
      BY <1>0, <1>4, <2>5, RecoversDescription DEF RecoverInterrupted, JournalOK, MemoryOK
    <3>2. Describes(tx)'
      BY <1>4, <2>1, <3>1 DEF RecoverInterrupted, Describes, SameHistory, IsTree
    <3> QED BY <1>4, <3>2 DEF RecoverInterrupted, ProcessOK, Applying, RollingBack
  <2> QED BY <2>6, <2>7
<1>5. CASE PrepareRefused
  <2>1. SameHistory /\ (Tracked' => Tracked)
    BY <1>0, <1>5 DEF PrepareRefused, RestType, SameHistory, Tracked, UiOnly
  <2>2. SameProgram
    BY <1>5 DEF PrepareRefused, disk, SameProgram
  <2>3. JournalOK => JournalOK'
    BY <1>5, <2>1, <2>2, KeepsJournal DEF PrepareRefused, disk, SameBackup
  <2>4. ASSUME ProcessOK, JournalOK, PhaseOK PROVE ProcessOK'
    BY <1>0, <1>5, <2>1, <2>2, <2>4, KeepsProgram
       DEF PrepareRefused, ProcessOK, Applying, RollingBack, MemoryOK, disk, mem, Exit
  <2> QED BY <1>0, <2>1, <2>3, <2>4
<1>6. CASE Prepare
  <2>1. hist'.base = install /\ hist'.job = job /\ install' = install /\ state'.phase = "none"
    BY <1>0, <1>6 DEF Prepare
  <2>2. JournalOK'
    BY <2>1 DEF JournalOK, Old
  <2>3. BackedUp'
    BY <1>0, <1>6, <2>1 DEF Prepare, BackedUp, IsTree
  <2>4. Describes(tx)'
    <3>1. /\ tx'.scope = IF IsTree(job) THEN "tree" ELSE "components"
          /\ tx'.components = IF IsTree(job) THEN {} ELSE job.native
          /\ tx'.backed = IF IsTree(job) THEN {} ELSE {f \in job.native : install[f] # "absent"}
      BY <1>6 DEF Prepare, NoTransaction
    <3>2. IsTree(hist.job)' <=> IsTree(job)
      BY <2>1 DEF IsTree
    <3> QED BY <2>1, <3>1, <3>2 DEF Describes
  <2>5. ProcessOK'
    BY <1>6, <2>1, <2>3, <2>4 DEF Prepare, ProcessOK, Applying, RollingBack
  <2> QED BY <2>2, <2>5
<1>7. CASE WriteInstalling
  <2>1. SameHistory /\ (Tracked' => Tracked)
    BY <1>0, <1>7 DEF WriteInstalling, RestType, SameHistory, Tracked, UiOnly
  <2>2. SUFFICES ASSUME Tracked' PROVE JournalOK' /\ ProcessOK'
    OBVIOUS
  <2>3. Tracked /\ PhaseOK /\ JournalOK /\ ProcessOK
    BY <1>0, <2>1, <2>2
  <2>4. SameProgram /\ SameBackup /\ (Describes(tx)' <=> Describes(tx))
    BY <1>7, <2>1, KeepsTransaction DEF WriteInstalling, SameProgram, SameBackup
  <2>5. /\ job = hist.job /\ Describes(tx) /\ BackedUp
        /\ \A f \in Program : install[f] = hist.base[f]
    BY <1>0, <1>7, <2>3 DEF WriteInstalling, MemoryOK, ProcessOK
  <2>6. Describes(state)' /\ state'.phase = "installing"
    <3>1. state'.phase = "installing"
      BY <1>0, <1>7 DEF WriteInstalling, MemType, Transactions
    <3>2. UNCHANGED tx
      BY <1>7 DEF WriteInstalling
    <3> QED BY <1>0, <1>7, <2>4, <2>5, <3>1, <3>2, WritesDescription DEF
         WriteInstalling, Phases
  <2>7. BackedUp' /\ OnlyItemsTouched'
    <3>1. OnlyItemsTouched
      BY <2>5 DEF OnlyItemsTouched
    <3>2. BackedUp'
      BY <2>1, <2>4, <2>5 DEF SameHistory, SameBackup, BackedUp, IsTree
    <3> QED BY <2>1, <2>4, <3>1, <3>2, KeepsProgram
  <2>8. JournalOK'
    BY <2>6, <2>7 DEF JournalOK
  <2>9. ProcessOK'
    BY <1>7, <2>4, <2>5, <2>7 DEF WriteInstalling, ProcessOK, Applying, RollingBack
  <2> QED BY <2>8, <2>9
<1>8. CASE RecordUi
  <2>1. SameHistory /\ (Tracked' => Tracked)
    BY <1>0, <1>8 DEF RecordUi, RestType, SameHistory, Tracked, UiOnly
  <2>2. SUFFICES ASSUME Tracked' PROVE JournalOK' /\ ProcessOK'
    OBVIOUS
  <2>3. Tracked /\ PhaseOK /\ JournalOK /\ ProcessOK
    BY <1>0, <2>1, <2>2
  <2>4. SameProgram /\ SameBackup /\ state.phase = "installing"
    BY <1>8, <2>3 DEF RecordUi, SameProgram, SameBackup, PhaseOK, Applying
  <2>5. Describes(tx) /\ BackedUp /\ OnlyItemsTouched /\ todo = Items(job)
    BY <1>8, <2>3, <2>4 DEF RecordUi, ProcessOK, JournalOK, Applying
  <2>6. Describes(tx)'
    <3>1. tx'.scope = tx.scope /\ tx'.components = tx.components /\ tx'.backed = tx.backed
      BY <1>0, <1>8 DEF RecordUi, MemType, Transactions
    <3> QED BY <2>1, <2>5, <3>1 DEF Describes, SameHistory, IsTree
  <2>7. Describes(state)' /\ state'.phase = "installing"
    <3>1. state'.phase = "installing"
      BY <1>0, <1>8 DEF RecordUi, MemType, Transactions
    <3> QED BY <1>0, <1>8, <2>6, <3>1, WritesDescription DEF RecordUi, Phases
  <2>8. BackedUp' /\ OnlyItemsTouched'
    <3>1. BackedUp'
      BY <2>1, <2>4, <2>5 DEF SameHistory, SameBackup, BackedUp, IsTree
    <3> QED BY <2>1, <2>4, <2>5, <3>1, KeepsProgram
  <2>9. JournalOK'
    BY <2>7, <2>8 DEF JournalOK
  <2>10. ProcessOK'
    BY <1>8, <2>5, <2>6, <2>8 DEF RecordUi, ProcessOK, Applying, RollingBack
  <2> QED BY <2>9, <2>10
<1>9. ASSUME NEW f \in Files, CopyBegin(f) PROVE Tracked' => JournalOK' /\ ProcessOK'
  <2>1. SameHistory /\ (Tracked' => Tracked)
    BY <1>0, <1>9 DEF CopyBegin, RestType, SameHistory, Tracked, UiOnly
  <2>2. SUFFICES ASSUME Tracked' PROVE JournalOK' /\ ProcessOK'
    OBVIOUS
  <2>3. Tracked /\ PhaseOK /\ JournalOK /\ ProcessOK
    BY <1>0, <2>1, <2>2
  <2>4. /\ BackedUp' <=> BackedUp
        /\ Describes(state)' <=> Describes(state)
        /\ Describes(tx)' <=> Describes(tx)
        /\ IsTree(hist.job)' <=> IsTree(hist.job)
    BY <1>9, <2>1 DEF CopyBegin, SameHistory, BackedUp, Describes, IsTree
  <2>5. /\ job = hist.job /\ f \in Items(job) /\ OnlyItemsTouched /\ state.phase = "installing"
        /\ Describes(tx) /\ Describes(state) /\ BackedUp
    BY <1>0, <1>9, <2>3 DEF CopyBegin, MemoryOK, Applying, ProcessOK, PhaseOK, JournalOK
  <2>6. \A g \in Program : g # f => install'[g] = install[g]
    BY <1>0, <1>9, UiApart DEF CopyBegin, DiskType
  <2>7. OnlyItemsTouched'
    BY <2>1, <2>5, <2>6 DEF OnlyItemsTouched, SameHistory, Items
  <2>8. JournalOK'
    BY <1>9, <2>4, <2>5, <2>7 DEF CopyBegin, JournalOK
  <2>9. \A g \in Items(job) \ todo : install'[g] = job.release
    BY <1>0, <1>9, <2>3, <2>6 DEF CopyBegin, ProcessOK
  <2>10. ProcessOK'
    BY <1>9, <2>4, <2>5, <2>7, <2>9 DEF CopyBegin, ProcessOK, Applying, RollingBack
  <2> QED BY <2>8, <2>10
<1>10. CASE CopyEnd
  <2>1. SameHistory /\ (Tracked' => Tracked)
    BY <1>0, <1>10 DEF CopyEnd, RestType, SameHistory, Tracked, UiOnly
  <2>2. SUFFICES ASSUME Tracked' PROVE JournalOK' /\ ProcessOK'
    OBVIOUS
  <2>3. Tracked /\ PhaseOK /\ JournalOK /\ ProcessOK
    BY <1>0, <2>1, <2>2
  <2>4. /\ BackedUp' <=> BackedUp
        /\ Describes(state)' <=> Describes(state)
        /\ Describes(tx)' <=> Describes(tx)
        /\ IsTree(hist.job)' <=> IsTree(hist.job)
    BY <1>10, <2>1 DEF CopyEnd, SameHistory, BackedUp, Describes, IsTree
  <2>5. /\ job = hist.job /\ cur \in Items(job) /\ OnlyItemsTouched /\ state.phase = "installing"
        /\ Describes(tx) /\ Describes(state) /\ BackedUp
    BY <1>0, <1>10, <2>3 DEF CopyEnd, MemoryOK, Applying, ProcessOK, PhaseOK, JournalOK
  <2>6. \A g \in Program : install'[g] = IF g = cur THEN job.release ELSE install[g]
    BY <1>0, <1>10, <2>5, UiApart DEF CopyEnd, DiskType
  <2>7. OnlyItemsTouched'
    BY <2>1, <2>5, <2>6 DEF OnlyItemsTouched, SameHistory, Items
  <2>8. JournalOK'
    BY <1>10, <2>4, <2>5, <2>7 DEF CopyEnd, JournalOK
  <2>9. \A g \in Items(job) \ todo' : install'[g] = job.release
    BY <1>0, <1>10, <2>3, <2>6 DEF CopyEnd, ProcessOK
  <2>10. ProcessOK'
    BY <1>10, <2>4, <2>5, <2>7, <2>9 DEF CopyEnd, ProcessOK, Applying, RollingBack
  <2> QED BY <2>8, <2>10
<1>11. CASE CopyDone
  <2>1. SameHistory /\ (Tracked' => Tracked)
    BY <1>0, <1>11 DEF CopyDone, RestType, SameHistory, Tracked, UiOnly
  <2>2. SameProgram
    BY <1>11 DEF CopyDone, disk, SameProgram
  <2>3. Describes(tx)' <=> Describes(tx)
    BY <1>0, <1>11, <2>1, KeepsTransaction DEF CopyDone, mem, Goto
  <2>4. SUFFICES ASSUME Tracked' PROVE JournalOK' /\ ProcessOK'
    OBVIOUS
  <2>5. Tracked /\ PhaseOK /\ JournalOK /\ ProcessOK
    BY <1>0, <2>1, <2>4
  <2>6. JournalOK'
    BY <1>11, <2>1, <2>2, <2>5, KeepsJournal DEF CopyDone, disk, SameBackup
  <2>7. ProcessOK'
    <3>1. job = hist.job /\ OnlyItemsTouched
      BY <1>0, <1>11, <2>5 DEF CopyDone, MemoryOK, Applying, ProcessOK
    <3>2. New(Program)
      BY <1>0, <1>11, <2>5, <3>1, AllCopied DEF CopyDone, ProcessOK
    <3> QED BY <1>0, <1>11, <2>1, <2>2, <2>3, <2>5, <3>2, KeepsProgram
       DEF CopyDone, ProcessOK, Applying, RollingBack, Goto
  <2> QED BY <2>6, <2>7
<1>12. CASE UiExists
  <2>1. SameHistory /\ (Tracked' => Tracked)
    BY <1>0, <1>12 DEF UiExists, RestType, SameHistory, Tracked, UiOnly
  <2>2. SameProgram
    BY <1>12 DEF UiExists, disk, SameProgram
  <2>3. job.kind # "ui" => (Describes(tx)' <=> Describes(tx))
    BY <1>0, <1>12, <2>1, KeepsTransaction DEF UiExists, Goto
  <2>4. SUFFICES ASSUME Tracked' PROVE JournalOK' /\ ProcessOK'
    OBVIOUS
  <2>5. Tracked /\ PhaseOK /\ JournalOK /\ ProcessOK
    BY <1>0, <2>1, <2>4
  <2>6. JournalOK'
    BY <1>12, <2>1, <2>2, <2>5, KeepsJournal DEF UiExists, disk, SameBackup
  <2>7. ProcessOK'
    BY <1>0, <1>12, <2>1, <2>2, <2>3, <2>5, KeepsProgram
       DEF UiExists, ProcessOK, PhaseOK, Applying, RollingBack, MemoryOK, disk, mem, Exit, Goto
  <2> QED BY <2>6, <2>7
<1>13. CASE InstallBundle
  <2>1. SameHistory /\ (Tracked' => Tracked)
    BY <1>0, <1>13 DEF InstallBundle, RestType, SameHistory, Tracked, UiOnly
  <2>2. SameProgram
    BY <1>0, <1>13, UiApart DEF InstallBundle, DiskType, MemType, Transactions,
         MemoryOK, SameProgram
  <2>3. job.kind # "ui" => (Describes(tx)' <=> Describes(tx))
    BY <1>0, <1>13, <2>1, KeepsTransaction DEF InstallBundle
  <2>4. SUFFICES ASSUME Tracked' PROVE JournalOK' /\ ProcessOK'
    OBVIOUS
  <2>5. Tracked /\ PhaseOK /\ JournalOK /\ ProcessOK
    BY <1>0, <2>1, <2>4
  <2>6. JournalOK'
    BY <1>13, <2>1, <2>2, <2>5, KeepsJournal DEF InstallBundle, disk, SameBackup
  <2>7. ProcessOK'
    BY <1>0, <1>13, <2>1, <2>2, <2>3, <2>5, KeepsProgram
       DEF InstallBundle, ProcessOK, PhaseOK, Applying, RollingBack, MemoryOK, disk, mem
  <2> QED BY <2>6, <2>7
<1>14. CASE SwitchPointer
  <2>1. SameHistory /\ (Tracked' => Tracked)
    BY <1>0, <1>14 DEF SwitchPointer, RestType, SameHistory, Tracked, UiOnly
  <2>2. SameProgram
    BY <1>0, <1>14, UiApart DEF SwitchPointer, DiskType, MemType, Transactions,
         MemoryOK, SameProgram
  <2>3. Describes(tx)' <=> Describes(tx)
    BY <1>0, <1>14, <2>1, KeepsTransaction DEF SwitchPointer, mem
  <2>4. SUFFICES ASSUME Tracked' PROVE JournalOK' /\ ProcessOK'
    OBVIOUS
  <2>5. Tracked /\ PhaseOK /\ JournalOK /\ ProcessOK
    BY <1>0, <2>1, <2>4
  <2>6. JournalOK'
    BY <1>14, <2>1, <2>2, <2>5, KeepsJournal DEF SwitchPointer, disk, SameBackup
  <2>7. ProcessOK'
    BY <1>0, <1>14, <2>1, <2>2, <2>3, <2>5, KeepsProgram
       DEF SwitchPointer, ProcessOK, PhaseOK, Applying, RollingBack, MemoryOK, disk, mem
  <2> QED BY <2>6, <2>7
<1>15. CASE Commit
  <2>1. SameHistory /\ (Tracked' => Tracked)
    BY <1>0, <1>15 DEF Commit, RestType, SameHistory, Tracked, UiOnly
  <2>2. SameProgram
    BY <1>15 DEF Commit, disk, SameProgram
  <2>3. job.kind # "ui" => (Describes(tx)' <=> Describes(tx))
    BY <1>0, <1>15, <2>1, KeepsTransaction DEF Commit
  <2>4. SUFFICES ASSUME Tracked' PROVE JournalOK' /\ ProcessOK'
    OBVIOUS
  <2>5. Tracked /\ PhaseOK /\ JournalOK /\ ProcessOK
    BY <1>0, <2>1, <2>4
  <2>6. JournalOK'
    <3>1. CASE job.kind = "ui"
      BY <1>15, <2>1, <2>2, <2>5, <3>1, KeepsJournal DEF Commit, SameBackup
    <3>2. CASE job.kind # "ui"
      <4>1. state'.phase = "committed"
        BY <1>0, <1>15, <3>2 DEF Commit, MemType, Transactions
      <4>2. New(Program)
        BY <1>15, <2>5, <3>2 DEF Commit, ProcessOK
      <4> QED BY <2>1, <2>2, <4>1, <4>2, KeepsProgram DEF JournalOK
    <3> QED BY <3>1, <3>2
  <2>7. ProcessOK'
    BY <1>0, <1>15, <2>1, <2>2, <2>3, <2>5, KeepsProgram
       DEF Commit, ProcessOK, PhaseOK, Applying, RollingBack, MemoryOK, disk, mem, Exit
  <2> QED BY <2>6, <2>7
<1>16. CASE HealthTimesOut
  <2>1. SameHistory /\ (Tracked' => Tracked)
    BY <1>0, <1>16 DEF HealthTimesOut, RestType, SameHistory, Tracked, UiOnly
  <2>2. SameProgram
    BY <1>16 DEF HealthTimesOut, disk, SameProgram
  <2>3. Describes(tx)' <=> Describes(tx)
    BY <1>0, <1>16, <2>1, KeepsTransaction DEF HealthTimesOut, mem, Goto
  <2>4. SUFFICES ASSUME Tracked' PROVE JournalOK' /\ ProcessOK'
    OBVIOUS
  <2>5. Tracked /\ PhaseOK /\ JournalOK /\ ProcessOK
    BY <1>0, <2>1, <2>4
  <2>6. JournalOK'
    BY <1>16, <2>1, <2>2, <2>5, KeepsJournal DEF HealthTimesOut, disk, SameBackup
  <2>7. ProcessOK'
    BY <1>0, <1>16, <2>1, <2>2, <2>3, <2>5, KeepsProgram
       DEF HealthTimesOut, ProcessOK, PhaseOK, Applying, RollingBack, MemoryOK, disk, mem, Goto
  <2> QED BY <2>6, <2>7
<1>17. CASE FailPlain
  <2>1. SameHistory /\ (Tracked' => Tracked)
    BY <1>0, <1>17 DEF FailPlain, RestType, SameHistory, Tracked, UiOnly
  <2>2. SameProgram
    BY <1>17 DEF FailPlain, disk, SameProgram
  <2>3. Describes(tx)' <=> Describes(tx)
    BY <1>0, <1>17, <2>1, KeepsTransaction DEF FailPlain, mem
  <2>4. SUFFICES ASSUME Tracked' PROVE JournalOK' /\ ProcessOK'
    OBVIOUS
  <2>5. Tracked /\ PhaseOK /\ JournalOK /\ ProcessOK
    BY <1>0, <2>1, <2>4
  <2>6. JournalOK'
    BY <1>17, <2>1, <2>2, <2>5, KeepsJournal DEF FailPlain, disk, SameBackup
  <2>7. ProcessOK'
    BY <1>0, <1>17, <2>1, <2>2, <2>3, <2>5, KeepsProgram
       DEF FailPlain, ProcessOK, PhaseOK, Applying, RollingBack, MemoryOK, disk, mem
  <2> QED BY <2>6, <2>7
<1>18. CASE FailBundle
  <2>1. SameHistory /\ (Tracked' => Tracked)
    BY <1>0, <1>18 DEF FailBundle, RemoveBundle, RestType, SameHistory, Tracked, UiOnly
  <2>2. SameProgram
    BY <1>0, <1>18, UiApart DEF FailBundle, RemoveBundle, DiskType, MemType, Transactions, MemoryOK,
         SameProgram
  <2>3. Describes(tx)' <=> Describes(tx)
    BY <1>0, <1>18, <2>1, KeepsTransaction DEF FailBundle, RemoveBundle, mem, Goto
  <2>4. SUFFICES ASSUME Tracked' PROVE JournalOK' /\ ProcessOK'
    OBVIOUS
  <2>5. Tracked /\ PhaseOK /\ JournalOK /\ ProcessOK
    BY <1>0, <2>1, <2>4
  <2>6. JournalOK'
    BY <1>18, <2>1, <2>2, <2>5, KeepsJournal DEF FailBundle, RemoveBundle, disk, SameBackup
  <2>7. ProcessOK'
    BY <1>0, <1>18, <2>1, <2>2, <2>3, <2>5, KeepsProgram
       DEF FailBundle, RemoveBundle, ProcessOK, PhaseOK, Applying, RollingBack, MemoryOK, disk, mem, Goto
  <2> QED BY <2>6, <2>7
<1>19. CASE FailPointer
  <2>1. SameHistory /\ (Tracked' => Tracked)
    BY <1>0, <1>19 DEF FailPointer, AfterFailure, RestType, SameHistory, Tracked, UiOnly
  <2>2. SameProgram
    BY <1>0, <1>19, UiApart DEF FailPointer, AfterFailure, DiskType, MemType, Transactions,
         MemoryOK, SameProgram
  <2>3. job.kind # "ui" => (Describes(tx)' <=> Describes(tx))
    BY <1>0, <1>19, <2>1, KeepsTransaction DEF FailPointer, AfterFailure
  <2>4. SUFFICES ASSUME Tracked' PROVE JournalOK' /\ ProcessOK'
    OBVIOUS
  <2>5. Tracked /\ PhaseOK /\ JournalOK /\ ProcessOK
    BY <1>0, <2>1, <2>4
  <2>6. JournalOK'
    BY <1>19, <2>1, <2>2, <2>5, KeepsJournal DEF FailPointer, AfterFailure, disk, SameBackup
  <2>7. ProcessOK'
    BY <1>0, <1>19, <2>1, <2>2, <2>3, <2>5, KeepsProgram
       DEF FailPointer, AfterFailure, ProcessOK, PhaseOK, Applying, RollingBack, MemoryOK, disk, mem, Exit
  <2> QED BY <2>6, <2>7
<1>19a. CASE FailPointerFails
  <2>1. SameHistory /\ (Tracked' => Tracked)
    BY <1>0, <1>19a DEF FailPointerFails, AfterFailure, RestType, SameHistory, Tracked, UiOnly
  <2>2. SameProgram
    BY <1>0, <1>19a, UiApart DEF FailPointerFails, AfterFailure, DiskType, MemType, Transactions,
         MemoryOK, SameProgram
  <2>3. job.kind # "ui" => (Describes(tx)' <=> Describes(tx))
    BY <1>0, <1>19a, <2>1, KeepsTransaction DEF FailPointerFails, AfterFailure
  <2>4. SUFFICES ASSUME Tracked' PROVE JournalOK' /\ ProcessOK'
    OBVIOUS
  <2>5. Tracked /\ PhaseOK /\ JournalOK /\ ProcessOK
    BY <1>0, <2>1, <2>4
  <2>6. JournalOK'
    BY <1>19a, <2>1, <2>2, <2>5, KeepsJournal DEF FailPointerFails, AfterFailure, disk, SameBackup
  <2>7. ProcessOK'
    BY <1>0, <1>19a, <2>1, <2>2, <2>3, <2>5, KeepsProgram
       DEF FailPointerFails, AfterFailure, ProcessOK, PhaseOK, Applying, RollingBack, MemoryOK, disk, mem, Exit
  <2> QED BY <2>6, <2>7
<1>20. CASE MarkRollback
  <2>1. SameHistory /\ (Tracked' => Tracked)
    BY <1>0, <1>20 DEF MarkRollback, RestType, SameHistory, Tracked, UiOnly
  <2>2. SUFFICES ASSUME Tracked' PROVE JournalOK' /\ ProcessOK'
    OBVIOUS
  <2>3. Tracked /\ PhaseOK /\ JournalOK /\ ProcessOK
    BY <1>0, <2>1, <2>2
  <2>4. SameProgram /\ SameBackup /\ (Describes(tx)' <=> Describes(tx))
    BY <1>20, <2>1, KeepsTransaction DEF MarkRollback, SameProgram, SameBackup
  <2>5. Describes(tx) /\ BackedUp /\ (IsTree(hist.job) \/ OnlyItemsTouched)
    BY <1>20, <2>3 DEF MarkRollback, ProcessOK, PhaseOK, JournalOK
  <2>6. Describes(state)' /\ state'.phase = "rollback_required"
    <3>1. state'.phase = "rollback_required"
      BY <1>0, <1>20 DEF MarkRollback, MemType, Transactions
    <3>2. UNCHANGED tx
      BY <1>20 DEF MarkRollback
    <3> QED BY <1>0, <1>20, <2>4, <2>5, <3>1, <3>2, WritesDescription DEF
         MarkRollback, Phases
  <2>7. BackedUp' /\ (IsTree(hist.job) \/ OnlyItemsTouched)'
    <3>1. BackedUp'
      BY <2>1, <2>4, <2>5 DEF SameHistory, SameBackup, BackedUp, IsTree
    <3>2. IsTree(hist.job)' <=> IsTree(hist.job)
      BY <2>1 DEF SameHistory, IsTree
    <3> QED BY <2>1, <2>4, <2>5, <3>1, <3>2, KeepsProgram
  <2>8. JournalOK'
    BY <2>6, <2>7 DEF JournalOK
  <2>9. \A f \in Program \ todo' : OldAt(f)
    <3>1. CASE IsTree(hist.job)
      <4>1. tx.scope = "tree"
        BY <2>5, <3>1 DEF Describes
      <4> QED BY <1>20, <2>5, <3>1, <4>1, UiApart DEF MarkRollback, BackedUp, OldAt
    <3>2. CASE ~IsTree(hist.job)
      <4>1. tx.scope # "tree" /\ tx.components = hist.job.native
        BY <2>5, <3>2 DEF Describes
      <4>2. Items(hist.job) = hist.job.native
        BY <3>2 DEF IsTree, Items
      <4> QED BY <1>20, <2>5, <3>2, <4>1, <4>2 DEF MarkRollback, OnlyItemsTouched, OldAt
    <3> QED BY <3>1, <3>2
  <2>10. ProcessOK'
    <3>1. \A f \in Program : OldAt(f)' <=> OldAt(f)
      BY <2>1, <2>4, KeepsProgram
    <3> QED BY <1>20, <2>4, <2>5, <2>9, <3>1 DEF MarkRollback, ProcessOK, Applying,
         RollingBack
  <2> QED BY <2>8, <2>10
<1>21. ASSUME NEW f \in Files, RestoreBegin(f) PROVE Tracked' => JournalOK' /\ ProcessOK'
  <2>1. SameHistory /\ (Tracked' => Tracked)
    BY <1>0, <1>21 DEF RestoreBegin, RestType, SameHistory, Tracked, UiOnly
  <2>2. SUFFICES ASSUME Tracked' PROVE JournalOK' /\ ProcessOK'
    OBVIOUS
  <2>3. Tracked /\ PhaseOK /\ JournalOK /\ ProcessOK
    BY <1>0, <2>1, <2>2
  <2>4. /\ BackedUp' <=> BackedUp
        /\ Describes(state)' <=> Describes(state)
        /\ Describes(tx)' <=> Describes(tx)
        /\ IsTree(hist.job)' <=> IsTree(hist.job)
    BY <1>21, <2>1 DEF RestoreBegin, SameHistory, BackedUp, Describes, IsTree
  <2>5. /\ Describes(tx) /\ Describes(state) /\ BackedUp /\ state.phase = "rollback_required"
        /\ IsTree(hist.job) \/ OnlyItemsTouched
    BY <1>21, <2>3 DEF RestoreBegin, ProcessOK, RollingBack, PhaseOK, JournalOK
  <2>6. \A g \in Program : g # f => install'[g] = install[g]
    BY <1>0, <1>21, UiApart DEF RestoreBegin, DiskType
  <2>7. (IsTree(hist.job) \/ OnlyItemsTouched)'
    <3>1. CASE IsTree(hist.job)
      BY <2>4, <3>1
    <3>2. CASE ~IsTree(hist.job)
      <4>1. f \in Items(hist.job) \/ f \notin Program
        BY <1>0, <1>21, <2>5, <3>2, JobFields
        DEF RestoreBegin, Describes, Items, RestType
      <4>2. OnlyItemsTouched'
        BY <2>1, <2>5, <2>6, <3>2, <4>1 DEF OnlyItemsTouched, SameHistory, Items
      <4> QED BY <4>2
    <3> QED BY <3>1, <3>2
  <2>8. JournalOK'
    BY <1>21, <2>4, <2>5, <2>7 DEF RestoreBegin, JournalOK
  <2>9. \A g \in Program \ todo : OldAt(g)'
    BY <1>0, <1>21, <2>1, <2>3, <2>6 DEF RestoreBegin, ProcessOK, OldAt, SameHistory, IsTree
  <2>10. ProcessOK'
    BY <1>21, <2>4, <2>5, <2>9 DEF RestoreBegin, ProcessOK, Applying, RollingBack
  <2> QED BY <2>8, <2>10
<1>22. ASSUME NEW f \in Files, RemoveAdded(f) PROVE Tracked' => JournalOK' /\ ProcessOK'
  <2>1. SameHistory /\ (Tracked' => Tracked)
    BY <1>0, <1>22 DEF RemoveAdded, RestType, SameHistory, Tracked, UiOnly
  <2>2. SUFFICES ASSUME Tracked' PROVE JournalOK' /\ ProcessOK'
    OBVIOUS
  <2>3. Tracked /\ PhaseOK /\ JournalOK /\ ProcessOK
    BY <1>0, <2>1, <2>2
  <2>4. /\ BackedUp' <=> BackedUp
        /\ Describes(state)' <=> Describes(state)
        /\ Describes(tx)' <=> Describes(tx)
        /\ IsTree(hist.job)' <=> IsTree(hist.job)
    BY <1>22, <2>1 DEF RemoveAdded, SameHistory, BackedUp, Describes, IsTree
  <2>5. /\ Describes(tx) /\ Describes(state) /\ BackedUp /\ state.phase = "rollback_required"
        /\ IsTree(hist.job) \/ OnlyItemsTouched
    BY <1>22, <2>3 DEF RemoveAdded, ProcessOK, RollingBack, PhaseOK, JournalOK
  <2>6. \A g \in Program : g # f => install'[g] = install[g]
    BY <1>0, <1>22, UiApart DEF RemoveAdded, DiskType
  <2>7. (IsTree(hist.job) \/ OnlyItemsTouched)'
    <3>1. CASE IsTree(hist.job)
      BY <2>4, <3>1
    <3>2. CASE ~IsTree(hist.job)
      <4>1. f \in Items(hist.job) \/ f \notin Program
        BY <1>0, <1>22, <2>5, <3>2, JobFields
        DEF RemoveAdded, Describes, Items, MemoryOK, RestType
      <4>2. OnlyItemsTouched'
        BY <2>1, <2>5, <2>6, <3>2, <4>1 DEF OnlyItemsTouched, SameHistory, Items
      <4> QED BY <4>2
    <3> QED BY <3>1, <3>2
  <2>8. JournalOK'
    BY <1>22, <2>4, <2>5, <2>7 DEF RemoveAdded, JournalOK
  <2>9. OldAt(f)'
    <3>1. f \in hist.job.native /\ hist.base[f] = "absent"
      BY <1>0, <1>22, <2>5 DEF RemoveAdded, Describes, MemoryOK
    <3>2. install'[f] = "absent"
      BY <1>0, <1>22 DEF RemoveAdded, DiskType
    <3> QED BY <2>1, <3>1, <3>2 DEF OldAt, SameHistory
  <2>10. \A g \in Program \ todo' : OldAt(g)'
    BY <1>0, <1>22, <2>1, <2>3, <2>6, <2>9 DEF RemoveAdded, ProcessOK, OldAt,
         SameHistory, IsTree
  <2>11. ProcessOK'
    BY <1>22, <2>4, <2>5, <2>10 DEF RemoveAdded, ProcessOK, Applying, RollingBack
  <2> QED BY <2>8, <2>11
<1>23. ASSUME NEW f \in Files, BackupMissing(f) PROVE Tracked' => JournalOK' /\ ProcessOK'
  <2>1. SameHistory /\ (Tracked' => Tracked)
    BY <1>0, <1>23 DEF BackupMissing, RestType, SameHistory, Tracked, UiOnly
  <2>2. SameProgram
    BY <1>23 DEF BackupMissing, disk, SameProgram
  <2>3. JournalOK => JournalOK'
    BY <1>23, <2>1, <2>2, KeepsJournal DEF BackupMissing, disk, SameBackup
  <2>4. ASSUME ProcessOK, JournalOK, PhaseOK PROVE ProcessOK'
    BY <1>0, <1>23, <2>1, <2>2, <2>4, KeepsProgram
       DEF BackupMissing, ProcessOK, Applying, RollingBack, MemoryOK, disk, mem, Abort, Exit
  <2> QED BY <1>0, <2>1, <2>3, <2>4
<1>24. ASSUME NEW f \in Files, DiscardFile(f) PROVE Tracked' => JournalOK' /\ ProcessOK'
  <2>1. SameHistory /\ (Tracked' => Tracked)
    BY <1>0, <1>24 DEF DiscardFile, RestType, SameHistory, Tracked, UiOnly
  <2>2. SameProgram
    BY <1>24 DEF DiscardFile, disk, SameProgram
  <2>3. Describes(tx)' <=> Describes(tx)
    BY <1>0, <1>24, <2>1, KeepsTransaction DEF DiscardFile, mem
  <2>4. SUFFICES ASSUME Tracked' PROVE JournalOK' /\ ProcessOK'
    OBVIOUS
  <2>5. Tracked /\ PhaseOK /\ JournalOK /\ ProcessOK
    BY <1>0, <2>1, <2>4
  <2>6. JournalOK'
    <3>1. state' = state /\ state.phase \in {"committed", "restored"}
      BY <1>24, <2>5 DEF DiscardFile, PhaseOK
    <3> QED BY <2>1, <2>2, <2>5, <3>1, KeepsProgram DEF JournalOK
  <2>7. ProcessOK'
    BY <1>0, <1>24, <2>1, <2>2, <2>3, <2>5, KeepsProgram
       DEF DiscardFile, ProcessOK, PhaseOK, Applying, RollingBack, MemoryOK, disk, mem
  <2> QED BY <2>6, <2>7
<1>25. CASE RestoreEnd
  <2>1. SameHistory /\ (Tracked' => Tracked)
    BY <1>0, <1>25 DEF RestoreEnd, RestType, SameHistory, Tracked, UiOnly
  <2>2. SUFFICES ASSUME Tracked' PROVE JournalOK' /\ ProcessOK'
    OBVIOUS
  <2>3. Tracked /\ PhaseOK /\ JournalOK /\ ProcessOK
    BY <1>0, <2>1, <2>2
  <2>4. /\ BackedUp' <=> BackedUp
        /\ Describes(state)' <=> Describes(state)
        /\ Describes(tx)' <=> Describes(tx)
        /\ IsTree(hist.job)' <=> IsTree(hist.job)
    BY <1>25, <2>1 DEF RestoreEnd, SameHistory, BackedUp, Describes, IsTree
  <2>5. /\ Describes(tx) /\ Describes(state) /\ BackedUp /\ state.phase = "rollback_required"
        /\ IsTree(hist.job) \/ OnlyItemsTouched
    BY <1>25, <2>3 DEF RestoreEnd, ProcessOK, RollingBack, PhaseOK, JournalOK
  <2>6. \A g \in Program : g # cur => install'[g] = install[g]
    BY <1>0, <1>25, UiApart DEF RestoreEnd, DiskType
  <2>7. (IsTree(hist.job) \/ OnlyItemsTouched)'
    <3>1. CASE IsTree(hist.job)
      BY <2>4, <3>1
    <3>2. CASE ~IsTree(hist.job)
      <4>1. cur \in Items(hist.job) \/ cur \notin Program
        BY <1>0, <1>25, <2>5, <3>2, JobFields
        DEF RestoreEnd, Describes, Items, MemoryOK, RestType
      <4>2. OnlyItemsTouched'
        BY <2>1, <2>5, <2>6, <3>2, <4>1 DEF OnlyItemsTouched, SameHistory, Items
      <4> QED BY <4>2
    <3> QED BY <3>1, <3>2
  <2>8. JournalOK'
    BY <1>25, <2>4, <2>5, <2>7 DEF RestoreEnd, JournalOK
  <2>9. ASSUME NEW g \in Program, g = cur PROVE OldAt(g)'
    <3>1. IsTree(hist.job) \/ g \in hist.job.native
      BY <1>0, <1>25, <2>5, <2>9 DEF RestoreEnd, Describes, MemoryOK
    <3>2. g \in Files /\ install'[g] = backup[g]
      BY <1>0, <1>25, <2>9, UiApart DEF RestoreEnd, DiskType
    <3>3. backup[g] = hist.base[g]
      BY <2>5, <3>1, <3>2 DEF BackedUp
    <3> QED BY <2>1, <3>2, <3>3 DEF OldAt, SameHistory
  <2>10. \A g \in Program \ todo' : OldAt(g)'
    BY <1>0, <1>25, <2>1, <2>3, <2>6, <2>9 DEF RestoreEnd, ProcessOK, OldAt,
         SameHistory, IsTree
  <2>11. ProcessOK'
    BY <1>25, <2>4, <2>5, <2>10 DEF RestoreEnd, ProcessOK, Applying, RollingBack
  <2> QED BY <2>8, <2>11
<1>26. CASE RestoreUi
  <2>1. SameHistory /\ (Tracked' => Tracked)
    BY <1>0, <1>26 DEF RestoreUi, RemoveBundle, RestType, SameHistory, Tracked, UiOnly
  <2>2. SameProgram
    BY <1>0, <1>26, UiApart DEF RestoreUi, RemoveBundle, DiskType, MemType, Transactions, MemoryOK,
         SameProgram
  <2>3. Describes(tx)' <=> Describes(tx)
    BY <1>0, <1>26, <2>1, KeepsTransaction DEF RestoreUi, RemoveBundle, mem, Goto
  <2>4. SUFFICES ASSUME Tracked' PROVE JournalOK' /\ ProcessOK'
    OBVIOUS
  <2>5. Tracked /\ PhaseOK /\ JournalOK /\ ProcessOK
    BY <1>0, <2>1, <2>4
  <2>6. JournalOK'
    BY <1>26, <2>1, <2>2, <2>5, KeepsJournal DEF RestoreUi, RemoveBundle, disk, SameBackup
  <2>7. ProcessOK'
    <3>1. Old(Program)
      BY <1>26, <2>5, AllRestored DEF RestoreUi, RemoveBundle, ProcessOK
    <3> QED BY <1>0, <1>26, <2>1, <2>2, <2>3, <2>5, <3>1, KeepsProgram
       DEF RestoreUi, RemoveBundle, ProcessOK, Applying, RollingBack, Goto
  <2> QED BY <2>6, <2>7
<1>27. CASE RestorePointerBegin
  <2>1. SameHistory /\ (Tracked' => Tracked)
    BY <1>0, <1>27 DEF RestorePointerBegin, RestType, SameHistory, Tracked, UiOnly
  <2>2. SameProgram
    BY <1>0, <1>27, UiApart DEF RestorePointerBegin, DiskType, MemType, Transactions,
         MemoryOK, SameProgram
  <2>3. Describes(tx)' <=> Describes(tx)
    BY <1>0, <1>27, <2>1, KeepsTransaction DEF RestorePointerBegin, mem, Goto
  <2>4. SUFFICES ASSUME Tracked' PROVE JournalOK' /\ ProcessOK'
    OBVIOUS
  <2>5. Tracked /\ PhaseOK /\ JournalOK /\ ProcessOK
    BY <1>0, <2>1, <2>4
  <2>6. JournalOK'
    BY <1>27, <2>1, <2>2, <2>5, KeepsJournal DEF RestorePointerBegin, disk, SameBackup
  <2>7. ProcessOK'
    BY <1>0, <1>27, <2>1, <2>2, <2>3, <2>5, KeepsProgram
       DEF RestorePointerBegin, ProcessOK, PhaseOK, Applying, RollingBack, MemoryOK, disk, mem, Goto
  <2> QED BY <2>6, <2>7
<1>28. CASE RestorePointerEnd
  <2>1. SameHistory /\ (Tracked' => Tracked)
    BY <1>0, <1>28 DEF RestorePointerEnd, RestType, SameHistory, Tracked, UiOnly
  <2>2. SameProgram
    BY <1>0, <1>28, UiApart DEF RestorePointerEnd, DiskType, MemType, Transactions,
         MemoryOK, SameProgram
  <2>3. Describes(tx)' <=> Describes(tx)
    BY <1>0, <1>28, <2>1, KeepsTransaction DEF RestorePointerEnd, mem, Goto
  <2>4. SUFFICES ASSUME Tracked' PROVE JournalOK' /\ ProcessOK'
    OBVIOUS
  <2>5. Tracked /\ PhaseOK /\ JournalOK /\ ProcessOK
    BY <1>0, <2>1, <2>4
  <2>6. JournalOK'
    BY <1>28, <2>1, <2>2, <2>5, KeepsJournal DEF RestorePointerEnd, disk, SameBackup
  <2>7. ProcessOK'
    BY <1>0, <1>28, <2>1, <2>2, <2>3, <2>5, KeepsProgram
       DEF RestorePointerEnd, ProcessOK, PhaseOK, Applying, RollingBack, MemoryOK, disk, mem, Goto
  <2> QED BY <2>6, <2>7
<1>28a. CASE RestorePointerStays
  <2>1. SameHistory /\ (Tracked' => Tracked)
    BY <1>0, <1>28a DEF RestorePointerStays, RestType, SameHistory, Tracked, UiOnly
  <2>2. SameProgram
    BY <1>28a DEF RestorePointerStays, disk, SameProgram
  <2>3. Describes(tx)' <=> Describes(tx)
    BY <1>0, <1>28a, <2>1, KeepsTransaction DEF RestorePointerStays, mem, Goto
  <2>4. SUFFICES ASSUME Tracked' PROVE JournalOK' /\ ProcessOK'
    OBVIOUS
  <2>5. Tracked /\ PhaseOK /\ JournalOK /\ ProcessOK
    BY <1>0, <2>1, <2>4
  <2>6. JournalOK'
    BY <1>28a, <2>1, <2>2, <2>5, KeepsJournal DEF RestorePointerStays, disk, SameBackup
  <2>7. ProcessOK'
    BY <1>0, <1>28a, <2>1, <2>2, <2>3, <2>5, KeepsProgram
       DEF RestorePointerStays, ProcessOK, PhaseOK, Applying, RollingBack, MemoryOK, disk, mem, Goto
  <2> QED BY <2>6, <2>7
<1>29. CASE WriteRestored
  <2>1. SameHistory /\ (Tracked' => Tracked)
    BY <1>0, <1>29 DEF WriteRestored, RestType, SameHistory, Tracked, UiOnly
  <2>2. SameProgram
    BY <1>29 DEF WriteRestored, disk, SameProgram
  <2>3. Describes(tx)' <=> Describes(tx)
    BY <1>0, <1>29, <2>1, KeepsTransaction DEF WriteRestored, mem, Goto
  <2>4. SUFFICES ASSUME Tracked' PROVE JournalOK' /\ ProcessOK'
    OBVIOUS
  <2>5. Tracked /\ PhaseOK /\ JournalOK /\ ProcessOK
    BY <1>0, <2>1, <2>4
  <2>6. JournalOK'
    <3>1. state'.phase = "restored"
      BY <1>0, <1>29 DEF WriteRestored, MemType, Transactions
    <3>2. Old(Program)
      BY <1>29, <2>5 DEF WriteRestored, ProcessOK
    <3> QED BY <2>1, <2>2, <3>1, <3>2, KeepsProgram DEF JournalOK
  <2>7. ProcessOK'
    BY <1>0, <1>29, <2>1, <2>2, <2>3, <2>5, KeepsProgram
       DEF WriteRestored, ProcessOK, PhaseOK, Applying, RollingBack, MemoryOK, disk, mem, Goto
  <2> QED BY <2>6, <2>7
<1>30. CASE DiscardDone
  <2>1. SameHistory /\ (Tracked' => Tracked)
    BY <1>0, <1>30 DEF DiscardDone, RestType, SameHistory, Tracked, UiOnly
  <2>2. SameProgram
    BY <1>30 DEF DiscardDone, disk, SameProgram
  <2>3. JournalOK => JournalOK'
    BY <1>30, <2>1, <2>2, KeepsJournal DEF DiscardDone, disk, SameBackup
  <2>4. ASSUME ProcessOK, JournalOK, PhaseOK PROVE ProcessOK'
    BY <1>0, <1>30, <2>1, <2>2, <2>4, KeepsProgram
       DEF DiscardDone, ProcessOK, Applying, RollingBack, MemoryOK, disk, mem, Goto
  <2> QED BY <1>0, <2>1, <2>3, <2>4
<1>31. CASE ForgetState
  <2>1. SameHistory /\ (Tracked' => Tracked)
    BY <1>0, <1>31 DEF ForgetState, RestType, SameHistory, Tracked, UiOnly
  <2>2. SameProgram
    BY <1>31 DEF ForgetState, disk, SameProgram
  <2>3. TRUE
    OBVIOUS
  <2>4. SUFFICES ASSUME Tracked' PROVE JournalOK' /\ ProcessOK'
    OBVIOUS
  <2>5. Tracked /\ PhaseOK /\ JournalOK /\ ProcessOK
    BY <1>0, <2>1, <2>4
  <2>6. JournalOK'
    <3>1. state'.phase = "none"
      BY <1>31 DEF ForgetState, NoTransaction
    <3>2. Old(Program) \/ New(Program)
      BY <1>31, <2>5 DEF ForgetState, PhaseOK, JournalOK
    <3> QED BY <2>1, <2>2, <3>1, <3>2, KeepsProgram DEF JournalOK
  <2>7. ProcessOK'
    BY <1>0, <1>31, <2>1, <2>2, <2>3, <2>5, KeepsProgram
       DEF ForgetState, ProcessOK, PhaseOK, Applying, RollingBack, MemoryOK, disk, mem, Exit, Recovered
  <2> QED BY <2>6, <2>7
<1>32. CASE PrepareFails
  <2>1. SameHistory /\ (Tracked' => Tracked)
    BY <1>0, <1>32 DEF PrepareFails, RestType, SameHistory, Tracked, UiOnly
  <2>2. SameProgram
    BY <1>32 DEF PrepareFails, disk, SameProgram
  <2>3. JournalOK => JournalOK'
    BY <1>32, <2>1, <2>2, KeepsJournal DEF PrepareFails, disk, SameBackup
  <2>4. ASSUME ProcessOK, JournalOK, PhaseOK PROVE ProcessOK'
    BY <1>0, <1>32, <2>1, <2>2, <2>4, KeepsProgram
       DEF PrepareFails, ProcessOK, Applying, RollingBack, MemoryOK, disk, mem, Exit
  <2> QED BY <1>0, <2>1, <2>3, <2>4
<1>33. CASE ApplyFails
  <2>1. SameHistory /\ (Tracked' => Tracked)
    BY <1>0, <1>33 DEF ApplyFails, RestType, SameHistory, Tracked, UiOnly
  <2>2. SameProgram
    BY <1>33 DEF ApplyFails, disk, SameProgram
  <2>3. job.kind # "ui" => (Describes(tx)' <=> Describes(tx))
    BY <1>0, <1>33, <2>1, KeepsTransaction DEF ApplyFails, Goto
  <2>4. SUFFICES ASSUME Tracked' PROVE JournalOK' /\ ProcessOK'
    OBVIOUS
  <2>5. Tracked /\ PhaseOK /\ JournalOK /\ ProcessOK
    BY <1>0, <2>1, <2>4
  <2>6. JournalOK'
    BY <1>33, <2>1, <2>2, <2>5, KeepsJournal DEF ApplyFails, disk, SameBackup
  <2>7. ProcessOK'
    BY <1>0, <1>33, <2>1, <2>2, <2>3, <2>5, KeepsProgram
       DEF ApplyFails, ProcessOK, PhaseOK, Applying, RollingBack, MemoryOK, disk, mem, Exit, Goto
  <2> QED BY <2>6, <2>7
<1>34. CASE CommitFails
  <2>1. SameHistory /\ (Tracked' => Tracked)
    BY <1>0, <1>34 DEF CommitFails, RestType, SameHistory, Tracked, UiOnly
  <2>2. SameProgram
    BY <1>34 DEF CommitFails, disk, SameProgram
  <2>3. job.kind # "selected" => (Describes(tx)' <=> Describes(tx))
    BY <1>0, <1>34, <2>1, KeepsTransaction DEF CommitFails
  <2>4. SUFFICES ASSUME Tracked' PROVE JournalOK' /\ ProcessOK'
    OBVIOUS
  <2>5. Tracked /\ PhaseOK /\ JournalOK /\ ProcessOK
    BY <1>0, <2>1, <2>4
  <2>6. JournalOK'
    BY <1>34, <2>1, <2>2, <2>5, KeepsJournal DEF CommitFails, disk, SameBackup
  <2>7. ProcessOK'
    BY <1>0, <1>34, <2>1, <2>2, <2>3, <2>5, KeepsProgram
       DEF CommitFails, ProcessOK, PhaseOK, Applying, RollingBack, MemoryOK, disk, mem, Exit
  <2> QED BY <2>6, <2>7
<1>35. CASE RestoreFails
  <2>1. SameHistory /\ (Tracked' => Tracked)
    BY <1>0, <1>35 DEF RestoreFails, RestType, SameHistory, Tracked, UiOnly
  <2>2. SameProgram
    BY <1>35 DEF RestoreFails, disk, SameProgram
  <2>3. JournalOK => JournalOK'
    BY <1>35, <2>1, <2>2, KeepsJournal DEF RestoreFails, disk, SameBackup
  <2>4. ASSUME ProcessOK, JournalOK, PhaseOK PROVE ProcessOK'
    BY <1>0, <1>35, <2>1, <2>2, <2>4, KeepsProgram
       DEF RestoreFails, ProcessOK, Applying, RollingBack, MemoryOK, disk, mem, Abort, Exit
  <2> QED BY <1>0, <2>1, <2>3, <2>4
<1>36. CASE CleanupFails
  <2>1. SameHistory /\ (Tracked' => Tracked)
    BY <1>0, <1>36 DEF CleanupFails, RestType, SameHistory, Tracked, UiOnly
  <2>2. SameProgram
    BY <1>36 DEF CleanupFails, disk, SameProgram
  <2>3. JournalOK => JournalOK'
    BY <1>36, <2>1, <2>2, KeepsJournal DEF CleanupFails, disk, SameBackup
  <2>4. ASSUME Tracked' PROVE ProcessOK'
    BY <1>0, <1>36, <2>1, <2>2, <2>4, KeepsProgram
       DEF CleanupFails, RestType, Tracked, ProcessOK, Applying, RollingBack, MemoryOK, disk, mem, Abort, Exit
  <2> QED BY <1>0, <2>1, <2>3, <2>4
<1>37. CASE Crash
  <2>1. SameHistory /\ (Tracked' => Tracked)
    BY <1>0, <1>37 DEF Crash, RestType, SameHistory, Tracked, UiOnly
  <2>2. SameProgram
    BY <1>37 DEF Crash, disk, SameProgram
  <2>3. JournalOK => JournalOK'
    BY <1>37, <2>1, <2>2, KeepsJournal DEF Crash, disk, SameBackup
  <2>4. ASSUME ProcessOK, JournalOK, PhaseOK PROVE ProcessOK'
    BY <1>0, <1>37, <2>1, <2>2, <2>4, KeepsProgram
       DEF Crash, ProcessOK, Applying, RollingBack, MemoryOK, disk, mem, Exit
  <2> QED BY <1>0, <2>1, <2>3, <2>4
<1>38. ASSUME NEW j \in Jobs, StartUpdate(j) PROVE Tracked' => JournalOK' /\ ProcessOK'
  <2>1. SameHistory /\ (Tracked' => Tracked)
    BY <1>0, <1>38 DEF StartUpdate, RestType, SameHistory, Tracked, UiOnly
  <2>2. SameProgram
    BY <1>38 DEF StartUpdate, disk, SameProgram
  <2>3. JournalOK => JournalOK'
    BY <1>38, <2>1, <2>2, KeepsJournal DEF StartUpdate, disk, SameBackup
  <2>4. ASSUME ProcessOK, JournalOK, PhaseOK PROVE ProcessOK'
    BY <1>0, <1>38, <2>1, <2>2, <2>4, KeepsProgram
       DEF StartUpdate, ProcessOK, Applying, RollingBack, MemoryOK, disk, mem
  <2> QED BY <1>0, <2>1, <2>3, <2>4
<1>39. CASE StartProduct
  <2>1. SameHistory /\ (Tracked' => Tracked)
    BY <1>0, <1>39 DEF StartProduct, RestType, SameHistory, Tracked, UiOnly
  <2>2. SameProgram
    BY <1>39 DEF StartProduct, disk, SameProgram
  <2>3. JournalOK => JournalOK'
    BY <1>39, <2>1, <2>2, KeepsJournal DEF StartProduct, disk, SameBackup
  <2>4. ASSUME ProcessOK, JournalOK, PhaseOK PROVE ProcessOK'
    BY <1>0, <1>39, <2>1, <2>2, <2>4, KeepsProgram
       DEF StartProduct, ProcessOK, Applying, RollingBack, MemoryOK, disk, mem
  <2> QED BY <1>0, <2>1, <2>3, <2>4
<1>40. CASE StopProduct
  <2>1. SameHistory /\ (Tracked' => Tracked)
    BY <1>0, <1>40 DEF StopProduct, RestType, SameHistory, Tracked, UiOnly
  <2>2. SameProgram
    BY <1>40 DEF StopProduct, disk, SameProgram
  <2>3. JournalOK => JournalOK'
    BY <1>40, <2>1, <2>2, KeepsJournal DEF StopProduct, disk, SameBackup
  <2>4. ASSUME ProcessOK, JournalOK, PhaseOK PROVE ProcessOK'
    BY <1>0, <1>40, <2>1, <2>2, <2>4, KeepsProgram
       DEF StopProduct, ProcessOK, Applying, RollingBack, MemoryOK, disk, mem
  <2> QED BY <1>0, <2>1, <2>3, <2>4
<1> QED
  BY <1>1, <1>2, <1>3, <1>4, <1>5, <1>6, <1>7, <1>8, <1>9, <1>10, <1>11, <1>12,
     <1>13, <1>14, <1>15, <1>16, <1>17, <1>18, <1>19, <1>19a, <1>20, <1>21, <1>22, <1>23,
     <1>24, <1>25, <1>26, <1>27, <1>28, <1>28a, <1>29, <1>30, <1>31, <1>32, <1>33, <1>34,
     <1>35, <1>36, <1>37, <1>38, <1>39, <1>40 DEF Next, Step, Faults

(* The first state satisfies the invariant: nothing was ever updated.      *)
LEMMA UpdateInit == Init => UpdateInv
<1> SUFFICES ASSUME Init PROVE UpdateInv
  OBVIOUS
<1>1. DiskType
  <2>1. Base \in Contents /\ "absent" \in Contents
    BY UpdateAssumption DEF Contents
  <2>2. PICK missing \in {{}, Extra} :
            install = [f \in Files |-> IF f \in UiVersions \cup {"ptr"} THEN "absent"
                                       ELSE IF f \in missing THEN "absent" ELSE Base]
    BY DEF Init
  <2>3. install \in [Files -> Contents]
    BY <2>1, <2>2
  <2>4. backup \in [Files -> Contents]
    BY <2>1 DEF Init, EmptyDir
  <2>5. state \in Transactions
    BY DEF Init, NoTransaction, Transactions, Phases, Scopes, Contents
  <2> QED BY <2>3, <2>4, <2>5 DEF DiskType
<1>2. MemType
  BY AnyJobIsJob DEF Init, MemType, NoTransaction, Transactions, Phases, Scopes, Contents, Pcs
<1>3. RestType
  BY <1>1, AnyJobIsJob, UpdateAssumption DEF Init, RestType, DiskType
<1>4. TypeOK
  BY <1>1, <1>2, <1>3, TypeParts
<1>5. MemoryOK
  BY DEF Init, MemoryOK, Applying, RollingBack, NoTransaction
<1>6. PhaseOK
  BY DEF Init, PhaseOK, Applying, RollingBack
<1>7. hist.base = install
  BY DEF Init
<1>8. Old(Program)
  BY <1>7 DEF Old
<1>9. JournalOK
  BY <1>8 DEF Init, JournalOK, NoTransaction
<1>10. ProcessOK
  BY DEF Init, ProcessOK, Applying, RollingBack
<1> QED BY <1>4, <1>5, <1>6, <1>9, <1>10 DEF UpdateInv

(* Doing nothing keeps it.                                                 *)
LEMMA UpdateStutter == UpdateInv /\ UNCHANGED vars => UpdateInv'
<1> SUFFICES ASSUME UpdateInv, UNCHANGED vars PROVE UpdateInv'
  OBVIOUS
<1>1. /\ install' = install /\ backup' = backup /\ state' = state
      /\ pc' = pc /\ who' = who /\ ctx' = ctx /\ job' = job /\ tx' = tx /\ todo' = todo
      /\ cur' = cur /\ running' = running /\ hist' = hist /\ updates' = updates
      /\ breaks' = breaks
  BY DEF vars, disk, mem, counts
<1>2. TypeOK' <=> TypeOK
  BY <1>1 DEF TypeOK
<1>3. MemoryOK' <=> MemoryOK
  BY <1>1 DEF MemoryOK, Applying, RollingBack
<1>4. PhaseOK' <=> PhaseOK
  BY <1>1 DEF PhaseOK, Applying, RollingBack
<1>5. Tracked' <=> Tracked
  BY <1>1 DEF Tracked
<1>6. SameHistory /\ SameProgram /\ SameBackup
  BY <1>1 DEF SameHistory, SameProgram, SameBackup
<1>7. JournalOK => JournalOK'
  BY <1>1, <1>6, KeepsJournal
<1>8. Describes(tx)' <=> Describes(tx)
  BY <1>1, <1>6, KeepsTransaction
<1>9. BackedUp' <=> BackedUp
  BY <1>1 DEF BackedUp
<1>10. ProcessOK => ProcessOK'
  BY <1>1, <1>6, <1>8, <1>9, KeepsProgram DEF ProcessOK, Applying, RollingBack
<1> QED BY <1>1, <1>2, <1>3, <1>4, <1>5, <1>7, <1>10 DEF UpdateInv

(* Every step of worker, supervisor, machine and user keeps it.            *)
LEMMA UpdateStep == UpdateInv /\ Next => UpdateInv'
<1> SUFFICES ASSUME UpdateInv, Next PROVE UpdateInv'
  OBVIOUS
<1>1. TypeOK /\ MemoryOK /\ (~hist.undone => PhaseOK) /\ (Tracked => JournalOK /\ ProcessOK)
  BY DEF UpdateInv
<1>2. TypeOK'
  <2>1. DiskType' /\ MemType' /\ RestType'
    BY <1>1, TypeStep
  <2> QED BY <2>1 DEF TypeOK, DiskType, MemType, RestType
<1>3. MemoryOK'
  BY <1>1, <1>2, MemoryStep
<1>4. ~hist'.undone => PhaseOK'
  BY <1>1, <1>2, PhaseStep
<1>5. Tracked' => JournalOK' /\ ProcessOK'
  BY <1>1, <1>2, TrackedStep
<1> QED BY <1>2, <1>3, <1>4, <1>5 DEF UpdateInv

(* The position of the process and the phase of the journal say at every   *)
(* moment which files are old, which are new and which can be restored     *)
(* (apply_*, commit, rollback, recover).                                   *)
THEOREM UpdateInvariance == Spec => []UpdateInv
BY UpdateInit, UpdateStutter, UpdateStep, PTL DEF Spec

(* The disk, the journal and the memory of the process keep their types.   *)
THEOREM UpdateTypeCorrect == Spec => []TypeOK
<1>1. UpdateInv => TypeOK
  BY DEF UpdateInv
<1> QED BY <1>1, UpdateInvariance, PTL

(* A closed transaction leaves all program files old or all new, whatever  *)
(* crashes and errors happened on the way (commit, rollback, recover).     *)
THEOREM NativeAtomic == Spec => []NativeFilesAtomic
<1>1. UpdateInv => NativeFilesAtomic
  BY DEF UpdateInv, JournalOK, NativeFilesAtomic, Settled, Program
<1> QED BY <1>1, UpdateInvariance, PTL

(* Until it is committed or restored, what a transaction changed can be    *)
(* put back from its backup (prepare_with, rollback).                      *)
THEOREM BackupComplete == Spec => []EveryChangeIsBackedUp
<1>1. ASSUME UpdateInv PROVE EveryChangeIsBackedUp
  <2> SUFFICES ASSUME state.phase \in {"installing", "rollback_required"}, Tracked,
                      NEW f \in Program, install[f] # hist.base[f]
               PROVE  \/ hist.base[f] # "absent" /\ backup[f] = hist.base[f]
                      \/ hist.base[f] = "absent" /\ f \notin state.backed
    BY DEF EveryChangeIsBackedUp, Program
  <2>1. Describes(state) /\ BackedUp /\ (IsTree(hist.job) \/ OnlyItemsTouched)
    BY <1>1 DEF UpdateInv, JournalOK
  <2>2. f \in Files
    BY UiApart
  <2>3. CASE IsTree(hist.job)
    BY <2>1, <2>2, <2>3 DEF BackedUp, Describes
  <2>4. CASE ~IsTree(hist.job)
    <3>1. f \in hist.job.native
      BY <2>1, <2>4 DEF OnlyItemsTouched, Items, IsTree
    <3> QED BY <2>1, <2>2, <2>4, <3>1 DEF BackedUp, Describes
  <2> QED BY <2>3, <2>4
<1> QED BY <1>1, UpdateInvariance, PTL

CommittedGoal ==
    /\ state'.phase \in {"committed", "none"}
    /\ \A f \in Program : install'[f] = install[f]

(* No step takes a committed update back, unless a failed clean-up had it  *)
(* rolled back.                                                            *)
LEMMA CommittedStep ==
    ASSUME TypeOK, MemoryOK, ~hist.undone => PhaseOK, Next,
           state.phase = "committed", ~hist'.undone
    PROVE  CommittedGoal
<1>0. DiskType /\ MemType /\ RestType /\ MemoryOK
  BY TypeParts
<1>1. CASE RecoverNothing
  BY <1>0, <1>1 DEF RecoverNothing, CommittedGoal, PhaseOK, Applying, RollingBack,
       MemoryOK, disk, mem, RestType, DiskType, MemType, NoTransaction
<1>2. CASE RecoverInvalid
  BY <1>0, <1>2 DEF RecoverInvalid, CommittedGoal, PhaseOK, Applying, RollingBack,
       MemoryOK, disk, mem, RestType, DiskType, MemType, NoTransaction
<1>3. CASE RecoverFinished
  BY <1>0, <1>3 DEF RecoverFinished, CommittedGoal, PhaseOK, Applying, RollingBack,
       MemoryOK, disk, mem, RestType, DiskType, MemType, NoTransaction
<1>4. CASE RecoverInterrupted
  BY <1>0, <1>4 DEF RecoverInterrupted, CommittedGoal, PhaseOK, Applying, RollingBack,
       MemoryOK, disk, mem, RestType, DiskType, MemType, NoTransaction
<1>5. CASE PrepareRefused
  BY <1>0, <1>5 DEF PrepareRefused, CommittedGoal, PhaseOK, Applying, RollingBack,
       MemoryOK, disk, mem, RestType, DiskType, MemType, NoTransaction
<1>6. CASE Prepare
  BY <1>0, <1>6 DEF Prepare, CommittedGoal, PhaseOK, Applying, RollingBack, MemoryOK,
       disk, mem, RestType, DiskType, MemType, NoTransaction
<1>7. CASE WriteInstalling
  BY <1>0, <1>7 DEF WriteInstalling, CommittedGoal, PhaseOK, Applying, RollingBack,
       MemoryOK, disk, mem, RestType, DiskType, MemType, NoTransaction
<1>8. CASE RecordUi
  BY <1>0, <1>8 DEF RecordUi, CommittedGoal, PhaseOK, Applying, RollingBack, MemoryOK,
       disk, mem, RestType, DiskType, MemType, NoTransaction
<1>9. ASSUME NEW f \in Files, CopyBegin(f) PROVE CommittedGoal
  BY <1>0, <1>9 DEF CopyBegin, CommittedGoal, PhaseOK, Applying, RollingBack, MemoryOK,
       disk, mem, RestType, DiskType, MemType, NoTransaction
<1>10. CASE CopyEnd
  BY <1>0, <1>10 DEF CopyEnd, CommittedGoal, PhaseOK, Applying, RollingBack, MemoryOK,
       disk, mem, RestType, DiskType, MemType, NoTransaction
<1>11. CASE CopyDone
  BY <1>0, <1>11 DEF CopyDone, CommittedGoal, PhaseOK, Applying, RollingBack, MemoryOK,
       disk, mem, RestType, DiskType, MemType, NoTransaction
<1>12. CASE UiExists
  BY <1>0, <1>12 DEF UiExists, CommittedGoal, PhaseOK, Applying, RollingBack, MemoryOK,
       disk, mem, RestType, DiskType, MemType, NoTransaction
<1>13. CASE InstallBundle
  BY <1>0, <1>13, UiApart, JobFields DEF InstallBundle, CommittedGoal, PhaseOK, Applying,
       RollingBack, MemoryOK, disk, mem, RestType, DiskType, MemType, NoTransaction
<1>14. CASE SwitchPointer
  BY <1>0, <1>14, UiApart DEF SwitchPointer, CommittedGoal, PhaseOK, Applying,
       RollingBack, MemoryOK, disk, mem, RestType, DiskType, MemType, NoTransaction
<1>15. CASE Commit
  BY <1>0, <1>15 DEF Commit, CommittedGoal, PhaseOK, Applying, RollingBack, MemoryOK,
       disk, mem, RestType, DiskType, MemType, NoTransaction
<1>16. CASE HealthTimesOut
  BY <1>0, <1>16 DEF HealthTimesOut, CommittedGoal, PhaseOK, Applying, RollingBack,
       MemoryOK, disk, mem, RestType, DiskType, MemType, NoTransaction
<1>17. CASE FailPlain
  BY <1>0, <1>17 DEF FailPlain, CommittedGoal, PhaseOK, Applying, RollingBack, MemoryOK,
       disk, mem, RestType, DiskType, MemType, NoTransaction
<1>18. CASE FailBundle
  BY <1>0, <1>18, UiApart, JobFields DEF FailBundle, RemoveBundle, CommittedGoal, PhaseOK, Applying,
       RollingBack, MemoryOK, disk, mem, RestType, DiskType, MemType, NoTransaction
<1>19. CASE FailPointer
  BY <1>0, <1>19, UiApart DEF FailPointer, AfterFailure, CommittedGoal, PhaseOK, Applying, RollingBack,
       MemoryOK, disk, mem, RestType, DiskType, MemType, NoTransaction
<1>19a. CASE FailPointerFails
  BY <1>0, <1>19a, UiApart DEF FailPointerFails, AfterFailure, CommittedGoal, PhaseOK, Applying, RollingBack,
       MemoryOK, disk, mem, RestType, DiskType, MemType, NoTransaction
<1>20. CASE MarkRollback
  BY <1>0, <1>20 DEF MarkRollback, CommittedGoal, PhaseOK, Applying, RollingBack,
       MemoryOK, disk, mem, RestType, DiskType, MemType, NoTransaction
<1>21. ASSUME NEW f \in Files, RestoreBegin(f) PROVE CommittedGoal
  BY <1>0, <1>21 DEF RestoreBegin, CommittedGoal, PhaseOK, Applying, RollingBack,
       MemoryOK, disk, mem, RestType, DiskType, MemType, NoTransaction
<1>22. ASSUME NEW f \in Files, RemoveAdded(f) PROVE CommittedGoal
  BY <1>0, <1>22 DEF RemoveAdded, CommittedGoal, PhaseOK, Applying, RollingBack, MemoryOK,
       disk, mem, RestType, DiskType, MemType, NoTransaction
<1>23. ASSUME NEW f \in Files, BackupMissing(f) PROVE CommittedGoal
  BY <1>0, <1>23 DEF BackupMissing, CommittedGoal, PhaseOK, Applying, RollingBack,
       MemoryOK, disk, mem, RestType, DiskType, MemType, NoTransaction
<1>24. ASSUME NEW f \in Files, DiscardFile(f) PROVE CommittedGoal
  BY <1>0, <1>24 DEF DiscardFile, CommittedGoal, PhaseOK, Applying, RollingBack, MemoryOK,
       disk, mem, RestType, DiskType, MemType, NoTransaction
<1>25. CASE RestoreEnd
  BY <1>0, <1>25 DEF RestoreEnd, CommittedGoal, PhaseOK, Applying, RollingBack, MemoryOK,
       disk, mem, RestType, DiskType, MemType, NoTransaction
<1>26. CASE RestoreUi
  BY <1>0, <1>26 DEF RestoreUi, RemoveBundle, CommittedGoal, PhaseOK, Applying, RollingBack, MemoryOK,
       disk, mem, RestType, DiskType, MemType, NoTransaction
<1>27. CASE RestorePointerBegin
  BY <1>0, <1>27 DEF RestorePointerBegin, CommittedGoal, PhaseOK, Applying, RollingBack,
       MemoryOK, disk, mem, RestType, DiskType, MemType, NoTransaction
<1>28. CASE RestorePointerEnd
  BY <1>0, <1>28 DEF RestorePointerEnd, CommittedGoal, PhaseOK, Applying, RollingBack,
       MemoryOK, disk, mem, RestType, DiskType, MemType, NoTransaction
<1>28a. CASE RestorePointerStays
  BY <1>0, <1>28a DEF RestorePointerStays, CommittedGoal, PhaseOK, Applying, RollingBack,
       MemoryOK, disk, mem, RestType, DiskType, MemType, NoTransaction
<1>29. CASE WriteRestored
  BY <1>0, <1>29 DEF WriteRestored, CommittedGoal, PhaseOK, Applying, RollingBack,
       MemoryOK, disk, mem, RestType, DiskType, MemType, NoTransaction
<1>30. CASE DiscardDone
  BY <1>0, <1>30 DEF DiscardDone, CommittedGoal, PhaseOK, Applying, RollingBack, MemoryOK,
       disk, mem, RestType, DiskType, MemType, NoTransaction
<1>31. CASE ForgetState
  BY <1>0, <1>31 DEF ForgetState, CommittedGoal, PhaseOK, Applying, RollingBack, MemoryOK,
       disk, mem, RestType, DiskType, MemType, NoTransaction
<1>32. CASE PrepareFails
  BY <1>0, <1>32 DEF PrepareFails, CommittedGoal, PhaseOK, Applying, RollingBack,
       MemoryOK, disk, mem, RestType, DiskType, MemType, NoTransaction
<1>33. CASE ApplyFails
  BY <1>0, <1>33 DEF ApplyFails, CommittedGoal, PhaseOK, Applying, RollingBack, MemoryOK,
       disk, mem, RestType, DiskType, MemType, NoTransaction
<1>34. CASE CommitFails
  BY <1>0, <1>34 DEF CommitFails, CommittedGoal, PhaseOK, Applying, RollingBack, MemoryOK,
       disk, mem, RestType, DiskType, MemType, NoTransaction
<1>35. CASE RestoreFails
  BY <1>0, <1>35 DEF RestoreFails, CommittedGoal, PhaseOK, Applying, RollingBack,
       MemoryOK, disk, mem, RestType, DiskType, MemType, NoTransaction
<1>36. CASE CleanupFails
  BY <1>0, <1>36 DEF CleanupFails, CommittedGoal, PhaseOK, Applying, RollingBack,
       MemoryOK, disk, mem, RestType, DiskType, MemType, NoTransaction
<1>37. CASE Crash
  BY <1>0, <1>37 DEF Crash, CommittedGoal, PhaseOK, Applying, RollingBack, MemoryOK, disk,
       mem, RestType, DiskType, MemType, NoTransaction
<1>38. ASSUME NEW j \in Jobs, StartUpdate(j) PROVE CommittedGoal
  BY <1>0, <1>38 DEF StartUpdate, CommittedGoal, PhaseOK, Applying, RollingBack, MemoryOK,
       disk, mem, RestType, DiskType, MemType, NoTransaction
<1>39. CASE StartProduct
  BY <1>0, <1>39 DEF StartProduct, CommittedGoal, PhaseOK, Applying, RollingBack,
       MemoryOK, disk, mem, RestType, DiskType, MemType, NoTransaction
<1>40. CASE StopProduct
  BY <1>0, <1>40 DEF StopProduct, CommittedGoal, PhaseOK, Applying, RollingBack, MemoryOK,
       disk, mem, RestType, DiskType, MemType, NoTransaction
<1> QED
  BY <1>1, <1>2, <1>3, <1>4, <1>5, <1>6, <1>7, <1>8, <1>9, <1>10, <1>11, <1>12, <1>13,
     <1>14, <1>15, <1>16, <1>17, <1>18, <1>19, <1>19a, <1>20, <1>21, <1>22, <1>23, <1>24,
     <1>25, <1>26, <1>27, <1>28, <1>28a, <1>29, <1>30, <1>31, <1>32, <1>33, <1>34, <1>35,
     <1>36, <1>37, <1>38, <1>39, <1>40 DEF Next, Step, Faults

(* Once the committed phase is on disk no crash and no recovery takes the  *)
(* update back (recover on Phase::Committed).                              *)
THEOREM CommitIsFinal == Spec => CommittedStays
<1>1. ASSUME UpdateInv, [Next]_vars
      PROVE  [state.phase = "committed" /\ ~hist'.undone => CommittedGoal]_vars
  <2>1. CASE UNCHANGED vars
    BY <2>1
  <2>2. CASE Next
    BY <1>1, <2>2, CommittedStep DEF UpdateInv
  <2> QED BY <1>1, <2>1, <2>2
<1>2. CommittedGoal <=> /\ state'.phase \in {"committed", "none"}
                        /\ \A f \in Native \cup Payload : install'[f] = install[f]
  BY DEF CommittedGoal, Program
<1>3. ASSUME UpdateInv, [Next]_vars
      PROVE  [state.phase = "committed" /\ ~hist'.undone =>
                /\ state'.phase \in {"committed", "none"}
                /\ \A f \in Native \cup Payload : install'[f] = install[f]]_vars
  BY <1>1, <1>2, <1>3
<1> QED BY <1>3, UpdateInvariance, PTL DEF Spec, CommittedStays

(* The files of the UI are installed files, and no part of the program.    *)
LEMMA UiFilesApart ==
    /\ UiFiles \cap Program = {} /\ UiFiles \subseteq Files /\ Files = Program \cup UiFiles
    /\ "ptr" \in UiFiles /\ "ptr" \notin UiVersions /\ "none" \notin UiFiles
    /\ UiVersions \subseteq UiFiles
BY UpdateAssumption DEF UiFiles, Program, Files

SameUi == \A f \in UiFiles : install'[f] = install[f]

(* A step that leaves the UI alone leaves what is said of it.              *)
LEMMA KeepsUi ==
    ASSUME SameHistory, SameUi, hist'.stuck = hist.stuck
    PROVE  /\ OldUi' <=> OldUi
           /\ New(UiFiles)' <=> New(UiFiles)
           /\ \A f \in UiFiles : UiKept(f)' <=> UiKept(f)
<1>1. OldUi' <=> OldUi
  BY DEF SameHistory, SameUi, OldUi, Stuck, Old, IsTree
<1>2. \A f \in UiFiles : Goal(f)' = Goal(f)
  BY DEF SameHistory, Goal, Items
<1>3. New(UiFiles)' <=> New(UiFiles)
  BY <1>2 DEF SameUi, New
<1>4. \A f \in UiFiles : UiKept(f)' <=> UiKept(f)
  BY DEF SameHistory, SameUi, UiKept
<1> QED BY <1>1, <1>3, <1>4

(* The whole installation is the program and the UI.                       *)
LEMMA WholeIsBoth ==
    /\ OldWhole <=> Old(Program) /\ OldUi
    /\ New(Files) <=> New(Program) /\ New(UiFiles)
<1>1. OldWhole <=> Old(Program) /\ OldUi
  BY UiFilesApart DEF Old, OldUi, OldWhole, Stuck
<1>2. New(Files) <=> New(Program) /\ New(UiFiles)
  BY UiFilesApart DEF New
<1> QED BY <1>1, <1>2

(* A paired transaction was one before, unless it has just been prepared.  *)
LEMMA PairedBefore ==
    ASSUME hist' = hist, Paired'
    PROVE  Paired
BY DEF Paired, Tracked, UiOnly

(* A step that leaves journal and installation alone leaves what the       *)
(* journal promises of the UI.                                             *)
LEMMA KeepsUiJournal ==
    ASSUME hist' = hist, install' = install, state' = state, UiJournalOK
    PROVE  /\ UiJournalOK' /\ SameUi /\ SameHistory
           /\ OldUi' <=> OldUi
           /\ New(UiFiles)' <=> New(UiFiles)
           /\ \A f \in UiFiles : UiKept(f)' <=> UiKept(f)
<1>1. SameUi /\ SameHistory /\ SameProgram
  BY DEF SameUi, SameHistory, SameProgram
<1>2. /\ OldUi' <=> OldUi
      /\ New(UiFiles)' <=> New(UiFiles)
      /\ \A f \in UiFiles : UiKept(f)' <=> UiKept(f)
  BY <1>1, KeepsUi
<1>3. (OldWhole' <=> OldWhole) /\ (New(Files)' <=> New(Files))
  <2>1. (Old(Program)' <=> Old(Program)) /\ (New(Program)' <=> New(Program))
    BY <1>1, KeepsProgram
  <2>2. /\ OldWhole' <=> Old(Program)' /\ OldUi'
        /\ New(Files)' <=> New(Program)' /\ New(UiFiles)'
    BY WholeIsBoth, PTL
  <2> QED BY <1>2, <2>1, <2>2, WholeIsBoth
<1>4. UiJournalOK'
  BY <1>2, <1>3 DEF UiJournalOK, UiDescribes, Mended, IsTree
<1> QED BY <1>1, <1>2, <1>4

(* Inside a transaction a step may change the program without the journal  *)
(* losing its promises of the UI.                                          *)
LEMMA KeepsUiInside ==
    ASSUME hist' = hist, SameUi, state' = state, state.phase # "none", UiJournalOK
    PROVE  /\ UiJournalOK'
           /\ OldUi' <=> OldUi
           /\ New(UiFiles)' <=> New(UiFiles)
           /\ \A f \in UiFiles : UiKept(f)' <=> UiKept(f)
<1>1. SameHistory
  BY DEF SameHistory
<1>2. /\ OldUi' <=> OldUi
      /\ New(UiFiles)' <=> New(UiFiles)
      /\ \A f \in UiFiles : UiKept(f)' <=> UiKept(f)
  BY <1>1, KeepsUi
<1>3. UiJournalOK'
  BY <1>2 DEF UiJournalOK, UiDescribes, Mended, IsTree
<1> QED BY <1>2, <1>3

(* The goal of an update for the UI.                                       *)
LEMMA UiGoal ==
    ASSUME TypeOK, hist.job \in Jobs, NEW f \in UiFiles
    PROVE  Goal(f) = IF hist.job.ui = "none" THEN hist.base[f]
                     ELSE IF f = hist.job.ui THEN hist.job.release
                     ELSE IF f = "ptr" THEN hist.job.ui ELSE hist.base[f]
<1>1. f \notin Items(hist.job) /\ f # "none"
  BY ItemsInProgram, UiFilesApart
<1>2. hist.job.ui # "ptr"
  BY JobFields, UiFilesApart
<1>3. CASE f = hist.job.ui
  BY <1>1, <1>2, <1>3 DEF Goal
<1>4. CASE f # hist.job.ui /\ f = "ptr" /\ hist.job.ui # "none"
  BY <1>1, <1>4 DEF Goal
<1>5. CASE f # hist.job.ui /\ ~(f = "ptr" /\ hist.job.ui # "none")
  BY <1>1, <1>5 DEF Goal
<1> QED BY <1>1, <1>3, <1>4, <1>5

LooseOK == pc \in {"ui_ptr", "health", "fail", "fail_ptr"} /\ job.kind = "ui" => hist.loose

(* An update of the UI alone has left its mark before it changes anything. *)
LEMMA LooseStep ==
    ASSUME TypeOK, MemoryOK, LooseOK, Next
    PROVE  LooseOK'
<1>0. RestType /\ MemoryOK /\ LooseOK
  BY TypeParts
<1>1. CASE RecoverNothing
  BY <1>0, <1>1 DEF RecoverNothing, Recovered, Exit, disk, LooseOK, MemoryOK, Applying,
     RestType
<1>2. CASE RecoverInvalid
  BY <1>0, <1>2 DEF RecoverInvalid, Exit, disk, LooseOK, MemoryOK, Applying, RestType
<1>3. CASE RecoverFinished
  BY <1>0, <1>3 DEF RecoverFinished, disk, LooseOK, MemoryOK, Applying, RestType
<1>4. CASE RecoverInterrupted
  BY <1>0, <1>4 DEF RecoverInterrupted, disk, LooseOK, MemoryOK, Applying, RestType
<1>5. CASE PrepareRefused
  BY <1>0, <1>5 DEF PrepareRefused, Exit, disk, LooseOK, MemoryOK, Applying, RestType
<1>6. CASE Prepare
  BY <1>0, <1>6 DEF Prepare, LooseOK, MemoryOK, Applying, RestType
<1>7. CASE WriteInstalling
  BY <1>0, <1>7 DEF WriteInstalling, LooseOK, MemoryOK, Applying, RestType
<1>8. CASE RecordUi
  BY <1>0, <1>8 DEF RecordUi, LooseOK, MemoryOK, Applying, RestType
<1>9. ASSUME NEW f \in Files, CopyBegin(f) PROVE LooseOK'
  BY <1>0, <1>9 DEF CopyBegin, LooseOK, MemoryOK, Applying, RestType
<1>10. CASE CopyEnd
  BY <1>0, <1>10 DEF CopyEnd, LooseOK, MemoryOK, Applying, RestType
<1>11. CASE CopyDone
  BY <1>0, <1>11 DEF CopyDone, Goto, disk, LooseOK, MemoryOK, Applying, RestType
<1>12. CASE UiExists
  BY <1>0, <1>12 DEF UiExists, Exit, Goto, disk, LooseOK, MemoryOK, Applying, RestType
<1>13. CASE InstallBundle
  BY <1>0, <1>13 DEF InstallBundle, LooseOK, MemoryOK, Applying, RestType
<1>14. CASE SwitchPointer
  BY <1>0, <1>14 DEF SwitchPointer, LooseOK, MemoryOK, Applying, RestType
<1>15. CASE Commit
  BY <1>0, <1>15 DEF Commit, Exit, LooseOK, MemoryOK, Applying, RestType
<1>16. CASE HealthTimesOut
  BY <1>0, <1>16 DEF HealthTimesOut, Goto, disk, LooseOK, MemoryOK, Applying, RestType
<1>17. CASE FailPlain
  BY <1>0, <1>17 DEF FailPlain, disk, LooseOK, MemoryOK, Applying, RestType
<1>18. CASE FailBundle
  BY <1>0, <1>18 DEF FailBundle, RemoveBundle, Goto, LooseOK, MemoryOK, Applying, RestType
<1>19. CASE FailPointer
  BY <1>0, <1>19 DEF FailPointer, AfterFailure, Exit, LooseOK, MemoryOK, Applying, RestType
<1>19a. CASE FailPointerFails
  BY <1>0, <1>19a DEF FailPointerFails, AfterFailure, Exit, LooseOK, MemoryOK, Applying, RestType
<1>20. CASE MarkRollback
  BY <1>0, <1>20 DEF MarkRollback, LooseOK, MemoryOK, Applying, RestType
<1>21. ASSUME NEW f \in Files, RestoreBegin(f) PROVE LooseOK'
  BY <1>0, <1>21 DEF RestoreBegin, LooseOK, MemoryOK, Applying, RestType
<1>22. ASSUME NEW f \in Files, RemoveAdded(f) PROVE LooseOK'
  BY <1>0, <1>22 DEF RemoveAdded, LooseOK, MemoryOK, Applying, RestType
<1>23. ASSUME NEW f \in Files, BackupMissing(f) PROVE LooseOK'
  BY <1>0, <1>23 DEF BackupMissing, Abort, Exit, disk, LooseOK, MemoryOK, Applying, RestType
<1>24. ASSUME NEW f \in Files, DiscardFile(f) PROVE LooseOK'
  BY <1>0, <1>24 DEF DiscardFile, mem, LooseOK, MemoryOK, Applying, RestType
<1>25. CASE RestoreEnd
  BY <1>0, <1>25 DEF RestoreEnd, LooseOK, MemoryOK, Applying, RestType
<1>26. CASE RestoreUi
  BY <1>0, <1>26 DEF RestoreUi, RemoveBundle, Goto, LooseOK, MemoryOK, Applying, RestType
<1>27. CASE RestorePointerBegin
  BY <1>0, <1>27 DEF RestorePointerBegin, Goto, LooseOK, MemoryOK, Applying, RestType
<1>28. CASE RestorePointerEnd
  BY <1>0, <1>28 DEF RestorePointerEnd, Goto, LooseOK, MemoryOK, Applying, RestType
<1>28a. CASE RestorePointerStays
  BY <1>0, <1>28a DEF RestorePointerStays, Goto, LooseOK, MemoryOK, Applying, RestType
<1>29. CASE WriteRestored
  BY <1>0, <1>29 DEF WriteRestored, Goto, LooseOK, MemoryOK, Applying, RestType
<1>30. CASE DiscardDone
  BY <1>0, <1>30 DEF DiscardDone, Goto, disk, LooseOK, MemoryOK, Applying, RestType
<1>31. CASE ForgetState
  BY <1>0, <1>31 DEF ForgetState, Exit, Recovered, LooseOK, MemoryOK, Applying, RestType
<1>32. CASE PrepareFails
  BY <1>0, <1>32 DEF PrepareFails, Exit, Break, disk, LooseOK, MemoryOK, Applying, RestType
<1>33. CASE ApplyFails
  BY <1>0, <1>33 DEF ApplyFails, Exit, Goto, Break, disk, LooseOK, MemoryOK, Applying,
     RestType
<1>34. CASE CommitFails
  BY <1>0, <1>34 DEF CommitFails, Exit, Break, disk, LooseOK, MemoryOK, Applying, RestType
<1>35. CASE RestoreFails
  BY <1>0, <1>35 DEF RestoreFails, Abort, Exit, Break, disk, LooseOK, MemoryOK, Applying,
     RestType
<1>36. CASE CleanupFails
  BY <1>0, <1>36 DEF CleanupFails, Abort, Exit, Break, disk, LooseOK, MemoryOK, Applying,
     RestType
<1>37. CASE Crash
  BY <1>0, <1>37 DEF Crash, Exit, Break, disk, LooseOK, MemoryOK, Applying, RestType
<1>38. ASSUME NEW j \in Jobs, StartUpdate(j) PROVE LooseOK'
  BY <1>0, <1>38 DEF StartUpdate, disk, LooseOK, MemoryOK, Applying, RestType
<1>39. CASE StartProduct
  BY <1>0, <1>39 DEF StartProduct, disk, LooseOK, MemoryOK, Applying, RestType
<1>40. CASE StopProduct
  BY <1>0, <1>40 DEF StopProduct, mem, disk, LooseOK, MemoryOK, Applying, RestType
<1> QED
  BY <1>1, <1>2, <1>3, <1>4, <1>5, <1>6, <1>7, <1>8, <1>9, <1>10, <1>11, <1>12, <1>13,
     <1>14, <1>15, <1>16, <1>17, <1>18, <1>19, <1>19a, <1>20, <1>21, <1>22, <1>23, <1>24, <1>25,
     <1>26, <1>27, <1>28, <1>28a, <1>29, <1>30, <1>31, <1>32, <1>33, <1>34, <1>35, <1>36, <1>37,
     <1>38, <1>39, <1>40 DEF Next, Step, Faults

(* The journal and the position of the process keep their promises about   *)
(* the UI.                                                                 *)
LEMMA PairedStep ==
    ASSUME UpdateInv, UpdateInv', WholeInv, Next, Paired'
    PROVE  UiJournalOK' /\ UiProcessOK'
<1>0. /\ TypeOK /\ TypeOK' /\ DiskType /\ MemType /\ RestType /\ MemoryOK /\ LooseOK
      /\ Paired => Tracked /\ PhaseOK /\ JournalOK /\ ProcessOK /\ UiJournalOK /\ UiProcessOK
      /\ Paired => ~hist.loose /\ (hist.job.ui # "none" => hist.base[hist.job.ui] = "absent")
      /\ Paired => (hist.job.kind = "set" => hist.job.ui # "none" \/ hist.job.shell)
      /\ Tracked' /\ JournalOK' /\ ~hist'.undone /\ hist.job \in Jobs
      /\ job.ui \in UiVersions \cup {"none"} /\ hist.job.ui \in UiVersions \cup {"none"}
      /\ Items(job) \subseteq Program
  BY TypeParts, JobFields, ItemsInProgram
     DEF MemType, RestType, Tracked, Paired, UpdateInv, WholeInv, LooseOK
<1>1. CASE RecoverNothing
  <2>1. hist' = hist /\ install' = install /\ state' = state
    BY <1>0, <1>1 DEF RecoverNothing, disk
  <2>2. Paired
    BY <2>1, PairedBefore
  <2>3. UiProcessOK'
    BY <1>0, <1>1, <2>1, <2>2, KeepsUiJournal DEF RecoverNothing, Recovered, Exit, disk,
       UiProcessOK, Applying, RollingBack, MemoryOK, Mended
  <2> QED BY <1>0, <2>1, <2>2, <2>3, KeepsUiJournal
<1>2. CASE RecoverInvalid
  <2>1. hist' = hist /\ install' = install /\ state' = state
    BY <1>0, <1>2 DEF RecoverInvalid, disk
  <2>2. Paired
    BY <2>1, PairedBefore
  <2>3. UiProcessOK'
    BY <1>0, <1>2, <2>1, <2>2, KeepsUiJournal DEF RecoverInvalid, Exit, disk, UiProcessOK,
       Applying, RollingBack, MemoryOK, Mended
  <2> QED BY <1>0, <2>1, <2>2, <2>3, KeepsUiJournal
<1>3. CASE RecoverFinished
  <2>1. hist' = hist /\ install' = install /\ state' = state
    BY <1>0, <1>3 DEF RecoverFinished, disk
  <2>2. Paired
    BY <2>1, PairedBefore
  <2>3. UiProcessOK'
    BY <1>0, <1>3, <2>1, <2>2, KeepsUiJournal DEF RecoverFinished, disk, UiProcessOK,
       Applying, RollingBack, MemoryOK, Mended
  <2> QED BY <1>0, <2>1, <2>2, <2>3, KeepsUiJournal
<1>4. CASE RecoverInterrupted
  <2>1. hist' = hist /\ install' = install /\ state' = state
    BY <1>4 DEF RecoverInterrupted, disk
  <2>2. Paired
    BY <2>1, PairedBefore
  <2>3. tx'.ui = state.ui /\ tx'.prev = state.prev
    BY <1>0, <1>4 DEF RecoverInterrupted, RecoveredTransaction, DiskType, Transactions
  <2>4. UiProcessOK'
    BY <1>0, <1>4, <2>1, <2>2, <2>3 DEF RecoverInterrupted, UiProcessOK, Applying, RollingBack
  <2> QED BY <1>0, <2>1, <2>2, <2>4, KeepsUiJournal
<1>5. CASE PrepareRefused
  <2>1. hist' = hist /\ install' = install /\ state' = state
    BY <1>0, <1>5 DEF PrepareRefused, disk
  <2>2. Paired
    BY <2>1, PairedBefore
  <2>3. UiProcessOK'
    BY <1>0, <1>5, <2>1, <2>2, KeepsUiJournal DEF PrepareRefused, Exit, disk, UiProcessOK,
       Applying, RollingBack, MemoryOK, Mended
  <2> QED BY <1>0, <2>1, <2>2, <2>3, KeepsUiJournal
<1>6. CASE Prepare
  <2>1. /\ \A f \in Files : install'[f] = hist'.base[f]
        /\ pc' = "begin" /\ state'.phase = "none"
    BY <1>0, <1>6 DEF Prepare
  <2>2. tx'.ui = "none" /\ tx'.prev = "absent"
    BY <1>6 DEF Prepare, NoTransaction
  <2>3. UiJournalOK'
    <3>1. OldWhole'
      BY <2>1 DEF Old, OldWhole
    <3> QED BY <2>1, <3>1 DEF UiJournalOK
  <2>4. \A f \in UiFiles : UiKept(f)'
    BY <2>1, UiFilesApart DEF UiKept
  <2>5. UiProcessOK'
    BY <2>1, <2>2, <2>4 DEF UiProcessOK, Applying, RollingBack
  <2> QED BY <2>3, <2>5
<1>7. CASE WriteInstalling
  <2>1. hist' = hist /\ install' = install /\ tx' = tx /\ job' = job
    BY <1>7 DEF WriteInstalling
  <2>2. Paired /\ job = hist.job
    BY <1>0, <1>7, <2>1, PairedBefore DEF WriteInstalling, MemoryOK
  <2>3. /\ state'.phase = "installing" /\ state'.ui = "none" /\ state'.prev = "absent"
        /\ tx.ui = "none" /\ tx.prev = "absent" /\ \A f \in UiFiles : UiKept(f)
    BY <1>0, <1>7, <2>2 DEF WriteInstalling, UiProcessOK, MemType, Transactions
  <2>4. \A f \in UiFiles : UiKept(f)'
    BY <2>1, <2>3 DEF UiKept
  <2>5. UiJournalOK'
    BY <2>3, <2>4 DEF UiJournalOK, UiDescribes
  <2>6. UiProcessOK'
    BY <1>7, <2>1, <2>2, <2>3, <2>4 DEF WriteInstalling, UiProcessOK, Applying, RollingBack
  <2> QED BY <2>5, <2>6
<1>8. CASE RecordUi
  <2>1. hist' = hist /\ install' = install /\ job' = job /\ pc' = "copy"
    BY <1>8 DEF RecordUi
  <2>2. Paired /\ job = hist.job /\ job.ui # "none" /\ \A f \in UiFiles : UiKept(f)
    BY <1>0, <1>8, <2>1, PairedBefore DEF RecordUi, MemoryOK, Applying, UiProcessOK
  <2>3. tx'.ui = job.ui /\ tx'.prev = hist.base["ptr"]
    BY <1>0, <1>8, <2>2, UiFilesApart DEF RecordUi, UiKept, MemType, Transactions
  <2>4. state'.phase = "installing" /\ state'.ui = tx'.ui /\ state'.prev = tx'.prev
    <3>1. tx' \in Transactions
      BY <1>0 DEF TypeOK
    <3> QED BY <1>8, <3>1 DEF RecordUi, Transactions
  <2>5. \A f \in UiFiles : UiKept(f)'
    BY <2>1, <2>2 DEF UiKept
  <2>6. UiJournalOK'
    BY <2>1, <2>2, <2>3, <2>4, <2>5 DEF UiJournalOK, UiDescribes
  <2>7. UiProcessOK'
    BY <2>1, <2>2, <2>3, <2>4, <2>5 DEF UiProcessOK, Applying, RollingBack
  <2> QED BY <2>6, <2>7
<1>9. ASSUME NEW f \in Files, CopyBegin(f) PROVE UiJournalOK' /\ UiProcessOK'
  <2>1. hist' = hist /\ state' = state /\ tx' = tx /\ job' = job /\ pc' = "copying"
    BY <1>9 DEF CopyBegin
  <2>2. Paired /\ state.phase # "none" /\ f \in Program
    BY <1>0, <1>9, <2>1, PairedBefore DEF CopyBegin, MemoryOK, Applying
  <2>3. SameUi
    BY <1>0, <1>9, <2>2, UiFilesApart DEF CopyBegin, SameUi, DiskType
  <2>4. UiProcessOK'
    BY <1>0, <1>9, <2>1, <2>2, <2>3, KeepsUiInside
       DEF CopyBegin, UiProcessOK, Applying, RollingBack
  <2> QED BY <1>0, <2>1, <2>2, <2>3, <2>4, KeepsUiInside
<1>10. CASE CopyEnd
  <2>1. hist' = hist /\ state' = state /\ tx' = tx /\ job' = job /\ pc' = "copy"
    BY <1>10 DEF CopyEnd
  <2>2. Paired /\ state.phase # "none" /\ cur \in Program
    BY <1>0, <1>10, <2>1, PairedBefore DEF CopyEnd, MemoryOK, Applying
  <2>3. SameUi
    BY <1>0, <1>10, <2>2, UiFilesApart DEF CopyEnd, SameUi, DiskType
  <2>4. UiProcessOK'
    BY <1>0, <1>10, <2>1, <2>2, <2>3, KeepsUiInside
       DEF CopyEnd, UiProcessOK, Applying, RollingBack
  <2> QED BY <1>0, <2>1, <2>2, <2>3, <2>4, KeepsUiInside
<1>11. CASE CopyDone
  <2>1. hist' = hist /\ install' = install /\ state' = state
    BY <1>11 DEF CopyDone, disk
  <2>2. Paired /\ job = hist.job /\ \A f \in UiFiles : UiKept(f)
    BY <1>0, <1>11, <2>1, PairedBefore DEF CopyDone, MemoryOK, Applying, UiProcessOK
  <2>3. job.ui = "none" => New(UiFiles)
    BY <1>0, <2>2, UiGoal DEF New, UiKept
  <2>4. UiProcessOK'
    BY <1>0, <1>11, <2>1, <2>2, <2>3, KeepsUiJournal
       DEF CopyDone, Goto, UiProcessOK, Applying, RollingBack, MemoryOK
  <2> QED BY <1>0, <2>1, <2>2, <2>4, KeepsUiJournal
<1>12. CASE UiExists
  <2>1. hist' = hist /\ install' = install /\ state' = state
    BY <1>0, <1>12 DEF UiExists, disk
  <2>2. Paired
    BY <2>1, PairedBefore
  <2>3. UiProcessOK'
    BY <1>0, <1>12, <2>1, <2>2, KeepsUiJournal DEF UiExists, Exit, Goto, disk, UiProcessOK,
       Applying, RollingBack, MemoryOK, Mended
  <2> QED BY <1>0, <2>1, <2>2, <2>3, KeepsUiJournal
<1>13. CASE InstallBundle
  <2>1. /\ hist' = hist /\ state' = state /\ tx' = tx /\ job' = job /\ pc' = "ui_ptr"
        /\ job.kind # "ui"
    BY <1>0, <1>13 DEF InstallBundle, Paired, RestType
  <2>2. Paired /\ job = hist.job /\ job.ui # "none" /\ Applying
    BY <1>0, <1>13, <2>1, PairedBefore DEF InstallBundle, MemoryOK, Applying
  <2>3. /\ \A f \in UiFiles : UiKept(f)
        /\ tx.ui = job.ui /\ state.ui = job.ui /\ state.phase = "installing"
    BY <1>0, <1>13, <2>2 DEF InstallBundle, UiProcessOK, PhaseOK
  <2>4. \A f \in UiFiles : IF f = job.ui THEN install'[f] = job.release ELSE UiKept(f)'
    BY <1>0, <1>13, <2>1, <2>3, UiFilesApart DEF InstallBundle, UiKept, DiskType
  <2>5. UiJournalOK'
    BY <1>0, <2>1, <2>2, <2>3, <2>4 DEF UiJournalOK, UiDescribes, Mended
  <2>6. UiProcessOK'
    BY <1>0, <2>1, <2>2, <2>3, <2>4 DEF UiProcessOK, Applying, RollingBack
  <2> QED BY <2>5, <2>6
<1>14. CASE SwitchPointer
  <2>1. hist' = hist /\ state' = state /\ tx' = tx /\ job' = job /\ pc' = "health"
    BY <1>14 DEF SwitchPointer
  <2>2. Paired /\ Applying /\ job = hist.job /\ job.ui # "none"
    BY <1>0, <1>14, <2>1, PairedBefore DEF SwitchPointer, LooseOK, MemoryOK, Applying
  <2>3. /\ \A f \in UiFiles : IF f = job.ui THEN install[f] = job.release ELSE UiKept(f)
        /\ tx.ui = job.ui /\ state.ui = job.ui /\ state.phase = "installing"
    BY <1>0, <1>14, <2>2 DEF SwitchPointer, UiProcessOK, PhaseOK
  <2>4. \A f \in UiFiles :
            IF f = "ptr" THEN install'[f] = job.ui
            ELSE IF f = job.ui THEN install'[f] = job.release ELSE UiKept(f)'
    BY <1>0, <1>14, <2>1, <2>3, UiFilesApart DEF SwitchPointer, UiKept, DiskType
  <2>5. New(UiFiles)'
    <3>1. ASSUME NEW f \in UiFiles PROVE install'[f] = Goal(f)'
      <4>1. Goal(f)' = Goal(f)
        BY <2>1 DEF Goal
      <4> QED BY <1>0, <2>2, <2>1, <2>4, <4>1, UiGoal, UiFilesApart DEF UiKept
    <3> QED BY <3>1 DEF New
  <2>6. UiJournalOK'
    BY <1>0, <2>1, <2>2, <2>3, <2>4 DEF UiJournalOK, UiDescribes, Mended
  <2>7. UiProcessOK'
    BY <1>0, <2>1, <2>2, <2>3, <2>5 DEF UiProcessOK, Applying, RollingBack
  <2> QED BY <2>6, <2>7
<1>15. CASE Commit
  <2>1. hist' = hist /\ install' = install
    BY <1>15 DEF Commit
  <2>2. Paired /\ job.kind # "ui"
    BY <1>0, <1>15, <2>1, PairedBefore DEF Commit, LooseOK
  <2>3. state'.phase = "committed" /\ pc' = "discard"
    BY <1>0, <1>15, <2>2 DEF Commit, MemType, Transactions
  <2>4. New(UiFiles)
    BY <1>0, <1>15, <2>2 DEF Commit, UiProcessOK, Applying
  <2>5. New(UiFiles)'
    BY <2>1, <2>4, KeepsUi DEF SameUi, SameHistory
  <2> QED BY <2>3, <2>5 DEF UiJournalOK, UiProcessOK, Applying, RollingBack
<1>16. CASE HealthTimesOut
  <2>1. hist' = hist /\ install' = install /\ state' = state
    BY <1>0, <1>16 DEF HealthTimesOut, disk
  <2>2. Paired
    BY <2>1, PairedBefore
  <2>3. UiProcessOK'
    BY <1>0, <1>16, <2>1, <2>2, KeepsUiJournal DEF HealthTimesOut, Goto, disk, UiProcessOK,
       Applying, RollingBack, MemoryOK, Mended
  <2> QED BY <1>0, <2>1, <2>2, <2>3, KeepsUiJournal
<1>17. CASE FailPlain
  <2>1. hist' = hist /\ install' = install /\ state' = state
    BY <1>0, <1>17 DEF FailPlain, disk
  <2>2. Paired
    BY <2>1, PairedBefore
  <2>3. UiProcessOK'
    BY <1>0, <1>17, <2>1, <2>2, KeepsUiJournal DEF FailPlain, disk, UiProcessOK, Applying,
       RollingBack, MemoryOK, Mended
  <2> QED BY <1>0, <2>1, <2>2, <2>3, KeepsUiJournal
<1>18. CASE FailBundle
  <2>1. hist' = hist /\ state' = state /\ tx' = tx /\ job' = job /\ pc' = "fail_ptr"
    BY <1>18 DEF FailBundle, RemoveBundle, Goto
  <2>2. Paired /\ Applying /\ job = hist.job /\ job.kind # "ui"
    BY <1>0, <1>18, <2>1, PairedBefore DEF FailBundle, RemoveBundle, LooseOK, MemoryOK, Applying
  <2>3. /\ tx.ui = hist.job.ui /\ state.ui = tx.ui /\ state.prev = tx.prev
        /\ state.phase = "installing"
    BY <1>0, <1>18, <2>2 DEF FailBundle, RemoveBundle, UiProcessOK, PhaseOK
  <2>4. \A f \in UiFiles : UiKept(f) => UiKept(f)'
    <3>1. CASE install' = install
      BY <2>1, <3>1 DEF UiKept
    <3>2. CASE job.ui # "none" /\ RemoveBundle(job.ui)
      <4>1. hist.base[job.ui] = "absent"
        BY <1>0, <2>2, <3>2
      <4> QED BY <1>0, <2>1, <3>2, <4>1, BundleOnly, UiFilesApart DEF UiKept, DiskType
    <3> QED BY <1>18, <2>2, <3>1, <3>2 DEF FailBundle
  <2>5. UiJournalOK'
    BY <1>0, <2>1, <2>2, <2>3, <2>4 DEF UiJournalOK, UiDescribes, Mended, IsTree
  <2>6. UiProcessOK'
    BY <1>0, <1>18, <2>1, <2>3 DEF FailBundle, RemoveBundle, UiProcessOK, Applying, RollingBack
  <2> QED BY <2>5, <2>6
<1>19. CASE FailPointer
  <2>1. hist' = hist /\ state' = state
    BY <1>19 DEF FailPointer, AfterFailure
  <2>2. Paired /\ Applying /\ job = hist.job /\ job.kind # "ui"
    BY <1>0, <1>19, <2>1, PairedBefore DEF FailPointer, AfterFailure, LooseOK, MemoryOK, Applying
  <2>3. /\ tx.ui = hist.job.ui /\ state.ui = tx.ui /\ state.prev = tx.prev
        /\ state.phase = "installing" /\ tx' = tx /\ pc' = "mark"
    BY <1>0, <1>19, <2>2 DEF FailPointer, AfterFailure, UiProcessOK, PhaseOK
  <2>4. \A f \in UiFiles \ {"ptr"} : UiKept(f)' <=> UiKept(f)
    BY <1>0, <1>19, <2>1 DEF FailPointer, AfterFailure, UiKept, DiskType
  <2>5. \/ UiKept("ptr")' \/ Mended("ptr", state)
        \/ (IsTree(hist.job) /\ hist.base["ptr"] # "absent")
    <3>1. CASE tx.ui # "none"
      BY <2>3, <3>1 DEF Mended
    <3>2. CASE tx.ui = "none"
      <4>1. tx.prev = "absent"
        BY <1>0, <2>2, <2>3, <3>2 DEF UiJournalOK, UiDescribes
      <4>2. install'["ptr"] = "absent"
        BY <1>0, <1>19, <4>1, UiFilesApart DEF FailPointer, AfterFailure, DiskType
      <4>3. CASE hist.base["ptr"] = "absent"
        BY <2>1, <4>2, <4>3 DEF UiKept
      <4>4. CASE hist.base["ptr"] # "absent"
        <5>1. job.kind = "set"
          BY <1>0, <1>19, <2>2 DEF FailPointer, AfterFailure, UiProcessOK
        <5> QED BY <1>0, <2>2, <2>3, <3>2, <4>4, <5>1 DEF IsTree
      <4> QED BY <4>3, <4>4
    <3> QED BY <3>1, <3>2
  <2>6. UiJournalOK'
    BY <1>0, <2>1, <2>2, <2>3, <2>4, <2>5 DEF UiJournalOK, UiDescribes, Mended, IsTree
  <2>7. UiProcessOK'
    BY <1>0, <2>1, <2>3 DEF UiProcessOK, Applying, RollingBack
  <2> QED BY <2>6, <2>7
<1>19a. CASE FailPointerFails
  <2>1. hist' = hist /\ state' = state
    BY <1>19a DEF FailPointerFails, AfterFailure
  <2>2. Paired /\ Applying /\ job = hist.job /\ job.kind # "ui"
    BY <1>0, <1>19a, <2>1, PairedBefore DEF FailPointerFails, AfterFailure, LooseOK, MemoryOK, Applying
  <2>3. /\ tx.ui = hist.job.ui /\ state.ui = tx.ui /\ state.prev = tx.prev
        /\ state.phase = "installing" /\ tx' = tx /\ pc' = "mark"
    BY <1>0, <1>19a, <2>2 DEF FailPointerFails, AfterFailure, UiProcessOK, PhaseOK
  <2>4. \A f \in UiFiles \ {"ptr"} : UiKept(f)' <=> UiKept(f)
    BY <1>0, <1>19a, <2>1 DEF FailPointerFails, AfterFailure, UiKept, DiskType
  <2>5. \/ UiKept("ptr")' \/ Mended("ptr", state)
        \/ (IsTree(hist.job) /\ hist.base["ptr"] # "absent")
    <3>1. CASE tx.ui # "none"
      BY <2>3, <3>1 DEF Mended
    <3>2. CASE tx.ui = "none"
      <4>1. tx.prev = "absent"
        BY <1>0, <2>2, <2>3, <3>2 DEF UiJournalOK, UiDescribes
      <4>2. install'["ptr"] = install["ptr"]
        BY <1>0, <1>19a, <4>1, UiFilesApart DEF FailPointerFails, DiskType
      <4>3. \/ UiKept("ptr") \/ Mended("ptr", state)
            \/ (IsTree(hist.job) /\ hist.base["ptr"] # "absent")
        BY <1>0, <2>2, <2>3, UiFilesApart DEF UiJournalOK
      <4> QED BY <2>1, <4>2, <4>3 DEF UiKept
    <3> QED BY <3>1, <3>2
  <2>6. UiJournalOK'
    BY <1>0, <2>1, <2>2, <2>3, <2>4, <2>5 DEF UiJournalOK, UiDescribes, Mended, IsTree
  <2>7. UiProcessOK'
    BY <1>0, <2>1, <2>3 DEF UiProcessOK, Applying, RollingBack
  <2> QED BY <2>6, <2>7
<1>20. CASE MarkRollback
  <2>1. hist' = hist /\ install' = install /\ tx' = tx /\ pc' = "restore"
    BY <1>20 DEF MarkRollback
  <2>2. Paired /\ state.phase \in {"installing", "rollback_required"}
    BY <1>0, <1>20, <2>1, PairedBefore DEF MarkRollback, PhaseOK
  <2>3. /\ tx.ui = state.ui /\ tx.prev = state.prev /\ UiDescribes(state) /\ BackedUp
        /\ Describes(tx)
        /\ \A f \in UiFiles :
             UiKept(f) \/ Mended(f, state) \/ (IsTree(hist.job) /\ hist.base[f] # "absent")
    BY <1>0, <1>20, <2>2 DEF MarkRollback, UiProcessOK, UiJournalOK, ProcessOK, JournalOK
  <2>4. state'.phase = "rollback_required" /\ state'.ui = tx.ui /\ state'.prev = tx.prev
    BY <1>0, <1>20 DEF MarkRollback, MemType, Transactions
  <2>5. \A f \in UiFiles : UiKept(f)' <=> UiKept(f)
    BY <2>1 DEF UiKept
  <2>6. UiJournalOK'
    BY <2>1, <2>3, <2>4, <2>5 DEF UiJournalOK, UiDescribes, Mended, IsTree
  <2>7. ASSUME NEW f \in UiFiles \ todo' PROVE UiKept(f)' \/ Mended(f, tx)
    <3>1. CASE IsTree(hist.job)
      <4>1. hist.base[f] = "absent"
        BY <1>20, <2>3, <3>1, UiFilesApart DEF MarkRollback, Describes, BackedUp
      <4> QED BY <2>3, <2>5, <4>1 DEF Mended
    <3>2. CASE ~IsTree(hist.job)
      BY <2>3, <2>5, <3>2 DEF Mended
    <3> QED BY <3>1, <3>2
  <2>8. UiProcessOK'
    BY <2>1, <2>3, <2>4, <2>7 DEF UiProcessOK, Applying, RollingBack, Mended
  <2> QED BY <2>6, <2>8
<1>21. ASSUME NEW f \in Files, RestoreBegin(f) PROVE UiJournalOK' /\ UiProcessOK'
  <2>1. hist' = hist /\ state' = state /\ tx' = tx /\ pc' = "restoring" /\ todo' = todo
    BY <1>21 DEF RestoreBegin
  <2>2. Paired /\ state.phase = "rollback_required" /\ f \in todo
    BY <1>0, <1>21, <2>1, PairedBefore DEF RestoreBegin, PhaseOK, RollingBack
  <2>3. BackedUp /\ Describes(tx) /\ (tx.scope = "components" => f \in Native)
    BY <1>0, <1>21, <2>2
       DEF RestoreBegin, JournalOK, ProcessOK, RollingBack, MemType, Transactions
  <2>4. f \in UiFiles => IsTree(hist.job) /\ hist.base[f] # "absent"
    BY <1>21, <2>3, UiFilesApart DEF RestoreBegin, Describes, BackedUp, Program
  <2>5. \A g \in UiFiles \ {f} : UiKept(g)' <=> UiKept(g)
    BY <1>0, <1>21, <2>1 DEF RestoreBegin, UiKept, DiskType
  <2>6. UiJournalOK'
    BY <1>0, <2>1, <2>2, <2>4, <2>5 DEF UiJournalOK, UiDescribes, Mended, IsTree
  <2>7. UiProcessOK'
    BY <1>0, <1>21, <2>1, <2>2, <2>5
       DEF RestoreBegin, UiProcessOK, Applying, RollingBack, Mended
  <2> QED BY <2>6, <2>7
<1>22. ASSUME NEW f \in Files, RemoveAdded(f) PROVE UiJournalOK' /\ UiProcessOK'
  <2>1. /\ hist' = hist /\ state' = state /\ tx' = tx /\ pc' = pc /\ pc = "restore"
        /\ todo' = todo \ {f}
    BY <1>22 DEF RemoveAdded
  <2>2. Paired /\ state.phase # "none" /\ f \in Program
    BY <1>0, <1>22, <2>1, PairedBefore
       DEF RemoveAdded, MemoryOK, RollingBack, MemType, Transactions, Program
  <2>3. SameUi
    BY <1>0, <1>22, <2>2, UiFilesApart DEF RemoveAdded, SameUi, DiskType
  <2>4. UiProcessOK'
    BY <1>0, <2>1, <2>2, <2>3, KeepsUiInside, UiFilesApart
       DEF UiProcessOK, Applying, RollingBack, Mended
  <2> QED BY <1>0, <2>1, <2>2, <2>3, <2>4, KeepsUiInside
<1>23. ASSUME NEW f \in Files, BackupMissing(f) PROVE UiJournalOK' /\ UiProcessOK'
  <2>1. hist' = hist /\ install' = install /\ state' = state
    BY <1>0, <1>23 DEF BackupMissing, disk
  <2>2. Paired
    BY <2>1, PairedBefore
  <2>3. UiProcessOK'
    BY <1>0, <1>23, <2>1, <2>2, KeepsUiJournal DEF BackupMissing, Abort, Exit, disk,
       UiProcessOK, Applying, RollingBack, MemoryOK, Mended
  <2> QED BY <1>0, <2>1, <2>2, <2>3, KeepsUiJournal
<1>24. ASSUME NEW f \in Files, DiscardFile(f) PROVE UiJournalOK' /\ UiProcessOK'
  <2>1. hist' = hist /\ install' = install /\ state' = state /\ pc' = "discard"
    BY <1>24 DEF DiscardFile, mem
  <2>2. Paired
    BY <2>1, PairedBefore
  <2>3. UiProcessOK'
    BY <2>1 DEF UiProcessOK, Applying, RollingBack
  <2> QED BY <1>0, <2>1, <2>2, <2>3, KeepsUiJournal
<1>25. CASE RestoreEnd
  <2>0. PICK c : c = cur
    OBVIOUS
  <2>1. /\ hist' = hist /\ state' = state /\ tx' = tx /\ pc' = "restore"
        /\ todo' = todo \ {cur}
    BY <1>25 DEF RestoreEnd
  <2>2. Paired /\ state.phase = "rollback_required" /\ cur \in todo
    BY <1>0, <1>25, <2>1, PairedBefore DEF RestoreEnd, PhaseOK, RollingBack, MemoryOK
  <2>3. BackedUp /\ Describes(tx) /\ (tx.scope = "components" => cur \in Native)
    BY <1>0, <1>25, <2>2
       DEF RestoreEnd, JournalOK, ProcessOK, RollingBack, MemoryOK, MemType, Transactions
  <2>4. c \in UiFiles => UiKept(c)'
    <3> SUFFICES ASSUME c \in UiFiles PROVE install'[c] = hist'.base[c]
      BY DEF UiKept
    <3>1. IsTree(hist.job)
      BY <2>0, <2>3, UiFilesApart DEF Describes, Program
    <3> QED BY <1>0, <1>25, <2>0, <2>1, <2>3, <3>1, UiFilesApart DEF RestoreEnd, BackedUp, DiskType
  <2>5. \A g \in UiFiles \ {c} : UiKept(g)' <=> UiKept(g)
    BY <1>0, <1>25, <2>0, <2>1 DEF RestoreEnd, UiKept, DiskType
  <2>6. \A g \in UiFiles : UiKept(g) => UiKept(g)'
    BY <2>4, <2>5
  <2>7. UiJournalOK'
    BY <1>0, <2>1, <2>2, <2>6 DEF UiJournalOK, UiDescribes, Mended, IsTree
  <2>8. \A g \in UiFiles \ todo' : UiKept(g)' \/ Mended(g, tx)
    BY <1>0, <1>25, <2>0, <2>1, <2>2, <2>4, <2>6 DEF RestoreEnd, UiProcessOK
  <2>9. UiProcessOK'
    BY <1>0, <1>25, <2>0, <2>1, <2>2, <2>8
       DEF RestoreEnd, UiProcessOK, Applying, RollingBack, Mended
  <2> QED BY <2>7, <2>9
<1>26. CASE RestoreUi
  <2>1. hist' = hist /\ state' = state /\ tx' = tx /\ pc' = "restore_ptr"
    BY <1>26 DEF RestoreUi, RemoveBundle, Goto
  <2>2. Paired /\ state.phase = "rollback_required"
    BY <1>0, <1>26, <2>1, PairedBefore DEF RestoreUi, RemoveBundle, PhaseOK, RollingBack
  <2>3. /\ tx.ui = state.ui /\ tx.prev = state.prev
        /\ \A f \in UiFiles : UiKept(f) \/ Mended(f, tx)
    BY <1>0, <1>26, <2>2 DEF RestoreUi, RemoveBundle, UiProcessOK, RollingBack
  <2>4. \A f \in UiFiles : f # tx.ui \/ tx.ui = "none" => (UiKept(f)' <=> UiKept(f))
    <3>1. CASE install' = install
      BY <2>1, <3>1 DEF UiKept
    <3>2. CASE tx.ui # "none" /\ RemoveBundle(tx.ui)
      BY <1>0, <2>1, <3>2, BundleOnly, UiFilesApart DEF UiKept, DiskType
    <3> QED BY <1>26, <3>1, <3>2 DEF RestoreUi
  <2>5. \A f \in UiFiles : UiKept(f)' \/ Mended(f, tx)
    BY <2>3, <2>4 DEF Mended
  <2>6. UiJournalOK'
    BY <1>0, <2>1, <2>2, <2>3, <2>5 DEF UiJournalOK, UiDescribes, Mended
  <2>7. UiProcessOK'
    BY <2>1, <2>3, <2>5 DEF UiProcessOK, Applying, RollingBack, Mended
  <2> QED BY <2>6, <2>7
<1>27. CASE RestorePointerBegin
  <2>1. hist' = hist /\ state' = state /\ tx' = tx /\ pc' = "restoring_ptr"
    BY <1>27 DEF RestorePointerBegin, Goto
  <2>2. Paired /\ state.phase = "rollback_required"
    BY <1>0, <1>27, <2>1, PairedBefore DEF RestorePointerBegin, PhaseOK, RollingBack
  <2>3. /\ tx.ui = state.ui /\ tx.prev = state.prev /\ UiDescribes(state)
        /\ \A f \in UiFiles : UiKept(f) \/ Mended(f, tx)
    BY <1>0, <1>27, <2>2 DEF RestorePointerBegin, UiProcessOK, UiJournalOK, RollingBack
  <2>4. \A f \in UiFiles : f # "ptr" \/ tx.ui = "none" => (UiKept(f)' <=> UiKept(f))
    BY <1>0, <1>27, <2>1, <2>3 DEF RestorePointerBegin, UiKept, DiskType, UiDescribes
  <2>5. \A f \in UiFiles : UiKept(f)' \/ Mended(f, tx)
    BY <2>3, <2>4 DEF Mended
  <2>6. UiJournalOK'
    BY <1>0, <2>1, <2>2, <2>3, <2>5 DEF UiJournalOK, UiDescribes, Mended
  <2>7. UiProcessOK'
    BY <2>1, <2>3, <2>5 DEF UiProcessOK, Applying, RollingBack, Mended
  <2> QED BY <2>6, <2>7
<1>28. CASE RestorePointerEnd
  <2>1. hist' = hist /\ state' = state /\ tx' = tx /\ pc' = "restored"
    BY <1>28 DEF RestorePointerEnd, Goto
  <2>2. Paired /\ state.phase = "rollback_required"
    BY <1>0, <1>28, <2>1, PairedBefore DEF RestorePointerEnd, PhaseOK, RollingBack
  <2>3. /\ tx.ui = state.ui /\ tx.prev = state.prev /\ UiDescribes(state)
        /\ \A f \in UiFiles : UiKept(f) \/ Mended(f, tx)
    BY <1>0, <1>28, <2>2 DEF RestorePointerEnd, UiProcessOK, UiJournalOK, RollingBack
  <2>4. \A f \in UiFiles : UiKept(f)' \/ (tx.ui # "none" /\ f = hist.job.ui)
    <3>1. CASE tx.ui = "none"
      <4>1. install' = install
        BY <1>28, <2>3, <3>1 DEF RestorePointerEnd, UiDescribes
      <4> QED BY <2>1, <2>3, <3>1, <4>1 DEF UiKept, Mended
    <3>2. CASE tx.ui # "none"
      <4>1. tx.prev = hist.base["ptr"] /\ tx.ui = hist.job.ui
        BY <2>3, <3>2 DEF UiDescribes
      <4>2. \A f \in UiFiles \ {"ptr"} : UiKept(f)' <=> UiKept(f)
        BY <1>0, <1>28, <2>1, <3>2 DEF RestorePointerEnd, UiKept, DiskType
      <4>3. UiKept("ptr")'
        BY <1>0, <1>28, <2>1, <3>2, <4>1, UiFilesApart DEF RestorePointerEnd, UiKept, DiskType
      <4> QED BY <2>3, <3>2, <4>1, <4>2, <4>3 DEF Mended
    <3> QED BY <3>1, <3>2
  <2>5. OldUi'
    BY <1>0, <2>1, <2>2, <2>3, <2>4 DEF Old, OldUi, UiKept, UiDescribes
  <2>6. UiJournalOK'
    <3>1. \A f \in UiFiles : UiKept(f)' \/ Mended(f, state)
      BY <2>3, <2>4 DEF Mended, UiDescribes
    <3> QED BY <1>0, <2>1, <2>2, <2>3, <3>1 DEF UiJournalOK, UiDescribes, Mended
  <2>7. UiProcessOK'
    BY <2>1, <2>3, <2>5 DEF UiProcessOK, Applying, RollingBack
  <2> QED BY <2>6, <2>7
<1>28a. CASE RestorePointerStays
  <2>1. install' = install /\ state' = state /\ tx' = tx /\ pc' = "restored" /\ hist'.stuck
        /\ hist'.base = hist.base /\ hist'.job = hist.job /\ hist'.undone = hist.undone
        /\ hist'.loose = hist.loose
    BY <1>0, <1>28a DEF RestorePointerStays, Goto, disk, RestType
  <2>2. Paired /\ state.phase = "rollback_required"
    BY <1>0, <1>28a, <2>1 DEF RestorePointerStays, PhaseOK, RollingBack, Paired, Tracked, UiOnly
  <2>3. /\ tx.ui = state.ui /\ tx.prev = state.prev /\ UiDescribes(state)
        /\ \A f \in UiFiles : UiKept(f) \/ Mended(f, tx)
    BY <1>0, <1>28a, <2>2 DEF RestorePointerStays, UiProcessOK, UiJournalOK, RollingBack
  <2>4. \A f \in UiFiles : UiKept(f)' \/ Mended(f, tx)
    BY <2>1, <2>3 DEF UiKept
  <2>5. OldUi'
    BY <1>0, <2>1, <2>2, <2>3, <2>4 DEF OldUi, Stuck, Old, UiKept, UiDescribes, Mended
  <2>6. UiJournalOK'
    BY <1>0, <2>1, <2>2, <2>3, <2>4 DEF UiJournalOK, UiDescribes, Mended
  <2>7. UiProcessOK'
    BY <2>1, <2>3, <2>5 DEF UiProcessOK, Applying, RollingBack
  <2> QED BY <2>6, <2>7
<1>29. CASE WriteRestored
  <2>1. hist' = hist /\ install' = install /\ pc' = "discard"
    BY <1>29 DEF WriteRestored, Goto
  <2>2. Paired /\ OldUi
    BY <1>0, <1>29, <2>1, PairedBefore DEF WriteRestored, UiProcessOK
  <2>3. state'.phase = "restored"
    BY <1>0, <1>29 DEF WriteRestored, MemType, Transactions
  <2>4. OldUi'
    BY <2>1, <2>2, KeepsUi DEF SameUi, SameHistory
  <2> QED BY <2>1, <2>3, <2>4 DEF UiJournalOK, UiProcessOK, Applying, RollingBack
<1>30. CASE DiscardDone
  <2>1. hist' = hist /\ install' = install /\ state' = state
    BY <1>0, <1>30 DEF DiscardDone, disk
  <2>2. Paired
    BY <2>1, PairedBefore
  <2>3. UiProcessOK'
    BY <1>0, <1>30, <2>1, <2>2, KeepsUiJournal DEF DiscardDone, Goto, disk, UiProcessOK,
       Applying, RollingBack, MemoryOK, Mended
  <2> QED BY <1>0, <2>1, <2>2, <2>3, KeepsUiJournal
<1>31. CASE ForgetState
  <2>1. hist' = hist /\ install' = install /\ state'.phase = "none"
    BY <1>31 DEF ForgetState, NoTransaction
  <2>2. Paired /\ state.phase \in {"committed", "restored"}
    BY <1>0, <1>31, <2>1, PairedBefore DEF ForgetState, PhaseOK
  <2>3. OldWhole \/ New(Files)
    BY <1>0, <2>2, WholeIsBoth DEF JournalOK, UiJournalOK
  <2>4. OldWhole' \/ New(Files)'
    <3>1. \A f \in Files : Goal(f)' = Goal(f)
      BY <2>1 DEF Goal
    <3>2. New(Files) => New(Files)'
      BY <2>1, <3>1 DEF New
    <3>3. OldWhole => OldWhole'
      BY <2>1 DEF Old, OldWhole, Stuck
    <3> QED BY <2>3, <3>2, <3>3
  <2>5. pc' \in {"idle", "prepare"}
    BY <1>31 DEF ForgetState, Recovered, Exit
  <2> QED BY <2>1, <2>4, <2>5 DEF UiJournalOK, UiProcessOK, Applying, RollingBack
<1>32. CASE PrepareFails
  <2>1. hist' = hist /\ install' = install /\ state' = state
    BY <1>0, <1>32 DEF PrepareFails, disk
  <2>2. Paired
    BY <2>1, PairedBefore
  <2>3. UiProcessOK'
    BY <1>0, <1>32, <2>1, <2>2, KeepsUiJournal DEF PrepareFails, Exit, Break, disk,
       UiProcessOK, Applying, RollingBack, MemoryOK, Mended
  <2> QED BY <1>0, <2>1, <2>2, <2>3, KeepsUiJournal
<1>33. CASE ApplyFails
  <2>1. hist' = hist /\ install' = install /\ state' = state
    BY <1>0, <1>33 DEF ApplyFails, disk
  <2>2. Paired
    BY <2>1, PairedBefore
  <2>3. UiProcessOK'
    BY <1>0, <1>33, <2>1, <2>2, KeepsUiJournal DEF ApplyFails, Exit, Goto, Break, disk,
       UiProcessOK, Applying, RollingBack, MemoryOK, Mended
  <2> QED BY <1>0, <2>1, <2>2, <2>3, KeepsUiJournal
<1>34. CASE CommitFails
  <2>1. hist' = hist /\ install' = install /\ state' = state
    BY <1>0, <1>34 DEF CommitFails, disk
  <2>2. Paired
    BY <2>1, PairedBefore
  <2>3. UiProcessOK'
    BY <1>0, <1>34, <2>1, <2>2, KeepsUiJournal DEF CommitFails, Exit, Break, disk,
       UiProcessOK, Applying, RollingBack, MemoryOK, Mended
  <2> QED BY <1>0, <2>1, <2>2, <2>3, KeepsUiJournal
<1>35. CASE RestoreFails
  <2>1. hist' = hist /\ install' = install /\ state' = state
    BY <1>0, <1>35 DEF RestoreFails, disk
  <2>2. Paired
    BY <2>1, PairedBefore
  <2>3. UiProcessOK'
    BY <1>0, <1>35, <2>1, <2>2, KeepsUiJournal DEF RestoreFails, Abort, Exit, Break, disk,
       UiProcessOK, Applying, RollingBack, MemoryOK, Mended
  <2> QED BY <1>0, <2>1, <2>2, <2>3, KeepsUiJournal
<1>36. CASE CleanupFails
  <2>1. hist' = hist /\ install' = install /\ state' = state
    BY <1>0, <1>36 DEF CleanupFails, disk, RestType
  <2>2. Paired
    BY <2>1, PairedBefore
  <2>3. UiProcessOK'
    BY <1>0, <1>36, <2>1, <2>2, KeepsUiJournal DEF CleanupFails, Abort, Exit, Break, disk,
       UiProcessOK, Applying, RollingBack, MemoryOK, Mended, RestType
  <2> QED BY <1>0, <2>1, <2>2, <2>3, KeepsUiJournal
<1>37. CASE Crash
  <2>1. hist' = hist /\ install' = install /\ state' = state
    BY <1>0, <1>37 DEF Crash, disk
  <2>2. Paired
    BY <2>1, PairedBefore
  <2>3. UiProcessOK'
    BY <1>0, <1>37, <2>1, <2>2, KeepsUiJournal DEF Crash, Exit, Break, disk, UiProcessOK,
       Applying, RollingBack, MemoryOK, Mended
  <2> QED BY <1>0, <2>1, <2>2, <2>3, KeepsUiJournal
<1>38. ASSUME NEW j \in Jobs, StartUpdate(j) PROVE UiJournalOK' /\ UiProcessOK'
  <2>1. hist' = hist /\ install' = install /\ state' = state
    BY <1>0, <1>38 DEF StartUpdate, disk
  <2>2. Paired
    BY <2>1, PairedBefore
  <2>3. UiProcessOK'
    BY <1>0, <1>38, <2>1, <2>2, KeepsUiJournal DEF StartUpdate, disk, UiProcessOK, Applying,
       RollingBack, MemoryOK, Mended
  <2> QED BY <1>0, <2>1, <2>2, <2>3, KeepsUiJournal
<1>39. CASE StartProduct
  <2>1. hist' = hist /\ install' = install /\ state' = state
    BY <1>0, <1>39 DEF StartProduct, disk
  <2>2. Paired
    BY <2>1, PairedBefore
  <2>3. UiProcessOK'
    BY <1>0, <1>39, <2>1, <2>2, KeepsUiJournal DEF StartProduct, disk, UiProcessOK,
       Applying, RollingBack, MemoryOK, Mended
  <2> QED BY <1>0, <2>1, <2>2, <2>3, KeepsUiJournal
<1>40. CASE StopProduct
  <2>1. hist' = hist /\ install' = install /\ state' = state
    BY <1>0, <1>40 DEF StopProduct, disk
  <2>2. Paired
    BY <2>1, PairedBefore
  <2>3. UiProcessOK'
    BY <1>0, <1>40, <2>1, <2>2, KeepsUiJournal DEF StopProduct, mem, disk, UiProcessOK,
       Applying, RollingBack, MemoryOK, Mended
  <2> QED BY <1>0, <2>1, <2>2, <2>3, KeepsUiJournal
<1> QED
  BY <1>1, <1>2, <1>3, <1>4, <1>5, <1>6, <1>7, <1>8, <1>9, <1>10, <1>11, <1>12, <1>13,
     <1>14, <1>15, <1>16, <1>17, <1>18, <1>19, <1>19a, <1>20, <1>21, <1>22, <1>23, <1>24, <1>25,
     <1>26, <1>27, <1>28, <1>28a, <1>29, <1>30, <1>31, <1>32, <1>33, <1>34, <1>35, <1>36, <1>37,
     <1>38, <1>39, <1>40 DEF Next, Step, Faults

(* The first state has no transaction, and the UI as it was installed.     *)
LEMMA WholeInit == Init => WholeInv
<1> SUFFICES ASSUME Init PROVE WholeInv
  OBVIOUS
<1>1. OldWhole
  BY DEF Init, Old, OldWhole
<1>2. UiJournalOK
  BY <1>1 DEF Init, NoTransaction, UiJournalOK
<1>3. UiProcessOK
  BY DEF Init, UiProcessOK, Applying, RollingBack
<1> QED BY <1>2, <1>3 DEF Init, WholeInv

(* Doing nothing keeps it.                                                 *)
LEMMA WholeStutter == WholeInv /\ UNCHANGED vars => WholeInv'
<1> SUFFICES ASSUME WholeInv, UNCHANGED vars PROVE WholeInv'
  OBVIOUS
<1>1. /\ install' = install /\ state' = state /\ pc' = pc /\ job' = job /\ tx' = tx
      /\ todo' = todo /\ hist' = hist
  BY DEF vars, disk, mem
<1>2. pc \in {"ui_ptr", "health", "fail", "fail_ptr"} /\ job.kind = "ui" => hist.loose
  BY DEF WholeInv
<1>3. ASSUME Paired' PROVE UiJournalOK' /\ UiProcessOK'
  <2>1. UiJournalOK /\ UiProcessOK
    BY <1>1, <1>3, PairedBefore DEF WholeInv
  <2>2. UiProcessOK'
    BY <1>1, <2>1, KeepsUiJournal DEF UiProcessOK, Applying, RollingBack, Mended
  <2> QED BY <1>1, <2>1, <2>2, KeepsUiJournal
<1> QED BY <1>1, <1>2, <1>3 DEF WholeInv

(* Every step keeps it.                                                    *)
LEMMA WholeStep == UpdateInv /\ UpdateInv' /\ WholeInv /\ Next => WholeInv'
<1> SUFFICES ASSUME UpdateInv, UpdateInv', WholeInv, Next PROVE WholeInv'
  OBVIOUS
<1>1. LooseOK'
  BY LooseStep DEF UpdateInv, WholeInv, LooseOK
<1>2. Paired' => UiJournalOK' /\ UiProcessOK'
  BY PairedStep
<1> QED BY <1>1, <1>2 DEF WholeInv, LooseOK

(* Inside a transaction the journal names what a rollback has to put back  *)
(* of the UI, and nothing else of it was touched (record_ui, rollback,     *)
(* recover).                                                               *)
THEOREM WholeInvariance == Spec => []WholeInv
BY UpdateInvariance, WholeInit, WholeStutter, WholeStep, PTL DEF Spec

(* Native files and renderer change together or not at all, whatever       *)
(* crashes and errors happened on the way (apply_component_set_staged).    *)
THEOREM WholeAtomic == Spec => []WholeUpdateAtomic
<1>1. WholeInv => WholeUpdateAtomic
  BY DEF WholeInv, WholeUpdateAtomic, Paired, Settled, UiJournalOK, OldWhole
<1> QED BY <1>1, WholeInvariance, PTL

================================================================================
