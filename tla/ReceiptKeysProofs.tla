---- MODULE ReceiptKeysProofs ----
(***************************************************************************)
(* Proofs about ReceiptKeys, for any number of keys and faults and any     *)
(* limit of the history.                                                   *)
(*                                                                         *)
(* The inductive invariant has three parts.  KeyInv says that every key in *)
(* use or about to be used is recorded and that the last transition has    *)
(* the greatest key; it needs no assumption.  DiskInv says, as long as no  *)
(* unprotected operation was cut short, what each location of the process  *)
(* may assume about the stores: a crash anywhere leaves one of four stable *)
(* situations, from each of which a start reaches agreement.  LineInv says *)
(* that the table is one line and the published history a beginning of it. *)
(***************************************************************************)
EXTENDS ReceiptKeys, TLAPS, FiniteSetTheorems, WellFoundedInduction

(* Locations with a new key that is not committed, and with one that is.   *)
Uncommitted == {"init_commit", "rot_journal", "rot_pending", "rot_commit",
                "gen_forensic", "gen_commit"}
CommittedAt == {"init_active", "init_export", "gen_active", "gen_export"} \cup
               (Rotation \ {"rot_journal", "rot_pending", "rot_commit"})

(* Every key in use is recorded; a new key is newer than all recorded.     *)
KeyInv ==
    /\ KeysOf(table) \subseteq 1..made
    /\ \A k \in KeysOf(table) : k <= LastKey(table)
    /\ signed \subseteq KeysOf(table)
    /\ active \in KeysOf(table) \cup {0}
    /\ core.pc \in Uncommitted =>
           core.tr.key = made /\ made # 0 /\ made \notin KeysOf(table)
    /\ core.pc \in CommittedAt => core.tr.key \in KeysOf(table)
    /\ core.pc = "rec_activate" => pending \in KeysOf(table)
    /\ core.pc \notin Stopped \cup {"init_commit", "init_active"} => active # 0

(* The stores between two operations.                                      *)
Settled == table # <<>> /\ file = table /\ active = LastKey(table)
Pristine == active = 0 /\ file = <<>> /\ table = <<>> /\ journal = NoJournal
Idle == Settled /\ journal = NoJournal
Staged ==
    /\ Settled
    /\ journal.phase = "prepared"
    /\ journal.new \notin KeysOf(table)
Committed ==
    /\ table # <<>> /\ file # <<>> /\ active # 0
    /\ journal # NoJournal
    /\ journal.new = LastKey(table)
    /\ active = journal.new \/ pending = journal.new
Started == Idle \/ Staged \/ Committed

(* What a location may assume about the stores.                            *)
DiskInv ==
    ~cut =>
        /\ core.pc # "refused"
        /\ core.pc = "down" => Pristine \/ Started
        /\ core.pc = "serving" => Started
        /\ core.pc = "init_commit" => Pristine
        /\ core.pc \in {"init_active", "init_export"} =>
               /\ table # <<>> /\ Len(table) = 1 /\ file = <<>>
               /\ journal = NoJournal /\ core.tr.key = LastKey(table)
        /\ core.pc = "init_active" => active = 0
        /\ core.pc \in {"init_export", "gen_export"} => active = core.tr.key
        /\ core.pc = "rec_activate" => Committed /\ pending = journal.new
        /\ core.pc = "rec_export" => Committed /\ active = journal.new
        /\ core.pc \in {"rec_pending", "rec_journal"} =>
               Staged \/ (Committed /\ active = journal.new /\ file = table)
        /\ core.pc = "verify" => Idle
        /\ core.pc = "rot_journal" => Idle
        /\ core.pc \in {"rot_pending", "rot_commit"} => Staged /\ journal.new = core.tr.key
        /\ core.pc = "rot_commit" => pending = core.tr.key
        /\ core.pc \in Rotation \ {"rot_journal", "rot_pending", "rot_commit"} =>
               Committed /\ journal.new = core.tr.key
        /\ core.pc \in {"rot_durable", "rot_audit", "rot_export", "rot_audited", "rot_active"} =>
               pending = core.tr.key
        /\ core.pc \in {"rot_replaced", "rot_publish", "rot_cleanup", "rot_finish"} =>
               active = core.tr.key
        /\ core.pc \in {"rot_cleanup", "rot_finish"} => file = table
        /\ core.pc \in {"gen_forensic", "gen_commit"} =>
               Started /\ (journal = NoJournal => Len(table) < MaxHistory)
        /\ core.pc \in {"gen_active", "gen_export"} =>
               /\ journal = NoJournal /\ table # <<>> /\ file # <<>>
               /\ core.tr.key = LastKey(table) /\ Len(table) <= MaxHistory

KeysInv == TypeOK /\ KeyInv /\ DiskInv

(* A transition continues a history: its key is newer than all of them, it *)
(* follows the last one, and the right key has signed it.                  *)
Extends(h, x) ==
    /\ x.key # 0 /\ \A k \in KeysOf(h) : k < x.key
    /\ IF h = <<>> THEN x.prev = 0 /\ x.cont = "genesis" /\ x.by = x.key
       ELSE /\ x.prev = LastKey(h) /\ x.after = x.prev
            /\ \/ x.cont \in {"chained", "compromised"} /\ x.by = x.prev
               \/ x.cont = "broken" /\ x.by = x.key

(* A history in which every transition continues the ones before it.       *)
Line(h) ==
    \A i \in 1..Len(h) :
        /\ h[i].key # 0 /\ \A j \in 1..Len(h) : j < i => h[j].key < h[i].key
        /\ i = 1 => h[i].prev = 0 /\ h[i].cont = "genesis" /\ h[i].by = h[i].key
        /\ i > 1 => /\ h[i].prev = h[i - 1].key /\ h[i].after = h[i].prev
                    /\ \/ h[i].cont \in {"chained", "compromised"} /\ h[i].by = h[i].prev
                       \/ h[i].cont = "broken" /\ h[i].by = h[i].key

(* The published history is the table, or lacks its last transition, whose *)
(* key has signed nothing unless it is the key in use.                     *)
Published ==
    file # <<>> =>
        \/ file = table
        \/ /\ table # <<>> /\ table = Append(file, table[Len(table)])
           /\ LastKey(table) \notin signed \ {active}

(* The table is one line, and a transition that waits to be committed      *)
(* continues it.                                                           *)
LineInv ==
    ~cut =>
        /\ Line(table) /\ Published
        /\ core.pc \in Uncommitted /\ (core.pc \in Genesis => journal = NoJournal) =>
               Extends(table, core.tr)

----------------------------------------------------------------------------
(* The history.                                                            *)

(* Appending a transition adds its key, and makes it the last.             *)
LEMMA AppendKey ==
    ASSUME NEW t \in Seq(Transitions), NEW x \in Transitions
    PROVE  /\ Append(t, x) \in Seq(Transitions)
           /\ Append(t, x) # <<>>
           /\ Len(Append(t, x)) = Len(t) + 1
           /\ KeysOf(Append(t, x)) = KeysOf(t) \cup {x.key}
           /\ LastKey(Append(t, x)) = x.key
<1>1. /\ Append(t, x) \in Seq(Transitions)
      /\ Len(Append(t, x)) = Len(t) + 1
      /\ Append(t, x)[Len(t) + 1] = x
      /\ \A i \in 1..Len(t) : Append(t, x)[i] = t[i]
      /\ Len(t) \in Nat
  OBVIOUS
<1>2. Append(t, x) # <<>>
  BY <1>1
<1>3. LastKey(Append(t, x)) = x.key
  BY <1>1 DEF LastKey
<1>4. KeysOf(Append(t, x)) = KeysOf(t) \cup {x.key}
  BY <1>1 DEF KeysOf
<1> QED  BY <1>1, <1>2, <1>3, <1>4

(* The last key of a history is one of its keys.                           *)
LEMMA LastIsKey ==
    ASSUME NEW t \in Seq(Transitions), t # <<>>
    PROVE  LastKey(t) \in KeysOf(t) /\ Len(t) \in Nat \ {0}
  BY DEF LastKey, KeysOf

(* An empty history has no keys.                                           *)
LEMMA NoKeys == KeysOf(<<>>) = {} /\ Len(<<>>) = 0
  BY DEF KeysOf

(* The invariant holds of a new installation.                              *)
LEMMA InitKeeps == Init => KeysInv
<1> SUFFICES ASSUME Init PROVE KeysInv
  OBVIOUS
<1>a. journal \in Journals
  BY DEF Init, NoJournal, Journals
<1>b. core \in [pc : Locations, tr : Transitions]
  BY DEF Init, NoTransition, Transitions, Locations, Stopped
<1>c. cut \in BOOLEAN
  BY Zenon DEF Init
<1>d. /\ active \in 0..made /\ pending \in 0..made
      /\ signed \subseteq 1..made
      /\ made \in 0..MaxKeys /\ faults \in 0..MaxFaults
  BY LimitAssumption DEF Init
<1>e. /\ table \in Seq(Transitions) /\ file \in Seq(Transitions)
      /\ Len(file) <= MaxHistory
  BY NoKeys, LimitAssumption DEF Init
<1>1. TypeOK
  BY <1>a, <1>b, <1>c, <1>d, <1>e DEF TypeOK
<1>2. KeyInv
  BY NoKeys DEF Init, KeyInv, Uncommitted, CommittedAt, Stopped, Rotation
<1>3. DiskInv
  BY DEF Init, DiskInv, Pristine, Rotation
<1> QED  BY <1>1, <1>2, <1>3 DEF KeysInv

----------------------------------------------------------------------------
(* The steps.                                                              *)

(* Every step is one of these.                                             *)
LEMMA NextCases ==
    ASSUME [Next]_vars
    PROVE  \/ StartFirst \/ Start \/ InitCommit \/ InitActive \/ InitExport
           \/ RecActivate \/ RecExport \/ RecPending \/ RecJournal \/ Verify
           \/ SignReceipt \/ (\E cont \in {"chained", "compromised"} : Rotate(cont))
           \/ RotJournal \/ RotPending \/ RotCommit \/ RotDurable \/ RotAudit
           \/ RotExport \/ RotAudited \/ RotActive \/ RotReplaced \/ RotPublish
           \/ RotCleanup \/ RotFinish
           \/ NewGenesis \/ GenForensic \/ GenCommit \/ GenActive \/ GenExport
           \/ Crash \/ Fail \/ UNCHANGED vars
  BY DEF Next, StartupStep, RotationStep, GenesisStep

(* The process stays at a known location with a well-formed transition.    *)
LEMMA CoreTyped ==
    ASSUME TypeOK, NEW l \in Locations
    PROVE  /\ [core EXCEPT !.pc = l] \in [pc : Locations, tr : Transitions]
           /\ [core EXCEPT !.pc = l].pc = l
           /\ [core EXCEPT !.pc = l].tr = core.tr
           /\ core.tr \in Transitions
           /\ core.tr.key \in Nat /\ core.tr.prev \in Nat
<1>1. core \in [pc : Locations, tr : Transitions]
  BY DEF TypeOK
<1>2. core.tr \in Transitions
  BY <1>1
<1> QED  BY <1>1, <1>2 DEF Transitions

(* Recorded keys stay recorded and new keys are newer.                     *)
LEMMA KeyKeeps ==
    ASSUME KeysInv, [Next]_vars
    PROVE  KeyInv'
<1>t. core \in [pc : Locations, tr : Transitions] /\ core.tr \in Transitions
  BY DEF KeysInv, TypeOK
<1>n. /\ made \in Nat /\ active \in Nat /\ pending \in Nat
      /\ table \in Seq(Transitions) /\ file \in Seq(Transitions)
  BY LimitAssumption DEF KeysInv, TypeOK
<1>k. KeyInv
  BY DEF KeysInv
<1>c. /\ Append(table, core.tr) # <<>>
      /\ KeysOf(Append(table, core.tr)) = KeysOf(table) \cup {core.tr.key}
      /\ LastKey(Append(table, core.tr)) = core.tr.key
  BY <1>t, <1>n, AppendKey
<1>1. CASE StartFirst
  BY <1>1, <1>t, <1>n, <1>k
  DEF StartFirst, KeyInv, At, Goto, Uncommitted, CommittedAt, Stopped, Rotation
<1>2. CASE Start
  BY <1>2, <1>t, <1>n, <1>k
  DEF Start, Recovery, KeyInv, At, Goto, Uncommitted, CommittedAt, Stopped, Rotation
<1>3. CASE InitCommit
  BY <1>3, <1>t, <1>n, <1>k, <1>c
  DEF InitCommit, Commit, KeyInv, At, Goto, Uncommitted, CommittedAt, Stopped, Rotation
<1>4. CASE InitActive
  BY <1>4, <1>t, <1>n, <1>k
  DEF InitActive, Activate, KeyInv, At, Goto, Uncommitted, CommittedAt, Stopped,
      Rotation
<1>5. CASE InitExport
  BY <1>5, <1>t, <1>n, <1>k
  DEF InitExport, Export, KeyInv, At, Goto, Uncommitted, CommittedAt, Stopped, Rotation
<1>6. CASE RecActivate
  BY <1>6, <1>t, <1>n, <1>k
  DEF RecActivate, Activate, KeyInv, At, Goto, Uncommitted, CommittedAt, Stopped,
      Rotation
<1>7. CASE RecExport
  BY <1>7, <1>t, <1>n, <1>k
  DEF RecExport, Export, KeyInv, At, Goto, Uncommitted, CommittedAt, Stopped, Rotation
<1>8. CASE RecPending
  BY <1>8, <1>t, <1>n, <1>k
  DEF RecPending, RemovePending, KeyInv, At, Goto, Uncommitted, CommittedAt, Stopped,
      Rotation
<1>9. CASE RecJournal
  BY <1>9, <1>t, <1>n, <1>k
  DEF RecJournal, RemoveJournal, KeyInv, At, Goto, Uncommitted, CommittedAt, Stopped,
      Rotation
<1>10. CASE Verify
  BY <1>10, <1>t, <1>n, <1>k
  DEF Verify, KeyInv, At, Goto, Uncommitted, CommittedAt, Stopped, Rotation
<1>11. CASE SignReceipt
  BY <1>11, <1>t, <1>n, <1>k
  DEF SignReceipt, KeyInv, At, Goto, Uncommitted, CommittedAt, Stopped, Rotation
<1>12. ASSUME NEW cont \in {"chained", "compromised"}, Rotate(cont) PROVE KeyInv'
  BY <1>12, <1>t, <1>n, <1>k
  DEF Rotate, KeyInv, At, Goto, Uncommitted, CommittedAt, Stopped, Rotation
<1>13. CASE RotJournal
  BY <1>13, <1>t, <1>n, <1>k
  DEF RotJournal, WriteJournal, KeyInv, At, Goto, Uncommitted, CommittedAt, Stopped,
      Rotation
<1>14. CASE RotPending
  BY <1>14, <1>t, <1>n, <1>k
  DEF RotPending, KeyInv, At, Goto, Uncommitted, CommittedAt, Stopped, Rotation
<1>15. CASE RotCommit
  BY <1>15, <1>t, <1>n, <1>k, <1>c
  DEF RotCommit, Commit, KeyInv, At, Goto, Uncommitted, CommittedAt, Stopped, Rotation
<1>16. CASE RotDurable
  BY <1>16, <1>t, <1>n, <1>k
  DEF RotDurable, WriteJournal, KeyInv, At, Goto, Uncommitted, CommittedAt, Stopped,
      Rotation
<1>17. CASE RotAudit
  BY <1>17, <1>t, <1>n, <1>k
  DEF RotAudit, KeyInv, At, Goto, Uncommitted, CommittedAt, Stopped, Rotation
<1>18. CASE RotExport
  BY <1>18, <1>t, <1>n, <1>k
  DEF RotExport, Export, KeyInv, At, Goto, Uncommitted, CommittedAt, Stopped, Rotation
<1>19. CASE RotAudited
  BY <1>19, <1>t, <1>n, <1>k
  DEF RotAudited, WriteJournal, KeyInv, At, Goto, Uncommitted, CommittedAt, Stopped,
      Rotation
<1>20. CASE RotActive
  BY <1>20, <1>t, <1>n, <1>k
  DEF RotActive, Activate, KeyInv, At, Goto, Uncommitted, CommittedAt, Stopped, Rotation
<1>21. CASE RotReplaced
  BY <1>21, <1>t, <1>n, <1>k
  DEF RotReplaced, WriteJournal, KeyInv, At, Goto, Uncommitted, CommittedAt, Stopped,
      Rotation
<1>22. CASE RotPublish
  BY <1>22, <1>t, <1>n, <1>k
  DEF RotPublish, Export, KeyInv, At, Goto, Uncommitted, CommittedAt, Stopped, Rotation
<1>23. CASE RotCleanup
  BY <1>23, <1>t, <1>n, <1>k
  DEF RotCleanup, RemovePending, KeyInv, At, Goto, Uncommitted, CommittedAt, Stopped,
      Rotation
<1>24. CASE RotFinish
  BY <1>24, <1>t, <1>n, <1>k
  DEF RotFinish, RemoveJournal, KeyInv, At, Goto, Uncommitted, CommittedAt, Stopped,
      Rotation
<1>25. CASE NewGenesis
  BY <1>25, <1>t, <1>n, <1>k
  DEF NewGenesis, KeyInv, At, Goto, Uncommitted, CommittedAt, Stopped, Rotation
<1>26. CASE GenForensic
  BY <1>26, <1>t, <1>n, <1>k
  DEF GenForensic, KeyInv, At, Goto, Uncommitted, CommittedAt, Stopped, Rotation
<1>27. CASE GenCommit
  BY <1>27, <1>t, <1>n, <1>k, <1>c
  DEF GenCommit, Commit, KeyInv, At, Goto, Uncommitted, CommittedAt, Stopped, Rotation
<1>28. CASE GenActive
  BY <1>28, <1>t, <1>n, <1>k
  DEF GenActive, Activate, KeyInv, At, Goto, Uncommitted, CommittedAt, Stopped, Rotation
<1>29. CASE GenExport
  BY <1>29, <1>t, <1>n, <1>k
  DEF GenExport, Export, KeyInv, At, Goto, Uncommitted, CommittedAt, Stopped, Rotation
<1>30. CASE Crash
  BY <1>30, <1>t, <1>n, <1>k
  DEF Crash, Fault, KeyInv, At, Goto, Uncommitted, CommittedAt, Stopped, Rotation
<1>31. CASE Fail
  <2>1. core.pc \in Startup \cup Rotation \cup Genesis
        /\ core'.pc \in {"rec_journal", "down", "serving"} /\ core'.tr = core.tr
        /\ (core'.pc = "rec_journal" => core.pc = "rec_pending")
        /\ (core'.pc = "serving" => core.pc \in Rotation \cup Genesis)
    BY <1>31, <1>t DEF Fail, At, Goto, Startup, Rotation, Genesis
  <2> QED
    BY <1>31, <2>1, <1>t, <1>n, <1>k
    DEF Fail, KeyInv, Uncommitted, CommittedAt, Stopped, Startup, Rotation, Genesis
<1>32. CASE UNCHANGED vars
  BY <1>32, <1>t, <1>n, <1>k
  DEF vars, KeyInv, At, Goto, Uncommitted, CommittedAt, Stopped, Rotation
<1> QED
  BY NextCases, <1>1, <1>2, <1>3, <1>4, <1>5, <1>6, <1>7, <1>8, <1>9, <1>10, <1>11, <1>12, <1>13, <1>14, <1>15, <1>16,
     <1>17, <1>18, <1>19, <1>20, <1>21, <1>22, <1>23, <1>24, <1>25, <1>26, <1>27, <1>28, <1>29, <1>30, <1>31, <1>32


(* The history variable is set by faults of unprotected operations and by  *)
(* a genesis over a journal, and never cleared.                            *)
LEMMA CutOnce ==
    ASSUME [Next]_vars, ~cut'
    PROVE  /\ ~cut
           /\ Crash \/ Fail => core.pc \notin Unprotected
           /\ GenCommit => journal = NoJournal
<1>1. Fault => ~cut /\ core.pc \notin Unprotected
  BY Zenon DEF Fault
<1>2. GenCommit => ~cut /\ journal = NoJournal
  BY Zenon DEF GenCommit
<1>3. UNCHANGED cut => ~cut
  OBVIOUS
<1>4. \/ Fault \/ GenCommit \/ UNCHANGED cut
  BY NextCases
  DEF StartFirst, Start, InitCommit, InitActive, InitExport, RecActivate, RecExport,
      RecPending, RecJournal, Verify, SignReceipt, Rotate, RotJournal, RotPending,
      RotCommit, RotDurable, RotAudit, RotExport, RotAudited, RotActive, RotReplaced,
      RotPublish, RotCleanup, RotFinish, NewGenesis, GenForensic, GenActive, GenExport,
      Crash, Fail, Activate, Export, RemovePending, RemoveJournal, WriteJournal, vars
<1> QED  BY <1>1, <1>2, <1>3, <1>4 DEF Crash, Fail


(* Every step takes the stores from one of the described situations to     *)
(* another.                                                                *)
LEMMA DiskKeeps ==
    ASSUME KeysInv, [Next]_vars
    PROVE  DiskInv'
<1>t. core \in [pc : Locations, tr : Transitions] /\ core.tr \in Transitions
  BY DEF KeysInv, TypeOK
<1>n. /\ made \in Nat /\ active \in Nat /\ pending \in Nat
      /\ table \in Seq(Transitions) /\ file \in Seq(Transitions)
  BY LimitAssumption DEF KeysInv, TypeOK
<1>k. KeyInv
  BY DEF KeysInv
<1>c. /\ Append(table, core.tr) # <<>>
      /\ KeysOf(Append(table, core.tr)) = KeysOf(table) \cup {core.tr.key}
      /\ LastKey(Append(table, core.tr)) = core.tr.key
  BY <1>t, <1>n, AppendKey
<1>d. DiskInv /\ journal \in Journals
  BY DEF KeysInv, TypeOK
<1>l. table # <<>> => LastKey(table) \in KeysOf(table)
  BY <1>n, LastIsKey
<1>e. Len(Append(table, core.tr)) = Len(table) + 1 /\ Len(table) \in Nat /\ Len(<<>>) = 0
  BY <1>t, <1>n, AppendKey, NoKeys
<1> SUFFICES ASSUME ~cut' PROVE DiskInv'
  BY DEF DiskInv
<1>u. ~cut
  BY CutOnce
<1>1. CASE StartFirst
  BY <1>1, <1>t, <1>n, <1>k, <1>d, <1>l, <1>u
  DEF StartFirst, DiskInv, Started, Idle, Staged, Committed, Pristine, Settled, KeyInv,
      At, Goto, Rotation, Stopped
<1>2. CASE Start
  BY <1>2, <1>t, <1>n, <1>k, <1>d, <1>l, <1>u
  DEF Start, Recovery, DiskInv, Started, Idle, Staged, Committed, Pristine, Settled,
      KeyInv, At, Goto, Rotation, Stopped
<1>3. CASE InitCommit
  BY <1>3, <1>t, <1>n, <1>k, <1>c, <1>d, <1>l, <1>u
  DEF InitCommit, Commit, DiskInv, Started, Idle, Staged, Committed, Pristine, Settled,
      KeyInv, At, Goto, Rotation, Stopped
<1>4. CASE InitActive
  BY <1>4, <1>t, <1>n, <1>k, <1>d, <1>l, <1>u
  DEF InitActive, Activate, DiskInv, Started, Idle, Staged, Committed, Pristine,
      Settled, KeyInv, At, Goto, Rotation, Stopped
<1>5. CASE InitExport
  <2>1. Len(table) = 1
    BY <1>5, <1>d, <1>u DEF InitExport, At, DiskInv
  <2>2. Len(table) \in 1..MaxHistory
    BY <2>1, LimitAssumption
  <2> QED
    BY <1>5, <2>2, <1>t, <1>n, <1>k, <1>d, <1>l, <1>u
    DEF InitExport, Export, DiskInv, Started, Idle, Staged, Committed, Pristine,
        Settled, KeyInv,
        At, Goto, Rotation, Stopped
<1>6. CASE RecActivate
  BY <1>6, <1>t, <1>n, <1>k, <1>d, <1>l, <1>u
  DEF RecActivate, Activate, DiskInv, Started, Idle, Staged, Committed, Pristine,
      Settled, KeyInv, At, Goto, Rotation, Stopped
<1>7. CASE RecExport
  BY <1>7, <1>t, <1>n, <1>k, <1>d, <1>l, <1>u
  DEF RecExport, Export, DiskInv, Started, Idle, Staged, Committed, Pristine, Settled,
      KeyInv, At, Goto, Rotation, Stopped
<1>8. CASE RecPending
  BY <1>8, <1>t, <1>n, <1>k, <1>d, <1>l, <1>u
  DEF RecPending, RemovePending, DiskInv, Started, Idle, Staged, Committed, Pristine,
      Settled, KeyInv, At, Goto, Rotation, Stopped
<1>9. CASE RecJournal
  BY <1>9, <1>t, <1>n, <1>k, <1>d, <1>l, <1>u
  DEF RecJournal, RemoveJournal, DiskInv, Started, Idle, Staged, Committed, Pristine,
      Settled, KeyInv, At, Goto, Rotation, Stopped
<1>10. CASE Verify
  BY <1>10, <1>t, <1>n, <1>k, <1>d, <1>l, <1>u
  DEF Verify, DiskInv, Started, Idle, Staged, Committed, Pristine, Settled, KeyInv, At,
      Goto, Rotation, Stopped
<1>11. CASE SignReceipt
  BY <1>11, <1>t, <1>n, <1>k, <1>d, <1>l, <1>u
  DEF SignReceipt, DiskInv, Started, Idle, Staged, Committed, Pristine, Settled, KeyInv,
      At, Goto, Rotation, Stopped
<1>12. ASSUME NEW cont \in {"chained", "compromised"}, Rotate(cont) PROVE DiskInv'
  BY <1>12, <1>t, <1>n, <1>k, <1>d, <1>l, <1>u
  DEF Rotate, DiskInv, Started, Idle, Staged, Committed, Pristine, Settled, KeyInv, At,
      Goto, Rotation, Stopped
<1>13. CASE RotJournal
  <2>1. Idle /\ core.tr.key = made /\ made \notin KeysOf(table)
    BY <1>13, <1>k, <1>d, <1>u DEF RotJournal, At, DiskInv, KeyInv, Uncommitted
  <2>2. /\ core'.pc = "rot_pending" /\ core'.tr = core.tr
        /\ journal'.phase = "prepared" /\ journal'.new = core.tr.key
        /\ UNCHANGED <<active, pending, table, file>>
    BY <1>13, <1>t DEF RotJournal, WriteJournal, Goto
  <2>3. Staged'
    BY <2>1, <2>2 DEF Staged, Idle, Settled
  <2> QED
    BY <2>2, <2>3 DEF DiskInv, Rotation
<1>14. CASE RotPending
  BY <1>14, <1>t, <1>n, <1>k, <1>d, <1>l, <1>u
  DEF RotPending, DiskInv, Started, Idle, Staged, Committed, Pristine, Settled, KeyInv,
      At, Goto, Rotation, Stopped
<1>15. CASE RotCommit
  <2>1. /\ Staged /\ journal.new = core.tr.key /\ pending = core.tr.key
        /\ journal # NoJournal /\ active # 0
    BY <1>15, <1>k, <1>d, <1>u
    DEF RotCommit, At, DiskInv, KeyInv, Staged, NoJournal, Stopped
  <2>2. /\ core'.pc = "rot_durable" /\ core'.tr = core.tr
        /\ table' = Append(table, core.tr)
        /\ UNCHANGED <<active, pending, journal, file>>
    BY <1>15, <1>t DEF RotCommit, Commit, Goto
  <2>3. Committed'
    BY <2>1, <2>2, <1>c DEF Committed, Staged, Settled
  <2> QED
    BY <2>1, <2>2, <2>3 DEF DiskInv, Rotation
<1>16. CASE RotDurable
  BY <1>16, <1>t, <1>n, <1>k, <1>d, <1>l, <1>u
  DEF RotDurable, WriteJournal, NoJournal, DiskInv, Started, Idle, Staged, Committed,
      Pristine, Settled, KeyInv,
      At, Goto, Rotation, Stopped
<1>17. CASE RotAudit
  BY <1>17, <1>t, <1>n, <1>k, <1>d, <1>l, <1>u
  DEF RotAudit, DiskInv, Started, Idle, Staged, Committed, Pristine, Settled, KeyInv,
      At, Goto, Rotation, Stopped
<1>18. CASE RotExport
  BY <1>18, <1>t, <1>n, <1>k, <1>d, <1>l, <1>u
  DEF RotExport, Export, DiskInv, Started, Idle, Staged, Committed, Pristine, Settled,
      KeyInv, At, Goto, Rotation, Stopped
<1>19. CASE RotAudited
  BY <1>19, <1>t, <1>n, <1>k, <1>d, <1>l, <1>u
  DEF RotAudited, WriteJournal, NoJournal, DiskInv, Started, Idle, Staged, Committed,
      Pristine, Settled, KeyInv,
      At, Goto, Rotation, Stopped
<1>20. CASE RotActive
  BY <1>20, <1>t, <1>n, <1>k, <1>d, <1>l, <1>u
  DEF RotActive, Activate, DiskInv, Started, Idle, Staged, Committed, Pristine, Settled,
      KeyInv, At, Goto, Rotation, Stopped
<1>21. CASE RotReplaced
  BY <1>21, <1>t, <1>n, <1>k, <1>d, <1>l, <1>u
  DEF RotReplaced, WriteJournal, NoJournal, DiskInv, Started, Idle, Staged, Committed,
      Pristine, Settled, KeyInv,
      At, Goto, Rotation, Stopped
<1>22. CASE RotPublish
  BY <1>22, <1>t, <1>n, <1>k, <1>d, <1>l, <1>u
  DEF RotPublish, Export, DiskInv, Started, Idle, Staged, Committed, Pristine, Settled,
      KeyInv, At, Goto, Rotation, Stopped
<1>23. CASE RotCleanup
  BY <1>23, <1>t, <1>n, <1>k, <1>d, <1>l, <1>u
  DEF RotCleanup, RemovePending, DiskInv, Started, Idle, Staged, Committed, Pristine,
      Settled, KeyInv, At, Goto, Rotation, Stopped
<1>24. CASE RotFinish
  BY <1>24, <1>t, <1>n, <1>k, <1>d, <1>l, <1>u
  DEF RotFinish, RemoveJournal, DiskInv, Started, Idle, Staged, Committed, Pristine,
      Settled, KeyInv, At, Goto, Rotation, Stopped
<1>25. CASE NewGenesis
  BY <1>25, <1>t, <1>n, <1>k, <1>d, <1>l, <1>u
  DEF NewGenesis, DiskInv, Started, Idle, Staged, Committed, Pristine, Settled, KeyInv,
      At, Goto, Rotation, Stopped
<1>26. CASE GenForensic
  BY <1>26, <1>t, <1>n, <1>k, <1>d, <1>l, <1>u
  DEF GenForensic, DiskInv, Started, Idle, Staged, Committed, Pristine, Settled, KeyInv,
      At, Goto, Rotation, Stopped
<1>27. CASE GenCommit
  <2>1. /\ journal = NoJournal /\ Started /\ Len(table) < MaxHistory
    BY <1>27, <1>d, <1>u, CutOnce DEF GenCommit, At, DiskInv
  <2>2. Idle
    BY <2>1 DEF Started, Staged, Committed, NoJournal
  <2>3. /\ core'.pc = "gen_active" /\ core'.tr = core.tr
        /\ table' = Append(table, core.tr)
        /\ UNCHANGED <<active, pending, journal, file>>
    BY <1>27, <1>t DEF GenCommit, Commit, Goto
  <2>4. Len(table') <= MaxHistory
    BY <2>1, <2>3, <1>e, LimitAssumption
  <2> QED
    BY <2>1, <2>2, <2>3, <2>4, <1>c DEF DiskInv, Rotation, Idle, Settled
<1>28. CASE GenActive
  BY <1>28, <1>t, <1>n, <1>k, <1>d, <1>l, <1>u
  DEF GenActive, Activate, DiskInv, Started, Idle, Staged, Committed, Pristine, Settled,
      KeyInv, At, Goto, Rotation, Stopped
<1>29. CASE GenExport
  BY <1>29, <1>t, <1>n, <1>k, <1>d, <1>l, <1>u
  DEF GenExport, Export, DiskInv, Started, Idle, Staged, Committed, Pristine, Settled,
      KeyInv, At, Goto, Rotation, Stopped
<1>30. CASE Crash
  <2>1. core.pc \notin Unprotected /\ core.pc \notin Stopped
    BY <1>30, CutOnce DEF Crash
  <2>2. core'.pc = "down" /\ core'.tr = core.tr /\ UNCHANGED <<active, pending, journal, table, file>>
    BY <1>30, <1>t DEF Crash, Goto
  <2>3. core.pc \in Locations
    BY <1>t
  <2>4. Pristine \/ Started
    BY <2>1, <2>3, <1>d, <1>u
    DEF DiskInv, Started, Unprotected, Locations, Startup, Rotation, Genesis, Stopped
  <2>5. (Pristine \/ Started)'
    BY <2>2, <2>4 DEF Pristine, Started, Idle, Staged, Committed, Settled
  <2> QED
    BY <2>2, <2>5 DEF DiskInv, Rotation
<1>31. CASE Fail
  <2>1. core.pc \in Startup \cup Rotation \cup Genesis
        /\ core'.pc \in {"rec_journal", "down", "serving"} /\ core'.tr = core.tr
        /\ (core'.pc = "rec_journal" => core.pc = "rec_pending")
        /\ (core'.pc = "serving" => core.pc \in Rotation \cup Genesis)
    BY <1>31, <1>t DEF Fail, At, Goto, Startup, Rotation, Genesis
  <2>2. /\ core.pc \notin Unprotected
        /\ UNCHANGED <<active, pending, table, file>>
        /\ journal' = IF core.pc = "rot_cleanup"
                      THEN [journal EXCEPT !.phase = "cleanup_required"] ELSE journal
    BY <1>31, CutOnce DEF Fail, At
  <2>3. core.pc \in Rotation \cup Genesis => Started
    BY <2>2, <1>d, <1>u DEF DiskInv, Started, Unprotected, Rotation, Genesis
  <2>4. Pristine \/ Started
    BY <2>1, <2>2, <1>d, <1>u
    DEF DiskInv, Started, Unprotected, Startup, Rotation, Genesis
  <2>5. core.pc = "rot_cleanup" => Committed'
    BY <2>2, <1>d, <1>u DEF DiskInv, Committed, Rotation, Journals, NoJournal
  <2>6. core.pc # "rot_cleanup" => UNCHANGED <<active, pending, table, file, journal>>
    BY <2>2
  <2>7. core'.pc = "serving" => Started'
    BY <2>1, <2>3, <2>5, <2>6 DEF Started, Idle, Staged, Committed, Settled
  <2>8. Pristine' \/ Started'
    BY <2>4, <2>5, <2>6 DEF Pristine, Started, Idle, Staged, Committed, Settled
  <2>9. core'.pc = "rec_journal" =>
            Staged' \/ (Committed' /\ active' = journal'.new /\ file' = table')
    BY <2>1, <2>6, <1>d, <1>u DEF DiskInv, Staged, Committed, Settled
  <2> QED
    BY <2>1, <2>7, <2>8, <2>9 DEF DiskInv, Rotation
<1>32. CASE UNCHANGED vars
  BY <1>32, <1>t, <1>n, <1>k, <1>d, <1>l, <1>u
  DEF vars, DiskInv, Started, Idle, Staged, Committed, Pristine, Settled, KeyInv, At,
      Goto, Rotation, Stopped
<1> QED
  BY NextCases, <1>1, <1>2, <1>3, <1>4, <1>5, <1>6, <1>7, <1>8, <1>9, <1>10, <1>11, <1>12, <1>13, <1>14, <1>15, <1>16,
     <1>17, <1>18, <1>19, <1>20, <1>21, <1>22, <1>23, <1>24, <1>25, <1>26, <1>27, <1>28, <1>29, <1>30, <1>31, <1>32


(* The history variable stays a Boolean.                                   *)
LEMMA CutTyped ==
    ASSUME [Next]_vars, cut \in BOOLEAN
    PROVE  cut' \in BOOLEAN
<1>1. Fault => cut' \in BOOLEAN
  BY Zenon DEF Fault
<1>2. GenCommit => cut' \in BOOLEAN
  BY Zenon DEF GenCommit
<1>3. UNCHANGED cut => cut' \in BOOLEAN
  OBVIOUS
<1>4. \/ Fault \/ GenCommit \/ UNCHANGED cut
  BY NextCases
  DEF StartFirst, Start, InitCommit, InitActive, InitExport, RecActivate, RecExport,
      RecPending, RecJournal, Verify, SignReceipt, Rotate, RotJournal, RotPending,
      RotCommit, RotDurable, RotAudit, RotExport, RotAudited, RotActive, RotReplaced,
      RotPublish, RotCleanup, RotFinish, NewGenesis, GenForensic, GenActive, GenExport,
      Crash, Fail, Activate, Export, RemovePending, RemoveJournal, WriteJournal, vars
<1> QED  BY <1>1, <1>2, <1>3, <1>4


(* The types are kept.                                                     *)
LEMMA TypeKeeps ==
    ASSUME KeysInv, [Next]_vars
    PROVE  TypeOK'
<1>t. core \in [pc : Locations, tr : Transitions] /\ core.tr \in Transitions
  BY DEF KeysInv, TypeOK
<1>n. /\ made \in Nat /\ active \in Nat /\ pending \in Nat
      /\ table \in Seq(Transitions) /\ file \in Seq(Transitions)
  BY LimitAssumption DEF KeysInv, TypeOK
<1>k. KeyInv
  BY DEF KeysInv
<1>i. TypeOK
  BY DEF KeysInv
<1>g. \A l \in Locations : [core EXCEPT !.pc = l] \in [pc : Locations, tr : Transitions]
  BY <1>i, CoreTyped
<1>h. core.tr.key \in Nat /\ core.tr.prev \in Nat
  BY <1>t DEF Transitions
<1>a. file # <<>> => LastKey(file) \in Nat
  <2>1. file # <<>> => file[Len(file)] \in Transitions
    BY <1>n
  <2> QED  BY <2>1 DEF LastKey, Transitions
<1>b. cut' \in BOOLEAN
  BY CutTyped, <1>i DEF TypeOK
<1>1. CASE StartFirst
  <2>0. made' \in Nat
    BY <1>1, <1>n DEF StartFirst
  <2>1. core' \in [pc : Locations, tr : Transitions]
    BY <1>1, <2>0, <1>t, <1>n, <1>a
    DEF StartFirst, Locations, Startup, Rotation, Genesis, Stopped, Transitions
  <2>2. journal' \in Journals
    BY <1>1, <1>i DEF StartFirst, TypeOK
  <2>3. /\ table' \in Seq(Transitions) /\ file' \in Seq(Transitions)
        /\ Len(file') <= MaxHistory
    BY <1>1, <1>i, <1>t, AppendKey DEF StartFirst, TypeOK
  <2>4. /\ active' \in 0..made' /\ pending' \in 0..made' /\ signed' \subseteq 1..made'
        /\ made' \in 0..MaxKeys /\ faults' \in 0..MaxFaults
    BY <1>1, <1>i, <1>h, <1>n, LimitAssumption DEF StartFirst, TypeOK
  <2> QED  BY <1>b, <2>1, <2>2, <2>3, <2>4 DEF TypeOK
<1>2. CASE Start
  <2>1. core' \in [pc : Locations, tr : Transitions]
    BY <1>2, <1>g
    DEF Start, Recovery, At, Goto, Locations, Startup, Rotation, Genesis, Stopped
  <2>2. journal' \in Journals
    BY <1>2, <1>i DEF Start, Recovery, TypeOK
  <2>3. /\ table' \in Seq(Transitions) /\ file' \in Seq(Transitions)
        /\ Len(file') <= MaxHistory
    BY <1>2, <1>i, <1>t, AppendKey DEF Start, Recovery, TypeOK
  <2>4. /\ active' \in 0..made' /\ pending' \in 0..made' /\ signed' \subseteq 1..made'
        /\ made' \in 0..MaxKeys /\ faults' \in 0..MaxFaults
    BY <1>2, <1>i, <1>h, <1>n, LimitAssumption DEF Start, Recovery, TypeOK
  <2> QED  BY <1>b, <2>1, <2>2, <2>3, <2>4 DEF TypeOK
<1>3. CASE InitCommit
  <2>1. core' \in [pc : Locations, tr : Transitions]
    BY <1>3, <1>g
    DEF InitCommit, Commit, At, Goto, Locations, Startup, Rotation, Genesis, Stopped
  <2>2. journal' \in Journals
    BY <1>3, <1>i DEF InitCommit, Commit, TypeOK
  <2>3. /\ table' \in Seq(Transitions) /\ file' \in Seq(Transitions)
        /\ Len(file') <= MaxHistory
    BY <1>3, <1>i, <1>t, AppendKey DEF InitCommit, Commit, TypeOK
  <2>4. /\ active' \in 0..made' /\ pending' \in 0..made' /\ signed' \subseteq 1..made'
        /\ made' \in 0..MaxKeys /\ faults' \in 0..MaxFaults
    BY <1>3, <1>i, <1>h, <1>n, LimitAssumption DEF InitCommit, Commit, TypeOK
  <2> QED  BY <1>b, <2>1, <2>2, <2>3, <2>4 DEF TypeOK
<1>4. CASE InitActive
  <2>1. core' \in [pc : Locations, tr : Transitions]
    BY <1>4, <1>g
    DEF InitActive, Activate, At, Goto, Locations, Startup, Rotation, Genesis, Stopped
  <2>2. journal' \in Journals
    BY <1>4, <1>i DEF InitActive, Activate, TypeOK
  <2>3. /\ table' \in Seq(Transitions) /\ file' \in Seq(Transitions)
        /\ Len(file') <= MaxHistory
    BY <1>4, <1>i, <1>t, AppendKey DEF InitActive, Activate, TypeOK
  <2>4. /\ active' \in 0..made' /\ pending' \in 0..made' /\ signed' \subseteq 1..made'
        /\ made' \in 0..MaxKeys /\ faults' \in 0..MaxFaults
    BY <1>4, <1>i, <1>h, <1>n, <1>k, LimitAssumption
    DEF InitActive, Activate, TypeOK, KeyInv, At, Uncommitted,
       CommittedAt, Rotation, Stopped
  <2> QED  BY <1>b, <2>1, <2>2, <2>3, <2>4 DEF TypeOK
<1>5. CASE InitExport
  <2>1. core' \in [pc : Locations, tr : Transitions]
    BY <1>5, <1>g
    DEF InitExport, Export, At, Goto, Locations, Startup, Rotation, Genesis, Stopped
  <2>2. journal' \in Journals
    BY <1>5, <1>i DEF InitExport, Export, TypeOK
  <2>3. /\ table' \in Seq(Transitions) /\ file' \in Seq(Transitions)
        /\ Len(file') <= MaxHistory
    BY <1>5, <1>i, <1>t, AppendKey, LimitAssumption DEF InitExport, Export, TypeOK
  <2>4. /\ active' \in 0..made' /\ pending' \in 0..made' /\ signed' \subseteq 1..made'
        /\ made' \in 0..MaxKeys /\ faults' \in 0..MaxFaults
    BY <1>5, <1>i, <1>h, <1>n, LimitAssumption DEF InitExport, Export, TypeOK
  <2> QED  BY <1>b, <2>1, <2>2, <2>3, <2>4 DEF TypeOK
<1>6. CASE RecActivate
  <2>1. core' \in [pc : Locations, tr : Transitions]
    BY <1>6, <1>g
    DEF RecActivate, Activate, At, Goto, Locations, Startup, Rotation, Genesis, Stopped
  <2>2. journal' \in Journals
    BY <1>6, <1>i DEF RecActivate, Activate, TypeOK
  <2>3. /\ table' \in Seq(Transitions) /\ file' \in Seq(Transitions)
        /\ Len(file') <= MaxHistory
    BY <1>6, <1>i, <1>t, AppendKey DEF RecActivate, Activate, TypeOK
  <2>4. /\ active' \in 0..made' /\ pending' \in 0..made' /\ signed' \subseteq 1..made'
        /\ made' \in 0..MaxKeys /\ faults' \in 0..MaxFaults
    BY <1>6, <1>i, <1>h, <1>n, <1>k, LimitAssumption
    DEF RecActivate, Activate, TypeOK, KeyInv, At, Uncommitted,
       CommittedAt, Rotation, Stopped
  <2> QED  BY <1>b, <2>1, <2>2, <2>3, <2>4 DEF TypeOK
<1>7. CASE RecExport
  <2>1. core' \in [pc : Locations, tr : Transitions]
    BY <1>7, <1>g
    DEF RecExport, Export, At, Goto, Locations, Startup, Rotation, Genesis, Stopped
  <2>2. journal' \in Journals
    BY <1>7, <1>i DEF RecExport, Export, TypeOK
  <2>3. /\ table' \in Seq(Transitions) /\ file' \in Seq(Transitions)
        /\ Len(file') <= MaxHistory
    BY <1>7, <1>i, <1>t, AppendKey, LimitAssumption DEF RecExport, Export, TypeOK
  <2>4. /\ active' \in 0..made' /\ pending' \in 0..made' /\ signed' \subseteq 1..made'
        /\ made' \in 0..MaxKeys /\ faults' \in 0..MaxFaults
    BY <1>7, <1>i, <1>h, <1>n, LimitAssumption DEF RecExport, Export, TypeOK
  <2> QED  BY <1>b, <2>1, <2>2, <2>3, <2>4 DEF TypeOK
<1>8. CASE RecPending
  <2>1. core' \in [pc : Locations, tr : Transitions]
    BY <1>8, <1>g
    DEF RecPending, RemovePending, At, Goto, Locations, Startup, Rotation, Genesis,
        Stopped
  <2>2. journal' \in Journals
    BY <1>8, <1>i DEF RecPending, RemovePending, TypeOK
  <2>3. /\ table' \in Seq(Transitions) /\ file' \in Seq(Transitions)
        /\ Len(file') <= MaxHistory
    BY <1>8, <1>i, <1>t, AppendKey DEF RecPending, RemovePending, TypeOK
  <2>4. /\ active' \in 0..made' /\ pending' \in 0..made' /\ signed' \subseteq 1..made'
        /\ made' \in 0..MaxKeys /\ faults' \in 0..MaxFaults
    BY <1>8, <1>i, <1>h, <1>n, LimitAssumption DEF RecPending, RemovePending, TypeOK
  <2> QED  BY <1>b, <2>1, <2>2, <2>3, <2>4 DEF TypeOK
<1>9. CASE RecJournal
  <2>1. core' \in [pc : Locations, tr : Transitions]
    BY <1>9, <1>g
    DEF RecJournal, RemoveJournal, At, Goto, Locations, Startup, Rotation, Genesis,
        Stopped
  <2>2. journal' \in Journals
    BY <1>9 DEF RecJournal, RemoveJournal, Journals, NoJournal
  <2>3. /\ table' \in Seq(Transitions) /\ file' \in Seq(Transitions)
        /\ Len(file') <= MaxHistory
    BY <1>9, <1>i, <1>t, AppendKey DEF RecJournal, RemoveJournal, TypeOK
  <2>4. /\ active' \in 0..made' /\ pending' \in 0..made' /\ signed' \subseteq 1..made'
        /\ made' \in 0..MaxKeys /\ faults' \in 0..MaxFaults
    BY <1>9, <1>i, <1>h, <1>n, LimitAssumption DEF RecJournal, RemoveJournal, TypeOK
  <2> QED  BY <1>b, <2>1, <2>2, <2>3, <2>4 DEF TypeOK
<1>10. CASE Verify
  <2>1. core' \in [pc : Locations, tr : Transitions]
    BY <1>10, <1>g DEF Verify, At, Goto, Locations, Startup, Rotation, Genesis, Stopped
  <2>2. journal' \in Journals
    BY <1>10, <1>i DEF Verify, TypeOK
  <2>3. /\ table' \in Seq(Transitions) /\ file' \in Seq(Transitions)
        /\ Len(file') <= MaxHistory
    BY <1>10, <1>i, <1>t, AppendKey DEF Verify, TypeOK
  <2>4. /\ active' \in 0..made' /\ pending' \in 0..made' /\ signed' \subseteq 1..made'
        /\ made' \in 0..MaxKeys /\ faults' \in 0..MaxFaults
    BY <1>10, <1>i, <1>h, <1>n, LimitAssumption DEF Verify, TypeOK
  <2> QED  BY <1>b, <2>1, <2>2, <2>3, <2>4 DEF TypeOK
<1>11. CASE SignReceipt
  <2>1. core' \in [pc : Locations, tr : Transitions]
    BY <1>11, <1>t DEF SignReceipt
  <2>2. journal' \in Journals
    BY <1>11, <1>i DEF SignReceipt, TypeOK
  <2>3. /\ table' \in Seq(Transitions) /\ file' \in Seq(Transitions)
        /\ Len(file') <= MaxHistory
    BY <1>11, <1>i, <1>t, AppendKey DEF SignReceipt, TypeOK
  <2>4. /\ active' \in 0..made' /\ pending' \in 0..made' /\ signed' \subseteq 1..made'
        /\ made' \in 0..MaxKeys /\ faults' \in 0..MaxFaults
    BY <1>11, <1>i, <1>h, <1>n, <1>k, LimitAssumption
    DEF SignReceipt, TypeOK, KeyInv, At, Uncommitted,
       CommittedAt, Rotation, Stopped
  <2> QED  BY <1>b, <2>1, <2>2, <2>3, <2>4 DEF TypeOK
<1>12. ASSUME NEW cont \in {"chained", "compromised"}, Rotate(cont) PROVE TypeOK'
  <2>0. made' \in Nat
    BY <1>12, <1>n DEF Rotate
  <2>1. core' \in [pc : Locations, tr : Transitions]
    BY <1>12, <2>0, <1>t, <1>n, <1>a
    DEF Rotate, Locations, Startup, Rotation, Genesis, Stopped, Transitions
  <2>2. journal' \in Journals
    BY <1>12, <1>i DEF Rotate, TypeOK
  <2>3. /\ table' \in Seq(Transitions) /\ file' \in Seq(Transitions)
        /\ Len(file') <= MaxHistory
    BY <1>12, <1>i, <1>t, AppendKey DEF Rotate, TypeOK
  <2>4. /\ active' \in 0..made' /\ pending' \in 0..made' /\ signed' \subseteq 1..made'
        /\ made' \in 0..MaxKeys /\ faults' \in 0..MaxFaults
    BY <1>12, <1>i, <1>h, <1>n, LimitAssumption DEF Rotate, TypeOK
  <2> QED  BY <1>b, <2>1, <2>2, <2>3, <2>4 DEF TypeOK
<1>13. CASE RotJournal
  <2>1. core' \in [pc : Locations, tr : Transitions]
    BY <1>13, <1>g
    DEF RotJournal, WriteJournal, At, Goto, Locations, Startup, Rotation, Genesis,
        Stopped
  <2>2. journal' \in Journals
    BY <1>13, <1>h DEF RotJournal, WriteJournal, Journals, Phases
  <2>3. /\ table' \in Seq(Transitions) /\ file' \in Seq(Transitions)
        /\ Len(file') <= MaxHistory
    BY <1>13, <1>i, <1>t, AppendKey DEF RotJournal, WriteJournal, TypeOK
  <2>4. /\ active' \in 0..made' /\ pending' \in 0..made' /\ signed' \subseteq 1..made'
        /\ made' \in 0..MaxKeys /\ faults' \in 0..MaxFaults
    BY <1>13, <1>i, <1>h, <1>n, LimitAssumption DEF RotJournal, WriteJournal, TypeOK
  <2> QED  BY <1>b, <2>1, <2>2, <2>3, <2>4 DEF TypeOK
<1>14. CASE RotPending
  <2>1. core' \in [pc : Locations, tr : Transitions]
    BY <1>14, <1>g
    DEF RotPending, At, Goto, Locations, Startup, Rotation, Genesis, Stopped
  <2>2. journal' \in Journals
    BY <1>14, <1>i DEF RotPending, TypeOK
  <2>3. /\ table' \in Seq(Transitions) /\ file' \in Seq(Transitions)
        /\ Len(file') <= MaxHistory
    BY <1>14, <1>i, <1>t, AppendKey DEF RotPending, TypeOK
  <2>4. /\ active' \in 0..made' /\ pending' \in 0..made' /\ signed' \subseteq 1..made'
        /\ made' \in 0..MaxKeys /\ faults' \in 0..MaxFaults
    BY <1>14, <1>i, <1>h, <1>n, <1>k, LimitAssumption
    DEF RotPending, TypeOK, KeyInv, At, Uncommitted,
       CommittedAt, Rotation, Stopped
  <2> QED  BY <1>b, <2>1, <2>2, <2>3, <2>4 DEF TypeOK
<1>15. CASE RotCommit
  <2>1. core' \in [pc : Locations, tr : Transitions]
    BY <1>15, <1>g
    DEF RotCommit, Commit, At, Goto, Locations, Startup, Rotation, Genesis, Stopped
  <2>2. journal' \in Journals
    BY <1>15, <1>i DEF RotCommit, Commit, TypeOK
  <2>3. /\ table' \in Seq(Transitions) /\ file' \in Seq(Transitions)
        /\ Len(file') <= MaxHistory
    BY <1>15, <1>i, <1>t, AppendKey DEF RotCommit, Commit, TypeOK
  <2>4. /\ active' \in 0..made' /\ pending' \in 0..made' /\ signed' \subseteq 1..made'
        /\ made' \in 0..MaxKeys /\ faults' \in 0..MaxFaults
    BY <1>15, <1>i, <1>h, <1>n, LimitAssumption DEF RotCommit, Commit, TypeOK
  <2> QED  BY <1>b, <2>1, <2>2, <2>3, <2>4 DEF TypeOK
<1>16. CASE RotDurable
  <2>1. core' \in [pc : Locations, tr : Transitions]
    BY <1>16, <1>g
    DEF RotDurable, WriteJournal, At, Goto, Locations, Startup, Rotation, Genesis,
        Stopped
  <2>2. journal' \in Journals
    BY <1>16, <1>h DEF RotDurable, WriteJournal, Journals, Phases
  <2>3. /\ table' \in Seq(Transitions) /\ file' \in Seq(Transitions)
        /\ Len(file') <= MaxHistory
    BY <1>16, <1>i, <1>t, AppendKey DEF RotDurable, WriteJournal, TypeOK
  <2>4. /\ active' \in 0..made' /\ pending' \in 0..made' /\ signed' \subseteq 1..made'
        /\ made' \in 0..MaxKeys /\ faults' \in 0..MaxFaults
    BY <1>16, <1>i, <1>h, <1>n, LimitAssumption DEF RotDurable, WriteJournal, TypeOK
  <2> QED  BY <1>b, <2>1, <2>2, <2>3, <2>4 DEF TypeOK
<1>17. CASE RotAudit
  <2>1. core' \in [pc : Locations, tr : Transitions]
    BY <1>17, <1>g DEF RotAudit, At, Goto, Locations, Startup, Rotation, Genesis, Stopped
  <2>2. journal' \in Journals
    BY <1>17, <1>i DEF RotAudit, TypeOK
  <2>3. /\ table' \in Seq(Transitions) /\ file' \in Seq(Transitions)
        /\ Len(file') <= MaxHistory
    BY <1>17, <1>i, <1>t, AppendKey DEF RotAudit, TypeOK
  <2>4. /\ active' \in 0..made' /\ pending' \in 0..made' /\ signed' \subseteq 1..made'
        /\ made' \in 0..MaxKeys /\ faults' \in 0..MaxFaults
    BY <1>17, <1>i, <1>h, <1>n, LimitAssumption DEF RotAudit, TypeOK
  <2> QED  BY <1>b, <2>1, <2>2, <2>3, <2>4 DEF TypeOK
<1>18. CASE RotExport
  <2>1. core' \in [pc : Locations, tr : Transitions]
    BY <1>18, <1>g
    DEF RotExport, Export, At, Goto, Locations, Startup, Rotation, Genesis, Stopped
  <2>2. journal' \in Journals
    BY <1>18, <1>i DEF RotExport, Export, TypeOK
  <2>3. /\ table' \in Seq(Transitions) /\ file' \in Seq(Transitions)
        /\ Len(file') <= MaxHistory
    BY <1>18, <1>i, <1>t, AppendKey, LimitAssumption DEF RotExport, Export, TypeOK
  <2>4. /\ active' \in 0..made' /\ pending' \in 0..made' /\ signed' \subseteq 1..made'
        /\ made' \in 0..MaxKeys /\ faults' \in 0..MaxFaults
    BY <1>18, <1>i, <1>h, <1>n, LimitAssumption DEF RotExport, Export, TypeOK
  <2> QED  BY <1>b, <2>1, <2>2, <2>3, <2>4 DEF TypeOK
<1>19. CASE RotAudited
  <2>1. core' \in [pc : Locations, tr : Transitions]
    BY <1>19, <1>g
    DEF RotAudited, WriteJournal, At, Goto, Locations, Startup, Rotation, Genesis,
        Stopped
  <2>2. journal' \in Journals
    BY <1>19, <1>h DEF RotAudited, WriteJournal, Journals, Phases
  <2>3. /\ table' \in Seq(Transitions) /\ file' \in Seq(Transitions)
        /\ Len(file') <= MaxHistory
    BY <1>19, <1>i, <1>t, AppendKey DEF RotAudited, WriteJournal, TypeOK
  <2>4. /\ active' \in 0..made' /\ pending' \in 0..made' /\ signed' \subseteq 1..made'
        /\ made' \in 0..MaxKeys /\ faults' \in 0..MaxFaults
    BY <1>19, <1>i, <1>h, <1>n, LimitAssumption DEF RotAudited, WriteJournal, TypeOK
  <2> QED  BY <1>b, <2>1, <2>2, <2>3, <2>4 DEF TypeOK
<1>20. CASE RotActive
  <2>1. core' \in [pc : Locations, tr : Transitions]
    BY <1>20, <1>g
    DEF RotActive, Activate, At, Goto, Locations, Startup, Rotation, Genesis, Stopped
  <2>2. journal' \in Journals
    BY <1>20, <1>i DEF RotActive, Activate, TypeOK
  <2>3. /\ table' \in Seq(Transitions) /\ file' \in Seq(Transitions)
        /\ Len(file') <= MaxHistory
    BY <1>20, <1>i, <1>t, AppendKey DEF RotActive, Activate, TypeOK
  <2>4. /\ active' \in 0..made' /\ pending' \in 0..made' /\ signed' \subseteq 1..made'
        /\ made' \in 0..MaxKeys /\ faults' \in 0..MaxFaults
    BY <1>20, <1>i, <1>h, <1>n, <1>k, LimitAssumption
    DEF RotActive, Activate, TypeOK, KeyInv, At, Uncommitted,
       CommittedAt, Rotation, Stopped
  <2> QED  BY <1>b, <2>1, <2>2, <2>3, <2>4 DEF TypeOK
<1>21. CASE RotReplaced
  <2>1. core' \in [pc : Locations, tr : Transitions]
    BY <1>21, <1>g
    DEF RotReplaced, WriteJournal, At, Goto, Locations, Startup, Rotation, Genesis,
        Stopped
  <2>2. journal' \in Journals
    BY <1>21, <1>h DEF RotReplaced, WriteJournal, Journals, Phases
  <2>3. /\ table' \in Seq(Transitions) /\ file' \in Seq(Transitions)
        /\ Len(file') <= MaxHistory
    BY <1>21, <1>i, <1>t, AppendKey DEF RotReplaced, WriteJournal, TypeOK
  <2>4. /\ active' \in 0..made' /\ pending' \in 0..made' /\ signed' \subseteq 1..made'
        /\ made' \in 0..MaxKeys /\ faults' \in 0..MaxFaults
    BY <1>21, <1>i, <1>h, <1>n, LimitAssumption DEF RotReplaced, WriteJournal, TypeOK
  <2> QED  BY <1>b, <2>1, <2>2, <2>3, <2>4 DEF TypeOK
<1>22. CASE RotPublish
  <2>1. core' \in [pc : Locations, tr : Transitions]
    BY <1>22, <1>g
    DEF RotPublish, Export, At, Goto, Locations, Startup, Rotation, Genesis, Stopped
  <2>2. journal' \in Journals
    BY <1>22, <1>i DEF RotPublish, Export, TypeOK
  <2>3. /\ table' \in Seq(Transitions) /\ file' \in Seq(Transitions)
        /\ Len(file') <= MaxHistory
    BY <1>22, <1>i, <1>t, AppendKey, LimitAssumption DEF RotPublish, Export, TypeOK
  <2>4. /\ active' \in 0..made' /\ pending' \in 0..made' /\ signed' \subseteq 1..made'
        /\ made' \in 0..MaxKeys /\ faults' \in 0..MaxFaults
    BY <1>22, <1>i, <1>h, <1>n, LimitAssumption DEF RotPublish, Export, TypeOK
  <2> QED  BY <1>b, <2>1, <2>2, <2>3, <2>4 DEF TypeOK
<1>23. CASE RotCleanup
  <2>1. core' \in [pc : Locations, tr : Transitions]
    BY <1>23, <1>g
    DEF RotCleanup, RemovePending, At, Goto, Locations, Startup, Rotation, Genesis,
        Stopped
  <2>2. journal' \in Journals
    BY <1>23, <1>i DEF RotCleanup, RemovePending, TypeOK
  <2>3. /\ table' \in Seq(Transitions) /\ file' \in Seq(Transitions)
        /\ Len(file') <= MaxHistory
    BY <1>23, <1>i, <1>t, AppendKey DEF RotCleanup, RemovePending, TypeOK
  <2>4. /\ active' \in 0..made' /\ pending' \in 0..made' /\ signed' \subseteq 1..made'
        /\ made' \in 0..MaxKeys /\ faults' \in 0..MaxFaults
    BY <1>23, <1>i, <1>h, <1>n, LimitAssumption DEF RotCleanup, RemovePending, TypeOK
  <2> QED  BY <1>b, <2>1, <2>2, <2>3, <2>4 DEF TypeOK
<1>24. CASE RotFinish
  <2>1. core' \in [pc : Locations, tr : Transitions]
    BY <1>24, <1>g
    DEF RotFinish, RemoveJournal, At, Goto, Locations, Startup, Rotation, Genesis,
        Stopped
  <2>2. journal' \in Journals
    BY <1>24 DEF RotFinish, RemoveJournal, Journals, NoJournal
  <2>3. /\ table' \in Seq(Transitions) /\ file' \in Seq(Transitions)
        /\ Len(file') <= MaxHistory
    BY <1>24, <1>i, <1>t, AppendKey DEF RotFinish, RemoveJournal, TypeOK
  <2>4. /\ active' \in 0..made' /\ pending' \in 0..made' /\ signed' \subseteq 1..made'
        /\ made' \in 0..MaxKeys /\ faults' \in 0..MaxFaults
    BY <1>24, <1>i, <1>h, <1>n, LimitAssumption DEF RotFinish, RemoveJournal, TypeOK
  <2> QED  BY <1>b, <2>1, <2>2, <2>3, <2>4 DEF TypeOK
<1>25. CASE NewGenesis
  <2>0. made' \in Nat
    BY <1>25, <1>n DEF NewGenesis
  <2>1. core' \in [pc : Locations, tr : Transitions]
    BY <1>25, <2>0, <1>t, <1>n, <1>a
    DEF NewGenesis, Locations, Startup, Rotation, Genesis, Stopped, Transitions
  <2>2. journal' \in Journals
    BY <1>25, <1>i DEF NewGenesis, TypeOK
  <2>3. /\ table' \in Seq(Transitions) /\ file' \in Seq(Transitions)
        /\ Len(file') <= MaxHistory
    BY <1>25, <1>i, <1>t, AppendKey DEF NewGenesis, TypeOK
  <2>4. /\ active' \in 0..made' /\ pending' \in 0..made' /\ signed' \subseteq 1..made'
        /\ made' \in 0..MaxKeys /\ faults' \in 0..MaxFaults
    BY <1>25, <1>i, <1>h, <1>n, LimitAssumption DEF NewGenesis, TypeOK
  <2> QED  BY <1>b, <2>1, <2>2, <2>3, <2>4 DEF TypeOK
<1>26. CASE GenForensic
  <2>1. core' \in [pc : Locations, tr : Transitions]
    BY <1>26, <1>g
    DEF GenForensic, At, Goto, Locations, Startup, Rotation, Genesis, Stopped
  <2>2. journal' \in Journals
    BY <1>26, <1>i DEF GenForensic, TypeOK
  <2>3. /\ table' \in Seq(Transitions) /\ file' \in Seq(Transitions)
        /\ Len(file') <= MaxHistory
    BY <1>26, <1>i, <1>t, AppendKey DEF GenForensic, TypeOK
  <2>4. /\ active' \in 0..made' /\ pending' \in 0..made' /\ signed' \subseteq 1..made'
        /\ made' \in 0..MaxKeys /\ faults' \in 0..MaxFaults
    BY <1>26, <1>i, <1>h, <1>n, LimitAssumption DEF GenForensic, TypeOK
  <2> QED  BY <1>b, <2>1, <2>2, <2>3, <2>4 DEF TypeOK
<1>27. CASE GenCommit
  <2>1. core' \in [pc : Locations, tr : Transitions]
    BY <1>27, <1>g
    DEF GenCommit, Commit, At, Goto, Locations, Startup, Rotation, Genesis, Stopped
  <2>2. journal' \in Journals
    BY <1>27, <1>i DEF GenCommit, Commit, TypeOK
  <2>3. /\ table' \in Seq(Transitions) /\ file' \in Seq(Transitions)
        /\ Len(file') <= MaxHistory
    BY <1>27, <1>i, <1>t, AppendKey DEF GenCommit, Commit, TypeOK
  <2>4. /\ active' \in 0..made' /\ pending' \in 0..made' /\ signed' \subseteq 1..made'
        /\ made' \in 0..MaxKeys /\ faults' \in 0..MaxFaults
    BY <1>27, <1>i, <1>h, <1>n, LimitAssumption DEF GenCommit, Commit, TypeOK
  <2> QED  BY <1>b, <2>1, <2>2, <2>3, <2>4 DEF TypeOK
<1>28. CASE GenActive
  <2>1. core' \in [pc : Locations, tr : Transitions]
    BY <1>28, <1>g
    DEF GenActive, Activate, At, Goto, Locations, Startup, Rotation, Genesis, Stopped
  <2>2. journal' \in Journals
    BY <1>28, <1>i DEF GenActive, Activate, TypeOK
  <2>3. /\ table' \in Seq(Transitions) /\ file' \in Seq(Transitions)
        /\ Len(file') <= MaxHistory
    BY <1>28, <1>i, <1>t, AppendKey DEF GenActive, Activate, TypeOK
  <2>4. /\ active' \in 0..made' /\ pending' \in 0..made' /\ signed' \subseteq 1..made'
        /\ made' \in 0..MaxKeys /\ faults' \in 0..MaxFaults
    BY <1>28, <1>i, <1>h, <1>n, <1>k, LimitAssumption
    DEF GenActive, Activate, TypeOK, KeyInv, At, Uncommitted,
       CommittedAt, Rotation, Stopped
  <2> QED  BY <1>b, <2>1, <2>2, <2>3, <2>4 DEF TypeOK
<1>29. CASE GenExport
  <2>1. core' \in [pc : Locations, tr : Transitions]
    BY <1>29, <1>g
    DEF GenExport, Export, At, Goto, Locations, Startup, Rotation, Genesis, Stopped
  <2>2. journal' \in Journals
    BY <1>29, <1>i DEF GenExport, Export, TypeOK
  <2>3. /\ table' \in Seq(Transitions) /\ file' \in Seq(Transitions)
        /\ Len(file') <= MaxHistory
    BY <1>29, <1>i, <1>t, AppendKey, LimitAssumption DEF GenExport, Export, TypeOK
  <2>4. /\ active' \in 0..made' /\ pending' \in 0..made' /\ signed' \subseteq 1..made'
        /\ made' \in 0..MaxKeys /\ faults' \in 0..MaxFaults
    BY <1>29, <1>i, <1>h, <1>n, LimitAssumption DEF GenExport, Export, TypeOK
  <2> QED  BY <1>b, <2>1, <2>2, <2>3, <2>4 DEF TypeOK
<1>30. CASE Crash
  <2>1. core' \in [pc : Locations, tr : Transitions]
    BY <1>30, <1>g
    DEF Crash, Fault, At, Goto, Locations, Startup, Rotation, Genesis, Stopped
  <2>2. journal' \in Journals
    BY <1>30, <1>i DEF Crash, Fault, TypeOK
  <2>3. /\ table' \in Seq(Transitions) /\ file' \in Seq(Transitions)
        /\ Len(file') <= MaxHistory
    BY <1>30, <1>i, <1>t, AppendKey DEF Crash, Fault, TypeOK
  <2>4. /\ active' \in 0..made' /\ pending' \in 0..made' /\ signed' \subseteq 1..made'
        /\ made' \in 0..MaxKeys /\ faults' \in 0..MaxFaults
    BY <1>30, <1>i, <1>h, <1>n, LimitAssumption DEF Crash, Fault, TypeOK
  <2> QED  BY <1>b, <2>1, <2>2, <2>3, <2>4 DEF TypeOK
<1>31. CASE Fail
  <2>1. core' \in [pc : Locations, tr : Transitions]
    BY <1>31, <1>g
    DEF Fail, Fault, At, Goto, Locations, Startup, Rotation, Genesis, Stopped
  <2>2. journal' \in Journals
    BY <1>31, <1>i DEF Fail, TypeOK, Journals, Phases
  <2>3. /\ table' \in Seq(Transitions) /\ file' \in Seq(Transitions)
        /\ Len(file') <= MaxHistory
    BY <1>31, <1>i, <1>t, AppendKey DEF Fail, Fault, TypeOK
  <2>4. /\ active' \in 0..made' /\ pending' \in 0..made' /\ signed' \subseteq 1..made'
        /\ made' \in 0..MaxKeys /\ faults' \in 0..MaxFaults
    BY <1>31, <1>i, <1>h, <1>n, LimitAssumption DEF Fail, Fault, TypeOK
  <2> QED  BY <1>b, <2>1, <2>2, <2>3, <2>4 DEF TypeOK
<1>32. CASE UNCHANGED vars
  BY <1>32, <1>i DEF vars, TypeOK
<1> QED
  BY NextCases, <1>1, <1>2, <1>3, <1>4, <1>5, <1>6, <1>7, <1>8, <1>9, <1>10, <1>11, <1>12, <1>13, <1>14, <1>15, <1>16,
     <1>17, <1>18, <1>19, <1>20, <1>21, <1>22, <1>23, <1>24, <1>25, <1>26, <1>27, <1>28, <1>29, <1>30, <1>31, <1>32

(* Every step keeps the inductive invariant.                               *)
LEMMA NextKeeps == KeysInv /\ [Next]_vars => KeysInv'
<1> SUFFICES ASSUME KeysInv, [Next]_vars PROVE KeysInv'
  OBVIOUS
<1> QED  BY TypeKeeps, KeyKeeps, DiskKeeps DEF KeysInv

----------------------------------------------------------------------------
(* The lineage.                                                            *)

(* A walk along a line meets all of its keys.                              *)
LEMMA WalkAll ==
    ASSUME NEW h \in Seq(Transitions), h # <<>>, Line(h)
    PROVE  Walk(h) = KeysOf(h)
<1> DEFINE L == Len(h)
           next(k) == {i \in 1..L : h[i].prev = k}
           body(f, n) == IF n = 0 THEN {h[i].key : i \in next(0)}
                         ELSE f[n - 1] \cup {h[i].key : i \in UNION {next(k) : k \in f[n - 1]}}
           first(n) == {h[i].key : i \in {j \in 1..L : j <= n + 1}}
           F == [n \in 0..L |-> first(n)]
           at == CHOOSE f : f = [n \in 0..L |-> body(f, n)]
<1>1. L \in Nat \ {0} /\ \A i \in 1..L : h[i].key \in Nat
  <2>1. L \in Nat \ {0} /\ \A i \in 1..L : h[i] \in Transitions
    OBVIOUS
  <2> QED  BY <2>1 DEF Transitions
<1>2. Walk(h) = at[L]
  BY DEF Walk
<1> HIDE DEF L
<1>3. \A i \in 1..L : i > 1 => i - 1 \in 1..L /\ h[i].prev = h[i - 1].key
  BY <1>1 DEF Line, L
<1>4. h[1].prev = 0 /\ 1 \in 1..L /\ \A i \in 1..L : h[i].key # 0
  BY <1>1 DEF Line, L
<1>5. \A i, j \in 1..L : h[i].key = h[j].key => i = j
  <2>1. \A i, j \in 1..L : j < i => h[j].key < h[i].key
    BY <1>1 DEF Line, L
  <2> QED  BY <1>1, <2>1
(* The transitions that follow the key of transition i. *)
<1>6. next(0) = {1}
  <2>1. ASSUME NEW i \in 1..L, i # 1 PROVE h[i].prev # 0
    <3>1. i > 1
      BY <1>1, <2>1
    <3> QED  BY <1>3, <1>4, <3>1
  <2> QED  BY <1>4, <2>1
<1>7. \A i, j \in 1..L : j \in next(h[i].key) <=> j = i + 1
  <2>1. SUFFICES ASSUME NEW i \in 1..L, NEW j \in 1..L
                 PROVE  h[j].prev = h[i].key <=> j = i + 1
    OBVIOUS
  <2>2. CASE j = 1
    BY <1>1, <1>4, <2>2
  <2>3. CASE j # 1
    <3>1. j > 1
      BY <1>1, <2>3
    <3>2. j - 1 \in 1..L /\ h[j].prev = h[j - 1].key
      BY <1>3, <3>1
    <3>3. j - 1 = i <=> j = i + 1
      BY <1>1
    <3> QED  BY <1>5, <3>2, <3>3
  <2> QED  BY <2>2, <2>3
<1>8. ASSUME NEW n \in 0..L, n > 0
      PROVE  first(n) = first(n - 1) \cup {h[i].key : i \in UNION {next(k) : k \in first(n - 1)}}
  <2>1. n \in Nat /\ (n - 1) + 1 = n
    BY <1>1
  <2>2. ASSUME NEW x \in first(n), x \notin first(n - 1)
        PROVE  x \in {h[i].key : i \in UNION {next(k) : k \in first(n - 1)}}
    <3>1. PICK j \in 1..L : j <= n + 1 /\ x = h[j].key
      BY <2>2
    <3>2. ~(j <= n)
      BY <2>1, <2>2, <3>1
    <3>3. j = n + 1 /\ n \in 1..L
      BY <1>1, <1>8, <2>1, <3>1, <3>2
    <3>4. h[n].key \in first(n - 1)
      BY <1>1, <2>1, <3>3
    <3>5. j \in next(h[n].key)
      BY <1>7, <3>1, <3>3
    <3> HIDE DEF next, first
    <3> QED  BY <3>1, <3>4, <3>5
  <2>3. ASSUME NEW x \in first(n - 1) PROVE x \in first(n)
    BY <1>1, <2>1
  <2>4. ASSUME NEW k \in first(n - 1), NEW j \in next(k)
        PROVE  h[j].key \in first(n)
    <3>1. PICK i \in 1..L : i <= n /\ k = h[i].key
      BY <2>1
    <3>2. j \in 1..L /\ j = i + 1
      BY <1>7, <3>1
    <3>3. j <= n + 1
      BY <1>1, <2>1, <3>1, <3>2
    <3> QED  BY <3>2, <3>3
  <2> HIDE DEF next, first
  <2> QED  BY <2>2, <2>3, <2>4
<1>9. first(0) = {h[i].key : i \in next(0)} /\ first(L) = KeysOf(h)
  <2>1. first(0) = {h[1].key}
    BY <1>1, <1>4
  <2>2. first(L) = {h[i].key : i \in 1..L}
    BY <1>1
  <2> QED  BY <1>6, <2>1, <2>2 DEF KeysOf, L
<1>10. F = [n \in 0..L |-> body(F, n)]
  <2>1. \A n \in 0..L : n # 0 => n - 1 \in 0..L /\ n > 0
    BY <1>1
  <2>2. ASSUME NEW n \in 0..L PROVE first(n) = body(F, n)
    <3>1. CASE n = 0
      BY <1>9, <3>1
    <3>2. CASE n # 0
      <4>1. F[n - 1] = first(n - 1) /\ n > 0
        BY <2>1, <3>2
      <4> HIDE DEF F, first
      <4> QED  BY <1>8, <3>2, <4>1
    <3> QED  BY <3>1, <3>2
  <2> QED  BY <2>2
<1>11. at = [n \in 0..L |-> body(at, n)]
  BY <1>10
<1> HIDE DEF at, first
<1>12. \A n \in 0..L : at[n] = first(n)
  <2> DEFINE bad == {n \in 0..L : at[n] # first(n)}
  <2> SUFFICES ASSUME bad # {} PROVE FALSE
    OBVIOUS
  <2>1. bad \subseteq Nat
    BY <1>1
  <2> HIDE DEF bad
  <2>2. PICK x \in bad : \A y \in bad : ~(<<y, x>> \in OpToRel(<, Nat))
    BY <2>1, WFMin, NatLessThanWellFounded
  <2>3. \A m, n \in Nat : m < n => <<m, n>> \in OpToRel(<, Nat)
    BY DEF OpToRel
  <2>4. \A y \in bad : ~(y < x)
    BY <2>1, <2>2, <2>3
  <2>5. x \in 0..L /\ at[x] # first(x)
    BY DEF bad
  <2>6. CASE x = 0
    BY <1>9, <1>11, <2>5, <2>6
  <2>7. CASE x # 0
    <3>1. x - 1 \in 0..L /\ x - 1 < x /\ x > 0
      BY <1>1, <2>5, <2>7
    <3>2. at[x - 1] = first(x - 1)
      BY <2>4, <3>1 DEF bad
    <3>3. at[x] = at[x - 1] \cup {h[i].key : i \in UNION {next(k) : k \in at[x - 1]}}
      BY <1>11, <2>5, <2>7
    <3> QED  BY <1>8, <2>5, <3>1, <3>2, <3>3
  <2> QED  BY <2>6, <2>7
<1>13. L \in 0..L
  BY <1>1
<1> QED  BY <1>2, <1>9, <1>12, <1>13

(* A line verifies.                                                        *)
LEMMA LineVerifies ==
    ASSUME NEW h \in Seq(Transitions), h # <<>>, Line(h), Len(h) <= MaxHistory
    PROVE  VerifyTransitions(h)
<1> DEFINE D == 1..Len(h)
           heads == {i \in D : h[i].prev = 0}
           tails == {i \in D : ~\E j \in D : h[j].prev = h[i].key}
<1>1. /\ Len(h) \in Nat \ {0} /\ MaxHistory \in Nat
      /\ \A i \in D : h[i].key \in Nat
  <2>1. Len(h) \in Nat \ {0} /\ \A i \in D : h[i] \in Transitions
    OBVIOUS
  <2> QED  BY <2>1, LimitAssumption DEF Transitions
<1>2. \A i, j \in D : j < i => h[j].key < h[i].key
  BY <1>1 DEF Line
<1>3. \A i, j \in D : h[i].key = h[j].key => i = j
  BY <1>1, <1>2
<1>4. \A i \in D : i # 1 => /\ i - 1 \in D /\ i > 1 /\ h[i].prev = h[i - 1].key
                             /\ h[i].after = h[i].prev
                             /\ \/ h[i].cont \in {"chained", "compromised"} /\ h[i].by = h[i].prev
                                \/ h[i].cont = "broken" /\ h[i].by = h[i].key
  <2>1. \A i \in D : i # 1 => i - 1 \in D /\ i > 1
    BY <1>1
  <2> QED  BY <2>1 DEF Line
<1>5. /\ 1 \in D /\ h[1].prev = 0 /\ h[1].cont = "genesis" /\ h[1].by = h[1].key
      /\ \A i \in D : h[i].key # 0
  BY <1>1 DEF Line
<1>6. \A i \in D : h[i].prev = 0 <=> i = 1
  BY <1>4, <1>5
<1>7. Cardinality(heads) = 1
  <2>1. heads = {1}
    BY <1>5, <1>6
  <2> QED  BY <2>1, FS_Singleton
<1>8. Cardinality(tails) = 1
  <2>1. Len(h) \in D
    BY <1>1
  <2>2. ASSUME NEW i \in D, i # Len(h) PROVE \E j \in D : h[j].prev = h[i].key
    <3>1. i + 1 \in D /\ i + 1 # 1 /\ (i + 1) - 1 = i
      BY <1>1, <2>2
    <3> QED  BY <1>4, <3>1
  <2>3. ASSUME NEW j \in D, h[j].prev = h[Len(h)].key PROVE FALSE
    <3>1. j # 1
      BY <1>5, <2>1, <2>3
    <3>2. j - 1 = Len(h)
      BY <1>3, <1>4, <2>1, <2>3, <3>1
    <3> QED  BY <1>1, <3>2
  <2>4. tails = {Len(h)}
    BY <2>1, <2>2, <2>3
  <2> QED  BY <2>4, FS_Singleton
<1>9. \A i \in D : h[i].key \in KeysOf(h)
  BY DEF KeysOf
<1>10. \A i \in D : h[i].by = h[i].key \/ h[i].by \in KeysOf(h)
  BY <1>4, <1>5, <1>9
<1>11. \A i \in D :
           IF h[i].prev = 0 THEN h[i].cont = "genesis"
           ELSE /\ h[i].prev \in KeysOf(h) /\ h[i].after = h[i].prev
                /\ h[i].cont \in {"chained", "compromised"} => h[i].by = h[i].prev
                /\ h[i].cont = "broken" => h[i].by = h[i].key
  BY <1>4, <1>5, <1>6, <1>9
<1>12. \A i, j \in D : i # j /\ h[i].prev # 0 => h[i].prev # h[j].prev
  <2>1. SUFFICES ASSUME NEW i \in D, NEW j \in D, i # j, h[i].prev # 0, h[i].prev = h[j].prev
                 PROVE  FALSE
    OBVIOUS
  <2>2. i # 1 /\ j # 1
    BY <1>6, <2>1
  <2>3. i - 1 = j - 1
    BY <1>3, <1>4, <2>1, <2>2
  <2> QED  BY <1>1, <2>1, <2>3
<1>13. Len(h) \in 1..MaxHistory /\ \A i, j \in D : i # j => h[i].key # h[j].key
  BY <1>1, <1>3
<1> QED
  BY <1>7, <1>8, <1>10, <1>11, <1>12, <1>13, WalkAll DEF VerifyTransitions

(* A line that a transition extends is a line, and a line without its last *)
(* transition is one.                                                      *)
LEMMA LineGrows ==
    ASSUME NEW h \in Seq(Transitions), NEW x \in Transitions
    PROVE  /\ Line(h) /\ Extends(h, x) => Line(Append(h, x))
           /\ Line(Append(h, x)) => Line(h)
<1> DEFINE a == Append(h, x)
           L == Len(h)
<1>1. /\ L \in Nat /\ Len(a) = L + 1 /\ a[L + 1] = x
      /\ \A i \in 1..L : a[i] = h[i] /\ i \in 1..(L + 1)
  OBVIOUS
<1> HIDE DEF a
<1>2. ASSUME Line(h), Extends(h, x) PROVE Line(a)
  <2>1. SUFFICES ASSUME NEW i \in 1..(L + 1)
                 PROVE  /\ a[i].key # 0 /\ \A j \in 1..(L + 1) : j < i => a[j].key < a[i].key
                        /\ i = 1 => a[i].prev = 0 /\ a[i].cont = "genesis" /\ a[i].by = a[i].key
                        /\ i > 1 => /\ a[i].prev = a[i - 1].key /\ a[i].after = a[i].prev
                                    /\ \/ /\ a[i].cont \in {"chained", "compromised"}
                                          /\ a[i].by = a[i].prev
                                       \/ a[i].cont = "broken" /\ a[i].by = a[i].key
    BY <1>1 DEF Line
  <2>2. CASE i \in 1..L
    <3>1. a[i] = h[i] /\ \A j \in 1..(L + 1) : j < i => j \in 1..L /\ a[j] = h[j]
      BY <1>1, <2>2
    <3>2. i > 1 => i - 1 \in 1..L /\ a[i - 1] = h[i - 1]
      BY <1>1, <2>2
    <3> QED  BY <1>2, <2>2, <3>1, <3>2 DEF Line
  <2>3. CASE i = L + 1
    <3>1. \A j \in 1..(L + 1) : j < i => j \in 1..L /\ a[j] = h[j] /\ h[j].key \in KeysOf(h)
      BY <1>1, <2>3 DEF KeysOf
    <3>2. a[i] = x
      BY <1>1, <2>3
    <3>3. i = 1 => h = <<>>
      BY <1>1, <2>3
    <3>4. i > 1 => h # <<>> /\ i - 1 = L /\ a[i - 1] = h[L] /\ LastKey(h) = h[L].key
      BY <1>1, <2>3 DEF LastKey
    <3>5. a[i].key # 0 /\ \A j \in 1..(L + 1) : j < i => a[j].key < a[i].key
      BY <1>2, <3>1, <3>2 DEF Extends
    <3>6. i = 1 => a[i].prev = 0 /\ a[i].cont = "genesis" /\ a[i].by = a[i].key
      BY <1>2, <3>2, <3>3 DEF Extends
    <3>7. i > 1 => /\ a[i].prev = a[i - 1].key /\ a[i].after = a[i].prev
                   /\ \/ /\ a[i].cont \in {"chained", "compromised"}
                         /\ a[i].by = a[i].prev
                      \/ a[i].cont = "broken" /\ a[i].by = a[i].key
      BY <1>2, <3>2, <3>4 DEF Extends
    <3> QED  BY <3>5, <3>6, <3>7
  <2> QED  BY <1>1, <2>2, <2>3
<1>3. ASSUME Line(a) PROVE Line(h)
  <2>1. \A i \in 1..L : i > 1 => i - 1 \in 1..L
    BY <1>1
  <2> QED  BY <1>1, <1>3, <2>1 DEF Line
<1> QED  BY <1>2, <1>3 DEF a

(* A step that commits nothing and starts nothing.                         *)
LEMMA LineMove ==
    ASSUME LineInv, ~cut, table' = table, file' = file \/ file' = table,
           \/ active' = active /\ (signed' = signed \/ signed' = signed \cup {active})
           \/ active' = LastKey(table) /\ signed' = signed,
           core'.pc \in Uncommitted =>
               /\ core.pc \in Uncommitted /\ core'.tr = core.tr
               /\ core'.pc \in Genesis <=> core.pc \in Genesis
               /\ core.pc \in Genesis => journal' = journal
    PROVE  LineInv'
<1>1. Line(table)'
  BY DEF LineInv, Line
<1>2. Published'
  BY DEF LineInv, Published, LastKey
<1>3. core'.pc \in Uncommitted /\ (core'.pc \in Genesis => journal' = NoJournal) =>
          Extends(table, core.tr)'
  <2>1. SUFFICES ASSUME core'.pc \in Uncommitted, core'.pc \in Genesis => journal' = NoJournal
                 PROVE  Extends(table, core.tr)'
    OBVIOUS
  <2>2. Extends(table, core.tr) /\ core'.tr = core.tr
    BY <2>1 DEF LineInv
  <2> QED  BY <2>2 DEF Extends, KeysOf, LastKey
<1> QED  BY <1>1, <1>2, <1>3 DEF LineInv

(* A commit of the transition that waits, when the stores agree.           *)
LEMMA LineCommit ==
    ASSUME KeysInv, LineInv, ~cut, Line(table), Extends(table, core.tr),
           core.tr.key \notin KeysOf(table), file = <<>> \/ file = table,
           table' = Append(table, core.tr), file' = file, active' = active, signed' = signed,
           core'.pc \notin Uncommitted
    PROVE  LineInv'
<1>1. core.tr \in Transitions /\ table \in Seq(Transitions) /\ signed \subseteq KeysOf(table)
  BY DEF KeysInv, TypeOK, KeyInv
<1>2. PICK t : t = Append(table, core.tr)
  OBVIOUS
<1>3. Line(t) /\ t # <<>> /\ LastKey(t) = core.tr.key /\ t[Len(t)] = core.tr
  BY <1>1, <1>2, LineGrows, AppendKey
<1>4. Line(table)'
  BY <1>2, <1>3 DEF Line
<1>5. Published'
  BY <1>1, <1>2, <1>3 DEF Published, LastKey
<1> QED  BY <1>4, <1>5 DEF LineInv

(* A new transition is prepared.                                           *)
LEMMA LinePrepare ==
    ASSUME LineInv, ~cut, table' = table, file' = file, active' = active, signed' = signed,
           core'.pc \in Genesis => journal' = journal,
           (core'.pc \in Genesis => journal = NoJournal) => Extends(table, core'.tr)
    PROVE  LineInv'
<1>1. Line(table)' /\ Published'
  BY DEF LineInv, Line, Published, LastKey
<1>2. (core'.pc \in Genesis => journal' = NoJournal) => Extends(table, core.tr)'
  BY DEF Extends, KeysOf, LastKey
<1> QED  BY <1>1, <1>2 DEF LineInv

LEMMA LineKeeps ==
    ASSUME KeysInv, LineInv, [Next]_vars
    PROVE  LineInv'
<1> SUFFICES ASSUME ~cut' PROVE LineInv'
  BY DEF LineInv
<1>u. ~cut /\ (GenCommit => journal = NoJournal)
  BY CutOnce
<1>t. core \in [pc : Locations, tr : Transitions] /\ core.tr \in Transitions
  BY DEF KeysInv, TypeOK
<1>n. /\ made \in Nat /\ active \in Nat
      /\ table \in Seq(Transitions) /\ file \in Seq(Transitions)
  BY LimitAssumption DEF KeysInv, TypeOK
<1>l. Line(table) /\ Published
  BY <1>u DEF LineInv
<1>s. \A k \in KeysOf(table) : k \in Nat /\ k <= made
  BY <1>n DEF KeysInv, KeyInv
<1>f. Idle \/ Staged \/ Pristine => file = <<>> \/ file = table
  BY DEF Idle, Staged, Settled, Pristine
<1>1. CASE StartFirst
  <2>1. /\ core'.tr = [key |-> made + 1, prev |-> 0, after |-> 0,
                       by |-> made + 1, cont |-> "genesis"]
        /\ core'.pc = "init_commit" /\ table = <<>>
        /\ UNCHANGED <<table, file, active, signed>>
    BY <1>1 DEF StartFirst
  <2>2. Extends(table, core'.tr)
    BY <1>n, <2>1, NoKeys DEF Extends
  <2> QED  BY <1>u, <2>1, <2>2, LinePrepare DEF Genesis
<1>2. ASSUME NEW cont \in {"chained", "compromised"}, Rotate(cont) PROVE LineInv'
  <2>1. /\ core'.tr = [key |-> made + 1, prev |-> active, after |-> LastKey(file),
                       by |-> active, cont |-> cont]
        /\ core'.pc = "rot_journal" /\ core.pc = "serving" /\ journal = NoJournal
        /\ UNCHANGED <<table, file, active, signed>>
    BY <1>2 DEF Rotate, At
  <2>2. Idle
    BY <1>u, <2>1 DEF KeysInv, DiskInv, Started, Staged, Committed, NoJournal
  <2>3. table # <<>> /\ file = table /\ active = LastKey(table)
    BY <2>2 DEF Idle, Settled
  <2>4. Extends(table, core'.tr)
    BY <1>n, <1>s, <2>1, <2>3 DEF Extends
  <2> QED  BY <1>u, <2>1, <2>4, LinePrepare DEF Genesis
<1>3. CASE NewGenesis
  <2>1. /\ core'.tr = [key |-> made + 1, prev |-> LastKey(file), after |-> LastKey(file),
                       by |-> made + 1, cont |-> "broken"]
        /\ core'.pc = "gen_forensic" /\ core.pc = "serving" /\ journal' = journal
        /\ UNCHANGED <<table, file, active, signed>>
    BY <1>3 DEF NewGenesis, At
  <2>2. journal = NoJournal => Idle
    BY <1>u, <2>1 DEF KeysInv, DiskInv, Started, Staged, Committed, NoJournal
  <2>3. journal = NoJournal => table # <<>> /\ file = table
    BY <2>2 DEF Idle, Settled
  <2>4. journal = NoJournal => Extends(table, core'.tr)
    BY <1>n, <1>s, <2>1, <2>3 DEF Extends
  <2> QED  BY <1>u, <2>1, <2>4, LinePrepare DEF Genesis
<1>4. CASE InitCommit \/ RotCommit \/ GenCommit
  <2>1. /\ table' = Append(table, core.tr) /\ UNCHANGED <<file, active, signed>>
        /\ core.pc \in {"init_commit", "rot_commit", "gen_commit"}
        /\ core.pc = "gen_commit" => journal = NoJournal
    BY <1>u, <1>4 DEF InitCommit, RotCommit, GenCommit, Commit, At
  <2>2. core'.pc \in {"init_active", "rot_durable", "gen_active"}
    BY <1>t, <1>4 DEF InitCommit, RotCommit, GenCommit, Commit, Goto
  <2>3. Idle \/ Staged \/ Pristine
    BY <1>u, <2>1 DEF KeysInv, DiskInv, Started, Committed
  <2>4. Extends(table, core.tr)
    BY <1>u, <2>1 DEF LineInv, Uncommitted, Genesis
  <2>5. core.tr.key \notin KeysOf(table)
    BY <2>1 DEF KeysInv, KeyInv, Uncommitted
  <2> QED  BY <1>u, <1>l, <1>f, <2>1, <2>2, <2>3, <2>4, <2>5, LineCommit DEF Uncommitted
<1>5. CASE InitActive \/ RecActivate \/ RotActive \/ GenActive
  <2>1. active' = LastKey(table) /\ UNCHANGED <<table, file, signed>>
    BY <1>u, <1>5
    DEF KeysInv, DiskInv, Committed, InitActive, RecActivate, RotActive, GenActive,
        Activate, At, Rotation
  <2>2. core'.pc \in {"init_export", "rec_export", "rot_replaced", "gen_export"}
    BY <1>t, <1>5 DEF InitActive, RecActivate, RotActive, GenActive, Activate, Goto
  <2> QED  BY <1>u, <2>1, <2>2, LineMove DEF Uncommitted
<1>6. CASE InitExport \/ RecExport \/ RotExport \/ RotPublish \/ GenExport
  <2>1. (file' = file \/ file' = table) /\ UNCHANGED <<table, active, signed>>
    BY <1>6 DEF InitExport, RecExport, RotExport, RotPublish, GenExport, Export
  <2>2. core'.pc \in {"serving", "down", "rec_pending", "rot_audited", "rot_cleanup"}
    BY <1>t, <1>6 DEF InitExport, RecExport, RotExport, RotPublish, GenExport, Export, Goto
  <2> QED  BY <1>u, <2>1, <2>2, LineMove DEF Uncommitted
<1>7. CASE RecPending \/ RecJournal \/ RotCleanup \/ RotFinish
  <2>1. UNCHANGED <<table, file, active, signed>>
    BY <1>7 DEF RecPending, RecJournal, RotCleanup, RotFinish, RemovePending, RemoveJournal
  <2>2. core'.pc \in {"rec_journal", "verify", "rot_finish", "serving"}
    BY <1>t, <1>7
    DEF RecPending, RecJournal, RotCleanup, RotFinish, RemovePending, RemoveJournal, Goto
  <2> QED  BY <1>u, <2>1, <2>2, LineMove DEF Uncommitted
<1>8. CASE RotDurable \/ RotAudit \/ RotAudited \/ RotReplaced
  <2>1. UNCHANGED <<table, file, active, signed>>
    BY <1>8 DEF RotDurable, RotAudit, RotAudited, RotReplaced, WriteJournal
  <2>2. core'.pc \in {"rot_audit", "rot_export", "rot_active", "rot_publish"}
    BY <1>t, <1>8 DEF RotDurable, RotAudit, RotAudited, RotReplaced, WriteJournal, Goto
  <2> QED  BY <1>u, <2>1, <2>2, LineMove DEF Uncommitted
<1>9. CASE RotJournal \/ RotPending \/ GenForensic
  <2>1. UNCHANGED <<table, file, active, signed>>
    BY <1>9 DEF RotJournal, RotPending, GenForensic, WriteJournal
  <2>2. core'.tr = core.tr
    BY <1>t, <1>9 DEF RotJournal, RotPending, GenForensic, WriteJournal, Goto
  <2>3. \/ core.pc = "rot_journal" /\ core'.pc = "rot_pending"
        \/ core.pc = "rot_pending" /\ core'.pc = "rot_commit"
        \/ core.pc = "gen_forensic" /\ core'.pc = "gen_commit" /\ journal' = journal
    BY <1>t, <1>9 DEF RotJournal, RotPending, GenForensic, WriteJournal, Goto, At
  <2> QED  BY <1>u, <2>1, <2>2, <2>3, LineMove DEF Uncommitted, Genesis
<1>10. CASE Start \/ Verify \/ Crash
  <2>1. UNCHANGED <<table, file, active, signed>>
    BY <1>10 DEF Start, Verify, Crash
  <2>2. core'.pc \in {"refused", "verify", "rec_pending", "rec_export", "rec_activate",
                      "serving", "down"}
    BY <1>t, <1>10 DEF Start, Verify, Crash, Goto, Recovery
  <2> QED  BY <1>u, <2>1, <2>2, LineMove DEF Uncommitted
<1>11. CASE Fail
  <2>1. UNCHANGED <<table, file, active, signed>>
    BY <1>11 DEF Fail
  <2>2. core'.pc \in {"rec_journal", "down", "serving"}
    BY <1>t, <1>11 DEF Fail, Goto
  <2> QED  BY <1>u, <2>1, <2>2, LineMove DEF Uncommitted
<1>12. CASE SignReceipt
  <2>1. UNCHANGED <<table, file, active, core>> /\ signed' = signed \cup {active}
        /\ core.pc = "serving"
    BY <1>12 DEF SignReceipt, At
  <2> QED  BY <1>u, <2>1, LineMove DEF Uncommitted
<1>13. CASE UNCHANGED vars
  BY <1>u, <1>13, LineMove DEF vars
<1> QED
  BY NextCases, <1>1, <1>2, <1>3, <1>4, <1>5, <1>6, <1>7, <1>8, <1>9, <1>10, <1>11, <1>12,
     <1>13

LEMMA LineInit == Init => LineInv
<1> SUFFICES ASSUME Init PROVE LineInv
  OBVIOUS
<1>1. table = <<>> /\ file = <<>> /\ core.pc = "down"
  BY DEF Init
<1>2. Line(<<>>)
  BY NoKeys DEF Line
<1> QED  BY <1>1, <1>2 DEF LineInv, Published, Uncommitted

----------------------------------------------------------------------------
(* The theorems.                                                           *)

(* What each location of the key lifecycle may assume about the key files, *)
(* the table and the published history holds in every reachable state.     *)
THEOREM KeysInvariance == Spec => []KeysInv
<1> QED  BY InitKeeps, NextKeeps, PTL DEF Spec

(* The stores of the key lifecycle keep their types.                       *)
THEOREM KeysTypeCorrect == Spec => []TypeOK
<1>1. KeysInv => TypeOK
  BY DEF KeysInv
<1> QED  BY <1>1, KeysInvariance, PTL

(* No receipt is signed by a key whose transition is not committed,        *)
(* whatever interrupts a rotation, a first start or a new genesis.         *)
THEOREM SignersRecorded == Spec => []SignerIsRecorded
<1>1. KeysInv => SignerIsRecorded
  BY DEF KeysInv, KeyInv, SignerIsRecorded
<1> QED  BY <1>1, KeysInvariance, PTL

(* A rotation interrupted anywhere leaves stores that the next start of    *)
(* the Core accepts.                                                       *)
THEOREM NoStrandedRotation == Spec => []RotationNeverStrands
<1>1. KeysInv => RotationNeverStrands
  BY DEF KeysInv, DiskInv, RotationNeverStrands
<1> QED  BY <1>1, KeysInvariance, PTL

(* When the Core serves without a journal, the key file, the table and the *)
(* published history agree.                                                *)
THEOREM AgreementWhenServing == Spec => []StoresAgree
<1>1. KeysInv => StoresAgree
  BY
  DEF KeysInv, DiskInv, StoresAgree, Started, Idle, Staged, Committed, Settled,
      NoJournal
<1> QED  BY <1>1, KeysInvariance, PTL

(* Rotation and recovery only move to newer keys.                          *)
THEOREM NoRetiredKeyReturns == Spec => RetiredStayRetired
<1>1. KeysInv /\ [Next]_vars => [~cut' => active' >= active]_active
  <2> SUFFICES ASSUME KeysInv, [Next]_vars, ~cut', active' # active
               PROVE  active' >= active
    OBVIOUS
  <2>1. ~cut
    BY CutOnce
  <2>2. /\ made \in Nat /\ active \in Nat
        /\ active \in 0..made /\ KeysOf(table) \subseteq 1..made
        /\ active \in KeysOf(table) \cup {0}
        /\ \A k \in KeysOf(table) : k <= LastKey(table)
    BY LimitAssumption DEF KeysInv, TypeOK, KeyInv
  <2>3. InitActive \/ RecActivate \/ RotActive \/ GenActive
    BY NextCases
    DEF StartFirst, Start, InitCommit, InitExport, RecExport,
        RecPending, RecJournal, Verify, SignReceipt, Rotate, RotJournal, RotPending,
        RotCommit, RotDurable, RotAudit, RotExport, RotAudited, RotReplaced,
        RotPublish, RotCleanup, RotFinish, NewGenesis, GenForensic, GenCommit, GenExport,
        Crash, Fail, Commit, Export, RemovePending, RemoveJournal, WriteJournal, vars
  <2>4. active' = LastKey(table) /\ LastKey(table) \in Nat
    <3>1. active' = LastKey(table) /\ table # <<>>
      BY <2>1, <2>3
      DEF KeysInv, DiskInv, Committed, InitActive, RecActivate, RotActive, GenActive,
          Activate, At, Rotation
    <3> QED  BY <3>1, LastIsKey, <2>2 DEF KeysInv, TypeOK
  <2> QED  BY <2>2, <2>4
<1> QED  BY <1>1, KeysInvariance, PTL DEF Spec, RetiredStayRetired

(* export_history_snapshot publishes what verify_transitions accepts:      *)
(* whatever interrupts rotations and their recovery, the public history is *)
(* a beginning of the table, one unforked line of transitions signed by    *)
(* the right keys, with every key that signed a receipt before the one in  *)
(* use.                                                                    *)
THEOREM PublishedHistoryVerifies == Spec => []HistoryVerifies
<1>1. Spec => [](KeysInv /\ LineInv)
  <2>1. Init => KeysInv /\ LineInv
    BY InitKeeps, LineInit
  <2>2. KeysInv /\ LineInv /\ [Next]_vars => (KeysInv /\ LineInv)'
    BY NextKeeps, LineKeeps
  <2> QED  BY <2>1, <2>2, PTL DEF Spec
<1>2. ASSUME KeysInv, LineInv PROVE HistoryVerifies
  <2>1. SUFFICES ASSUME ~cut, file # <<>>
                 PROVE  /\ VerifyTransitions(file)
                        /\ Len(file) <= Len(table)
                        /\ file = SubSeq(table, 1, Len(file))
                        /\ signed \ {active} \subseteq KeysOf(file)
    BY DEF HistoryVerifies
  <2>2. /\ table \in Seq(Transitions) /\ file \in Seq(Transitions)
        /\ Len(file) <= MaxHistory /\ signed \subseteq KeysOf(table)
    BY <1>2 DEF KeysInv, TypeOK, KeyInv
  <2>3. Line(table) /\ Published
    BY <1>2, <2>1 DEF LineInv
  <2>4. CASE file = table
    <3>1. table = SubSeq(table, 1, Len(table)) /\ Len(table) \in Nat
      BY <2>2
    <3> QED  BY <2>1, <2>2, <2>3, <2>4, <3>1, LineVerifies
  <2>5. CASE file # table
    <3>1. table # <<>> /\ LastKey(table) \notin signed \ {active}
      BY <2>1, <2>3, <2>5 DEF Published
    <3>2. PICK x \in Transitions : table = Append(file, x)
      BY <2>1, <2>2, <2>3, <2>5, <3>1 DEF Published
    <3>3. KeysOf(table) = KeysOf(file) \cup {LastKey(table)}
      BY <2>2, <3>2, AppendKey
    <3>4. Line(file)
      BY <2>2, <2>3, <3>2, LineGrows
    <3>5. Len(file) <= Len(table) /\ file = SubSeq(table, 1, Len(file))
      BY <2>2, <3>2
    <3> QED  BY <2>1, <2>2, <3>1, <3>3, <3>4, <3>5, LineVerifies
  <2> QED  BY <2>4, <2>5
<1> QED  BY <1>1, <1>2, PTL
====
