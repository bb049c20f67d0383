---- MODULE ReceiptKeys ----
(***************************************************************************)
(* The life of the keys that sign receipts                                 *)
(* (evohime-receipts/src/key_lifecycle.rs, called from                     *)
(* evohime-core/src/main.rs at startup and from                            *)
(* evohime-core/src/ipc_bridge_ambient_receipts.rs on command).            *)
(*                                                                         *)
(* The key in use is a file; the table of transitions in the database is   *)
(* the record of all keys; the public history is a file exported from that *)
(* table.  A rotation changes all three, one after the other, and keeps a  *)
(* journal and the new key in two more files so that the next start can    *)
(* finish it.  Every file is replaced atomically and the table changes in  *)
(* a transaction, so a step below is one such change; the process may die  *)
(* and an operation may fail between any two.  Key operations and signing  *)
(* hold the lock of the database and do not interleave.                    *)
(*                                                                         *)
(* Keys are numbered in the order in which they are generated; 0 stands    *)
(* for a key file that does not exist.                                     *)
(***************************************************************************)
EXTENDS Naturals, Sequences, FiniteSets

CONSTANTS
    MaxHistory,   \* MAX_TRANSITIONS
    MaxKeys,      \* bound: keys generated
    MaxFaults     \* bound: crashes and failed operations

ASSUME LimitAssumption ==
    MaxHistory \in Nat \ {0} /\ MaxKeys \in Nat /\ MaxFaults \in Nat

VARIABLES
    active,    \* active-key-v1.json
    pending,   \* pending-key-v1.json
    journal,   \* rotation-state-v1.json
    table,     \* receipt_key_transitions (and the audit row of each), in order
    file,      \* public-history-v1.jsonl; <<>> when it does not exist
    core,      \* the process: where it is and the transition it works on
    signed,    \* the keys of the receipts in the database
    made,      \* keys generated so far
    faults,    \* crashes and failures so far
    cut        \* history: a first key or a new genesis was cut short, or a
               \* new genesis was created over an unfinished rotation

vars == <<active, pending, journal, table, file, core, signed, made, faults, cut>>

Phases == {"prepared", "transition_durable", "audit_durable",
           "active_key_replaced", "cleanup_required"}
NoJournal == [phase |-> "none", old |-> 0, new |-> 0]
Journals == [phase : Phases \cup {"none"}, old : Nat, new : Nat]

(* A transition: its key, the key it replaces, the transition whose hash   *)
(* it carries (named by its key), the key that signed it, its continuity.  *)
Transitions == [key : Nat, prev : Nat, after : Nat, by : Nat,
                cont : {"genesis", "chained", "compromised", "broken"}]
NoTransition == [key |-> 0, prev |-> 0, after |-> 0, by |-> 0, cont |-> "genesis"]

Startup == {"init_commit", "init_active", "init_export",
            "rec_activate", "rec_export", "rec_pending", "rec_journal", "verify"}
Rotation == {"rot_journal", "rot_pending", "rot_commit", "rot_durable", "rot_audit",
             "rot_export", "rot_audited", "rot_active", "rot_replaced",
             "rot_publish", "rot_cleanup", "rot_finish"}
Genesis == {"gen_forensic", "gen_commit", "gen_active", "gen_export"}
Stopped == {"down", "refused"}
Locations == Startup \cup Rotation \cup Genesis \cup Stopped \cup {"serving"}

TypeOK ==
    /\ active \in 0..made /\ pending \in 0..made
    /\ journal \in Journals
    /\ table \in Seq(Transitions) /\ file \in Seq(Transitions)
    /\ Len(file) <= MaxHistory
    /\ core \in [pc : Locations, tr : Transitions]
    /\ signed \subseteq 1..made
    /\ made \in 0..MaxKeys /\ faults \in 0..MaxFaults
    /\ cut \in BOOLEAN

(* A new installation, before its first start.                             *)
Init ==
    /\ active = 0 /\ pending = 0 /\ journal = NoJournal
    /\ table = <<>> /\ file = <<>>
    /\ core = [pc |-> "down", tr |-> NoTransition]
    /\ signed = {} /\ made = 0 /\ faults = 0 /\ cut = FALSE

----------------------------------------------------------------------------
(* The public history.                                                     *)

KeysOf(h) == {h[i].key : i \in 1..Len(h)}
LastKey(h) == h[Len(h)].key

(* The keys met on the way from the genesis to the end of the history.     *)
Walk(h) ==
    LET next(k) == {i \in 1..Len(h) : h[i].prev = k}
        at[n \in 0..Len(h)] ==
            IF n = 0 THEN {h[i].key : i \in next(0)}
            ELSE at[n - 1] \cup {h[i].key : i \in UNION {next(k) : k \in at[n - 1]}}
    IN  at[Len(h)]

(* verify_transitions answers without an error.                            *)
VerifyTransitions(h) ==
    LET D == 1..Len(h)
        follows(i, j) == h[j].prev = h[i].key
    IN  /\ Len(h) \in 1..MaxHistory
        /\ \A i, j \in D : i # j => h[i].key # h[j].key
        /\ Cardinality({i \in D : h[i].prev = 0}) = 1
        /\ \A i \in D : h[i].by = h[i].key \/ h[i].by \in KeysOf(h)
        /\ \A i \in D :
               IF h[i].prev = 0 THEN h[i].cont = "genesis"
               ELSE /\ h[i].prev \in KeysOf(h) /\ h[i].after = h[i].prev
                    /\ h[i].cont \in {"chained", "compromised"} => h[i].by = h[i].prev
                    /\ h[i].cont = "broken" => h[i].by = h[i].key
        /\ \A i, j \in D : i # j /\ h[i].prev # 0 => h[i].prev # h[j].prev
        /\ Cardinality({i \in D : ~\E j \in D : follows(i, j)}) = 1
        /\ Walk(h) = KeysOf(h)

----------------------------------------------------------------------------
(* Steps that every operation is made of.                                  *)

At(l) == core.pc = l
Goto(l) == core' = [core EXCEPT !.pc = l]

(* commit_transition_and_audit: the transition and its audit row.          *)
Commit(l) ==
    /\ table' = Append(table, core.tr)
    /\ Goto(l)
    /\ UNCHANGED <<active, pending, journal, file, signed, made, faults>>

(* export_history_snapshot: the history file becomes the table, unless the *)
(* table is too long.  (Nothing reads the manifest that is written next.)  *)
Export(l, failed) ==
    /\ IF Len(table) \in 1..MaxHistory THEN file' = table /\ Goto(l)
       ELSE UNCHANGED file /\ Goto(failed)
    /\ UNCHANGED <<active, pending, journal, table, signed, made, faults, cut>>

Activate(k, l) ==
    /\ active' = k
    /\ Goto(l)
    /\ UNCHANGED <<pending, journal, table, file, signed, made, faults, cut>>

WriteJournal(phase, l) ==
    /\ journal' = [phase |-> phase, old |-> core.tr.prev, new |-> core.tr.key]
    /\ Goto(l)
    /\ UNCHANGED <<active, pending, table, file, signed, made, faults, cut>>

RemovePending(l) ==
    /\ pending' = 0
    /\ Goto(l)
    /\ UNCHANGED <<active, journal, table, file, signed, made, faults, cut>>

RemoveJournal(l) ==
    /\ journal' = NoJournal
    /\ Goto(l)
    /\ UNCHANGED <<active, pending, table, file, signed, made, faults, cut>>

----------------------------------------------------------------------------
(* startup_with_database.                                                  *)

(* A start with nothing on disk and an empty table makes the first key.    *)
StartFirst ==
    /\ core.pc \in Stopped
    /\ active = 0 /\ file = <<>> /\ table = <<>>
    /\ made < MaxKeys
    /\ made' = made + 1
    /\ core' = [pc |-> "init_commit",
                tr |-> [key |-> made', prev |-> 0, after |-> 0,
                        by |-> made', cont |-> "genesis"]]
    /\ UNCHANGED <<active, pending, journal, table, file, signed, faults, cut>>

(* What recover_rotation_state does about the journal it finds.            *)
Recovery ==
    LET committed == journal.new \in KeysOf(table)
    IN  CASE ~committed /\ journal.phase = "prepared" /\ active # journal.new -> "rec_pending"
          [] committed /\ active = journal.new -> "rec_export"
          [] committed /\ active # journal.new /\ pending = journal.new -> "rec_activate"
          [] OTHER -> "refused"

Start ==
    /\ core.pc \in Stopped
    /\ active # 0 \/ file # <<>> \/ table # <<>>
    /\ Goto(IF active = 0 \/ file = <<>> THEN "refused"
            ELSE IF journal = NoJournal THEN "verify" ELSE Recovery)
    /\ UNCHANGED <<active, pending, journal, table, file, signed, made, faults, cut>>

InitCommit == At("init_commit") /\ Commit("init_active") /\ UNCHANGED cut
InitActive == At("init_active") /\ Activate(core.tr.key, "init_export")
InitExport == At("init_export") /\ Export("serving", "down")

(* Mutant: the journal outlives the recovery.                              *)
RecKeepJournal ==
    /\ At("rec_journal")
    /\ Goto("verify")
    /\ UNCHANGED <<active, pending, journal, table, file, signed, made, faults, cut>>

RecActivate == At("rec_activate") /\ Activate(pending, "rec_export")
RecExport == At("rec_export") /\ Export("rec_pending", "down")
RecPending == At("rec_pending") /\ RemovePending("rec_journal")
RecJournal == At("rec_journal") /\ RemoveJournal("verify")

(* The three stores must agree before the Core serves.                     *)
Verify ==
    /\ At("verify")
    /\ Goto(IF file # <<>> /\ file = table /\ LastKey(file) = active
            THEN "serving" ELSE "refused")
    /\ UNCHANGED <<active, pending, journal, table, file, signed, made, faults, cut>>

----------------------------------------------------------------------------
(* The commands.                                                           *)

SignReceipt ==
    /\ At("serving")
    /\ signed' = signed \cup {active}
    /\ UNCHANGED <<active, pending, journal, table, file, core, made, faults, cut>>

(* Mutant: a rotation starts over an unfinished one.                       *)
RotateAnyway(cont) ==
    /\ At("serving")
    /\ file # <<>> /\ Len(file) < MaxHistory
    /\ made < MaxKeys
    /\ made' = made + 1
    /\ core' = [pc |-> "rot_journal",
                tr |-> [key |-> made', prev |-> active, after |-> LastKey(file),
                        by |-> active, cont |-> cont]]
    /\ UNCHANGED <<active, pending, journal, table, file, signed, faults, cut>>

(* rotate_with_database, for a reason that continues the chain or one that *)
(* marks the old key as compromised.  The predecessor is read from the     *)
(* history file.                                                           *)
Rotate(cont) ==
    /\ At("serving")
    /\ journal = NoJournal
    /\ file # <<>> /\ Len(file) < MaxHistory
    /\ made < MaxKeys
    /\ made' = made + 1
    /\ core' = [pc |-> "rot_journal",
                tr |-> [key |-> made', prev |-> active, after |-> LastKey(file),
                        by |-> active, cont |-> cont]]
    /\ UNCHANGED <<active, pending, journal, table, file, signed, faults, cut>>

(* Mutant: the new key is committed before it is on disk.                  *)
RotPendingLater ==
    /\ At("rot_pending")
    /\ Goto("rot_commit")
    /\ UNCHANGED <<active, pending, journal, table, file, signed, made, faults, cut>>

RotJournal == At("rot_journal") /\ WriteJournal("prepared", "rot_pending")

RotPending ==
    /\ At("rot_pending")
    /\ pending' = core.tr.key
    /\ Goto("rot_commit")
    /\ UNCHANGED <<active, journal, table, file, signed, made, faults, cut>>

RotCommit == At("rot_commit") /\ Commit("rot_durable") /\ UNCHANGED cut
RotDurable == At("rot_durable") /\ WriteJournal("transition_durable", "rot_audit")
RotAudit ==
    /\ At("rot_audit")
    /\ Goto("rot_export")
    /\ UNCHANGED <<active, pending, journal, table, file, signed, made, faults, cut>>
RotExport == At("rot_export") /\ Export("rot_audited", "serving")
RotAudited == At("rot_audited") /\ WriteJournal("audit_durable", "rot_active")
RotActive == At("rot_active") /\ Activate(core.tr.key, "rot_replaced")
RotReplaced == At("rot_replaced") /\ WriteJournal("active_key_replaced", "rot_publish")
RotPublish == At("rot_publish") /\ Export("rot_cleanup", "serving")
RotCleanup == At("rot_cleanup") /\ RemovePending("rot_finish")
RotFinish == At("rot_finish") /\ RemoveJournal("serving")

(* create_new_genesis_with_database: the user gives up the lineage.  It    *)
(* neither looks at the journal nor keeps one of its own.                  *)
NewGenesis ==
    /\ At("serving")
    /\ file # <<>> /\ Len(file) < MaxHistory
    /\ made < MaxKeys
    /\ made' = made + 1
    /\ core' = [pc |-> "gen_forensic",
                tr |-> [key |-> made', prev |-> LastKey(file), after |-> LastKey(file),
                        by |-> made', cont |-> "broken"]]
    /\ UNCHANGED <<active, pending, journal, table, file, signed, faults, cut>>

GenForensic ==
    /\ At("gen_forensic")
    /\ Goto("gen_commit")
    /\ UNCHANGED <<active, pending, journal, table, file, signed, made, faults, cut>>
GenCommit ==
    /\ At("gen_commit")
    /\ Commit("gen_active")
    /\ cut' = (cut \/ journal # NoJournal)
GenActive == At("gen_active") /\ Activate(core.tr.key, "gen_export")
GenExport == At("gen_export") /\ Export("serving", "serving")

----------------------------------------------------------------------------
(* Faults.                                                                 *)

(* The operations that no journal protects, once they have committed.      *)
Unprotected == {"init_active", "init_export", "gen_active", "gen_export"}

Fault ==
    /\ faults < MaxFaults
    /\ faults' = faults + 1
    /\ cut' = (cut \/ core.pc \in Unprotected)

(* The process dies, or the machine does.                                  *)
Crash ==
    /\ core.pc \notin Stopped
    /\ Fault
    /\ Goto("down")
    /\ UNCHANGED <<active, pending, journal, table, file, signed, made>>

(* A write fails: a command ends with that error and the Core goes on; at  *)
(* startup the Core exits.  A pending key that recovery cannot remove is   *)
(* left behind, one that a rotation cannot remove is noted in the journal. *)
Fail ==
    /\ core.pc \in (Startup \ {"verify"}) \cup Rotation \cup Genesis
    /\ Fault
    /\ Goto(CASE At("rec_pending") -> "rec_journal"
              [] core.pc \in Startup \ {"rec_pending"} -> "down"
              [] OTHER -> "serving")
    /\ journal' = IF At("rot_cleanup") THEN [journal EXCEPT !.phase = "cleanup_required"]
                  ELSE journal
    /\ UNCHANGED <<active, pending, table, file, signed, made>>

StartupStep ==
    \/ StartFirst \/ Start \/ InitCommit \/ InitActive \/ InitExport
    \/ RecActivate \/ RecExport \/ RecPending \/ RecJournal \/ Verify

RotationStep ==
    \/ RotJournal \/ RotPending \/ RotCommit \/ RotDurable \/ RotAudit \/ RotExport
    \/ RotAudited \/ RotActive \/ RotReplaced \/ RotPublish \/ RotCleanup \/ RotFinish

GenesisStep == GenForensic \/ GenCommit \/ GenActive \/ GenExport

Next ==
    \/ StartupStep
    \/ SignReceipt
    \/ \E cont \in {"chained", "compromised"} : Rotate(cont)
    \/ RotationStep
    \/ NewGenesis
    \/ GenesisStep
    \/ Crash
    \/ Fail

Spec == Init /\ [][Next]_vars

(* The supervisor starts the Core again and a start that has begun goes on.*)
FairSpec == Spec /\ WF_vars(StartupStep)

----------------------------------------------------------------------------
(* What the lifecycle promises.                                            *)

(* No receipt carries the signature of a key whose transition is not       *)
(* committed, whatever interrupts a rotation or its recovery.              *)
SignerIsRecorded == signed \subseteq KeysOf(table)

(* A rotation may stop after any of its twelve steps, by a crash or by a   *)
(* failed write, and its recovery after any of its own: the next start     *)
(* never refuses to serve.                                                 *)
RotationNeverStrands == core.pc = "refused" => cut

(* The published history is a beginning of the table, verifies as one      *)
(* unforked lineage, and holds every key that signed a receipt before the  *)
(* key in use.                                                             *)
HistoryVerifies ==
    ~cut /\ file # <<>> =>
        /\ VerifyTransitions(file)
        /\ Len(file) <= Len(table)
        /\ file = SubSeq(table, 1, Len(file))
        /\ signed \ {active} \subseteq KeysOf(file)

(* A serving Core without a journal has one opinion about its keys: the    *)
(* key in use is the last of the history, which is the table.              *)
StoresAgree ==
    core.pc = "serving" /\ journal = NoJournal /\ ~cut =>
        /\ file = table
        /\ active = LastKey(table)

(* A key that was replaced never comes back into use: rotation and its     *)
(* recovery only move forward.                                             *)
RetiredStayRetired == [][~cut' => active' >= active]_active

(* A rotation whose transition was committed when the Core went down is    *)
(* completed by a later start: the journal goes and the new key is in use. *)
InterruptedRotationCompletes ==
    \A k \in 1..MaxKeys :
        core.pc = "down" /\ journal.new = k /\ k \in KeysOf(table)
            ~> cut \/ (journal.new # k /\ active >= k)
====
