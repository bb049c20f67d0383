---- MODULE ReceiptChain ----
(***************************************************************************)
(* The chain of signed receipts, its retention and its verification        *)
(* (evohime-receipts/src/runtime_signing.rs, runtime.rs, chain.rs and      *)
(* export.rs; the retention pass of evohime-core/src/core_lifecycle.rs).   *)
(*                                                                         *)
(* Every receipt carries the hash of the one before it under the same key. *)
(* Receipts of actions and of model requests share the chain.  A pass that *)
(* runs every six hours signs a checkpoint for the old part of a key's     *)
(* chain and deletes it in the same transaction.  Each operation holds the *)
(* lock of the database and is one transaction, so it is one step.         *)
(*                                                                         *)
(* A row is named by its rowid, which also stands for its hash.            *)
(***************************************************************************)
EXTENDS Integers, FiniteSets

CONSTANTS
    Actions,    \* tool calls
    Requests,   \* model requests
    Age,        \* RETENTION_MS
    Budget,     \* RETENTION_ROWS
    MaxKeys,    \* bound: keys
    MaxTime     \* bound: readings of the wall clock

ASSUME ChainAssumption ==
    /\ Age \in Nat /\ Budget \in Nat /\ MaxTime \in Nat
    /\ MaxKeys \in Nat \ {0}

VARIABLES
    rows,        \* receipt_records
    heads,       \* receipt_chain_heads: rowid of the newest row of a key, or 0
    checkpoint,  \* the active row of receipt_checkpoints of a key
    state,       \* receipt_actions.state
    active,      \* the key that signs
    cont,        \* how a key continues the one before it
    now,         \* the wall clock
    setBack      \* history: the clock was set back

vars == <<rows, heads, checkpoint, state, active, cont, now, setBack>>

Keys == 1..MaxKeys
Kinds == {"pre_action", "post_action", "refusal", "request_commit"}
Row == [id : Nat \ {0}, key : Keys, prev : Nat, kind : Kinds,
        of : Actions \cup Requests, at : 0..MaxTime]
Checkpoint == [cutoff : Nat, prefix : Nat]
NoCheckpoint == [cutoff |-> 0, prefix |-> 0]

(* open: prepared or pending_recovery.  An action that awaits its approval *)
(* has no receipt yet and counts as absent.                                *)
States == {"absent", "open", "quarantined", "closed"}

TypeOK ==
    /\ rows \subseteq Row
    /\ heads \in [Keys -> Nat]
    /\ checkpoint \in [Keys -> Checkpoint]
    /\ state \in [Actions -> States]
    /\ active \in Keys
    /\ cont \in [Keys -> {"genesis", "chained", "broken"}]
    /\ now \in 0..MaxTime
    /\ setBack \in BOOLEAN

Init ==
    /\ rows = {}
    /\ heads = [k \in Keys |-> 0]
    /\ checkpoint = [k \in Keys |-> NoCheckpoint]
    /\ state = [a \in Actions |-> "absent"]
    /\ active = 1
    /\ cont = [k \in Keys |-> "genesis"]
    /\ now = 0 /\ setBack = FALSE

----------------------------------------------------------------------------
(* Appending.                                                              *)

RowsOf(k) == {r \in rows : r.key = k}

(* The rowid SQLite gives: one more than the greatest in the table.        *)
NextId == IF rows = {} THEN 1
          ELSE 1 + (CHOOSE r \in rows : \A s \in rows : s.id <= r.id).id

(* Mutant: the query orders by time alone.                                 *)
NewestByTime(k) ==
    IF RowsOf(k) = {} THEN 0
    ELSE (CHOOSE r \in RowsOf(k) : \A s \in RowsOf(k) :
              r.at > s.at \/ (r.at = s.at /\ r.id <= s.id)).id

(* The newest row of a key by the time it carries, then by rowid.          *)
Newest(k) ==
    LET newer(r, s) == r.at > s.at \/ (r.at = s.at /\ r.id >= s.id)
    IN  IF RowsOf(k) = {} THEN 0
        ELSE (CHOOSE r \in RowsOf(k) : \A s \in RowsOf(k) : newer(r, s)).id

(* The row and the head of its key.                                        *)
Insert(kind, x) ==
    /\ rows' = rows \cup {[id |-> NextId, key |-> active, prev |-> heads[active],
                           kind |-> kind, of |-> x, at |-> now]}
    /\ heads' = [heads EXCEPT ![active] = NextId]

(* signed_receipt: refuses when the head is not the newest row.            *)
SignedReceipt(kind, a) ==
    /\ heads[active] = Newest(active)
    /\ Insert(kind, a)

Prepare(a) ==
    /\ state[a] = "absent"
    /\ SignedReceipt("pre_action", a)
    /\ state' = [state EXCEPT ![a] = "open"]
    /\ UNCHANGED <<checkpoint, active, cont, now, setBack>>

(* A call the policy denies.                                               *)
Refuse(a) ==
    /\ state[a] = "absent"
    /\ SignedReceipt("refusal", a)
    /\ state' = [state EXCEPT ![a] = "closed"]
    /\ UNCHANGED <<checkpoint, active, cont, now, setBack>>

Complete(a) ==
    /\ state[a] = "open"
    /\ SignedReceipt("post_action", a)
    /\ state' = [state EXCEPT ![a] = "closed"]
    /\ UNCHANGED <<checkpoint, active, cont, now, setBack>>

(* ClosePendingReceiptAction: the operator gives up an interrupted call,   *)
(* and refuse signs a refusal after its pre_action.                        *)
ClosePending(a) ==
    /\ state[a] = "open"
    /\ SignedReceipt("refusal", a)
    /\ state' = [state EXCEPT ![a] = "closed"]
    /\ UNCHANGED <<checkpoint, active, cont, now, setBack>>

(* The completion of a call that reconciles an interrupted one closes both *)
(* under the one receipt.                                                  *)
CompleteReconciling(a, old) ==
    /\ state[a] = "open" /\ state[old] = "open" /\ a # old
    /\ SignedReceipt("post_action", a)
    /\ state' = [state EXCEPT ![a] = "closed", ![old] = "closed"]
    /\ UNCHANGED <<checkpoint, active, cont, now, setBack>>

(* A completion that does not match its call.                              *)
Quarantine(a) ==
    /\ state[a] = "open"
    /\ state' = [state EXCEPT ![a] = "quarantined"]
    /\ UNCHANGED <<rows, heads, checkpoint, active, cont, now, setBack>>

(* append_model_request_receipt: once per request; the head is not         *)
(* compared with the newest row.                                           *)
AppendRequest(q) ==
    /\ ~\E r \in rows : r.kind = "request_commit" /\ r.of = q
    /\ Insert("request_commit", q)
    /\ UNCHANGED <<checkpoint, state, active, cont, now, setBack>>

----------------------------------------------------------------------------
(* Retention.                                                              *)

(* Rows of unfinished actions stay; a request has no action.               *)
Blocked(r) == r.kind # "request_commit" /\ state[r.of] = "open"
Deletable(k) == {r \in RowsOf(k) : ~Blocked(r)}

Before(S, r) == {s \in S : s.id < r.id}
Least(m, n) == IF m < n THEN m ELSE n
Greatest(m, n) == IF m > n THEN m ELSE n

(* Mutant: both bounds have to be passed before a row goes.                *)
KeepFromBoth(k) ==
    LET D == Deletable(k)
        old == {r \in D : r.at < now - Age}
        over == Greatest(Cardinality(RowsOf(k)) - Budget, 0)
    IN  Least(Least(Cardinality(old), over), Greatest(Cardinality(D) - 1, 0))

(* How many of the deletable rows go: those before the first that is young *)
(* enough, or as many as there are rows over the budget, but not all.      *)
KeepFrom(k) ==
    LET D == Deletable(k)
        young == {r \in D : r.at >= now - Age}
        old == {r \in D : \A s \in young : r.id < s.id}
        over == Greatest(Cardinality(RowsOf(k)) - Budget, 0)
    IN  Least(Greatest(Cardinality(old), over), Greatest(Cardinality(D) - 1, 0))

(* Mutant: a prefix of one row is not worth a checkpoint.                  *)
CutoffsOfTwo(k) ==
    {c \in Deletable(k) : KeepFrom(k) > 1 /\ Cardinality(Before(Deletable(k), c)) = KeepFrom(k)}

(* retention_candidates: the first row of the key that is to stay.         *)
Cutoffs(k) ==
    {c \in Deletable(k) : KeepFrom(k) > 0 /\ Cardinality(Before(Deletable(k), c)) = KeepFrom(k)}

(* Mutant: compact_chain relies on the choice of the cutoff.               *)
CompactUnblocked(P) == \E r \in P : r.kind = "request_commit"

(* compact_chain refuses a prefix with an unfinished action, or with a row *)
(* that has no action.                                                     *)
CompactBlocked(P) == \E r \in P : Blocked(r) \/ r.kind = "request_commit"

(* Mutant: the row at the cutoff is deleted too.                           *)
CompactThrough(k, c) ==
    LET prefix == Before(RowsOf(k), c)
    IN  /\ prefix # {}
        /\ ~CompactBlocked(prefix \cup {c})
        /\ \E p \in prefix :
               /\ \A s \in prefix : s.id <= p.id
               /\ checkpoint' = [checkpoint EXCEPT ![k] = [cutoff |-> c.id, prefix |-> p.id]]
        /\ rows' = rows \ (prefix \cup {c})
        /\ UNCHANGED <<heads, state, active, cont, now, setBack>>

(* The checkpoint and the deletion.                                        *)
CompactChain(k, c) ==
    LET prefix == Before(RowsOf(k), c)
    IN  /\ prefix # {}
        /\ ~CompactBlocked(prefix)
        /\ \E p \in prefix :
               /\ \A s \in prefix : s.id <= p.id
               /\ checkpoint' = [checkpoint EXCEPT ![k] = [cutoff |-> c.id, prefix |-> p.id]]
        /\ rows' = rows \ prefix
        /\ UNCHANGED <<heads, state, active, cont, now, setBack>>

(* The part of a pass that is about one key.  The pass may stop after any. *)
Retain(k) == \E c \in Cutoffs(k) : CompactChain(k, c)

----------------------------------------------------------------------------
(* The surroundings.                                                       *)

(* A rotation of the signing key (ReceiptKeys): by plan, or because the    *)
(* old key was compromised or given up, which the verifier treats alike.   *)
Rotate(how) ==
    /\ active < MaxKeys
    /\ active' = active + 1
    /\ cont' = [cont EXCEPT ![active + 1] = how]
    /\ UNCHANGED <<rows, heads, checkpoint, state, now, setBack>>

(* The wall clock goes on, or is set back.                                 *)
Tick ==
    /\ now < MaxTime
    /\ now' = now + 1
    /\ UNCHANGED <<rows, heads, checkpoint, state, active, cont, setBack>>

SetBack ==
    /\ now > 0
    /\ now' = 0
    /\ setBack' = TRUE
    /\ UNCHANGED <<rows, heads, checkpoint, state, active, cont>>

Next ==
    \/ \E a \in Actions : \/ Prepare(a) \/ Refuse(a) \/ Complete(a)
                           \/ ClosePending(a) \/ Quarantine(a)
    \/ \E a, old \in Actions : CompleteReconciling(a, old)
    \/ \E q \in Requests : AppendRequest(q)
    \/ \E k \in Keys : Retain(k)
    \/ \E how \in {"chained", "broken"} : Rotate(how)
    \/ Tick
    \/ SetBack

Spec == Init /\ [][Next]_vars

(* The pass comes round every six hours, counted from the start of Core:   *)
(* the fairness is that of a Core that stays up.                           *)
FairSpec == Spec /\ \A k \in Keys : WF_vars(Retain(k))

----------------------------------------------------------------------------
(* Verification, as a function of the loaded rows h.  Hashes and           *)
(* signatures are sound, since nothing here alters a row, and every key is *)
(* in the history (SignerIsRecorded of ReceiptKeys).                       *)

(* load_closure_rows drops a row without an action.                        *)
Loaded(S) == {r \in S : r.kind # "request_commit"}

(* active_checkpoint_prefix_for_first_row.                                 *)
PrefixFor(h) ==
    LET first == {f \in h : Before(h, f) = {}}
    IN  IF \E f \in first : checkpoint[f.key].cutoff = f.id
        THEN (CHOOSE p \in {checkpoint[f.key].prefix : f \in first} : TRUE) ELSE 0

(* Mutant: a chain that starts at a checkpoint is not marked.              *)
RowStatusUnmarked(h, r) ==
    LET before == Before(h, r)
        p == CHOOSE s \in before : \A t \in before : t.id <= s.id
    IN  IF before = {}
        THEN IF r.prev # PrefixFor(h) THEN "broken" ELSE "verified"
        ELSE IF p.key = r.key THEN IF r.prev = p.id THEN "verified" ELSE "broken"
        ELSE IF r.prev # 0 THEN "broken"
        ELSE IF cont[r.key] \in {"chained", "genesis"} THEN "verified" ELSE "unverified"

(* verify_chain, row by row.                                               *)
RowStatus(h, r) ==
    LET before == Before(h, r)
        p == CHOOSE s \in before : \A t \in before : t.id <= s.id
    IN  IF before = {}
        THEN IF r.prev # PrefixFor(h) THEN "broken"
             ELSE IF PrefixFor(h) # 0 THEN "verified_pruned" ELSE "verified"
        ELSE IF p.key = r.key THEN IF r.prev = p.id THEN "verified" ELSE "broken"
        ELSE IF r.prev # 0 THEN "broken"
        ELSE IF cont[r.key] \in {"chained", "genesis"} THEN "verified" ELSE "unverified"

(* The pairing of the receipts of one action.                              *)
PairStatus(h, a) ==
    LET pre == {r \in h : r.of = a /\ r.kind = "pre_action"}
        post == {r \in h : r.of = a /\ r.kind # "pre_action"}
    IN  IF Cardinality(pre) > 1 \/ Cardinality(post) > 1
               \/ (\E r \in pre, s \in post : s.id <= r.id) THEN "broken"
        ELSE IF post # {} /\ pre = {} THEN "unverified"
        ELSE IF pre # {} /\ post = {} THEN "pending"
        ELSE "verified"

Severity == <<"broken", "unverified", "pending", "verified_pruned", "verified">>

(* The verdict is the worst status.                                        *)
Verdict(S) ==
    LET h == Loaded(S)
        met == {RowStatus(h, r) : r \in h} \cup {PairStatus(h, r.of) : r \in h}
    IN  IF h = {} THEN "verified"
        ELSE Severity[CHOOSE i \in 1..5 :
                 Severity[i] \in met /\ \A j \in 1..(i - 1) : Severity[j] \notin met]

----------------------------------------------------------------------------
(* What the chain promises.                                                *)

(* Appends, rotations and compactions keep every chain whole: the head is  *)
(* the last row of its key, a row follows the one before it, and the first *)
(* that is left follows what its checkpoint names.                         *)
ChainIsWhole ==
    \A k \in Keys :
        /\ \A r \in RowsOf(k) : r.id <= heads[k]
        /\ heads[k] # 0 => \E r \in RowsOf(k) : r.id = heads[k]
        /\ \A r \in RowsOf(k) :
               LET before == Before(RowsOf(k), r)
               IN  IF before = {}
                   THEN /\ r.prev = checkpoint[k].prefix
                        /\ checkpoint[k] # NoCheckpoint => checkpoint[k].cutoff = r.id
                   ELSE \E p \in before : p.id = r.prev /\ \A s \in before : s.id <= p.id

(* Retention never takes the first receipt of an action that may still     *)
(* have to be reconciled.                                                  *)
EvidenceKept ==
    \A a \in Actions : state[a] = "open" =>
        \E r \in rows : r.kind = "pre_action" /\ r.of = a

(* While the clock is not set back, the check in signed_receipt never      *)
(* stops the chain: not after a compaction, not after a rotation.          *)
AppendsGoOn == ~setBack => \A k \in Keys : heads[k] = Newest(k)

(* The verifier tells the truth.  The rows of one key never verify as      *)
(* broken, whatever was compacted, unless a receipt of a model request     *)
(* lies among them; and a chain is called verified only when nothing was   *)
(* deleted and every action has its first receipt and, after it, the       *)
(* receipt of its completion or of its refusal.                            *)
VerdictIsTrue ==
    /\ \A k \in Keys : RowsOf(k) = Loaded(RowsOf(k)) => Verdict(RowsOf(k)) # "broken"
    /\ Verdict(rows) = "verified" =>
           \A r \in Loaded(rows) :
               /\ checkpoint[r.key] = NoCheckpoint
               /\ \E s, t \in rows :
                      /\ s.of = r.of /\ s.kind = "pre_action"
                      /\ t.of = r.of /\ t.kind \in {"post_action", "refusal"}
                      /\ s.id < t.id

(* A compaction leaves a suffix within both bounds, or one row that may    *)
(* go at all.                                                              *)
RetentionBounds ==
    [][\A k \in Keys : checkpoint'[k] # checkpoint[k] /\ ~setBack =>
           \/ Cardinality(Deletable(k)') = 1
           \/ /\ Cardinality(RowsOf(k)') <= Budget
              /\ \A r \in Deletable(k)' : r.at >= now - Age]_vars

(* Rows over the budget go in the end, unless an unfinished action or a    *)
(* model request is among the rows of the key.                             *)
RetentionHappens ==
    \A k \in Keys :
        Cardinality(RowsOf(k)) > Greatest(Budget, 1)
            ~> \/ Cardinality(RowsOf(k)) <= Greatest(Budget, 1)
               \/ CompactBlocked(RowsOf(k))
====
