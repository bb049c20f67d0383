---- MODULE ReceiptChainProofs ----
(***************************************************************************)
(* Proofs about ReceiptChain: for any number of actions, requests and keys *)
(* the chain stays whole, retention keeps the evidence of unfinished       *)
(* actions and its bounds, the verifier tells the truth and, while the     *)
(* clock is not set back, the check of signed_receipt never refuses an     *)
(* append.                                                                 *)
(*                                                                         *)
(* The chain does not need the table to be finite: that it has a greatest  *)
(* rowid is part of the invariant, since an append makes a greater one and *)
(* a compaction always leaves the row at the cutoff.  Counting rows does.  *)
(***************************************************************************)
EXTENDS ReceiptChain, FiniteSetTheorems, WellFoundedInduction, TLAPS

(* Rowids name rows, and there is a greatest.                              *)
IdsOK ==
    /\ \A r, s \in rows : r.id = s.id => r = s
    /\ rows # {} => \E r \in rows : \A s \in rows : s.id <= r.id

(* A compaction leaves rows behind.                                        *)
CheckpointOK == \A k \in Keys : RowsOf(k) = {} => checkpoint[k] = NoCheckpoint

(* The times of the rows rise with their ids.                              *)
TimesOK ==
    ~setBack => /\ \A r \in rows : r.at <= now
                /\ \A r, s \in rows : r.id <= s.id => r.at <= s.at

(* The inductive invariant.                                                *)
ChainInv == TypeOK /\ IdsOK /\ CheckpointOK /\ ChainIsWhole /\ EvidenceKept /\ TimesOK

----------------------------------------------------------------------------
(* Facts about one append and one compaction.                              *)

(* The rowid of a new row is greater than all.                             *)
LEMMA NextIdIsGreater ==
    ASSUME TypeOK, IdsOK
    PROVE  NextId \in Nat \ {0} /\ \A r \in rows : r.id < NextId
<1>1. CASE rows = {}
  BY <1>1 DEF NextId
<1>2. CASE rows # {}
  <2> DEFINE g == CHOOSE r \in rows : \A s \in rows : s.id <= r.id
  <2>1. g \in rows /\ \A s \in rows : s.id <= g.id
    BY <1>2 DEF IdsOK
  <2>2. NextId = 1 + g.id
    BY <1>2 DEF NextId
  <2>3. \A r \in rows : r.id \in Nat
    BY DEF TypeOK, Row
  <2> QED  BY <2>1, <2>2, <2>3
<1> QED  BY <1>1, <1>2

(* The row that Insert adds.                                               *)
NewRow(kind, x) == [id |-> NextId, key |-> active, prev |-> heads[active],
                    kind |-> kind, of |-> x, at |-> now]

(* An append keeps types, ids, checkpoints, chains and times.              *)
LEMMA InsertPreserves ==
    ASSUME ChainInv, NEW kind \in Kinds, NEW x \in Actions \cup Requests,
           Insert(kind, x), state' \in [Actions -> States],
           UNCHANGED <<checkpoint, active, cont, now, setBack>>
    PROVE  TypeOK' /\ IdsOK' /\ CheckpointOK' /\ ChainIsWhole' /\ TimesOK'
<1> DEFINE n == NewRow(kind, x)
<1>0. /\ TypeOK /\ IdsOK /\ CheckpointOK /\ ChainIsWhole /\ TimesOK
      /\ rows' = rows \cup {n}
      /\ heads' = [heads EXCEPT ![active] = NextId]
  BY DEF ChainInv, Insert, NewRow
<1>1. NextId \in Nat \ {0} /\ \A r \in rows : r.id < NextId
  BY <1>0, NextIdIsGreater
<1>2. /\ n \in Row /\ n.id = NextId /\ n.key = active /\ n.prev = heads[active] /\ n.at = now
  BY <1>0, <1>1 DEF TypeOK, NewRow, Row
<1>3. \A r \in rows : r.id \in Nat /\ r.at \in Nat /\ r.key \in Keys
  BY <1>0, ChainAssumption DEF TypeOK, Row
<1>n. n \notin rows
  BY <1>1, <1>2, <1>3
<1> HIDE DEF n
<1>4. TypeOK'
  BY <1>0, <1>1, <1>2 DEF TypeOK
<1>5. IdsOK'
  BY <1>0, <1>1, <1>2, <1>3 DEF IdsOK
<1>6. RowsOf(active)' = RowsOf(active) \cup {n}
  BY <1>0, <1>2 DEF RowsOf
<1>7. \A k \in Keys : k # active => RowsOf(k)' = RowsOf(k)
  BY <1>0, <1>2 DEF RowsOf
<1>8. CheckpointOK'
  BY <1>0, <1>6, <1>7 DEF CheckpointOK
<1>9. ChainIsWhole'
  <2> SUFFICES ASSUME NEW k \in Keys
               PROVE /\ \A r \in RowsOf(k)' : r.id <= heads'[k]
                     /\ heads'[k] # 0 => \E r \in RowsOf(k)' : r.id = heads'[k]
                     /\ \A r \in RowsOf(k)' :
                            IF Before(RowsOf(k)', r) = {}
                            THEN /\ r.prev = checkpoint[k].prefix
                                 /\ checkpoint[k] # NoCheckpoint => checkpoint[k].cutoff = r.id
                            ELSE \E p \in Before(RowsOf(k)', r) :
                                     p.id = r.prev /\ \A s \in Before(RowsOf(k)', r) : s.id <= p.id
    BY DEF ChainIsWhole, Before
  <2>1. CASE k # active
    <3>1. heads'[k] = heads[k] /\ RowsOf(k)' = RowsOf(k)
      BY <2>1, <1>0, <1>7 DEF TypeOK
    <3> QED  BY <3>1, <1>0 DEF ChainIsWhole
  <2>2. CASE k = active
    <3>1. heads'[k] = NextId /\ RowsOf(k)' = RowsOf(k) \cup {n}
      BY <2>2, <1>0, <1>6 DEF TypeOK
    <3>2. \A r \in RowsOf(k) : r \in rows /\ r.id < NextId /\ r.id \in Nat
      BY <1>1, <1>3 DEF RowsOf
    <3>3. \A r \in RowsOf(k) : Before(RowsOf(k)', r) = Before(RowsOf(k), r)
      BY <3>1, <3>2, <1>1, <1>2 DEF Before
    <3>4. Before(RowsOf(k)', n) = RowsOf(k)
      BY <3>1, <3>2, <1>1, <1>2 DEF Before
    <3>5. CASE RowsOf(k) = {}
      <4>1. heads[k] = 0 /\ checkpoint[k] = NoCheckpoint
        BY <3>5, <1>0 DEF ChainIsWhole, CheckpointOK
      <4> QED  BY <4>1, <3>1, <3>4, <3>5, <1>1, <1>2, <2>2 DEF NoCheckpoint
    <3>6. CASE RowsOf(k) # {}
      <4>0. /\ \A r \in RowsOf(k) : r.id <= heads[k]
            /\ heads[k] # 0 => \E r \in RowsOf(k) : r.id = heads[k]
            /\ heads[k] \in Nat
        BY <1>0 DEF ChainIsWhole, TypeOK
      <4>1. \A r \in RowsOf(k) : r.id # 0
        BY <1>0 DEF TypeOK, Row, RowsOf
      <4>2. PICK h \in RowsOf(k) : h.id = heads[k]
        BY <4>0, <4>1, <3>2, <3>6
      <4>3. \A r \in RowsOf(k)' : r.id <= heads'[k]
        BY <3>1, <3>2, <1>1, <1>2
      <4>4. \E r \in RowsOf(k)' : r.id = heads'[k]
        BY <3>1, <1>2
      <4>5. \A r \in RowsOf(k) :
                IF Before(RowsOf(k)', r) = {}
                THEN /\ r.prev = checkpoint[k].prefix
                     /\ checkpoint[k] # NoCheckpoint => checkpoint[k].cutoff = r.id
                ELSE \E p \in Before(RowsOf(k)', r) :
                         p.id = r.prev /\ \A s \in Before(RowsOf(k)', r) : s.id <= p.id
        BY <3>3, <1>0 DEF ChainIsWhole
      <4>6. h.id = n.prev /\ \A s \in RowsOf(k) : s.id <= h.id
        BY <4>0, <4>2, <1>2, <2>2
      <4> QED  BY <4>3, <4>4, <4>5, <4>6, <4>2, <3>1, <3>4, <3>6
    <3> QED  BY <3>5, <3>6
  <2> QED  BY <2>1, <2>2
<1>10. TimesOK'
  BY <1>0, <1>1, <1>2, <1>3 DEF TimesOK, TypeOK
<1> QED  BY <1>4, <1>5, <1>8, <1>9, <1>10

(* An append of the receipt of an action keeps the evidence of the others, *)
(* and of its own while it is open.                                        *)
LEMMA AppendPreserves ==
    ASSUME ChainInv, NEW kind \in Kinds, NEW x \in Actions \cup Requests,
           Insert(kind, x), state' \in [Actions -> States],
           UNCHANGED <<checkpoint, active, cont, now, setBack>>,
           \A a \in Actions : state'[a] = "open" =>
               state[a] = "open" \/ (a = x /\ kind = "pre_action")
    PROVE  ChainInv'
<1>1. TypeOK' /\ IdsOK' /\ CheckpointOK' /\ ChainIsWhole' /\ TimesOK'
  BY InsertPreserves
<1>2. EvidenceKept'
  <2>1. rows' = rows \cup {NewRow(kind, x)}
    BY DEF Insert, NewRow
  <2>2. NewRow(kind, x).kind = kind /\ NewRow(kind, x).of = x
    BY DEF NewRow
  <2> QED  BY <2>1, <2>2 DEF ChainInv, EvidenceKept
<1> QED  BY <1>1, <1>2 DEF ChainInv

(* A compaction leaves a suffix that starts at its cutoff.                 *)
LEMMA RetainPreserves ==
    ASSUME ChainInv, NEW k \in Keys, Retain(k)
    PROVE  ChainInv'
<1> DEFINE R == RowsOf(k)
<1>1. PICK c \in R : CompactChain(k, c)
  BY DEF Retain, Cutoffs, Deletable
<1> DEFINE prefix == Before(R, c)
<1>2. PICK p \in prefix : /\ \A s \in prefix : s.id <= p.id
                          /\ checkpoint' = [checkpoint EXCEPT ![k] = [cutoff |-> c.id, prefix |-> p.id]]
  BY <1>1 DEF CompactChain
<1>3. /\ ~CompactBlocked(prefix)
      /\ rows' = rows \ prefix
      /\ UNCHANGED <<heads, state, active, cont, now, setBack>>
  BY <1>1 DEF CompactChain
<1>4. TypeOK /\ IdsOK /\ CheckpointOK /\ ChainIsWhole /\ EvidenceKept /\ TimesOK
  BY DEF ChainInv
<1>5. \A r \in rows : r.id \in Nat /\ r.id # 0
  BY <1>4 DEF TypeOK, Row
<1>6. /\ c \in rows /\ c \notin prefix /\ c \in rows'
      /\ prefix = {s \in R : s.id < c.id}
      /\ R = {r \in rows : r.key = k}
  BY <1>3, <1>5 DEF Before, RowsOf
<1>7. TypeOK'
  <2>1. [cutoff |-> c.id, prefix |-> p.id] \in Checkpoint
    BY <1>5, <1>6, <1>2 DEF Checkpoint
  <2> QED  BY <2>1, <1>2, <1>3, <1>4 DEF TypeOK
<1>8. IdsOK'
  <2>1. PICK g \in rows : \A s \in rows : s.id <= g.id
    BY <1>4, <1>6 DEF IdsOK
  <2>2. g \notin prefix
    BY <2>1, <1>5, <1>6
  <2> QED  BY <2>1, <2>2, <1>3, <1>4 DEF IdsOK
<1>9. /\ RowsOf(k)' = R \ prefix
      /\ \A j \in Keys : j # k => RowsOf(j)' = RowsOf(j)
  BY <1>3, <1>6 DEF RowsOf
<1>10. /\ checkpoint'[k] = [cutoff |-> c.id, prefix |-> p.id]
       /\ \A j \in Keys : j # k => checkpoint'[j] = checkpoint[j]
  BY <1>2, <1>4 DEF TypeOK
<1>11. CheckpointOK'
  BY <1>4, <1>6, <1>9, <1>10 DEF CheckpointOK
<1>12. ChainIsWhole'
  <2> SUFFICES ASSUME NEW j \in Keys
               PROVE /\ \A r \in RowsOf(j)' : r.id <= heads[j]
                     /\ heads[j] # 0 => \E r \in RowsOf(j)' : r.id = heads[j]
                     /\ \A r \in RowsOf(j)' :
                            IF Before(RowsOf(j)', r) = {}
                            THEN /\ r.prev = checkpoint'[j].prefix
                                 /\ checkpoint'[j] # NoCheckpoint => checkpoint'[j].cutoff = r.id
                            ELSE \E q \in Before(RowsOf(j)', r) :
                                     q.id = r.prev /\ \A s \in Before(RowsOf(j)', r) : s.id <= q.id
    BY <1>3 DEF ChainIsWhole, Before
  <2>1. CASE j # k
    BY <2>1, <1>4, <1>9, <1>10 DEF ChainIsWhole
  <2>2. CASE j = k
    <3> DEFINE S == R \ prefix
    <3>1. RowsOf(j)' = S /\ \A r \in S : r \in R /\ c.id <= r.id /\ r.id \in Nat
      BY <2>2, <1>5, <1>6, <1>9
    <3>2. /\ \A r \in R : r.id <= heads[k]
          /\ heads[k] # 0 => \E r \in R : r.id = heads[k]
          /\ \A r \in R :
                 IF Before(R, r) = {}
                 THEN /\ r.prev = checkpoint[k].prefix
                      /\ checkpoint[k] # NoCheckpoint => checkpoint[k].cutoff = r.id
                 ELSE \E q \in Before(R, r) :
                          q.id = r.prev /\ \A s \in Before(R, r) : s.id <= q.id
          /\ heads[k] \in Nat
      BY <1>4 DEF ChainIsWhole, TypeOK
    <3>3. \A r \in S : r.id <= heads[j]
      BY <3>1, <3>2, <2>2
    <3>4. heads[j] # 0 => \E r \in S : r.id = heads[j]
      <4> SUFFICES ASSUME heads[k] # 0 PROVE \E r \in S : r.id = heads[k]
        BY <2>2
      <4>1. PICK h \in R : h.id = heads[k]
        BY <3>2
      <4>2. h \notin prefix
        BY <4>1, <3>2, <1>5, <1>6
      <4> QED  BY <4>1, <4>2
    <3>5. ASSUME NEW r \in S
          PROVE IF Before(S, r) = {}
                THEN /\ r.prev = checkpoint'[k].prefix
                     /\ checkpoint'[k] # NoCheckpoint => checkpoint'[k].cutoff = r.id
                ELSE \E q \in Before(S, r) :
                         q.id = r.prev /\ \A s \in Before(S, r) : s.id <= q.id
      <4>1. CASE r = c
        <5>1. Before(S, r) = {}
          BY <4>1, <3>1, <1>5, <1>6 DEF Before
        <5>2. PICK q \in Before(R, r) : q.id = r.prev /\ \A s \in Before(R, r) : s.id <= q.id
          BY <4>1, <3>2, <1>2, <1>6
        <5>3. q.id = p.id
          <6>1. q \in prefix /\ q \in rows /\ p \in rows /\ q.id <= p.id /\ p.id <= q.id
            BY <5>2, <4>1, <1>2, <1>6
          <6> QED  BY <6>1, <1>5
        <5> QED  BY <5>1, <5>2, <5>3, <4>1, <1>10
      <4>2. CASE r # c
        <5>1. c.id < r.id
          <6>1. r \in rows /\ c \in rows /\ c.id <= r.id
            BY <3>1, <1>6
          <6>2. c.id # r.id
            BY <6>1, <4>2, <1>4 DEF IdsOK
          <6> QED  BY <6>1, <6>2, <1>5
        <5>2. c \in Before(S, r) /\ c \in Before(R, r)
          BY <5>1, <1>6 DEF Before
        <5>3. PICK q \in Before(R, r) : q.id = r.prev /\ \A s \in Before(R, r) : s.id <= q.id
          BY <5>2, <3>1, <3>2
        <5>4. q \in R /\ q.id < r.id /\ c.id <= q.id /\ q.id \in Nat
          BY <5>2, <5>3, <1>5, <1>6 DEF Before
        <5>5. q \in Before(S, r)
          BY <5>4, <1>5, <1>6 DEF Before
        <5>6. \A s \in Before(S, r) : s.id <= q.id
          BY <5>3 DEF Before
        <5> QED  BY <5>2, <5>3, <5>5, <5>6
      <4> QED  BY <4>1, <4>2
    <3> HIDE DEF S
    <3> QED  BY <3>1, <3>3, <3>4, <3>5, <2>2
  <2> QED  BY <2>1, <2>2
<1>13. EvidenceKept'
  <2> SUFFICES ASSUME NEW a \in Actions, state[a] = "open"
               PROVE \E r \in rows' : r.kind = "pre_action" /\ r.of = a
    BY <1>3 DEF EvidenceKept
  <2>1. PICK r \in rows : r.kind = "pre_action" /\ r.of = a
    BY <1>4 DEF EvidenceKept
  <2>2. Blocked(r)
    BY <2>1 DEF Blocked
  <2>3. r \notin prefix
    BY <2>2, <1>3 DEF CompactBlocked
  <2> QED  BY <2>1, <2>3, <1>3
<1>14. TimesOK'
  BY <1>3, <1>4 DEF TimesOK
<1> QED  BY <1>7, <1>8, <1>11, <1>12, <1>13, <1>14 DEF ChainInv

----------------------------------------------------------------------------
(* The theorems.                                                           *)

LEMMA InitEstablishes == Init => ChainInv
<1> SUFFICES ASSUME Init PROVE ChainInv
  OBVIOUS
<1>1. TypeOK
  <2>1. NoCheckpoint \in Checkpoint /\ "absent" \in States
    BY DEF NoCheckpoint, Checkpoint, States
  <2>2. active \in Keys /\ now \in 0..MaxTime
    BY ChainAssumption DEF Init, Keys
  <2> QED  BY <2>1, <2>2 DEF Init, TypeOK
<1>2. \A k \in Keys : RowsOf(k) = {} /\ heads[k] = 0 /\ checkpoint[k] = NoCheckpoint
  BY DEF Init, RowsOf
<1>3. ChainIsWhole /\ CheckpointOK
  BY <1>2 DEF ChainIsWhole, CheckpointOK
<1>4. IdsOK /\ EvidenceKept /\ TimesOK
  BY DEF Init, IdsOK, EvidenceKept, TimesOK
<1> QED  BY <1>1, <1>3, <1>4 DEF ChainInv

(* A step that leaves the chain alone.                                     *)
LEMMA QuietPreserves ==
    ASSUME ChainInv, UNCHANGED <<rows, heads, checkpoint>>, TypeOK',
           \A a \in Actions : state'[a] = "open" => state[a] = "open",
           setBack' \/ (now <= now' /\ setBack' = setBack)
    PROVE  ChainInv'
<1>1. IdsOK'
  BY DEF ChainInv, IdsOK
<1>2. \A k : RowsOf(k)' = RowsOf(k)
  BY DEF RowsOf
<1>3. CheckpointOK'
  BY <1>2 DEF ChainInv, CheckpointOK
<1>4. ChainIsWhole'
  BY <1>2 DEF ChainInv, ChainIsWhole, Before
<1>5. EvidenceKept'
  BY DEF ChainInv, EvidenceKept
<1>6. TimesOK'
  <2>1. \A r \in rows : r.at \in Nat
    BY ChainAssumption DEF ChainInv, TypeOK, Row
  <2>2. now \in Nat /\ now' \in Nat /\ setBack \in BOOLEAN /\ setBack' \in BOOLEAN
    BY ChainAssumption DEF ChainInv, TypeOK
  <2> QED  BY <2>1, <2>2 DEF ChainInv, TimesOK
<1> QED  BY <1>1, <1>3, <1>4, <1>5, <1>6 DEF ChainInv

LEMMA NextPreserves == ChainInv /\ [Next]_vars => ChainInv'
<1> SUFFICES ASSUME ChainInv, [Next]_vars PROVE ChainInv'
  OBVIOUS
<1>0. TypeOK
  BY DEF ChainInv
<1>k. Kinds = {"pre_action", "post_action", "refusal", "request_commit"}
      /\ States = {"absent", "open", "quarantined", "closed"}
  BY DEF Kinds, States
<1>1. ASSUME NEW a \in Actions, Prepare(a) PROVE ChainInv'
  <2>1. state' \in [Actions -> States] /\ Insert("pre_action", a)
    BY <1>0, <1>1, <1>k DEF Prepare, SignedReceipt, TypeOK
  <2>2. \A b \in Actions : state'[b] = "open" => state[b] = "open" \/ b = a
    BY <1>0, <1>1 DEF Prepare, TypeOK
  <2> QED  BY <2>1, <2>2, <1>1, <1>k, AppendPreserves DEF Prepare
<1>2. ASSUME NEW a \in Actions, Refuse(a) PROVE ChainInv'
  <2>1. state' \in [Actions -> States] /\ Insert("refusal", a)
    BY <1>0, <1>2, <1>k DEF Refuse, SignedReceipt, TypeOK
  <2>2. \A b \in Actions : state'[b] = "open" => state[b] = "open"
    BY <1>0, <1>2 DEF Refuse, TypeOK
  <2> QED  BY <2>1, <2>2, <1>2, <1>k, AppendPreserves DEF Refuse
<1>3. ASSUME NEW a \in Actions, Complete(a) PROVE ChainInv'
  <2>1. state' \in [Actions -> States] /\ Insert("post_action", a)
    BY <1>0, <1>3, <1>k DEF Complete, SignedReceipt, TypeOK
  <2>2. \A b \in Actions : state'[b] = "open" => state[b] = "open"
    BY <1>0, <1>3 DEF Complete, TypeOK
  <2> QED  BY <2>1, <2>2, <1>3, <1>k, AppendPreserves DEF Complete
<1>3a. ASSUME NEW a \in Actions, ClosePending(a) PROVE ChainInv'
  <2>1. state' \in [Actions -> States] /\ Insert("refusal", a)
    BY <1>0, <1>3a, <1>k DEF ClosePending, SignedReceipt, TypeOK
  <2>2. \A b \in Actions : state'[b] = "open" => state[b] = "open"
    BY <1>0, <1>3a DEF ClosePending, TypeOK
  <2> QED  BY <2>1, <2>2, <1>3a, <1>k, AppendPreserves DEF ClosePending
<1>4. ASSUME NEW a \in Actions, NEW old \in Actions, CompleteReconciling(a, old) PROVE ChainInv'
  <2>1. state' \in [Actions -> States] /\ Insert("post_action", a)
    BY <1>0, <1>4, <1>k DEF CompleteReconciling, SignedReceipt, TypeOK
  <2>2. \A b \in Actions : state'[b] = "open" => state[b] = "open"
    BY <1>0, <1>4 DEF CompleteReconciling, TypeOK
  <2> QED  BY <2>1, <2>2, <1>4, <1>k, AppendPreserves DEF CompleteReconciling
<1>5. ASSUME NEW q \in Requests, AppendRequest(q) PROVE ChainInv'
  <2>1. state' \in [Actions -> States] /\ Insert("request_commit", q)
    BY <1>0, <1>5 DEF AppendRequest, TypeOK
  <2> QED  BY <2>1, <1>5, <1>k, AppendPreserves DEF AppendRequest
<1>6. ASSUME NEW k \in Keys, Retain(k) PROVE ChainInv'
  BY <1>6, RetainPreserves
<1>7. ASSUME NEW a \in Actions, Quarantine(a) PROVE ChainInv'
  <2>1. TypeOK' /\ \A b \in Actions : state'[b] = "open" => state[b] = "open"
    BY <1>0, <1>7, <1>k DEF Quarantine, TypeOK
  <2>2. now \in Int
    BY <1>0, ChainAssumption DEF TypeOK
  <2> QED  BY <2>1, <2>2, <1>7, QuietPreserves DEF Quarantine
<1>8. ASSUME NEW how \in {"chained", "broken"}, Rotate(how) PROVE ChainInv'
  <2>1. TypeOK'
    BY <1>0, <1>8, ChainAssumption DEF Rotate, TypeOK, Keys
  <2>2. now \in Int
    BY <1>0, ChainAssumption DEF TypeOK
  <2> QED  BY <2>1, <2>2, <1>8, QuietPreserves DEF Rotate
<1>9. ASSUME Tick PROVE ChainInv'
  <2>1. TypeOK' /\ now <= now'
    BY <1>0, <1>9, ChainAssumption DEF Tick, TypeOK
  <2> QED  BY <2>1, <1>9, QuietPreserves DEF Tick
<1>10. ASSUME SetBack PROVE ChainInv'
  <2>1. TypeOK' /\ setBack'
    BY <1>0, <1>10, ChainAssumption DEF SetBack, TypeOK
  <2> QED  BY <2>1, <1>10, QuietPreserves DEF SetBack
<1>11. ASSUME UNCHANGED vars PROVE ChainInv'
  <2>1. TypeOK' /\ now \in Int
    BY <1>0, <1>11, ChainAssumption DEF vars, TypeOK
  <2> QED  BY <2>1, <1>11, QuietPreserves DEF vars
<1> QED
  BY <1>1, <1>2, <1>3, <1>3a, <1>4, <1>5, <1>6, <1>7, <1>8, <1>9, <1>10, <1>11 DEF Next

(* The invariant of the chain holds always.                                *)
THEOREM Invariance == Spec => []ChainInv
BY InitEstablishes, NextPreserves, PTL DEF Spec

(* The rows, heads and checkpoints always have their types.                *)
THEOREM TypeCorrect == Spec => []TypeOK
<1>1. ChainInv => TypeOK
  BY DEF ChainInv
<1> QED  BY <1>1, Invariance, PTL

(* No append, rotation or compaction (signed_receipt, compact_chain) ever  *)
(* leaves a chain with a gap that its checkpoint does not explain.         *)
THEOREM WholeChains == Spec => []ChainIsWhole
<1>1. ChainInv => ChainIsWhole
  BY DEF ChainInv
<1> QED  BY <1>1, Invariance, PTL

(* compact_chain never deletes the first receipt of an unfinished action.  *)
THEOREM OpenActionsKeepEvidence == Spec => []EvidenceKept
<1>1. ChainInv => EvidenceKept
  BY DEF ChainInv
<1> QED  BY <1>1, Invariance, PTL

(* While the clock is not set back, the comparison of head and newest row  *)
(* in signed_receipt never fails.                                          *)
THEOREM HeadsAreNewest == Spec => []AppendsGoOn
<1>1. ChainInv => AppendsGoOn
  <2> SUFFICES ASSUME ChainInv, ~setBack, NEW k \in Keys PROVE heads[k] = Newest(k)
    BY DEF AppendsGoOn
  <2> DEFINE R == RowsOf(k)
             newer(r, s) == r.at > s.at \/ (r.at = s.at /\ r.id >= s.id)
  <2>0. /\ \A r \in R : r.id <= heads[k]
        /\ heads[k] # 0 => \E r \in R : r.id = heads[k]
        /\ heads[k] \in Nat
    BY DEF ChainInv, ChainIsWhole, TypeOK
  <2>1. \A r \in R : r \in rows /\ r.id \in Nat /\ r.id # 0 /\ r.at \in Nat
    BY ChainAssumption DEF ChainInv, TypeOK, Row, RowsOf
  <2>2. CASE R = {}
    BY <2>0, <2>2 DEF Newest
  <2>3. CASE R # {}
    <3>1. PICK h \in R : h.id = heads[k]
      BY <2>0, <2>1, <2>3
    <3>2. \A s \in R : newer(h, s)
      <4> SUFFICES ASSUME NEW s \in R PROVE newer(h, s)
        OBVIOUS
      <4>1. s.id <= h.id
        BY <2>0, <3>1
      <4>2. s.at <= h.at
        BY <4>1, <2>1 DEF ChainInv, TimesOK
      <4> QED  BY <4>1, <4>2, <2>1
    <3> DEFINE g == CHOOSE r \in R : \A s \in R : newer(r, s)
    <3>3. g \in R /\ \A s \in R : newer(g, s)
      BY <3>2
    <3>4. Newest(k) = g.id
      BY <2>3 DEF Newest
    <3> HIDE DEF g
    <3>5. g.id = h.id
      <4>1. newer(g, h) /\ newer(h, g)
        BY <3>2, <3>3
      <4>2. g.id \in Nat /\ h.id \in Nat /\ g.at \in Nat /\ h.at \in Nat
        BY <2>1, <3>3
      <4> QED  BY <4>1, <4>2
    <3> QED  BY <3>1, <3>4, <3>5
  <2> QED  BY <2>2, <2>3
<1> QED  BY <1>1, Invariance, PTL

----------------------------------------------------------------------------
(* The verifier and the bounds of retention.                               *)

(* The table is finite, and a checkpoint names a row that was there.       *)
TableOK ==
    /\ IsFiniteSet(rows)
    /\ \A k \in Keys : checkpoint[k] # NoCheckpoint => checkpoint[k].prefix # 0

(* What the receipts of an action say of its state.                        *)
StatesOK ==
    \A r \in Loaded(rows) :
        /\ r.of \in Actions /\ state[r.of] # "absent"
        /\ r.kind # "pre_action" => state[r.of] = "closed"

(* An action has at most one first and one last receipt, in this order.    *)
PairsOK ==
    \A r, s \in Loaded(rows) : r.of = s.of =>
        /\ r.kind = "pre_action" /\ s.kind = "pre_action" => r = s
        /\ r.kind # "pre_action" /\ s.kind # "pre_action" => r = s
        /\ r.kind = "pre_action" /\ s.kind # "pre_action" => r.id < s.id

VerdictInv == TableOK /\ StatesOK /\ PairsOK

(* A nonempty set of naturals has a least element.                         *)
LEMMA LeastNat ==
    ASSUME NEW S, S \subseteq Nat, S # {}
    PROVE  \E x \in S : \A y \in S : x <= y
<1>1. PICK x \in S : \A y \in S : ~(<<y, x>> \in OpToRel(<, Nat))
  BY WFMin, NatLessThanWellFounded
<1>2. \A y \in S : ~(y < x)
  BY <1>1 DEF OpToRel
<1> QED  BY <1>2

(* Rows below another have a last one.                                     *)
LEMMA LastBefore ==
    ASSUME NEW S, \A s \in S : s.id \in Nat, NEW r, r.id \in Nat, Before(S, r) # {}
    PROVE  \E p \in Before(S, r) : \A t \in Before(S, r) : t.id <= p.id
<1> DEFINE D == {r.id - t.id : t \in Before(S, r)}
<1>1. \A t \in Before(S, r) : t.id \in Nat /\ t.id < r.id
  BY DEF Before
<1>2. D \subseteq Nat /\ D # {}
  BY <1>1
<1>3. PICK d \in D : \A e \in D : d <= e
  <2> HIDE DEF D
  <2> QED  BY <1>2, LeastNat
<1>4. PICK p \in Before(S, r) : d = r.id - p.id
  BY DEF D
<1>5. ASSUME NEW t \in Before(S, r) PROVE t.id <= p.id
  <2>1. r.id - p.id <= r.id - t.id
    BY <1>3, <1>4
  <2> QED  BY <2>1, <1>1
<1> QED  BY <1>4, <1>5

(* Rows have a first one.                                                  *)
LEMMA FirstRow ==
    ASSUME NEW S, \A s \in S : s.id \in Nat, S # {}
    PROVE  \E f \in S : \A s \in S : f.id <= s.id
<1> DEFINE D == {s.id : s \in S}
<1>1. D \subseteq Nat /\ D # {}
  OBVIOUS
<1>2. PICK d \in D : \A e \in D : d <= e
  <2> HIDE DEF D
  <2> QED  BY <1>1, LeastNat
<1> QED  BY <1>2

(* An append of the receipt of a call keeps the invariant.                 *)
LEMMA ReceiptKeeps ==
    ASSUME ChainInv, VerdictInv, NEW a \in Actions, NEW kind \in Kinds \ {"request_commit"},
           Insert(kind, a), UNCHANGED checkpoint, state' \in [Actions -> States],
           kind = "pre_action" => state[a] = "absent",
           state[a] \in {"absent", "open"},
           state'[a] # "absent", kind # "pre_action" => state'[a] = "closed",
           \A b \in Actions \ {a} :
               state'[b] = state[b] \/ (state[b] = "open" /\ state'[b] = "closed")
    PROVE  VerdictInv'
<1>1. PICK n : n = NewRow(kind, a)
  OBVIOUS
<1>2. rows' = rows \cup {n} /\ n.id = NextId /\ n.kind = kind /\ n.of = a
  BY <1>1 DEF Insert, NewRow
<1>3. \A r \in rows : r.id < n.id /\ r.id \in Nat /\ n.id \in Nat
  BY <1>2, NextIdIsGreater DEF ChainInv, TypeOK, Row
<1>4. Loaded(rows)' = Loaded(rows) \cup {n} /\ Loaded(rows) \subseteq rows
  BY <1>2 DEF Loaded
<1>5. TableOK'
  BY <1>2, FS_AddElement DEF VerdictInv, TableOK
<1>6. StatesOK'
  <2> SUFFICES ASSUME NEW r \in Loaded(rows) \cup {n}
               PROVE /\ r.of \in Actions /\ state'[r.of] # "absent"
                     /\ r.kind # "pre_action" => state'[r.of] = "closed"
    BY <1>4 DEF StatesOK
  <2>1. CASE r = n
    BY <2>1, <1>2
  <2>2. CASE r \in Loaded(rows) /\ r.of = a
    BY <2>2, <1>2 DEF VerdictInv, StatesOK, Kinds
  <2>3. CASE r \in Loaded(rows) /\ r.of # a
    BY <2>3 DEF VerdictInv, StatesOK
  <2> QED  BY <2>1, <2>2, <2>3
<1>7. PairsOK'
  <2>1. \A r \in Loaded(rows) : r.of = a => r.kind = "pre_action" /\ kind # "pre_action"
    BY DEF VerdictInv, StatesOK
  <2>2. \A r \in Loaded(rows) : r.of = n.of =>
            r.kind = "pre_action" /\ n.kind # "pre_action" /\ r.id < n.id
    BY <2>1, <1>2, <1>3, <1>4
  <2> QED  BY <1>4, <2>2 DEF VerdictInv, PairsOK
<1> QED  BY <1>5, <1>6, <1>7 DEF VerdictInv

(* So does every other step.                                               *)
LEMMA VerdictNext == ChainInv /\ VerdictInv /\ [Next]_vars => VerdictInv'
<1> SUFFICES ASSUME ChainInv, VerdictInv, [Next]_vars PROVE VerdictInv'
  OBVIOUS
<1>0. TypeOK /\ States = {"absent", "open", "quarantined", "closed"}
      /\ Kinds = {"pre_action", "post_action", "refusal", "request_commit"}
  BY DEF ChainInv, Kinds, States
<1>1. ASSUME NEW a \in Actions, Prepare(a) PROVE VerdictInv'
  <2>1. /\ Insert("pre_action", a) /\ state' = [state EXCEPT ![a] = "open"]
        /\ UNCHANGED checkpoint /\ state[a] = "absent"
    BY <1>1 DEF Prepare, SignedReceipt
  <2>2. state' \in [Actions -> States]
    BY <2>1, <1>0 DEF TypeOK
  <2>3. state'[a] = "open" /\ \A b \in Actions \ {a} : state'[b] = state[b]
    BY <2>1, <1>0 DEF TypeOK
  <2> QED  BY <2>1, <2>2, <2>3, <1>0, ReceiptKeeps
<1>2. ASSUME NEW a \in Actions, Refuse(a) PROVE VerdictInv'
  <2>1. /\ Insert("refusal", a) /\ state' = [state EXCEPT ![a] = "closed"]
        /\ UNCHANGED checkpoint /\ state[a] = "absent"
    BY <1>2 DEF Refuse, SignedReceipt
  <2>2. state' \in [Actions -> States]
    BY <2>1, <1>0 DEF TypeOK
  <2>3. state'[a] = "closed" /\ \A b \in Actions \ {a} : state'[b] = state[b]
    BY <2>1, <1>0 DEF TypeOK
  <2> QED  BY <2>1, <2>2, <2>3, <1>0, ReceiptKeeps
<1>3. ASSUME NEW a \in Actions, Complete(a) PROVE VerdictInv'
  <2>1. /\ Insert("post_action", a) /\ state' = [state EXCEPT ![a] = "closed"]
        /\ UNCHANGED checkpoint /\ state[a] = "open"
    BY <1>3 DEF Complete, SignedReceipt
  <2>2. state' \in [Actions -> States]
    BY <2>1, <1>0 DEF TypeOK
  <2>3. state'[a] = "closed" /\ \A b \in Actions \ {a} : state'[b] = state[b]
    BY <2>1, <1>0 DEF TypeOK
  <2> QED  BY <2>1, <2>2, <2>3, <1>0, ReceiptKeeps
<1>3a. ASSUME NEW a \in Actions, ClosePending(a) PROVE VerdictInv'
  <2>1. /\ Insert("refusal", a) /\ state' = [state EXCEPT ![a] = "closed"]
        /\ UNCHANGED checkpoint /\ state[a] = "open"
    BY <1>3a DEF ClosePending, SignedReceipt
  <2>2. state' \in [Actions -> States]
    BY <2>1, <1>0 DEF TypeOK
  <2>3. state'[a] = "closed" /\ \A b \in Actions \ {a} : state'[b] = state[b]
    BY <2>1, <1>0 DEF TypeOK
  <2> QED  BY <2>1, <2>2, <2>3, <1>0, ReceiptKeeps
<1>4. ASSUME NEW a \in Actions, NEW old \in Actions, CompleteReconciling(a, old)
      PROVE  VerdictInv'
  <2>1. /\ Insert("post_action", a) /\ UNCHANGED checkpoint
        /\ state' = [state EXCEPT ![a] = "closed", ![old] = "closed"]
        /\ state[a] = "open" /\ state[old] = "open"
    BY <1>4 DEF CompleteReconciling, SignedReceipt
  <2>2. state' \in [Actions -> States]
    BY <2>1, <1>0 DEF TypeOK
  <2>3. /\ state'[a] = "closed" /\ state'[old] = "closed"
        /\ \A b \in Actions \ {a, old} : state'[b] = state[b]
    BY <2>1, <1>0 DEF TypeOK
  <2> QED  BY <2>1, <2>2, <2>3, <1>0, ReceiptKeeps
<1>5. ASSUME NEW q \in Requests, AppendRequest(q) PROVE VerdictInv'
  <2>1. rows' = rows \cup {NewRow("request_commit", q)} /\ UNCHANGED <<checkpoint, state>>
    BY <1>5 DEF AppendRequest, Insert, NewRow
  <2>2. Loaded(rows)' = Loaded(rows)
    BY <2>1 DEF Loaded, NewRow
  <2>3. IsFiniteSet(rows')
    BY <2>1, FS_AddElement DEF VerdictInv, TableOK
  <2> QED  BY <2>1, <2>2, <2>3 DEF VerdictInv, TableOK, StatesOK, PairsOK
<1>6. ASSUME NEW k \in Keys, Retain(k) PROVE VerdictInv'
  <2>1. PICK c \in RowsOf(k) : CompactChain(k, c)
    BY <1>6 DEF Retain, Cutoffs, Deletable
  <2>2. PICK p \in Before(RowsOf(k), c) :
            checkpoint' = [checkpoint EXCEPT ![k] = [cutoff |-> c.id, prefix |-> p.id]]
    BY <2>1 DEF CompactChain
  <2>3. rows' = rows \ Before(RowsOf(k), c) /\ UNCHANGED state
    BY <2>1 DEF CompactChain
  <2>4. p.id # 0
    BY <1>0 DEF TypeOK, Row, RowsOf, Before
  <2>5. IsFiniteSet(rows')
    BY <2>3, FS_Difference DEF VerdictInv, TableOK
  <2>6. TableOK'
    BY <2>2, <2>4, <2>5, <1>0 DEF VerdictInv, TableOK, TypeOK
  <2>7. Loaded(rows)' \subseteq Loaded(rows)
    BY <2>3 DEF Loaded
  <2> QED  BY <2>3, <2>6, <2>7 DEF VerdictInv, StatesOK, PairsOK
<1>7. ASSUME NEW a \in Actions, Quarantine(a) PROVE VerdictInv'
  <2>1. UNCHANGED <<rows, checkpoint>> /\ state[a] = "open"
        /\ state' = [state EXCEPT ![a] = "quarantined"]
    BY <1>7 DEF Quarantine
  <2>2. StatesOK'
    BY <2>1, <1>0 DEF VerdictInv, StatesOK, TypeOK, Loaded
  <2> QED  BY <2>1, <2>2 DEF VerdictInv, TableOK, PairsOK, Loaded
<1>8. ASSUME UNCHANGED <<rows, checkpoint, state>> PROVE VerdictInv'
  BY <1>8 DEF VerdictInv, TableOK, StatesOK, PairsOK, Loaded
<1> QED
  BY <1>1, <1>2, <1>3, <1>3a, <1>4, <1>5, <1>6, <1>7, <1>8
     DEF Next, Rotate, Tick, SetBack, vars

(* The first state satisfies it.                                           *)
LEMMA VerdictInit == Init => VerdictInv
BY FS_EmptySet DEF Init, VerdictInv, TableOK, StatesOK, PairsOK, Loaded

(* What the receipts of a call say of its state, and which of them there   *)
(* can be (prepare, complete, refuse), whatever was compacted.             *)
THEOREM VerdictInvariance == Spec => [](ChainInv /\ VerdictInv)
BY Invariance, VerdictInit, VerdictNext, PTL DEF Spec

(* The rows of one key, when no receipt of a model request lies among      *)
(* them, are linked without a gap from the checkpoint on.                  *)
LEMMA OneKeyLinks ==
    ASSUME ChainInv, NEW k \in Keys, NEW r \in RowsOf(k)
    PROVE  RowStatus(RowsOf(k), r) \in {"verified", "verified_pruned"}
<1> DEFINE h == RowsOf(k)
           before == Before(h, r)
           p == CHOOSE s \in before : \A t \in before : t.id <= s.id
           first == {f \in h : Before(h, f) = {}}
<1>1. \A s \in h : s \in rows /\ s.id \in Nat /\ s.id # 0 /\ s.key = k
  BY DEF ChainInv, TypeOK, Row, RowsOf
<1>2. IF before = {}
      THEN /\ r.prev = checkpoint[k].prefix
           /\ checkpoint[k] # NoCheckpoint => checkpoint[k].cutoff = r.id
      ELSE \E q \in before : q.id = r.prev /\ \A s \in before : s.id <= q.id
  BY DEF ChainInv, ChainIsWhole
<1>3. CASE before = {}
  <2>1. first = {r}
    <3>1. ASSUME NEW f \in first PROVE f = r
      <4>1. ~(f.id < r.id) /\ ~(r.id < f.id)
        BY <1>3 DEF Before
      <4>2. f.id = r.id
        BY <4>1, <1>1
      <4> QED  BY <4>2, <1>1 DEF ChainInv, IdsOK
    <3> QED  BY <3>1, <1>3
  <2>2. r.prev = PrefixFor(h)
    <3>1. CASE checkpoint[k] = NoCheckpoint
      <4>1. checkpoint[r.key].cutoff = 0 /\ r.prev = 0
        BY <3>1, <1>1, <1>2, <1>3 DEF NoCheckpoint
      <4>2. ~\E f \in first : checkpoint[f.key].cutoff = f.id
        BY <4>1, <2>1, <1>1
      <4> QED  BY <4>1, <4>2 DEF PrefixFor
    <3>2. CASE checkpoint[k] # NoCheckpoint
      <4>1. checkpoint[r.key].cutoff = r.id /\ r.prev = checkpoint[r.key].prefix
        BY <3>2, <1>1, <1>2, <1>3
      <4>2. {checkpoint[f.key].prefix : f \in first} = {r.prev}
        BY <4>1, <2>1
      <4>3. \E f \in first : checkpoint[f.key].cutoff = f.id
        BY <4>1, <2>1
      <4>4. PrefixFor(h) = CHOOSE q \in {checkpoint[f.key].prefix : f \in first} : TRUE
        BY <4>3 DEF PrefixFor
      <4> QED  BY <4>2, <4>4
    <3> QED  BY <3>1, <3>2
  <2> QED  BY <2>2, <1>3 DEF RowStatus
<1>4. CASE before # {}
  <2>1. PICK q \in before : q.id = r.prev /\ \A s \in before : s.id <= q.id
    BY <1>2, <1>4
  <2>2. p \in before /\ \A t \in before : t.id <= p.id
    BY <2>1
  <2>3. p \in h /\ q \in h
    BY <2>1, <2>2 DEF Before
  <2>4. p.key = r.key /\ r.prev = p.id
    BY <2>1, <2>2, <2>3, <1>1
  <2>5. RowStatus(h, r) = "verified"
    BY <2>4, <1>4 DEF RowStatus
  <2> QED  BY <2>5
<1> QED  BY <1>3, <1>4

(* The receipts of an action pair up.                                      *)
LEMMA PairsNeverBroken ==
    ASSUME TypeOK, VerdictInv, NEW h, h \subseteq Loaded(rows), NEW a
    PROVE  PairStatus(h, a) # "broken"
<1> DEFINE pre == {r \in h : r.of = a /\ r.kind = "pre_action"}
           post == {r \in h : r.of = a /\ r.kind # "pre_action"}
<1>1. \A r, s \in pre : r = s
  BY DEF VerdictInv, PairsOK
<1>2. \A r, s \in post : r = s
  BY DEF VerdictInv, PairsOK
<1>3. \A r \in pre, s \in post : ~(s.id <= r.id)
  <2>1. \A r \in h : r.id \in Nat
    BY DEF TypeOK, Row, Loaded
  <2>2. \A r \in pre, s \in post : r.id < s.id
    BY DEF VerdictInv, PairsOK
  <2> QED  BY <2>1, <2>2
<1>4. Cardinality(pre) \in {0, 1}
  <2> HIDE DEF pre
  <2>1. pre = {} \/ \E x \in pre : pre = {x}
    BY <1>1
  <2> QED  BY <2>1, FS_EmptySet, FS_Singleton
<1>5. Cardinality(post) \in {0, 1}
  <2> HIDE DEF post
  <2>1. post = {} \/ \E x \in post : post = {x}
    BY <1>2
  <2> QED  BY <2>1, FS_EmptySet, FS_Singleton
<1> QED  BY <1>3, <1>4, <1>5 DEF PairStatus

Statuses == {"broken", "unverified", "pending", "verified_pruned", "verified"}

Met(h) == {RowStatus(h, r) : r \in h} \cup {PairStatus(h, r.of) : r \in h}

(* The verdict is one of the statuses met, and "verified" only when no     *)
(* other was.                                                              *)
LEMMA VerdictIsWorst ==
    ASSUME NEW S, Loaded(S) # {}
    PROVE  /\ Verdict(S) \in Met(Loaded(S))
           /\ Verdict(S) = "verified" => Met(Loaded(S)) = {"verified"}
<1> DEFINE h == Loaded(S)
           M == Met(h)
           worst(i) == Severity[i] \in M /\ \A j \in 1..(i - 1) : Severity[j] \notin M
           w == CHOOSE i \in 1..5 : worst(i)
<1>1. M \subseteq Statuses /\ M # {}
  <2>1. \A r \in h : RowStatus(h, r) \in Statuses
    BY DEF RowStatus, Statuses
  <2>2. \A r \in h : PairStatus(h, r.of) \in Statuses
    BY DEF PairStatus, Statuses
  <2> QED  BY <2>1, <2>2 DEF Met
<1>2. /\ Severity[1] = "broken" /\ Severity[2] = "unverified" /\ Severity[3] = "pending"
      /\ Severity[4] = "verified_pruned" /\ Severity[5] = "verified"
  BY DEF Severity
<1>3. Verdict(S) = Severity[w]
  BY DEF Verdict, Met
<1> HIDE DEF M
<1>4. \E i \in 1..5 : worst(i)
  <2>1. CASE "broken" \in M
    <3>1. worst(1)
      BY <2>1, <1>2
    <3> QED  BY <3>1
  <2>2. CASE "broken" \notin M /\ "unverified" \in M
    <3>1. \A j \in 1..(2 - 1) : j = 1
      OBVIOUS
    <3>2. worst(2)
      BY <2>2, <3>1, <1>2
    <3> QED  BY <3>2
  <2>3. CASE "broken" \notin M /\ "unverified" \notin M /\ "pending" \in M
    <3>1. \A j \in 1..(3 - 1) : j = 1 \/ j = 2
      OBVIOUS
    <3>2. worst(3)
      BY <2>3, <3>1, <1>2
    <3> QED  BY <3>2
  <2>4. CASE /\ "broken" \notin M /\ "unverified" \notin M /\ "pending" \notin M
             /\ "verified_pruned" \in M
    <3>1. \A j \in 1..(4 - 1) : j = 1 \/ j = 2 \/ j = 3
      OBVIOUS
    <3>2. worst(4)
      BY <2>4, <3>1, <1>2
    <3> QED  BY <3>2
  <2>5. CASE /\ "broken" \notin M /\ "unverified" \notin M /\ "pending" \notin M
             /\ "verified_pruned" \notin M
    <3>1. "verified" \in M
      BY <2>5, <1>1 DEF Statuses
    <3>2. \A j \in 1..(5 - 1) : j = 1 \/ j = 2 \/ j = 3 \/ j = 4
      OBVIOUS
    <3>3. worst(5)
      BY <2>5, <3>1, <3>2, <1>2
    <3> QED  BY <3>3
  <2> QED  BY <2>1, <2>2, <2>3, <2>4, <2>5
<1>5. w \in 1..5 /\ worst(w)
  BY <1>4
<1> HIDE DEF w
<1>6. ASSUME Severity[w] = "verified" PROVE M = {"verified"}
  <2>1. w = 5
    BY <1>2, <1>5, <1>6
  <2>2. \A j \in 1..4 : Severity[j] \notin M
    BY <1>5, <2>1
  <2>3. /\ "broken" \notin M /\ "unverified" \notin M /\ "pending" \notin M
        /\ "verified_pruned" \notin M
    BY <2>2, <1>2
  <2> QED  BY <2>3, <1>1 DEF Statuses
<1> QED  BY <1>3, <1>5, <1>6 DEF M

(* A key whose loaded rows all verify was never compacted: its first       *)
(* loaded row follows nothing.                                             *)
LEMMA VerifiedIsUncompacted ==
    ASSUME ChainInv, VerdictInv, NEW k \in Keys,
           \E r \in Loaded(rows) : r.key = k,
           \A r \in Loaded(rows) : RowStatus(Loaded(rows), r) = "verified"
    PROVE  checkpoint[k] = NoCheckpoint
<1> DEFINE h == Loaded(rows)
           mine == {r \in h : r.key = k}
<1>1. \A s \in rows : s.id \in Nat /\ s.id # 0
  BY DEF ChainInv, TypeOK, Row
<1>2. h \subseteq rows
  BY DEF Loaded
<1>3. PICK g \in mine : \A s \in mine : g.id <= s.id
  <2>1. mine # {} /\ \A s \in mine : s.id \in Nat
    BY <1>1, <1>2
  <2> HIDE DEF mine
  <2> QED  BY <2>1, FirstRow
<1> DEFINE before == Before(h, g)
           p == CHOOSE s \in before : \A t \in before : t.id <= s.id
<1>4. g \in h /\ g.key = k /\ g \in RowsOf(k) /\ RowStatus(h, g) = "verified"
  BY <1>2, <1>3 DEF RowsOf
<1>5. g.prev = 0
  <2>1. CASE before = {}
    BY <2>1, <1>4 DEF RowStatus
  <2>2. CASE before # {}
    <3>1. \E q \in before : \A t \in before : t.id <= q.id
      BY <2>2, <1>1, <1>2, <1>4, LastBefore
    <3>2. p \in before
      BY <3>1
    <3>3. p \in h /\ p.id < g.id
      BY <3>2 DEF Before
    <3>4. p.key # g.key
      BY <3>3, <1>1, <1>2, <1>3, <1>4
    <3> QED  BY <3>4, <2>2, <1>4 DEF RowStatus
  <2> QED  BY <2>1, <2>2
<1>6. Before(RowsOf(k), g) = {} /\ g.prev = checkpoint[k].prefix
  <2>1. IF Before(RowsOf(k), g) = {} THEN g.prev = checkpoint[k].prefix
        ELSE \E q \in Before(RowsOf(k), g) : q.id = g.prev
    BY <1>4 DEF ChainInv, ChainIsWhole
  <2>2. \A q \in Before(RowsOf(k), g) : q.id # 0
    BY <1>1 DEF Before, RowsOf
  <2> QED  BY <2>1, <2>2, <1>5
<1> QED  BY <1>5, <1>6 DEF VerdictInv, TableOK

(* The verifier calls no key's chain broken that only its own operations   *)
(* wrote, and calls verified only what is complete (verify_chain,          *)
(* load_closure_rows), whatever was appended, rotated or compacted.        *)
THEOREM VerifierTellsTheTruth == Spec => []VerdictIsTrue
<1>1. ASSUME ChainInv, VerdictInv PROVE VerdictIsTrue
  <2>1. ASSUME NEW k \in Keys, RowsOf(k) = Loaded(RowsOf(k))
        PROVE  Verdict(RowsOf(k)) # "broken"
    <3>1. CASE RowsOf(k) = {}
      BY <2>1, <3>1 DEF Verdict
    <3>2. CASE RowsOf(k) # {}
      <4>1. Verdict(RowsOf(k)) \in Met(RowsOf(k))
        BY <2>1, <3>2, VerdictIsWorst
      <4>2. RowsOf(k) \subseteq Loaded(rows)
        BY <2>1 DEF RowsOf, Loaded
      <4>3. \A r \in RowsOf(k) : RowStatus(RowsOf(k), r) # "broken"
        BY <1>1, OneKeyLinks
      <4>4. \A r \in RowsOf(k) : PairStatus(RowsOf(k), r.of) # "broken"
        BY <1>1, <4>2, PairsNeverBroken DEF ChainInv
      <4> QED  BY <4>1, <4>3, <4>4 DEF Met
    <3> QED  BY <3>1, <3>2
  <2>2. ASSUME Verdict(rows) = "verified", NEW r \in Loaded(rows)
        PROVE  /\ checkpoint[r.key] = NoCheckpoint
               /\ \E s, t \in rows :
                      /\ s.of = r.of /\ s.kind = "pre_action"
                      /\ t.of = r.of /\ t.kind \in {"post_action", "refusal"}
                      /\ s.id < t.id
    <3> DEFINE h == Loaded(rows)
    <3>1. Met(h) = {"verified"}
      BY <2>2, VerdictIsWorst
    <3>2. \A s \in h : RowStatus(h, s) = "verified" /\ PairStatus(h, s.of) = "verified"
      BY <3>1 DEF Met
    <3>3. h \subseteq rows /\ r.key \in Keys
      BY <1>1, <2>2 DEF Loaded, ChainInv, TypeOK, Row
    <3>4. checkpoint[r.key] = NoCheckpoint
      BY <1>1, <2>2, <3>2, <3>3, VerifiedIsUncompacted
    <3> DEFINE pre == {s \in h : s.of = r.of /\ s.kind = "pre_action"}
               post == {s \in h : s.of = r.of /\ s.kind # "pre_action"}
    <3>5. r \in pre \/ r \in post
      BY <2>2
    <3>6. pre # {} /\ post # {}
      BY <2>2, <3>2, <3>5 DEF PairStatus
    <3>7. PICK s \in pre, t \in post : TRUE
      BY <3>6
    <3>8. t.kind \in {"post_action", "refusal"} /\ s.id < t.id
      <4>1. t.kind \in Kinds
        BY <1>1, <3>3, <3>7 DEF ChainInv, TypeOK, Row
      <4>2. t.kind # "request_commit" /\ t.kind # "pre_action"
        BY <3>7 DEF Loaded
      <4>3. s.id < t.id
        BY <1>1, <3>7 DEF VerdictInv, PairsOK
      <4> QED  BY <4>1, <4>2, <4>3 DEF Kinds
    <3> QED  BY <3>3, <3>4, <3>7, <3>8
  <2> QED  BY <2>1, <2>2 DEF VerdictIsTrue
<1> QED  BY <1>1, VerdictInvariance, PTL

RetentionGoal(k) ==
    \/ Cardinality(Deletable(k)') = 1
    \/ /\ Cardinality(RowsOf(k)') <= Budget
       /\ \A r \in Deletable(k)' : r.at >= now - Age

(* What a compaction takes are as many deletable rows as KeepFrom says.    *)
LEMMA RetainMeetsBounds ==
    ASSUME ChainInv, VerdictInv, ~setBack, NEW k \in Keys, Retain(k)
    PROVE  RetentionGoal(k)
<1> DEFINE R == RowsOf(k)
           D == Deletable(k)
           young == {r \in D : r.at >= now - Age}
           old == {r \in D : \A s \in young : r.id < s.id}
           over == Greatest(Cardinality(R) - Budget, 0)
           keep == KeepFrom(k)
<1>1. PICK c \in D : /\ CompactChain(k, c) /\ keep > 0
                     /\ Cardinality(Before(D, c)) = keep
  BY DEF Retain, Cutoffs
<1> DEFINE P == Before(D, c)
<1>2. /\ ~CompactBlocked(Before(R, c)) /\ rows' = rows \ Before(R, c)
      /\ UNCHANGED <<state, now>>
  BY <1>1 DEF CompactChain
<1>3. D \subseteq R /\ R \subseteq rows /\ IsFiniteSet(rows)
  BY DEF Deletable, RowsOf, VerdictInv, TableOK
<1>4. \A r \in rows : r.id \in Nat /\ r.at \in Nat
  BY ChainAssumption DEF ChainInv, TypeOK, Row
<1>5. Before(R, c) = P
  BY <1>2 DEF Before, Deletable, CompactBlocked
<1>6. RowsOf(k)' = R \ P
  BY <1>2, <1>5 DEF RowsOf
<1>7. Deletable(k)' = D \ P
  BY <1>2, <1>6 DEF Deletable, Blocked
<1>8. /\ IsFiniteSet(R) /\ IsFiniteSet(D) /\ IsFiniteSet(P) /\ IsFiniteSet(old)
  <2>1. P \subseteq rows /\ old \subseteq rows /\ D \subseteq rows
    BY <1>3 DEF Before
  <2> HIDE DEF P, old, D, R
  <2> QED  BY <2>1, <1>3, FS_Subset
<1>9. Cardinality(R \ P) = Cardinality(R) - keep /\ Cardinality(D \ P) = Cardinality(D) - keep
  <2>1. R \cap P = P /\ D \cap P = P
    BY <1>3 DEF Before
  <2>2. /\ Cardinality(R \ P) = Cardinality(R) - Cardinality(R \cap P)
        /\ Cardinality(D \ P) = Cardinality(D) - Cardinality(D \cap P)
    <3> HIDE DEF P, D, R
    <3> QED  BY <1>8, FS_Difference
  <2> QED  BY <2>1, <2>2, <1>1
<1>10. /\ Cardinality(R) \in Nat /\ Cardinality(D) \in Nat /\ Cardinality(old) \in Nat
       /\ Cardinality(P) \in Nat /\ Budget \in Nat /\ keep = Cardinality(P)
  <2> HIDE DEF P, old, D, R, keep
  <2> QED  BY <1>1, <1>8, FS_CardinalityType, ChainAssumption DEF P
<1>11. keep = Least(Greatest(Cardinality(old), over), Greatest(Cardinality(D) - 1, 0))
  BY DEF KeepFrom
<1>12. \/ Cardinality(D) - keep = 1
       \/ Cardinality(old) <= keep /\ Cardinality(R) - keep <= Budget
  <2> HIDE DEF P, old, D, R, keep
  <2> QED  BY <1>1, <1>10, <1>11 DEF Least, Greatest
<1>13. CASE Cardinality(D) - keep = 1
  BY <1>7, <1>9, <1>13 DEF RetentionGoal
<1>14. CASE Cardinality(old) <= keep /\ Cardinality(R) - keep <= Budget
  <2>1. ASSUME NEW r \in D \ P, ~(r.at >= now - Age) PROVE FALSE
    <3>1. now \in Int /\ Age \in Int /\ r.at \in Nat
      BY <1>3, <1>4, <2>1, ChainAssumption DEF ChainInv, TypeOK
    <3>2. ASSUME NEW s \in D, s.id <= r.id PROVE s \in old
      <4>1. ASSUME NEW t \in young PROVE s.id < t.id
        <5>1. s.id \in Nat /\ t.id \in Nat /\ r.id \in Nat /\ t.at \in Nat
          BY <1>3, <1>4, <2>1
        <5>2. t.id <= r.id => t.at <= r.at
          BY <1>3, <2>1 DEF ChainInv, TimesOK
        <5> QED  BY <5>1, <5>2, <3>1, <3>2, <2>1
      <4> QED  BY <4>1
    <3>3. c.id <= r.id /\ r.id <= r.id
      BY <1>3, <1>4, <2>1 DEF Before
    <3>4. P \cup {r} \subseteq old
      <4>1. ASSUME NEW s \in P PROVE s \in D /\ s.id <= r.id
        BY <4>1, <3>3, <1>3, <1>4, <2>1 DEF Before
      <4> HIDE DEF old
      <4> QED  BY <4>1, <3>2, <3>3, <2>1
    <3>5. Cardinality(P \cup {r}) = keep + 1
      <4> HIDE DEF P, keep, D
      <4> QED  BY <1>8, <1>10, <2>1, FS_AddElement
    <3>6. Cardinality(P \cup {r}) <= Cardinality(old)
      <4> HIDE DEF P, old
      <4> QED  BY <3>4, <1>8, FS_Subset
    <3> HIDE DEF old, keep, P
    <3> QED  BY <3>5, <3>6, <1>10, <1>14
  <2> QED  BY <2>1, <1>6, <1>7, <1>9, <1>14 DEF RetentionGoal
<1> QED  BY <1>12, <1>13, <1>14

(* A compaction ends within both bounds, or with one row that may go at    *)
(* all (retention_candidates, compact_chain), in a table of any size.      *)
THEOREM RetentionMeetsBounds == Spec => RetentionBounds
<1>1. ASSUME ChainInv, VerdictInv, [Next]_vars
      PROVE  [\A k \in Keys : checkpoint'[k] # checkpoint[k] /\ ~setBack => RetentionGoal(k)]_vars
  <2> SUFFICES ASSUME NEW k \in Keys, checkpoint'[k] # checkpoint[k], ~setBack
               PROVE  RetentionGoal(k)
    OBVIOUS
  <2>1. PICK j \in Keys : Retain(j)
    BY <1>1 DEF Next, Prepare, Refuse, Complete, ClosePending, Quarantine, CompleteReconciling, AppendRequest,
         Rotate, Tick, SetBack, vars
  <2>2. j = k
    BY <1>1, <2>1 DEF Retain, CompactChain, ChainInv, TypeOK
  <2> QED  BY <1>1, <2>1, <2>2, RetainMeetsBounds
<1>2. ASSUME ChainInv, VerdictInv, [Next]_vars
      PROVE  [\A k \in Keys : checkpoint'[k] # checkpoint[k] /\ ~setBack =>
                 \/ Cardinality(Deletable(k)') = 1
                 \/ /\ Cardinality(RowsOf(k)') <= Budget
                    /\ \A r \in Deletable(k)' : r.at >= now - Age]_vars
  BY <1>1, <1>2 DEF RetentionGoal
<1> QED  BY <1>2, VerdictInvariance, PTL DEF Spec, RetentionBounds

====
