---------------------- MODULE StoryboardVersionsProofs ----------------------
(* Proofs about the versions of a storyboard: what the revision of each     *)
(* protects as long as no edit goes past it.                                *)
EXTENDS StoryboardVersions, FiniteSetTheorems, TLAPS

CheckedOps == EditOps \cup {"submit", "lock"}
DeriveOps == {"fork", "upgrade"}

\* The states an operation starts from.
From(op) == IF op = "lock" THEN {"draft", "reviewing"} ELSE {"draft"}

\* A transaction is about a version that exists, and read one that existed.
OpenInv ==
    \A w \in Workers : tx[w].op # "none" => Exists(tx[w].v) /\ tx[w].row.status # "none"

\* The key of a fork or an upgrade is a key.
KeyInv == \A w \in Workers : tx[w].op \in DeriveOps => tx[w].key \in Keys

\* The row that an operation writes back is of the same origin as the row it replaces.
OriginInv ==
    \A w \in Workers : tx[w].op \in CheckedOps => tx[w].row.parent = row[tx[w].v].parent

\* What holds with or without the revision's protection.
BaseInv == TypeOK /\ OpenInv /\ KeyInv /\ OriginInv

\* What a transaction has read is as old as its revision says: when the revision is
\* still the same, so is the row, and so are the shots an edit has read.
SeenInv ==
    \A w \in Workers : tx[w].op \in CheckedOps /\ tx[w].v \notin unguarded =>
        /\ tx[w].rev <= tx[w].row.revision
        /\ tx[w].row.revision <= row[tx[w].v].revision
        /\ tx[w].row.status \in From(tx[w].op)
        /\ row[tx[w].v].revision = tx[w].row.revision =>
              /\ row[tx[w].v] = tx[w].row
              /\ tx[w].op \in EditOps => shots[tx[w].v] = tx[w].shots

\* A fork or upgrade copies the shots of a version that is locked and stays so.
CopyInv ==
    \A w \in Workers : tx[w].op \in DeriveOps /\ tx[w].v \notin unguarded =>
        row[tx[w].v].status = "locked" /\ shots[tx[w].v] = tx[w].shots

IInv == BaseInv /\ SeenInv /\ CopyInv /\ DerivedMatchesParent
-----------------------------------------------------------------------------
(* Types.                                                                  *)

LEMMA NoTxType == NoTx \in Tx /\ Absent \in Row /\ Untouched \in Content
<1>1. (CHOOSE s \in Shots : TRUE) \in Shots
  BY VersionsAssumption
<1>2. Absent \in Row
  BY DEF Absent, Row
<1>3. Untouched \in Content
  BY VersionsAssumption DEF Untouched, Content
<1>4. [draft |-> None, locked |-> None] \in Board
  BY DEF Board
<1>5. NoTx \in Tx
  BY <1>1, <1>2, <1>3, <1>4, VersionsAssumption DEF NoTx, Tx
<1> QED
  BY <1>2, <1>3, <1>5

LEMMA InitTypes == Init => TypeOK
<1> SUFFICES ASSUME Init PROVE TypeOK
  OBVIOUS
<1>1. row \in [VersionIds -> Row]
  <2>1. [Absent EXCEPT !.status = "draft", !.no = 1] \in Row
    BY NoTxType DEF Row
  <2> QED
    BY <2>1, NoTxType DEF Init
<1>2. shots \in [VersionIds -> Content] /\ copied \in [VersionIds -> Content]
  BY NoTxType DEF Init
<1>3. board \in Board
  BY VersionsAssumption DEF Init, Board
<1>4. jobs \in [JobTypes -> [Keys -> VersionIds \cup {None}]]
  BY DEF Init
<1>5. tx \in [Workers -> Tx]
  BY NoTxType DEF Init
<1>6. unguarded \in SUBSET VersionIds
  BY DEF Init
<1> QED
  BY <1>1, <1>2, <1>3, <1>4, <1>5, <1>6 DEF TypeOK

LEMMA TxFacts ==
  ASSUME TypeOK, NEW w \in Workers
  PROVE  /\ tx[w] \in Tx
         /\ tx[w].v \in VersionIds /\ tx[w].row \in Row /\ row[tx[w].v] \in Row
         /\ tx[w].shots \in Content /\ shots[tx[w].v] \in Content
         /\ tx[w].rev \in Nat /\ tx[w].no \in Nat /\ tx[w].board \in Board
         /\ tx[w].shot \in Shots /\ tx[w].val \in Values /\ tx[w].at \in VersionIds
         /\ tx[w].others \in SUBSET (VersionIds \X Shots)
         /\ tx[w].row.revision \in Nat /\ row[tx[w].v].revision \in Nat
  BY DEF TypeOK, Tx, Row

LEMMA CloseType ==
  ASSUME TypeOK, NEW w \in Workers, Close(w)
  PROVE  tx' \in [Workers -> Tx]
  BY NoTxType DEF TypeOK, Close

LEMMA OpenTypes ==
  ASSUME TypeOK, NEW w \in Workers, NEW q \in Tx, Open(w, q)
  PROVE  TypeOK'
  BY DEF TypeOK, Open, db

\* The transactions that begin.
EditTx(op, v, s, x, r) ==
    [NoTx EXCEPT !.op = op, !.v = v, !.shot = s, !.val = x, !.rev = r,
                 !.row = row[v], !.shots = shots[v]]
MergeTx(v, at, s, others, x, r) ==
    [NoTx EXCEPT !.op = "merge", !.v = v, !.at = at, !.shot = s, !.val = x,
                 !.others = others, !.rev = r, !.row = row[v], !.shots = shots[v]]
SubmitTx(v) == [NoTx EXCEPT !.op = "submit", !.v = v, !.rev = row[v].revision, !.row = row[v]]
LockTx(v, k) ==
    [NoTx EXCEPT !.op = "lock", !.v = v, !.rev = row[v].revision, !.key = k,
                 !.row = row[v], !.board = board]
DeriveTx(op, v, k, n) ==
    [NoTx EXCEPT !.op = op, !.v = v, !.key = k, !.no = n, !.row = row[v],
                 !.shots = shots[v], !.board = board]

LEMMA EditTxType ==
  ASSUME TypeOK, NEW op \in EditOps, NEW v \in VersionIds, NEW s \in Shots, NEW x \in Values, NEW r \in Nat
  PROVE  /\ EditTx(op, v, s, x, r) \in Tx
         /\ EditTx(op, v, s, x, r).op = op /\ EditTx(op, v, s, x, r).v = v
         /\ EditTx(op, v, s, x, r).rev = r /\ EditTx(op, v, s, x, r).row = row[v]
         /\ EditTx(op, v, s, x, r).shots = shots[v]
  BY NoTxType DEF TypeOK, EditTx, Tx

LEMMA MergeTxType ==
  ASSUME TypeOK, NEW v \in VersionIds, NEW at \in VersionIds, NEW s \in Shots,
         NEW others \in SUBSET (VersionIds \X Shots), NEW x \in Values, NEW r \in Nat
  PROVE  /\ MergeTx(v, at, s, others, x, r) \in Tx
         /\ MergeTx(v, at, s, others, x, r).op = "merge" /\ MergeTx(v, at, s, others, x, r).v = v
         /\ MergeTx(v, at, s, others, x, r).rev = r
         /\ MergeTx(v, at, s, others, x, r).row = row[v]
         /\ MergeTx(v, at, s, others, x, r).shots = shots[v]
<1>1. row[v] \in Row /\ shots[v] \in Content
  BY DEF TypeOK
<1> QED
  BY <1>1, NoTxType DEF MergeTx, Tx, EditOps

LEMMA SubmitTxType ==
  ASSUME TypeOK, NEW v \in VersionIds
  PROVE  /\ SubmitTx(v) \in Tx
         /\ SubmitTx(v).op = "submit" /\ SubmitTx(v).v = v
         /\ SubmitTx(v).rev = row[v].revision /\ SubmitTx(v).row = row[v]
<1>1. row[v] \in Row /\ row[v].revision \in Nat
  BY DEF TypeOK, Row
<1> QED
  BY <1>1, NoTxType DEF SubmitTx, Tx

LEMMA LockTxType ==
  ASSUME TypeOK, NEW v \in VersionIds, NEW k \in Keys
  PROVE  /\ LockTx(v, k) \in Tx
         /\ LockTx(v, k).op = "lock" /\ LockTx(v, k).v = v
         /\ LockTx(v, k).rev = row[v].revision /\ LockTx(v, k).row = row[v]
<1>1. row[v] \in Row /\ row[v].revision \in Nat /\ board \in Board
  BY DEF TypeOK, Row
<1> QED
  BY <1>1, NoTxType DEF LockTx, Tx, JobTypes

LEMMA DeriveTxType ==
  ASSUME TypeOK, NEW op \in DeriveOps, NEW v \in VersionIds, NEW k \in Keys, NEW n \in Nat
  PROVE  /\ DeriveTx(op, v, k, n) \in Tx
         /\ DeriveTx(op, v, k, n).op = op /\ DeriveTx(op, v, k, n).v = v
         /\ DeriveTx(op, v, k, n).row = row[v] /\ DeriveTx(op, v, k, n).shots = shots[v]
<1>1. row[v] \in Row /\ shots[v] \in Content /\ board \in Board
  BY DEF TypeOK
<1> QED
  BY <1>1, NoTxType DEF DeriveTx, Tx, JobTypes, DeriveOps
-----------------------------------------------------------------------------
(* What a transaction holds when it begins.                                *)

Begun(q) ==
    /\ q.op # "none"
    /\ Exists(q.v)
    /\ q.row = row[q.v]
    /\ q.op \in CheckedOps =>
          /\ q.rev <= row[q.v].revision
          /\ row[q.v].status \in From(q.op)
          /\ q.op \in EditOps => q.shots = shots[q.v]
    /\ q.op \in DeriveOps => row[q.v].status = "locked" /\ q.shots = shots[q.v]

LEMMA BeginOpens ==
  ASSUME TypeOK, NEW w \in Workers, Begin(w)
  PROVE  \E q \in Tx : Begun(q) /\ Open(w, q)
<1>1. PICK v \in VersionIds :
        \/ \E s \in Shots, x \in Values, r \in 0..MaxRevision[v] :
              \/ \E op \in EditOps \ {"merge"} : BeginEdit(w, op, v, s, x, r)
              \/ \E at \in VersionIds, others \in SUBSET (VersionIds \X Shots) :
                    BeginMerge(w, v, at, s, others, x, r)
        \/ BeginSubmit(w, v)
        \/ \E k \in Keys : BeginLock(w, v, k)
        \/ \E op \in {"fork", "upgrade"}, k \in Keys, n \in 1..Cardinality(VersionIds) + 1 :
              BeginDerive(w, op, v, k, n)
  BY DEF Begin
<1>2. MaxRevision[v] \in Nat /\ row[v] \in Row /\ row[v].revision \in Nat
  BY VersionsAssumption DEF TypeOK, Row
<1>3. ASSUME NEW op \in EditOps, NEW s \in Shots, NEW x \in Values, NEW r \in 0..MaxRevision[v],
             BeginEdit(w, op, v, s, x, r)
      PROVE  \E q \in Tx : Begun(q) /\ Open(w, q)
  <2>1. r \in Nat /\ r <= row[v].revision /\ row[v].status = "draft" /\ Open(w, EditTx(op, v, s, x, r))
    BY <1>2, <1>3 DEF BeginEdit, Editable, EditTx
  <2>2. Begun(EditTx(op, v, s, x, r)) /\ EditTx(op, v, s, x, r) \in Tx
    BY <2>1, EditTxType DEF Begun, Exists, From, EditOps, DeriveOps
  <2> QED
    BY <2>1, <2>2
<1>7. ASSUME NEW s \in Shots, NEW x \in Values, NEW r \in 0..MaxRevision[v],
             NEW at \in VersionIds, NEW others \in SUBSET (VersionIds \X Shots),
             BeginMerge(w, v, at, s, others, x, r)
      PROVE  \E q \in Tx : Begun(q) /\ Open(w, q)
  <2>1. r \in Nat /\ r <= row[v].revision /\ row[v].status = "draft"
        /\ Open(w, MergeTx(v, at, s, others, x, r))
    BY <1>2, <1>7 DEF BeginMerge, Editable, MergeTx
  <2>2. Begun(MergeTx(v, at, s, others, x, r)) /\ MergeTx(v, at, s, others, x, r) \in Tx
    BY <2>1, MergeTxType DEF Begun, Exists, From, EditOps, DeriveOps
  <2> QED
    BY <2>1, <2>2
<1>4. CASE BeginSubmit(w, v)
  <2>1. row[v].status = "draft" /\ Open(w, SubmitTx(v))
    BY <1>4 DEF BeginSubmit, SubmitTx
  <2>2. Begun(SubmitTx(v)) /\ SubmitTx(v) \in Tx
    BY <1>2, <2>1, SubmitTxType DEF Begun, Exists, From, EditOps, DeriveOps
  <2> QED
    BY <2>1, <2>2
<1>5. ASSUME NEW k \in Keys, BeginLock(w, v, k)
      PROVE  \E q \in Tx : Begun(q) /\ Open(w, q)
  <2>1. row[v].status \in {"draft", "reviewing"} /\ Open(w, LockTx(v, k))
    BY <1>5 DEF BeginLock, LockTx
  <2>2. Begun(LockTx(v, k)) /\ LockTx(v, k) \in Tx
    BY <1>2, <2>1, LockTxType DEF Begun, Exists, From, EditOps, DeriveOps
  <2> QED
    BY <2>1, <2>2
<1>6. ASSUME NEW op \in {"fork", "upgrade"}, NEW k \in Keys,
             NEW n \in 1..Cardinality(VersionIds) + 1, BeginDerive(w, op, v, k, n)
      PROVE  \E q \in Tx : Begun(q) /\ Open(w, q)
  <2>1. row[v].status = "locked" /\ Open(w, DeriveTx(op, v, k, n)) /\ op \in DeriveOps
    BY <1>6 DEF BeginDerive, MayDerive, DeriveTx, DeriveOps
  <2>2. Cardinality(VersionIds) \in Nat
    BY VersionsAssumption, FS_CardinalityType
  <2>3. n \in Nat
    BY <1>6, <2>2
  <2>4. Begun(DeriveTx(op, v, k, n)) /\ DeriveTx(op, v, k, n) \in Tx
    BY <2>1, <2>3, DeriveTxType DEF Begun, Exists, CheckedOps, EditOps, DeriveOps
  <2> QED
    BY <2>1, <2>4
<1> QED
  BY <1>1, <1>3, <1>4, <1>5, <1>6, <1>7
-----------------------------------------------------------------------------
(* Types, step by step.                                                    *)

\* A merge writes shots of the versions it names and puts all but its own among those
\* whose revision is gone past.
LEMMA MergeWrites ==
  ASSUME TypeOK, NEW w \in Workers, CommitMerge(w)
  PROVE  /\ shots' \in [VersionIds -> Content]
         /\ unguarded' \in SUBSET VersionIds
         /\ \A v \in VersionIds : v # tx[w].v /\ v \notin unguarded' => shots'[v] = shots[v]
<1> DEFINE q == tx[w]
<1>1. q.at \in VersionIds /\ q.val \in Values /\ q.others \in SUBSET (VersionIds \X Shots)
      /\ shots \in [VersionIds -> Content] /\ Blank \in Values
  BY TxFacts, VersionsAssumption DEF TypeOK
<1>2. shots' = [v \in VersionIds |-> [s \in Shots |->
                  IF <<v, s>> \in q.others THEN Blank
                  ELSE IF v = q.at /\ s = q.shot THEN q.val
                  ELSE shots[v][s]]]
  BY DEF CommitMerge
<1>3. shots' \in [VersionIds -> Content]
  <2>1. \A v \in VersionIds, s \in Shots : shots[v][s] \in Values
    BY <1>1 DEF Content
  <2> QED
    BY <1>1, <1>2, <2>1 DEF Content
<1>4. unguarded' = unguarded \cup (Merged(q) \ {q.v})
  BY DEF CommitMerge
<1>5. unguarded' \in SUBSET VersionIds
  <2>1. Merged(q) \subseteq VersionIds
    BY <1>1 DEF Merged
  <2> QED
    BY <1>4, <2>1 DEF TypeOK
<1>6. ASSUME NEW v \in VersionIds, v # q.v, v \notin unguarded'
      PROVE  shots'[v] = shots[v]
  <2>1. v \notin Merged(q)
    BY <1>4, <1>6
  <2>2. v # q.at /\ \A s \in Shots : <<v, s>> \notin q.others
    <3>1. v # q.at /\ \A p \in q.others : p[1] # v
      BY <2>1 DEF Merged
    <3> QED
      BY <3>1
  <2>3. shots'[v] = [s \in Shots |-> shots[v][s]]
    BY <1>2, <2>2
  <2> QED
    BY <1>1, <2>3 DEF Content
<1> QED
  BY <1>3, <1>5, <1>6

LEMMA CommitTypes ==
  ASSUME TypeOK, NEW w \in Workers, Commit(w)
  PROVE  TypeOK'
<1> DEFINE q == tx[w]
<1>1. q \in Tx /\ q.v \in VersionIds /\ q.row \in Row /\ row[q.v] \in Row
      /\ q.shots \in Content /\ shots[q.v] \in Content /\ q.rev \in Nat /\ q.no \in Nat
      /\ q.board \in Board /\ q.shot \in Shots /\ q.val \in Values
      /\ q.row.revision \in Nat
  BY TxFacts
<1>2. Close(w)
  BY DEF Commit, CommitChecked, CommitMerge, CommitStructure, CommitBlind, CommitSubmit, CommitLock,
         CommitDerive, Conflict, DuplicateKey, RolledBack
<1>3. tx' \in [Workers -> Tx]
  BY <1>2, CloseType
<1>4. /\ [q.row EXCEPT !.revision = q.rev + 1] \in Row
      /\ [row[q.v] EXCEPT !.revision = q.rev + 1] \in Row
      /\ [q.row EXCEPT !.revision = @ + 1] \in Row
      /\ [q.row EXCEPT !.status = "reviewing", !.revision = q.rev + 1] \in Row
      /\ [q.row EXCEPT !.status = "locked", !.revision = q.rev + 1] \in Row
  <2>1. q.rev + 1 \in Nat /\ q.row.revision + 1 \in Nat
    BY <1>1
  <2>2. \A r \in Row, n \in Nat : [r EXCEPT !.revision = n] \in Row
    BY DEF Row
  <2>3. \A r \in Row, n \in Nat : \A t \in {"reviewing", "locked"} :
           [r EXCEPT !.status = t, !.revision = n] \in Row
    BY DEF Row
  <2> QED
    BY <1>1, <2>1, <2>2, <2>3
<1>5. [shots[q.v] EXCEPT ![q.shot] = q.val] \in Content
  BY <1>1 DEF Content
<1>6. [shots EXCEPT ![q.v] = [@ EXCEPT ![q.shot] = q.val]] \in [VersionIds -> Content]
  BY <1>5 DEF TypeOK
<1>7. row \in [VersionIds -> Row] /\ shots \in [VersionIds -> Content] /\ board \in Board
      /\ jobs \in [JobTypes -> [Keys -> VersionIds \cup {None}]]
      /\ copied \in [VersionIds -> Content] /\ unguarded \in SUBSET VersionIds
  BY DEF TypeOK
<1>8. CASE CommitChecked(w)
  <2>1. CASE q.op = "patch"
    <3>1. row' = [row EXCEPT ![q.v] = [q.row EXCEPT !.revision = q.rev + 1]]
      BY <1>8, <2>1 DEF CommitChecked
    <3> QED
      BY <1>3, <1>4, <1>6, <1>7, <1>8, <3>1 DEF CommitChecked, WriteShot, TypeOK
  <2>2. CASE q.op # "patch"
    <3>1. row' = [row EXCEPT ![q.v] = [row[q.v] EXCEPT !.revision = q.rev + 1]]
      BY <1>8, <2>2 DEF CommitChecked
    <3> QED
      BY <1>3, <1>4, <1>6, <1>7, <1>8, <3>1 DEF CommitChecked, WriteShot, TypeOK
  <2> QED
    BY <2>1, <2>2
<1>9. CASE CommitStructure(w)
  <2>1. unguarded' \in SUBSET VersionIds
    BY <1>1, <1>7, <1>9 DEF CommitStructure
  <2> QED
    BY <1>3, <1>4, <1>6, <1>7, <1>9, <2>1 DEF CommitStructure, WriteShot, TypeOK
<1>10. CASE CommitBlind(w)
  <2>1. row' \in [VersionIds -> Row]
    BY <1>1, <1>7, <1>10 DEF CommitBlind
  <2>2. unguarded' \in SUBSET VersionIds
    BY <1>1, <1>7, <1>10 DEF CommitBlind
  <2> QED
    BY <1>3, <1>6, <1>7, <1>10, <2>1, <2>2 DEF CommitBlind, WriteShot, TypeOK
<1>11. CASE CommitSubmit(w)
  BY <1>3, <1>4, <1>7, <1>11 DEF CommitSubmit, TypeOK
<1>12. CASE CommitLock(w)
  <2>1. row' \in [VersionIds -> Row]
    BY <1>4, <1>7, <1>12 DEF CommitLock
  <2>2. board' \in Board
    BY <1>1, <1>7, <1>12 DEF CommitLock, Board
  <2>3. jobs' \in [JobTypes -> [Keys -> VersionIds \cup {None}]]
    BY <1>1, <1>7, <1>12 DEF CommitLock, JobTypes
  <2> QED
    BY <1>3, <1>7, <1>12, <2>1, <2>2, <2>3 DEF CommitLock, TypeOK
<1>13. CASE CommitDerive(w)
  <2>1. q.op \in {"fork", "upgrade"}
    BY <1>13 DEF CommitDerive
  <2>2. PICK c \in VersionIds :
          /\ row' = [row EXCEPT ![c] =
                        [status |-> "draft", revision |-> 0, tier |-> ChildTier(q.op, q.row.tier),
                         no |-> q.no, parent |-> q.v]]
          /\ shots' = [shots EXCEPT ![c] = q.shots]
          /\ copied' = [copied EXCEPT ![c] = q.shots]
          /\ board' = [draft |-> c,
                       locked |-> IF q.board.locked = None THEN board.locked ELSE q.board.locked]
          /\ jobs' = [jobs EXCEPT ![q.op] = [@ EXCEPT ![q.key] = c]]
    BY <1>13 DEF CommitDerive
  <2>3. ChildTier(q.op, q.row.tier) \in {"A", "B", "C"}
    BY <1>1 DEF ChildTier, Row
  <2>4. [status |-> "draft", revision |-> 0, tier |-> ChildTier(q.op, q.row.tier),
         no |-> q.no, parent |-> q.v] \in Row
    BY <1>1, <2>3 DEF Row
  <2>5. row' \in [VersionIds -> Row] /\ shots' \in [VersionIds -> Content]
        /\ copied' \in [VersionIds -> Content]
    BY <1>1, <1>7, <2>2, <2>4
  <2>6. board' \in Board
    BY <1>1, <1>7, <2>2 DEF Board
  <2>7. jobs' \in [JobTypes -> [Keys -> VersionIds \cup {None}]]
    BY <1>7, <2>1, <2>2 DEF JobTypes
  <2> QED
    BY <1>3, <1>7, <1>13, <2>5, <2>6, <2>7 DEF CommitDerive, TypeOK
<1>14. CASE Conflict(w)
  BY <1>3, <1>7, <1>14 DEF Conflict, db, TypeOK
<1>15. CASE DuplicateKey(w)
  BY <1>3, <1>7, <1>15 DEF DuplicateKey, db, TypeOK
<1>16. CASE RolledBack(w)
  BY <1>3, <1>7, <1>16 DEF RolledBack, db, TypeOK
<1>17. CASE CommitMerge(w)
  <2>1. row' \in [VersionIds -> Row]
    BY <1>4, <1>7, <1>17 DEF CommitMerge
  <2>2. shots' \in [VersionIds -> Content]
    BY <1>1, <1>17, MergeWrites
  <2>3. unguarded' \in SUBSET VersionIds
    BY <1>1, <1>7, <1>17, MergeWrites
  <2> QED
    BY <1>3, <1>7, <1>17, <2>1, <2>2, <2>3 DEF CommitMerge, TypeOK
<1> QED
  BY <1>8, <1>9, <1>10, <1>11, <1>12, <1>13, <1>14, <1>15, <1>16, <1>17 DEF Commit

LEMMA StepTypes == TypeOK /\ [Next]_vars => TypeOK'
<1> SUFFICES ASSUME TypeOK, [Next]_vars PROVE TypeOK'
  OBVIOUS
<1>1. ASSUME NEW w \in Workers, Begin(w) PROVE TypeOK'
  BY <1>1, BeginOpens, OpenTypes
<1>2. ASSUME NEW w \in Workers, Commit(w) PROVE TypeOK'
  BY <1>2, CommitTypes
<1>3. CASE UNCHANGED vars
  BY <1>3 DEF vars, TypeOK
<1> QED
  BY <1>1, <1>2, <1>3 DEF Next, KnownKey
-----------------------------------------------------------------------------
(* What a step leaves of the versions that exist.                          *)

\* A version that exists goes on existing.
LEMMA ExistsKept ==
  ASSUME TypeOK, OpenInv, [Next]_vars, NEW v \in VersionIds, Exists(v)
  PROVE  Exists(v)'
<1>1. ASSUME NEW w \in Workers, Begin(w) PROVE Exists(v)'
  BY <1>1, BeginOpens DEF Open, db, Exists
<1>2. ASSUME NEW w \in Workers, Commit(w) PROVE Exists(v)'
  <2> DEFINE q == tx[w]
  <2>1. q.row \in Row /\ row \in [VersionIds -> Row] /\ q.v \in VersionIds
    BY TxFacts DEF TypeOK
  <2>2. q.op # "none" => q.row.status # "none" /\ row[q.v].status # "none"
    BY DEF OpenInv, Exists
  <2>3. /\ [q.row EXCEPT !.revision = q.rev + 1].status = q.row.status
        /\ [row[q.v] EXCEPT !.revision = q.rev + 1].status = row[q.v].status
        /\ [q.row EXCEPT !.revision = @ + 1].status = q.row.status
        /\ [q.row EXCEPT !.status = "reviewing", !.revision = q.rev + 1].status = "reviewing"
        /\ [q.row EXCEPT !.status = "locked", !.revision = q.rev + 1].status = "locked"
    BY <2>1 DEF Row
  <2>4. CASE CommitChecked(w)
    <3>1. CASE q.op = "patch"
      BY <2>1, <2>2, <2>3, <2>4, <3>1 DEF CommitChecked, Exists
    <3>2. CASE q.op # "patch"
      BY <2>1, <2>2, <2>3, <2>4, <3>2 DEF CommitChecked, Exists
    <3> QED
      BY <3>1, <3>2
  <2>11. CASE CommitMerge(w)
    BY <2>1, <2>2, <2>3, <2>11 DEF CommitMerge, Exists
  <2>5. CASE CommitStructure(w)
    BY <2>1, <2>2, <2>3, <2>5 DEF CommitStructure, Exists
  <2>6. CASE CommitBlind(w)
    BY <2>1, <2>2, <2>6 DEF CommitBlind, Exists
  <2>7. CASE CommitSubmit(w)
    BY <2>1, <2>3, <2>7 DEF CommitSubmit, Exists
  <2>8. CASE CommitLock(w)
    BY <2>1, <2>3, <2>8 DEF CommitLock, Exists
  <2>9. CASE CommitDerive(w)
    BY <2>1, <2>9 DEF CommitDerive, Exists
  <2>10. CASE Conflict(w) \/ DuplicateKey(w) \/ RolledBack(w)
    BY <2>10 DEF Conflict, DuplicateKey, RolledBack, db, Exists
  <2> QED
    BY <1>2, <2>4, <2>5, <2>6, <2>7, <2>8, <2>9, <2>10, <2>11 DEF Commit
<1>3. CASE UNCHANGED vars
  BY <1>3 DEF vars, Exists
<1> QED
  BY <1>1, <1>2, <1>3 DEF Next, KnownKey

\* Every transaction after a step is one of before, none, or one that has just begun.
LEMMA TxAfter ==
  ASSUME TypeOK, [Next]_vars, NEW u \in Workers
  PROVE  tx'[u] = tx[u] \/ tx'[u] = NoTx \/ (Begun(tx'[u]) /\ UNCHANGED <<row, shots>>)
<1>1. ASSUME NEW w \in Workers, Begin(w)
      PROVE  tx'[u] = tx[u] \/ (Begun(tx'[u]) /\ UNCHANGED <<row, shots>>)
  <2>1. PICK q \in Tx : Begun(q) /\ Open(w, q)
    BY <1>1, BeginOpens
  <2>2. tx' = [tx EXCEPT ![w] = q] /\ UNCHANGED <<row, shots>>
    BY <2>1 DEF Open, db
  <2> QED
    BY <2>1, <2>2 DEF TypeOK
<1>2. ASSUME NEW w \in Workers, Commit(w)
      PROVE  tx'[u] = tx[u] \/ tx'[u] = NoTx
  <2>1. Close(w)
    BY <1>2 DEF Commit, CommitChecked, CommitMerge, CommitStructure, CommitBlind, CommitSubmit, CommitLock,
         CommitDerive, Conflict, DuplicateKey, RolledBack
  <2> QED
    BY <2>1 DEF Close, TypeOK
<1>3. CASE UNCHANGED vars
  BY <1>3 DEF vars
<1> QED
  BY <1>1, <1>2, <1>3 DEF Next, KnownKey

LEMMA StepOpen == TypeOK /\ OpenInv /\ [Next]_vars => OpenInv'
<1> SUFFICES ASSUME TypeOK, OpenInv, [Next]_vars, NEW u \in Workers, tx'[u].op # "none"
             PROVE  Exists(tx[u].v)' /\ tx'[u].row.status # "none"
  BY DEF OpenInv, Exists
<1>1. NoTx.op = "none"
  BY DEF NoTx
<1>2. CASE tx'[u] = tx[u]
  <2>1. Exists(tx[u].v) /\ tx[u].row.status # "none" /\ tx[u].v \in VersionIds
    BY <1>2, TxFacts DEF OpenInv
  <2>2. row'[tx[u].v].status # "none"
    BY <2>1, ExistsKept DEF Exists
  <2> QED
    BY <1>2, <2>1, <2>2 DEF Exists
<1>3. CASE Begun(tx'[u]) /\ UNCHANGED <<row, shots>>
  BY <1>3 DEF Begun, Exists
<1> QED
  BY <1>1, <1>2, <1>3, TxAfter

-----------------------------------------------------------------------------
(* What holds of any edits.                                                *)

\* A version that exists keeps its origin.
LEMMA OriginKept ==
  ASSUME BaseInv, [Next]_vars, NEW v \in VersionIds, Exists(v)
  PROVE  row'[v].parent = row[v].parent /\ copied'[v] = copied[v]
<1>0. TypeOK
  BY DEF BaseInv
<1>1. ASSUME NEW w \in Workers, Begin(w) PROVE row' = row /\ copied' = copied
  BY <1>0, <1>1, BeginOpens DEF Open, db
<1>2. ASSUME NEW w \in Workers, Commit(w) PROVE row'[v].parent = row[v].parent /\ copied'[v] = copied[v]
  <2> DEFINE q == tx[w]
  <2>1. q.row \in Row /\ row \in [VersionIds -> Row] /\ q.v \in VersionIds
        /\ copied \in [VersionIds -> Content]
    BY <1>0, TxFacts DEF TypeOK
  <2>2. q.op \in CheckedOps => q.row.parent = row[q.v].parent
    BY DEF BaseInv, OriginInv
  <2>3. /\ [q.row EXCEPT !.revision = q.rev + 1].parent = q.row.parent
        /\ [row[q.v] EXCEPT !.revision = q.rev + 1].parent = row[q.v].parent
        /\ [q.row EXCEPT !.revision = @ + 1].parent = q.row.parent
        /\ [q.row EXCEPT !.status = "reviewing", !.revision = q.rev + 1].parent = q.row.parent
        /\ [q.row EXCEPT !.status = "locked", !.revision = q.rev + 1].parent = q.row.parent
    BY <2>1 DEF Row
  <2>4. CASE CommitChecked(w)
    <3>1. q.op \in CheckedOps
      BY <2>4 DEF CommitChecked, CheckedOps, EditOps
    <3>2. CASE q.op = "patch"
      BY <2>1, <2>2, <2>3, <2>4, <3>1, <3>2 DEF CommitChecked
    <3>3. CASE q.op # "patch"
      BY <2>1, <2>2, <2>3, <2>4, <3>1, <3>3 DEF CommitChecked
    <3> QED
      BY <3>2, <3>3
  <2>11. CASE CommitMerge(w)
    BY <2>1, <2>2, <2>3, <2>11 DEF CommitMerge, CheckedOps, EditOps
  <2>5. CASE CommitStructure(w)
    BY <2>1, <2>2, <2>3, <2>5 DEF CommitStructure, CheckedOps, EditOps
  <2>6. CASE CommitBlind(w)
    BY <2>1, <2>2, <2>6 DEF CommitBlind, CheckedOps, EditOps
  <2>7. CASE CommitSubmit(w)
    BY <2>1, <2>2, <2>3, <2>7 DEF CommitSubmit, CheckedOps
  <2>8. CASE CommitLock(w)
    BY <2>1, <2>2, <2>3, <2>8 DEF CommitLock, CheckedOps
  <2>9. CASE CommitDerive(w)
    BY <2>1, <2>9 DEF CommitDerive, Exists
  <2>10. CASE Conflict(w) \/ DuplicateKey(w) \/ RolledBack(w)
    BY <2>10 DEF Conflict, DuplicateKey, RolledBack, db
  <2> QED
    BY <1>2, <2>4, <2>5, <2>6, <2>7, <2>8, <2>9, <2>10, <2>11 DEF Commit
<1>3. CASE UNCHANGED vars
  BY <1>3 DEF vars
<1> QED
  BY <1>1, <1>2, <1>3 DEF Next, KnownKey

\* The transactions that a step opens hold the row as it is, and a key if they need one.
LEMMA OpensKeyed ==
  ASSUME TypeOK, NEW w \in Workers, Begin(w)
  PROVE  \E q \in Tx : /\ Open(w, q)
                       /\ q.row = row[q.v]
                       /\ q.op \in DeriveOps => q.key \in Keys
<1>1. PICK q \in Tx : Begun(q) /\ Open(w, q)
  BY BeginOpens
<1>2. tx' = [tx EXCEPT ![w] = q] /\ tx'[w] = q /\ tx[w].op = "none"
  BY <1>1 DEF Open, TypeOK
<1>3. PICK v \in VersionIds :
        \/ \E s \in Shots, x \in Values, r \in 0..MaxRevision[v] :
              \/ \E op \in EditOps \ {"merge"} : BeginEdit(w, op, v, s, x, r)
              \/ \E at \in VersionIds, others \in SUBSET (VersionIds \X Shots) :
                    BeginMerge(w, v, at, s, others, x, r)
        \/ BeginSubmit(w, v)
        \/ \E k \in Keys : BeginLock(w, v, k)
        \/ \E op \in {"fork", "upgrade"}, k \in Keys, n \in 1..Cardinality(VersionIds) + 1 :
              BeginDerive(w, op, v, k, n)
  BY DEF Begin
<1>4. NoTx \in Tx
  BY NoTxType
<1>10. ASSUME NEW s \in Shots, NEW x \in Values, NEW r \in 0..MaxRevision[v],
              NEW at \in VersionIds, NEW others \in SUBSET (VersionIds \X Shots),
              BeginMerge(w, v, at, s, others, x, r)
      PROVE  tx'[w].op \notin DeriveOps
  <2>1. tx' = [tx EXCEPT ![w] = MergeTx(v, at, s, others, x, r)]
    BY <1>10 DEF BeginMerge, Open, MergeTx
  <2>2. MergeTx(v, at, s, others, x, r).op = "merge"
    BY <1>4 DEF MergeTx, Tx
  <2> QED
    BY <2>1, <2>2 DEF TypeOK, DeriveOps
<1>5. ASSUME NEW op \in EditOps, NEW s \in Shots, NEW x \in Values, NEW r \in 0..MaxRevision[v],
             BeginEdit(w, op, v, s, x, r)
      PROVE  tx'[w].op \notin DeriveOps
  <2>1. tx' = [tx EXCEPT ![w] = EditTx(op, v, s, x, r)]
    BY <1>5 DEF BeginEdit, Open, EditTx
  <2>2. EditTx(op, v, s, x, r).op = op
    BY <1>4 DEF EditTx, Tx
  <2> QED
    BY <2>1, <2>2 DEF TypeOK, EditOps, DeriveOps
<1>6. ASSUME BeginSubmit(w, v)
      PROVE  tx'[w].op \notin DeriveOps
  <2>1. tx' = [tx EXCEPT ![w] = SubmitTx(v)]
    BY <1>6 DEF BeginSubmit, Open, SubmitTx
  <2>2. tx'[w].op = "submit"
    BY <2>1, SubmitTxType DEF TypeOK
  <2> QED
    BY <2>2 DEF DeriveOps
<1>7. ASSUME NEW k \in Keys, BeginLock(w, v, k)
      PROVE  tx'[w].op \notin DeriveOps
  <2>1. tx' = [tx EXCEPT ![w] = LockTx(v, k)]
    BY <1>7 DEF BeginLock, Open, LockTx
  <2>2. tx'[w].op = "lock"
    BY <2>1, LockTxType DEF TypeOK
  <2> QED
    BY <2>2 DEF DeriveOps
<1>8. ASSUME NEW op \in {"fork", "upgrade"}, NEW k \in Keys,
             NEW n \in 1..Cardinality(VersionIds) + 1, BeginDerive(w, op, v, k, n)
      PROVE  tx'[w].key \in Keys
  <2>1. tx' = [tx EXCEPT ![w] = DeriveTx(op, v, k, n)]
    BY <1>8 DEF BeginDerive, Open, DeriveTx
  <2>2. DeriveTx(op, v, k, n).key = k
    BY <1>4 DEF DeriveTx, Tx
  <2> QED
    BY <2>1, <2>2 DEF TypeOK
<1>9. q.op \in DeriveOps => q.key \in Keys
  BY <1>2, <1>3, <1>5, <1>6, <1>7, <1>8, <1>10
<1> QED
  BY <1>1, <1>9 DEF Begun

LEMMA StepKeyed == BaseInv /\ [Next]_vars => KeyInv' /\ OriginInv'
<1> SUFFICES ASSUME BaseInv, [Next]_vars, NEW u \in Workers
             PROVE  /\ tx'[u].op \in DeriveOps => tx'[u].key \in Keys
                    /\ tx'[u].op \in CheckedOps => tx'[u].row.parent = row'[tx'[u].v].parent
  BY DEF KeyInv, OriginInv
<1>1. TypeOK /\ OpenInv
  BY DEF BaseInv
<1>2. NoTx.op \notin CheckedOps \cup DeriveOps /\ "none" \notin CheckedOps \cup DeriveOps
  BY DEF NoTx, CheckedOps, EditOps, DeriveOps
<1>3. CASE tx'[u] = tx[u]
  <2>1. tx[u].op \in DeriveOps => tx[u].key \in Keys
    BY DEF BaseInv, KeyInv
  <2>2. ASSUME tx[u].op \in CheckedOps PROVE tx[u].row.parent = row'[tx[u].v].parent
    <3>1. Exists(tx[u].v) /\ tx[u].v \in VersionIds
      BY <1>1, <1>2, <2>2, TxFacts DEF OpenInv
    <3>2. row'[tx[u].v].parent = row[tx[u].v].parent
      BY <3>1, OriginKept
    <3> QED
      BY <2>2, <3>2 DEF BaseInv, OriginInv
  <2> QED
    BY <1>3, <2>1, <2>2
<1>4. ASSUME NEW w \in Workers, Begin(w)
      PROVE  \/ tx'[u] = tx[u]
             \/ /\ tx'[u].op \in DeriveOps => tx'[u].key \in Keys
                /\ tx'[u].row = row[tx'[u].v] /\ row' = row
  <2>1. PICK q \in Tx : /\ Open(w, q)
                        /\ q.row = row[q.v]
                        /\ q.op \in DeriveOps => q.key \in Keys
    BY <1>1, <1>4, OpensKeyed
  <2>2. tx' = [tx EXCEPT ![w] = q] /\ row' = row
    BY <2>1 DEF Open, db
  <2> QED
    BY <1>1, <2>1, <2>2 DEF TypeOK
<1>5. ASSUME NEW w \in Workers, Commit(w)
      PROVE  tx'[u] = tx[u] \/ tx'[u] = NoTx
  <2>1. Close(w)
    BY <1>5 DEF Commit, CommitChecked, CommitMerge, CommitStructure, CommitBlind, CommitSubmit, CommitLock,
         CommitDerive, Conflict, DuplicateKey, RolledBack
  <2> QED
    BY <1>1, <2>1 DEF Close, TypeOK
<1>6. CASE UNCHANGED vars
  BY <1>3, <1>6 DEF vars
<1> QED
  BY <1>2, <1>3, <1>4, <1>5, <1>6 DEF Next, KnownKey

LEMMA StepBase == BaseInv /\ [Next]_vars => BaseInv'
  BY StepTypes, StepOpen, StepKeyed DEF BaseInv

-----------------------------------------------------------------------------
(* What holds while no edit goes past the revision.                        *)

\* A version that exists and that no edit has gone past: its revision does not go back,
\* with the same revision it is the same, and what is locked stays.
Kept(v) ==
    /\ row'[v].revision >= row[v].revision
    /\ row'[v].revision = row[v].revision => row'[v] = row[v] /\ shots'[v] = shots[v]
    /\ row[v].status = "locked" => row'[v] = row[v] /\ shots'[v] = shots[v]

LEMMA SeenFits ==
  ASSUME IInv, NEW w \in Workers, tx[w].v \notin unguarded, tx[w].op \in CheckedOps, RevisionFits(w)
  PROVE  /\ row[tx[w].v] = tx[w].row
         /\ tx[w].rev = row[tx[w].v].revision
         /\ row[tx[w].v].status \in From(tx[w].op)
         /\ row[tx[w].v].status # "locked"
         /\ tx[w].op \in EditOps => shots[tx[w].v] = tx[w].shots
<1>1. tx[w].rev \in Nat /\ tx[w].row.revision \in Nat /\ row[tx[w].v].revision \in Nat
  BY TxFacts DEF IInv, BaseInv
<1>2. /\ tx[w].rev <= tx[w].row.revision
      /\ tx[w].row.revision <= row[tx[w].v].revision
      /\ tx[w].row.status \in From(tx[w].op)
      /\ row[tx[w].v].revision = tx[w].row.revision =>
            /\ row[tx[w].v] = tx[w].row
            /\ tx[w].op \in EditOps => shots[tx[w].v] = tx[w].shots
  BY DEF IInv, SeenInv
<1>3. row[tx[w].v].revision = tx[w].rev
  BY DEF RevisionFits
<1>4. row[tx[w].v].revision = tx[w].row.revision
  BY <1>1, <1>2, <1>3
<1> QED
  BY <1>2, <1>3, <1>4 DEF From

\* What has been gone past remains so.
LEMMA UnguardedGrows ==
  ASSUME TypeOK, [Next]_vars
  PROVE  unguarded \subseteq unguarded'
<1>1. ASSUME NEW w \in Workers, Begin(w) PROVE unguarded' = unguarded
  BY <1>1, BeginOpens DEF Open
<1>2. ASSUME NEW w \in Workers, Commit(w) PROVE unguarded \subseteq unguarded'
  BY <1>2 DEF Commit, CommitChecked, CommitMerge, CommitStructure, CommitBlind, CommitSubmit,
       CommitLock, CommitDerive, Conflict, DuplicateKey, RolledBack
<1> QED
  BY <1>1, <1>2 DEF Next, KnownKey, vars

LEMMA VersionsKept ==
  ASSUME IInv, [Next]_vars, NEW v \in VersionIds, v \notin unguarded', Exists(v)
  PROVE  v \notin unguarded /\ Kept(v)
<1> USE DEF Kept
<1>1. TypeOK /\ v \notin unguarded
  BY UnguardedGrows DEF IInv, BaseInv
<1>2. row[v].revision \in Nat
  BY <1>1 DEF TypeOK, Row
<1>3. CASE UNCHANGED <<db, unguarded>>
  BY <1>1, <1>2, <1>3 DEF db
<1>4. ASSUME NEW w \in Workers, Commit(w), ~(UNCHANGED <<db, unguarded>>)
      PROVE  Kept(v)
  <2> DEFINE q == tx[w]
  <2>1. q.row \in Row /\ row \in [VersionIds -> Row] /\ q.v \in VersionIds
        /\ shots \in [VersionIds -> Content]
        /\ q.rev \in Nat /\ q.row.revision \in Nat
    BY <1>1, TxFacts DEF TypeOK
  <2>2. /\ [q.row EXCEPT !.revision = q.rev + 1].revision = q.rev + 1
        /\ [q.row EXCEPT !.revision = @ + 1].revision = q.row.revision + 1
        /\ [q.row EXCEPT !.status = "reviewing", !.revision = q.rev + 1].revision = q.rev + 1
        /\ [q.row EXCEPT !.status = "locked", !.revision = q.rev + 1].revision = q.rev + 1
    BY <2>1 DEF Row
  <2>3. ASSUME NEW r \in Row, row' = [row EXCEPT ![q.v] = r],
               q.v = v => row[v].status # "locked" /\ r.revision = row[v].revision + 1,
               v # q.v => shots'[v] = shots[v]
        PROVE  Kept(v)
    BY <1>2, <2>1, <2>3
  <2>4. ASSUME q.v = v, q.op \in CheckedOps, RevisionFits(w)
        PROVE  row[v] = q.row /\ q.rev = row[v].revision /\ row[v].status # "locked"
    BY <1>1, <2>4, SeenFits
  <2>5. q.rev + 1 \in Nat /\ q.row.revision + 1 \in Nat
    BY <2>1
  <2>6. /\ [q.row EXCEPT !.revision = q.rev + 1] \in Row
        /\ [row[q.v] EXCEPT !.revision = q.rev + 1] \in Row
        /\ [row[q.v] EXCEPT !.revision = q.rev + 1].revision = q.rev + 1
        /\ [q.row EXCEPT !.revision = @ + 1] \in Row
        /\ [q.row EXCEPT !.status = "reviewing", !.revision = q.rev + 1] \in Row
        /\ [q.row EXCEPT !.status = "locked", !.revision = q.rev + 1] \in Row
    BY <2>1, <2>5 DEF Row
  <2>7. CASE CommitChecked(w)
    <3>1. q.op \in CheckedOps /\ RevisionFits(w)
      BY <2>7 DEF CommitChecked, CheckedOps, EditOps
    <3>2. v # q.v => shots'[v] = shots[v]
      BY <2>1, <2>7 DEF CommitChecked, WriteShot
    <3>3. PICK r \in Row : row' = [row EXCEPT ![q.v] = r] /\ r.revision = q.rev + 1
      <4>1. CASE q.op = "patch"
        <5>1. row' = [row EXCEPT ![q.v] = [q.row EXCEPT !.revision = q.rev + 1]]
          BY <2>7, <4>1 DEF CommitChecked
        <5> QED
          BY <2>2, <2>6, <5>1
      <4>2. CASE q.op # "patch"
        <5>1. row' = [row EXCEPT ![q.v] = [row[q.v] EXCEPT !.revision = q.rev + 1]]
          BY <2>7, <4>2 DEF CommitChecked
        <5> QED
          BY <2>6, <5>1
      <4> QED
        BY <4>1, <4>2
    <3> QED
      BY <2>3, <2>4, <3>1, <3>2, <3>3
  <2>8. CASE CommitMerge(w)
    <3>1. q.op \in CheckedOps /\ RevisionFits(w)
      BY <2>8 DEF CommitMerge, CheckedOps, EditOps
    <3>2. v # q.v => shots'[v] = shots[v]
      BY <1>1, <2>8, MergeWrites
    <3>3. PICK r \in Row : row' = [row EXCEPT ![q.v] = r] /\ r.revision = q.rev + 1
      BY <2>2, <2>6, <2>8 DEF CommitMerge
    <3> QED
      BY <2>3, <2>4, <3>1, <3>2, <3>3
  <2>9. CASE CommitStructure(w)
    <3>1. v # q.v => shots'[v] = shots[v]
      BY <2>1, <2>9 DEF CommitStructure, WriteShot
    <3>2. ASSUME q.v = v PROVE row[v].status # "locked" /\ q.row.revision = row[v].revision
      <4>1. row[v] = q.row
        BY <2>9, <3>2 DEF CommitStructure
      <4>2. q.op = "structure" /\ q.v \notin unguarded
        BY <1>1, <2>9, <3>2 DEF CommitStructure
      <4>3. q.row.status \in From(q.op)
        BY <4>2 DEF IInv, SeenInv, CheckedOps, EditOps
      <4> QED
        BY <4>1, <4>2, <4>3 DEF From
    <3>3. PICK r \in Row : row' = [row EXCEPT ![q.v] = r] /\ r.revision = q.row.revision + 1
      BY <2>2, <2>6, <2>9 DEF CommitStructure
    <3> QED
      BY <2>3, <3>1, <3>2, <3>3
  <2>10. CASE CommitBlind(w)
    <3>1. q.v # v
      BY <2>10 DEF CommitBlind
    <3> QED
      BY <1>2, <2>1, <2>10, <3>1 DEF CommitBlind, WriteShot
  <2>11. CASE CommitSubmit(w)
    <3>1. q.op \in CheckedOps /\ RevisionFits(w) /\ shots' = shots
      BY <2>11 DEF CommitSubmit, CheckedOps, EditOps
    <3>2. PICK r \in Row : row' = [row EXCEPT ![q.v] = r] /\ r.revision = q.rev + 1
      BY <2>2, <2>6, <2>11 DEF CommitSubmit
    <3> QED
      BY <2>3, <2>4, <3>1, <3>2
  <2>12. CASE CommitLock(w)
    <3>1. q.op \in CheckedOps /\ RevisionFits(w) /\ shots' = shots
      BY <2>12 DEF CommitLock, CheckedOps, EditOps
    <3>2. PICK r \in Row : row' = [row EXCEPT ![q.v] = r] /\ r.revision = q.rev + 1
      BY <2>2, <2>6, <2>12 DEF CommitLock
    <3> QED
      BY <2>3, <2>4, <3>1, <3>2
  <2>13. CASE CommitDerive(w)
    BY <1>2, <2>1, <2>13 DEF CommitDerive, Exists
  <2>14. CASE Conflict(w) \/ DuplicateKey(w) \/ RolledBack(w)
    BY <1>4, <2>14 DEF Conflict, DuplicateKey, RolledBack
  <2> QED
    BY <1>4, <2>7, <2>8, <2>9, <2>10, <2>11, <2>12, <2>13, <2>14 DEF Commit
<1>5. ASSUME NEW w \in Workers, Begin(w)
      PROVE  UNCHANGED <<db, unguarded>>
  BY <1>1, <1>5, BeginOpens DEF Open
<1> QED
  BY <1>1, <1>3, <1>4, <1>5 DEF Next, KnownKey, vars, db
-----------------------------------------------------------------------------
(* The invariant.                                                          *)

LEMMA InitInv == Init => IInv
<1> SUFFICES ASSUME Init PROVE IInv
  OBVIOUS
<1>1. TypeOK
  BY InitTypes
<1>2. \A w \in Workers : tx[w].op = "none"
  BY DEF Init, NoTx
<1>3. BaseInv /\ SeenInv /\ CopyInv
  BY <1>1, <1>2 DEF BaseInv, OpenInv, KeyInv, OriginInv, SeenInv, CopyInv, CheckedOps, EditOps, DeriveOps
<1>4. \A v \in VersionIds : row[v].parent = None
  BY DEF Init, Absent
<1>5. DerivedMatchesParent
  BY <1>4 DEF DerivedMatchesParent
<1> QED
  BY <1>3, <1>5 DEF IInv

LEMMA StepSeen == IInv /\ [Next]_vars => SeenInv' /\ CopyInv'
<1> SUFFICES ASSUME IInv, [Next]_vars, NEW u \in Workers, tx'[u].v \notin unguarded'
             PROVE  /\ tx'[u].op \in CheckedOps =>
                          /\ tx'[u].rev <= tx'[u].row.revision
                          /\ tx'[u].row.revision <= row'[tx'[u].v].revision
                          /\ tx'[u].row.status \in From(tx'[u].op)
                          /\ row'[tx'[u].v].revision = tx'[u].row.revision =>
                                /\ row'[tx'[u].v] = tx'[u].row
                                /\ tx'[u].op \in EditOps => shots'[tx'[u].v] = tx'[u].shots
                    /\ tx'[u].op \in DeriveOps =>
                          row'[tx'[u].v].status = "locked" /\ shots'[tx'[u].v] = tx'[u].shots
  BY DEF SeenInv, CopyInv
<1>1. TypeOK /\ TypeOK' /\ tx'[u].v \notin unguarded
  BY StepTypes, UnguardedGrows DEF IInv, BaseInv
<1>2. tx[u].v \in VersionIds /\ tx[u].row.revision \in Nat /\ row[tx[u].v].revision \in Nat
  BY <1>1, TxFacts
<1>3. row'[tx[u].v].revision \in Nat
  BY <1>1, <1>2 DEF TypeOK, Row
<1>4. NoTx.op \notin CheckedOps \cup DeriveOps /\ "none" \notin CheckedOps \cup DeriveOps
  BY DEF NoTx, CheckedOps, EditOps, DeriveOps
<1>5. CASE tx'[u] = tx[u]
  <2>1. CASE tx[u].op \in CheckedOps \cup DeriveOps
    <3>1. Exists(tx[u].v)
      BY <1>4, <2>1 DEF IInv, BaseInv, OpenInv
    <3>2. Kept(tx[u].v)
      BY <1>2, <1>5, <3>1, VersionsKept
    <3>3. CASE tx[u].op \in CheckedOps
      <4>1. /\ tx[u].rev <= tx[u].row.revision
            /\ tx[u].row.revision <= row[tx[u].v].revision
            /\ tx[u].row.status \in From(tx[u].op)
            /\ row[tx[u].v].revision = tx[u].row.revision =>
                  /\ row[tx[u].v] = tx[u].row
                  /\ tx[u].op \in EditOps => shots[tx[u].v] = tx[u].shots
        BY <1>1, <1>5, <3>3 DEF IInv, SeenInv
      <4>2. row'[tx[u].v].revision = tx[u].row.revision =>
               row[tx[u].v].revision = tx[u].row.revision
        BY <1>2, <1>3, <3>2, <4>1 DEF Kept
      <4>3. tx[u].row.revision <= row'[tx[u].v].revision
        BY <1>2, <1>3, <3>2, <4>1 DEF Kept
      <4>4. tx[u].op \notin DeriveOps
        BY <3>3 DEF CheckedOps, EditOps, DeriveOps
      <4> QED
        BY <1>5, <3>2, <4>1, <4>2, <4>3, <4>4 DEF Kept
    <3>4. CASE tx[u].op \in DeriveOps
      <4>1. row[tx[u].v].status = "locked" /\ shots[tx[u].v] = tx[u].shots
        BY <1>1, <1>5, <3>4 DEF IInv, CopyInv
      <4>2. tx[u].op \notin CheckedOps
        BY <3>4 DEF CheckedOps, EditOps, DeriveOps
      <4> QED
        BY <1>5, <3>2, <4>1, <4>2 DEF Kept
    <3> QED
      BY <2>1, <3>3, <3>4
  <2> QED
    BY <1>5, <2>1
<1>6. CASE tx'[u] = NoTx
  BY <1>4, <1>6
<1>7. CASE Begun(tx'[u]) /\ UNCHANGED <<row, shots>>
  <2>1. row'[tx'[u].v].revision \in Nat /\ row[tx'[u].v].revision \in Nat
    <3>1. tx'[u].v \in VersionIds
      BY <1>1 DEF TypeOK, Tx
    <3> QED
      BY <1>1, <3>1 DEF TypeOK, Row
  <2> QED
    BY <1>7, <2>1 DEF Begun
<1> QED
  BY <1>1, <1>5, <1>6, <1>7, TxAfter

\* Where a version comes from: it was there, or a fork or an upgrade has just made it.
LEMMA NewVersion ==
  ASSUME TypeOK, [Next]_vars, NEW v \in VersionIds, ~Exists(v), Exists(v)', OpenInv
  PROVE  \E w \in Workers :
            /\ tx[w].op \in DeriveOps
            /\ row'[v].parent = tx[w].v
            /\ copied'[v] = tx[w].shots
            /\ \A u \in VersionIds : u # v => row'[u] = row[u] /\ shots'[u] = shots[u]
            /\ KeysAreFree(tx[w])
            /\ jobs' = [jobs EXCEPT ![tx[w].op] = [@ EXCEPT ![tx[w].key] = v]]
<1>1. ASSUME NEW w \in Workers, Begin(w) PROVE FALSE
  BY <1>1, BeginOpens DEF Open, db, Exists
<1>2. ~UNCHANGED vars
  BY DEF vars, Exists
<1>3. PICK w \in Workers : Commit(w)
  BY <1>1, <1>2 DEF Next, KnownKey
<1>4. tx[w].v \in VersionIds /\ row \in [VersionIds -> Row] /\ shots \in [VersionIds -> Content]
      /\ copied \in [VersionIds -> Content]
  BY TxFacts DEF TypeOK
<1>5. tx[w].op # "none" => v # tx[w].v
  BY DEF OpenInv
<1>6. CASE CommitDerive(w)
  <2>1. PICK c \in VersionIds :
          /\ ~Exists(c)
          /\ row' = [row EXCEPT ![c] =
                        [status |-> "draft", revision |-> 0,
                         tier |-> ChildTier(tx[w].op, tx[w].row.tier),
                         no |-> tx[w].no, parent |-> tx[w].v]]
          /\ shots' = [shots EXCEPT ![c] = tx[w].shots]
          /\ copied' = [copied EXCEPT ![c] = tx[w].shots]
          /\ jobs' = [jobs EXCEPT ![tx[w].op] = [@ EXCEPT ![tx[w].key] = c]]
    BY <1>6 DEF CommitDerive
  <2>2. c = v
    BY <1>4, <2>1 DEF Exists
  <2> QED
    BY <1>4, <1>6, <2>1, <2>2 DEF CommitDerive, DeriveOps
<1>7. CASE CommitChecked(w) \/ CommitMerge(w) \/ CommitStructure(w) \/ CommitBlind(w) \/ CommitSubmit(w) \/ CommitLock(w)
  <2>1. tx[w].op # "none"
    BY <1>7 DEF CommitChecked, CommitMerge, CommitStructure, CommitBlind, CommitSubmit, CommitLock
  <2>2. row'[v] = row[v]
    BY <1>4, <1>5, <1>7, <2>1
       DEF CommitChecked, CommitMerge, CommitStructure, CommitBlind, CommitSubmit, CommitLock
  <2> QED
    BY <2>2 DEF Exists
<1>8. CASE Conflict(w) \/ DuplicateKey(w) \/ RolledBack(w)
  BY <1>8 DEF Conflict, DuplicateKey, RolledBack, db, Exists
<1> QED
  BY <1>3, <1>6, <1>7, <1>8 DEF Commit

LEMMA StepDerived == IInv /\ [Next]_vars => DerivedMatchesParent'
<1> SUFFICES ASSUME IInv, [Next]_vars, NEW v \in VersionIds, Exists(v)',
                    row'[v].parent # None, row'[v].parent \notin unguarded'
             PROVE  row'[row'[v].parent].status = "locked" /\ shots'[row'[v].parent] = copied'[v]
  BY DEF DerivedMatchesParent, Exists
<1>1. BaseInv /\ TypeOK /\ OpenInv /\ row'[v].parent \notin unguarded
  BY UnguardedGrows DEF IInv, BaseInv
<1>2. CASE Exists(v)
  <2> DEFINE p == row[v].parent
  <2>1. row'[v].parent = p /\ copied'[v] = copied[v]
    BY <1>1, <1>2, OriginKept
  <2>2. row[p].status = "locked" /\ shots[p] = copied[v]
    BY <1>1, <1>2, <2>1 DEF IInv, DerivedMatchesParent
  <2>3. p \in VersionIds
    BY <1>1, <2>1 DEF TypeOK, Row
  <2>4. Kept(p)
    BY <2>1, <2>2, <2>3, VersionsKept DEF Exists
  <2> QED
    BY <2>1, <2>2, <2>4 DEF Kept
<1>3. CASE ~Exists(v)
  <2>1. PICK w \in Workers :
            /\ tx[w].op \in DeriveOps
            /\ row'[v].parent = tx[w].v
            /\ copied'[v] = tx[w].shots
            /\ \A u \in VersionIds : u # v => row'[u] = row[u] /\ shots'[u] = shots[u]
    BY <1>1, <1>3, NewVersion
  <2>2. row[tx[w].v].status = "locked" /\ shots[tx[w].v] = tx[w].shots
    BY <1>1, <2>1 DEF IInv, CopyInv
  <2>3. tx[w].v \in VersionIds /\ tx[w].v # v
    BY <1>1, <1>3, <2>2, TxFacts DEF Exists
  <2> QED
    BY <2>1, <2>2, <2>3
<1> QED
  BY <1>2, <1>3

LEMMA StepInv == IInv /\ [Next]_vars => IInv'
<1> SUFFICES ASSUME IInv, [Next]_vars PROVE IInv'
  OBVIOUS
<1>1. BaseInv'
  BY StepBase DEF IInv
<1>2. SeenInv' /\ CopyInv'
  BY StepSeen
<1>3. DerivedMatchesParent'
  BY StepDerived
<1> QED
  BY <1>1, <1>2, <1>3 DEF IInv

LEMMA Invariance == Spec => []IInv
<1> QED
  BY InitInv, StepInv, PTL DEF Spec
-----------------------------------------------------------------------------
(* Theorems.                                                               *)

\* Rows, shots, pointers, jobs and running transactions keep their types.
THEOREM VersionTypes == Spec => []TypeOK
<1>1. IInv => TypeOK
  BY DEF IInv, BaseInv
<1> QED
  BY <1>1, Invariance, PTL

\* A derived version and its parent agree while no edit goes past the parent's revision,
\* for any number of requests, versions and shots, merges that take shots of any
\* version among them.
THEOREM DerivedFromLocked == Spec => []DerivedMatchesParent
<1>1. IInv => DerivedMatchesParent
  BY DEF IInv
<1> QED
  BY <1>1, Invariance, PTL

\* An edit that compares the revision never goes over another's on the version it names.
THEOREM NoEditGoesUnder == Spec => CheckedEditsLandOnRead
<1>1. IInv /\ [Next]_vars =>
        [\A w \in Workers :
            (CommitChecked(w) \/ CommitMerge(w)) /\ tx[w].v \notin unguarded
                => shots[tx[w].v] = tx[w].shots]_vars
  <2> SUFFICES ASSUME IInv, NEW w \in Workers, CommitChecked(w) \/ CommitMerge(w),
                      tx[w].v \notin unguarded
               PROVE  shots[tx[w].v] = tx[w].shots
    OBVIOUS
  <2>1. tx[w].op \in CheckedOps /\ tx[w].op \in EditOps /\ RevisionFits(w)
    BY DEF CommitChecked, CommitMerge, CheckedOps, EditOps
  <2> QED
    BY <2>1, SeenFits
<1> QED
  BY <1>1, Invariance, PTL DEF Spec, CheckedEditsLandOnRead

\* A locked version is kept, whatever was under way when it was locked and whatever is
\* done to other versions, until an edit goes past its own revision.
THEOREM LockHolds == Spec => LockedIsKept
<1>1. IInv /\ [Next]_vars =>
        [\A v \in VersionIds :
            row[v].status = "locked" /\ v \notin unguarded'
                => row'[v].status = "locked" /\ shots'[v] = shots[v]]_vars
  <2> SUFFICES ASSUME IInv, [Next]_vars, NEW v \in VersionIds,
                      row[v].status = "locked", v \notin unguarded'
               PROVE  row'[v].status = "locked" /\ shots'[v] = shots[v]
    OBVIOUS
  <2>1. Kept(v)
    BY VersionsKept DEF Exists
  <2> QED
    BY <2>1 DEF Kept
<1> QED
  BY <1>1, Invariance, PTL DEF Spec, LockedIsKept
-----------------------------------------------------------------------------
(* One derived version for a key.                                          *)

\* A job that names a version is never made to name another: the key of a commit is free.
LEMMA JobsKept ==
  ASSUME TypeOK, [Next]_vars, NEW op \in JobTypes, NEW k \in Keys, jobs[op][k] # None
  PROVE  jobs'[op][k] = jobs[op][k]
<1>1. ASSUME NEW w \in Workers, Begin(w) PROVE jobs' = jobs
  BY <1>1, BeginOpens DEF Open, db
<1>2. CASE UNCHANGED vars
  BY <1>2 DEF vars
<1>3. ASSUME NEW w \in Workers, CommitLock(w) PROVE jobs'[op][k] = jobs[op][k]
  BY <1>3 DEF CommitLock, TypeOK, JobTypes
<1>4. ASSUME NEW w \in Workers, CommitDerive(w) PROVE jobs'[op][k] = jobs[op][k]
  <2>1. jobs[tx[w].op][tx[w].key] = None
    BY <1>4 DEF CommitDerive, KeysAreFree
  <2>2. PICK c \in VersionIds : jobs' = [jobs EXCEPT ![tx[w].op] = [@ EXCEPT ![tx[w].key] = c]]
    BY <1>4 DEF CommitDerive
  <2> QED
    BY <2>1, <2>2 DEF TypeOK
<1>5. ASSUME NEW w \in Workers, Commit(w), ~CommitLock(w), ~CommitDerive(w) PROVE jobs' = jobs
  BY <1>5 DEF Commit, CommitChecked, CommitMerge, CommitStructure, CommitBlind, CommitSubmit, Conflict,
       DuplicateKey, RolledBack, db
<1> QED
  BY <1>1, <1>2, <1>3, <1>4, <1>5 DEF Next, KnownKey

OnceInv == BaseInv /\ DerivedOncePerKey

LEMMA StepOnce == OnceInv /\ [Next]_vars => DerivedOncePerKey'
<1> SUFFICES ASSUME OnceInv, [Next]_vars, NEW v \in VersionIds, Exists(v)', row'[v].parent # None
             PROVE  \E op \in {"fork", "upgrade"}, k \in Keys : jobs'[op][k] = v
  BY DEF DerivedOncePerKey, Exists
<1>1. BaseInv /\ TypeOK /\ OpenInv /\ KeyInv
  BY DEF OnceInv, BaseInv
<1>2. CASE Exists(v)
  <2>1. row[v].parent # None
    BY <1>1, <1>2, OriginKept
  <2>2. PICK op \in {"fork", "upgrade"}, k \in Keys : jobs[op][k] = v
    BY <1>2, <2>1 DEF OnceInv, DerivedOncePerKey
  <2>3. op \in JobTypes /\ jobs[op][k] # None
    BY <2>2, VersionsAssumption DEF JobTypes
  <2>4. jobs'[op][k] = v
    BY <1>1, <2>2, <2>3, JobsKept
  <2> QED
    BY <2>4
<1>3. CASE ~Exists(v)
  <2>1. PICK w \in Workers :
            /\ tx[w].op \in DeriveOps
            /\ jobs' = [jobs EXCEPT ![tx[w].op] = [@ EXCEPT ![tx[w].key] = v]]
    BY <1>1, <1>3, NewVersion
  <2>2. tx[w].key \in Keys /\ tx[w].op \in JobTypes
    BY <1>1, <2>1 DEF KeyInv, DeriveOps, JobTypes
  <2>3. jobs[tx[w].op] \in [Keys -> VersionIds \cup {None}]
    BY <1>1, <2>2 DEF TypeOK
  <2>4. jobs'[tx[w].op][tx[w].key] = v
    BY <1>1, <2>1, <2>2, <2>3 DEF TypeOK
  <2> QED
    BY <2>1, <2>2, <2>4 DEF DeriveOps
<1> QED
  BY <1>2, <1>3

\* A retried fork or upgrade makes no second version, for any number of requests.
THEOREM OneVersionPerKey == Spec => []DerivedOncePerKey
<1>1. Init => OnceInv
  <2> SUFFICES ASSUME Init PROVE OnceInv
    OBVIOUS
  <2>1. \A w \in Workers : tx[w].op = "none"
    BY DEF Init, NoTx
  <2>2. OpenInv /\ KeyInv /\ OriginInv
    BY <2>1 DEF OpenInv, KeyInv, OriginInv, CheckedOps, EditOps, DeriveOps
  <2>3. \A v \in VersionIds : row[v].parent = None
    BY DEF Init, Absent
  <2> QED
    BY <2>2, <2>3, InitTypes DEF OnceInv, BaseInv, DerivedOncePerKey
<1>2. OnceInv /\ [Next]_vars => OnceInv'
  BY StepBase, StepOnce DEF OnceInv
<1>3. OnceInv => DerivedOncePerKey
  BY DEF OnceInv
<1> QED
  BY <1>1, <1>2, <1>3, PTL DEF Spec
-----------------------------------------------------------------------------
(* The refinement.                                                         *)

\* The store's steps of one version, as they show in its row and its shots.
Edited(v) ==
    /\ row[v].status = "draft" /\ row'[v].status = "draft"
    /\ row'[v].revision = row[v].revision + 1

Submitted(v) ==
    /\ row[v].status = "draft" /\ row'[v].status = "reviewing"
    /\ row'[v].revision = row[v].revision + 1
    /\ shots'[v] = shots[v]

Locked(v) ==
    /\ row[v].status \in {"draft", "reviewing"} /\ row'[v].status = "locked"
    /\ row'[v].revision = row[v].revision + 1
    /\ shots'[v] = shots[v]

Derived(v, parent) ==
    /\ row[v].status = "none" /\ row'[v].status = "draft" /\ row'[v].revision = 0
    /\ parent \notin unguarded => row[parent].status = "locked" /\ shots'[v] = shots[parent]

OthersKept(v) ==
    \A u \in VersionIds : u # v /\ u \notin unguarded' => row'[u] = row[u] /\ shots'[u] = shots[u]

LEMMA StoreStep ==
  ASSUME TypeOK, TypeOK', unguarded \subseteq unguarded', NEW v \in VersionIds, OthersKept(v),
         \/ v \in unguarded'
         \/ Edited(v)
         \/ Submitted(v)
         \/ Locked(v)
         \/ \E parent \in VersionIds : Derived(v, parent)
  PROVE  Store!Next
<1> DEFINE st == [u \in VersionIds |-> row[u].status]
           rv == [u \in VersionIds |-> row[u].revision]
           stn == [u \in VersionIds |-> row'[u].status]
           rvn == [u \in VersionIds |-> row'[u].revision]
<1>1. /\ stn \in [VersionIds -> {"none", "draft", "reviewing", "locked"}]
      /\ rvn \in [VersionIds -> Nat]
      /\ shots' \in [VersionIds -> [Shots -> Values]]
      /\ unguarded' \in SUBSET VersionIds /\ unguarded \subseteq unguarded'
  BY DEF TypeOK, Row, Content
<1>2. /\ \A u \in VersionIds : st[u] = row[u].status /\ rv[u] = row[u].revision
      /\ \A u \in VersionIds : stn[u] = row'[u].status /\ rvn[u] = row'[u].revision
  OBVIOUS
<1> HIDE DEF st, rv, stn, rvn
<1>3. \A u \in VersionIds \ (unguarded' \cup {v}) :
         stn[u] = st[u] /\ rvn[u] = rv[u] /\ shots'[u] = shots[u]
  BY <1>2 DEF OthersKept
<1>4. \/ v \in unguarded'
      \/ st[v] = "draft" /\ stn[v] = "draft" /\ rvn[v] = rv[v] + 1
      \/ st[v] = "draft" /\ stn[v] = "reviewing" /\ rvn[v] = rv[v] + 1 /\ shots'[v] = shots[v]
      \/ /\ st[v] \in {"draft", "reviewing"} /\ stn[v] = "locked" /\ rvn[v] = rv[v] + 1
         /\ shots'[v] = shots[v]
      \/ \E parent \in VersionIds :
            /\ st[v] = "none" /\ stn[v] = "draft" /\ rvn[v] = 0
            /\ parent \notin unguarded => st[parent] = "locked" /\ shots'[v] = shots[parent]
  BY <1>2 DEF Edited, Submitted, Locked, Derived
<1>5. \/ v \in unguarded'
      \/ Store!Edit(v)
      \/ Store!Submit(v)
      \/ Store!Lock(v)
      \/ \E parent \in VersionIds : Store!Derive(v, parent)
  BY <1>4 DEF st, rv, stn, rvn, Store!Edit, Store!Submit, Store!Lock, Store!Derive, Store!Bump
<1>6. \A u \in VersionIds \ (unguarded' \cup {v}) : Store!Keep(u)
  BY <1>3 DEF st, rv, stn, rvn, Store!Keep
<1> QED
  BY <1>1, <1>5, <1>6, Zenon DEF stn, rvn, Store!Next

LEMMA CommitImplements ==
  ASSUME IInv, NEW w \in Workers, Commit(w), TypeOK', unguarded \subseteq unguarded'
  PROVE  Store!Next \/ UNCHANGED Store!vars
<1> DEFINE q == tx[w]
<1>1. q.row \in Row /\ row \in [VersionIds -> Row] /\ q.v \in VersionIds /\ TypeOK
      /\ q.rev \in Nat /\ q.row.revision \in Nat /\ shots \in [VersionIds -> Content]
  BY TxFacts DEF IInv, BaseInv, TypeOK
<1>2. \A r \in Row, n \in Nat :
         /\ [r EXCEPT !.revision = n].revision = n
         /\ [r EXCEPT !.revision = n].status = r.status
  BY DEF Row
<1>3. \A r \in Row, n \in Nat : \A t \in {"reviewing", "locked"} :
         /\ [r EXCEPT !.status = t, !.revision = n].revision = n
         /\ [r EXCEPT !.status = t, !.revision = n].status = t
  BY DEF Row
<1>4. q.rev + 1 \in Nat /\ q.row.revision + 1 \in Nat
  BY <1>1
<1>5. ASSUME q.v \notin unguarded, q.op \in CheckedOps, RevisionFits(w)
      PROVE  row[q.v] = q.row /\ q.rev = row[q.v].revision /\ row[q.v].status \in From(q.op)
  BY <1>5, SeenFits
<1>6. CASE CommitChecked(w) \/ CommitMerge(w) \/ CommitStructure(w)
  <2>1. OthersKept(q.v)
    <3>1. CASE CommitMerge(w)
      BY <1>1, <3>1, MergeWrites DEF OthersKept, CommitMerge
    <3>2. CASE CommitChecked(w)
      BY <1>1, <3>2 DEF OthersKept, CommitChecked, WriteShot
    <3>3. CASE CommitStructure(w)
      BY <1>1, <3>3 DEF OthersKept, CommitStructure, WriteShot
    <3> QED
      BY <1>6, <3>1, <3>2, <3>3
  <2>2. q.v \in unguarded' \/ Edited(q.v)
    <3> SUFFICES ASSUME q.v \notin unguarded' PROVE Edited(q.v)
      OBVIOUS
    <3>1. q.v \notin unguarded
      OBVIOUS
    <3>2. row[q.v] = q.row /\ row[q.v].status = "draft"
      <4>1. CASE CommitChecked(w) \/ CommitMerge(w)
        <5>1. q.op \in CheckedOps /\ RevisionFits(w) /\ q.op # "lock"
          BY <4>1 DEF CommitChecked, CommitMerge, CheckedOps, EditOps
        <5> QED
          BY <1>5, <3>1, <5>1 DEF From
      <4>2. CASE CommitStructure(w)
        <5>1. row[q.v] = q.row /\ q.op \in CheckedOps /\ q.op # "lock"
          BY <4>2 DEF CommitStructure, CheckedOps, EditOps
        <5>2. q.row.status \in From(q.op)
          BY <3>1, <5>1 DEF IInv, SeenInv
        <5> QED
          BY <5>1, <5>2 DEF From
      <4> QED
        BY <1>6, <4>1, <4>2
    <3>3. row' = [row EXCEPT ![q.v] = [q.row EXCEPT !.revision = q.row.revision + 1]]
      <4>1. CASE CommitStructure(w)
        BY <4>1 DEF CommitStructure
      <4>2. CASE CommitChecked(w)
        <5>1. q.rev = q.row.revision
          BY <3>2, <4>2 DEF CommitChecked, RevisionFits
        <5> QED
          BY <3>2, <4>2, <5>1 DEF CommitChecked
      <4>3. CASE CommitMerge(w)
        <5>1. q.rev = q.row.revision
          BY <3>2, <4>3 DEF CommitMerge, RevisionFits
        <5> QED
          BY <4>3, <5>1 DEF CommitMerge
      <4> QED
        BY <1>6, <4>1, <4>2, <4>3
    <3>4. row'[q.v] = [q.row EXCEPT !.revision = q.row.revision + 1]
      BY <1>1, <3>3
    <3>5. row'[q.v].status = q.row.status /\ row'[q.v].revision = q.row.revision + 1
      BY <1>1, <1>2, <1>4, <3>4
    <3> QED
      BY <3>2, <3>5 DEF Edited
  <2> QED
    BY <1>1, <2>1, <2>2, StoreStep
<1>7. CASE CommitBlind(w)
  <2>1. q.v \in unguarded' /\ OthersKept(q.v)
    BY <1>1, <1>7 DEF CommitBlind, WriteShot, OthersKept
  <2> QED
    BY <1>1, <2>1, StoreStep
<1>8. CASE CommitSubmit(w)
  <2>1. OthersKept(q.v) /\ q.op = "submit" /\ RevisionFits(w) /\ unguarded' = unguarded
    BY <1>1, <1>8 DEF CommitSubmit, OthersKept
  <2>2. q.v \in unguarded' \/ Submitted(q.v)
    <3> SUFFICES ASSUME q.v \notin unguarded PROVE Submitted(q.v)
      BY <2>1
    <3>1. row[q.v] = q.row /\ q.rev = row[q.v].revision /\ row[q.v].status = "draft"
      BY <1>5, <2>1 DEF CheckedOps, From
    <3>2. row'[q.v] = [q.row EXCEPT !.status = "reviewing", !.revision = q.rev + 1] /\ shots' = shots
      BY <1>1, <1>8 DEF CommitSubmit
    <3>3. row'[q.v].status = "reviewing" /\ row'[q.v].revision = q.rev + 1
      BY <1>1, <1>3, <1>4, <3>2
    <3> QED
      BY <3>1, <3>2, <3>3 DEF Submitted
  <2> QED
    BY <1>1, <2>1, <2>2, StoreStep
<1>9. CASE CommitLock(w)
  <2>1. OthersKept(q.v) /\ q.op = "lock" /\ RevisionFits(w) /\ unguarded' = unguarded
    BY <1>1, <1>9 DEF CommitLock, OthersKept
  <2>2. q.v \in unguarded' \/ Locked(q.v)
    <3> SUFFICES ASSUME q.v \notin unguarded PROVE Locked(q.v)
      BY <2>1
    <3>1. row[q.v] = q.row /\ q.rev = row[q.v].revision /\ row[q.v].status \in {"draft", "reviewing"}
      BY <1>5, <2>1 DEF CheckedOps, From
    <3>2. row'[q.v] = [q.row EXCEPT !.status = "locked", !.revision = q.rev + 1] /\ shots' = shots
      BY <1>1, <1>9 DEF CommitLock
    <3>3. row'[q.v].status = "locked" /\ row'[q.v].revision = q.rev + 1
      BY <1>1, <1>3, <1>4, <3>2
    <3> QED
      BY <3>1, <3>2, <3>3 DEF Locked
  <2> QED
    BY <1>1, <2>1, <2>2, StoreStep
<1>10. CASE CommitDerive(w)
  <2>1. q.op \in DeriveOps /\ unguarded' = unguarded
    BY <1>10 DEF CommitDerive, DeriveOps
  <2>2. PICK c \in VersionIds :
          /\ ~Exists(c)
          /\ row' = [row EXCEPT ![c] =
                        [status |-> "draft", revision |-> 0, tier |-> ChildTier(q.op, q.row.tier),
                         no |-> q.no, parent |-> q.v]]
          /\ shots' = [shots EXCEPT ![c] = q.shots]
    BY <1>10 DEF CommitDerive
  <2>3. OthersKept(c)
    BY <1>1, <2>2 DEF OthersKept
  <2>4. Derived(c, q.v)
    <3>1. q.v \notin unguarded => row[q.v].status = "locked" /\ shots[q.v] = q.shots
      BY <2>1 DEF IInv, CopyInv
    <3> QED
      BY <1>1, <2>2, <3>1 DEF Derived, Exists
  <2> QED
    BY <1>1, <2>3, <2>4, StoreStep
<1>11. CASE Conflict(w) \/ DuplicateKey(w) \/ RolledBack(w)
  BY <1>11 DEF Conflict, DuplicateKey, RolledBack, db, Store!vars
<1> QED
  BY <1>6, <1>7, <1>8, <1>9, <1>10, <1>11 DEF Commit

\* Operations that overlap have the effect of one step each, or none, on every version
\* whose revision no edit has gone past: for any number of requests, versions, shots
\* and keys, with merges that take shots of any version.
THEOREM VersionsImplementStore == Spec => ImplementsStore
<1>1. Init => Store!Init
  <2> SUFFICES ASSUME Init PROVE Store!Init
    OBVIOUS
  <2>1. \A v \in VersionIds : row[v] = IF v = Root THEN [Absent EXCEPT !.status = "draft", !.no = 1]
                                                  ELSE Absent
    BY DEF Init
  <2>2. \A v \in VersionIds : row[v].status = (IF v = Root THEN "draft" ELSE "none")
                              /\ row[v].revision = 0
    <3>1. /\ Absent.status = "none" /\ Absent.revision = 0
          /\ [Absent EXCEPT !.status = "draft", !.no = 1].status = "draft"
          /\ [Absent EXCEPT !.status = "draft", !.no = 1].revision = 0
      BY DEF Absent
    <3> QED
      BY <2>1, <3>1
  <2> QED
    BY <2>2 DEF Init, Store!Init, Untouched
<1>2. IInv /\ [Next]_vars => [Store!Next]_(Store!vars)
  <2> SUFFICES ASSUME IInv, [Next]_vars PROVE [Store!Next]_(Store!vars)
    OBVIOUS
  <2>1. TypeOK /\ TypeOK' /\ unguarded \subseteq unguarded'
    BY StepTypes, UnguardedGrows DEF IInv, BaseInv
  <2>2. ASSUME NEW w \in Workers, Commit(w)
        PROVE  [Store!Next]_(Store!vars)
    BY <2>1, <2>2, CommitImplements
  <2>3. ASSUME NEW w \in Workers, Begin(w)
        PROVE  UNCHANGED Store!vars
    <3>1. UNCHANGED <<db, unguarded>>
      BY <2>1, <2>3, BeginOpens DEF Open
    <3> QED
      BY <3>1 DEF Store!vars, db
  <2>4. CASE UNCHANGED vars
    BY <2>4 DEF Store!vars, vars
  <2> QED
    BY <2>2, <2>3, <2>4 DEF Next, KnownKey
<1> QED
  BY <1>1, <1>2, Invariance, PTL DEF Spec, ImplementsStore, Store!Spec
=============================================================================
